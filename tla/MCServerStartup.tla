--------------------------- MODULE MCServerStartup ---------------------------
(* Processes are alike. *)
EXTENDS ServerStartup, TLC

Alike == Permutations(Process)

=============================================================================
