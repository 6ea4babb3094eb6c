---------------------------- MODULE MCSystemCalls ----------------------------
(***************************************************************************)
(* Instances of SystemCalls.                                               *)
(***************************************************************************)
EXTENDS SystemCallsProperties

C(fn, path, arg) == [fn |-> fn, path |-> path, arg |-> arg]

\* One call of every kind that the functions tell apart.
Kinds ==
  {C("system", path, arg) : path \in {"missing", "program"}, arg \in {"bin", "null"}}
  \cup {C("exec", path, "bin") : path \in {"missing", "data", "program"}}
  \cup {C("exec", "program", arg) : arg \in {"plain", "null", "beyond"}}
  \cup {C("redirect", path, "bin") : path \in {"missing", "program"}}

\* Every program of up to two calls, and some of three.
Short == {<<a>> : a \in Kinds} \cup {<<a, b>> : a, b \in Kinds}
            \cup {<<a, b, c>> : a \in {C("exec", "data", "bin"), C("redirect", "program", "bin")},
                                b, c \in {k \in Kinds : k.path = "program" /\ k.arg = "bin"}}

==============================================================================
