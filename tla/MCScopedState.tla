---------------------------- MODULE MCScopedState ----------------------------
(***************************************************************************)
(* ScopedStateRef on every program of at most MaxStatements statements.    *)
(***************************************************************************)
EXTENDS ScopedStateRef, TLC

CONSTANT MaxStatements

VARIABLE size

MCInit == RefInit /\ size = 0

MCNext ==
  \/ size < MaxStatements /\ RefStatement /\ size' = size + 1
  \/ RefEnd /\ UNCHANGED size
  \/ RefBlockBegin /\ UNCHANGED size

MCSpec == MCInit /\ [][MCNext]_<<allVars, size>>

MCInput == [n \in Globals |-> [w \in Worlds |-> IF n = "g" THEN 1 ELSE 2]]

Param(name, dir) == [name |-> name, dir |-> dir]
MCSignatures == {<<Param("q", "out"), Param("p", "inout")>>, <<Param("q", "in")>>}

Symmetry == Permutations(Worlds)
=============================================================================
