------------------------------ MODULE MCPathMerge ------------------------------
(***************************************************************************)
(* PathMergeRef on every program of at most MaxStatements statements.      *)
(***************************************************************************)
EXTENDS PathMergeRef, TLC

CONSTANT MaxStatements

VARIABLE size    \* statements of the block met so far

MCInit == RefInit /\ size = 0

MCNext ==
  \/ size < MaxStatements /\ RefStatement /\ size' = size + 1
  \/ RefEnd /\ UNCHANGED size
  \/ RefBegin /\ size' = 0

MCSpec == MCInit /\ [][MCNext]_<<allVars, size>>

MCInput == [v \in Vars |-> [w \in Worlds |-> 0]]

\* An increment tells an assignment made twice, or not at all, from one made once.
MCOps == {[n \in Vals |-> (n + 1) % 3]}

Symmetry == Permutations(Worlds)
=============================================================================
