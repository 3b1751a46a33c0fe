--------------------------- MODULE MCHeaderValidity ---------------------------
(***************************************************************************)
(* HeaderValidityRef on every block of at most MaxStatements statements.   *)
(***************************************************************************)
EXTENDS HeaderValidityRef, TLC

CONSTANT MaxStatements

VARIABLE size    \* statements of the block met so far

MCInit == RefInit /\ size = 0

MCNext ==
  \/ size < MaxStatements /\ RefStatement /\ size' = size + 1
  \/ RefEnd /\ UNCHANGED size

MCSpec == MCInit /\ [][MCNext]_<<allVars, size>>

\* Every field of a parameter is 0 at first.
MCInputs == {[w \in Worlds |-> 0]}

Symmetry == Permutations(Worlds) \cup Permutations(Headers)
=============================================================================
