---------------------------- MODULE MCHeaderStack ----------------------------
(***************************************************************************)
(* HeaderStackRef on every block of at most MaxStatements statements, for  *)
(* a stack of three elements.                                              *)
(***************************************************************************)
EXTENDS HeaderStackRef

CONSTANT MaxStatements

VARIABLE size    \* statements of the block met so far

MCInit == RefInit /\ size = 0

MCNext ==
  \/ size < MaxStatements /\ RefStatement /\ size' = size + 1
  \/ RefEnd /\ UNCHANGED size

MCSpec == MCInit /\ [][MCNext]_<<refVars, size>>

MCWorlds == 1 .. 3
MCInput == [k \in 0 .. 2 |-> Constant(k % 2)]

Ranging(at, width) == [numeral |-> FALSE, at |-> at, range |-> 2 ^ width]
Numeral(n) == [numeral |-> TRUE, at |-> Constant(n), range |-> Size]

\* An index that cannot reach the last element, one that goes beyond it, one
\* that reaches two worlds alike, and constants.
MCIndices ==
  {Ranging(<<0, 1, 1>>, 1), Ranging(<<0, 2, 3>>, 2), Ranging(<<1, 2, 2>>, 2),
   Numeral(0), Numeral(2)}
=============================================================================
