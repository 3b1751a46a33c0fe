---------------------------- MODULE TableApplyRef ----------------------------
(***************************************************************************)
(* TableApply in lockstep with WorldRun.  A world that applies the table   *)
(* takes the first arm it matches, in the order in which the code lists    *)
(* them, or else the default action; it is done with the table after that. *)
(***************************************************************************)
EXTENDS PathMergeRef, TableApply

TableStatement ==
  \/ RefStatement /\ ExitIsGuarded
  \/ TableOpen /\ Ref!Leave(Worlds, "wait", depth + 1)
  \/ \E m \in SUBSET Worlds : TableArm(m) /\ Ref!Turn(m, depth)

TableRefEnd ==
  \/ RefEnd
  \/ TableArmEnd /\ Ref!Leave(Worlds, "done", depth)
  \/ DefaultAction /\ Ref!Turn(Worlds, depth)
  \/ TableEnd /\ Ref!Enter("done", depth)
  \/ TableEndNoDefault /\ Ref!Resume(depth)

TableRefNext == TableStatement \/ TableRefEnd \/ RefBegin

TableRefSpec == RefInit /\ [][TableRefNext]_allVars

-----------------------------------------------------------------------------

\* The only inputs a statement is visited for although they do not reach it are
\* those that an earlier arm of a table being applied has matched, and every
\* input that does reach it is among those it is visited for.
PathMissesNone ==
  phase = "run" /\ top.kind \notin {"switch", "table"} =>
    /\ Ref!Live \subseteq Path
    /\ \A w \in Path \ Ref!Live : \E d \in 1 .. depth :
         /\ status[w] = "done" /\ at[w] = d
         /\ frames[d].kind \in {"entry", "default"}
         /\ w \in frames[d].matched
=============================================================================
