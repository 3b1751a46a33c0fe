------------------------------ MODULE TableApply ------------------------------
(***************************************************************************)
(* P4TableInstance::apply (common/type_table.cpp) among the statements of  *)
(* PathMerge: the constant entries and the actions of a table are visited  *)
(* one after the other like the arms of a switch, each of them a call, and *)
(* then the default action is.                                             *)
(*                                                                         *)
(* The match condition of an arm is any set of worlds: a conjunction of    *)
(* the table's hit with an entry's keys or with a value of the symbolic    *)
(* action index.  Keys have no effects, and the table's own scope declares *)
(* nothing a statement could see.                                          *)
(***************************************************************************)
EXTENDS PathMerge

CONSTANT UnguardedExits   \* BOOLEAN: see ExitIsGuarded

ASSUME TableAssumption == UnguardedExits \in BOOLEAN

\* What handle_table_action adds: the scope of the action that is called.
CallAction(table, cond) ==
  /\ depth < MaxDepth
  /\ depth' = depth + 1
  /\ frames' = [frames EXCEPT
       ![depth] = table,
       ![depth + 1] = [NewScope EXCEPT !.fwd = fwd \cap cond]]
  /\ fwd' = fwd \cap cond
  /\ callee' = depth + 1

TableOpen ==
  /\ NextStatement
  /\ Push([NoFrame EXCEPT !.kind = "table", !.fwd = fwd, !.old = store,
                          !.exitAll = TRUE])
  /\ UNCHANGED <<flow, store, ret, exited, returned, callee>>

\* The next constant entry or action.  Nothing takes the inputs that match an
\* earlier arm out of cond.
TableArm(cond) ==
  /\ phase = "run" /\ top.kind = "table"
  /\ CallAction([top EXCEPT !.kind = "entry", !.cond = cond, !.old = store],
                cond)
  /\ UNCHANGED <<phase, store, ret, exitCond, exits, exited, returned>>

\* Mutant: the states of the arms merged front to back.
KeepArmOver(kept, cond, s) == AddLater(kept, cond, s)

\* Append an arm's state to action_vars, which is merged back to front.
KeepArm(kept, cond, s) == AddEarlier(kept, cond, s)

TableArmEnd ==
  /\ phase = "run" /\ top.kind = "entry"
  /\ frames' = [frames EXCEPT ![depth].kind = "table",
       ![depth].kept = IF exited THEN @ ELSE KeepArm(@, top.cond, store),
       ![depth].matched = @ \cup top.cond,
       ![depth].exitAll = LeftByAll(@, exited)]
  /\ exited' = FALSE
  /\ store' = top.old
  /\ fwd' = top.fwd
  /\ UNCHANGED <<phase, ret, exitCond, exits, returned, depth, callee>>

\* The member hit is false in the instance a table's apply is called on.
hit == {}

\* Mutant: the negation of matches lost.
DefaultCondMatched(matched) == hit \cup matched

\* The forward condition of the default action: !hit || !matches.
DefaultCond(matched) == (Worlds \ hit) \cup (Worlds \ matched)

DefaultAction ==
  /\ phase = "run" /\ top.kind = "table"
  /\ LET cond == DefaultCond(top.matched)
     IN  CallAction([top EXCEPT !.kind = "default", !.cond = cond,
                                !.old = store], cond)
  /\ UNCHANGED <<phase, store, ret, exitCond, exits, exited, returned>>

\* Mutant: the default action's state merged over those of the arms.
MergeActionsLast(kept, s) == s

\* The states of the arms are merged over that of the default action.
MergeActions(kept, s) == MergeVars(kept, s)

\* The end of the default action, and of the apply.
TableEnd ==
  /\ phase = "run" /\ top.kind = "default"
  /\ store' = MergeActions(top.kept, IF exited THEN top.old ELSE store)
  /\ exited' = LeftByAll(top.exitAll, exited)
  /\ fwd' = top.fwd
  /\ Pop
  /\ UNCHANGED <<phase, ret, exitCond, exits, returned, callee>>

\* The end of the apply of a table without a default action.
TableEndNoDefault ==
  /\ phase = "run" /\ top.kind = "table"
  /\ store' = MergeActions(top.kept, store)
  /\ exited' = LeftByAll(top.exitAll, exited)
  /\ Pop
  /\ UNCHANGED <<flow, ret, returned, callee>>

(***************************************************************************)
(* An arm is visited for the inputs that match it, also for those that an  *)
(* earlier arm has matched, and the default action for all.  Merging the   *)
(* first arm's state over theirs makes up for the assignments, but not for *)
(* an exit.  UnguardedExits = FALSE leaves the programs out in which such  *)
(* an exit is reached.                                                     *)
(***************************************************************************)
MatchedBefore ==
  UNION {frames[d].matched :
           d \in {e \in 1 .. depth : frames[e].kind \in {"entry", "default"}}}

ExitIsGuarded ==
  \/ UnguardedExits
  \/ exits' = exits
  \/ Path \cap MatchedBefore = {}

TableNext ==
  \/ Next /\ ExitIsGuarded
  \/ TableOpen
  \/ \E m \in SUBSET Worlds : TableArm(m)
  \/ TableArmEnd
  \/ DefaultAction
  \/ TableEnd
  \/ TableEndNoDefault

TableSpec == Init /\ [][TableNext]_vars
=============================================================================
