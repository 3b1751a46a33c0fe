------------------------------ MODULE PathMerge ------------------------------
(***************************************************************************)
(* How Z3Visitor (common/visitor_interpret.cpp) turns the control flow of  *)
(* one arch block of a P4 program into a single symbolic state: if and     *)
(* switch statements, calls, return, exit and assignments.                 *)
(*                                                                         *)
(* A Z3 expression has one value for every valuation of the symbolic       *)
(* inputs.  A valuation is a "world" here, so a Boolean expression is the  *)
(* set of the worlds in which it is true, the symbolic value of a variable *)
(* is a function from worlds to values, and z3::ite is a choice made world *)
(* by world.  The program is not fixed: every step visits any statement    *)
(* that may legally come next.                                             *)
(*                                                                         *)
(* A list of (condition, VarMap) pairs that the code folds with merge_vars *)
(* is kept as the partial store the fold produces: the worlds claimed by   *)
(* some pair and the values claimed for them.                              *)
(***************************************************************************)
EXTENDS Naturals

CONSTANTS
  Worlds,        \* the valuations of the symbolic inputs
  Vars,          \* the variables visible in the block
  Vals,          \* the values they hold
  Input,         \* the symbolic inputs: what gen_instance gives each variable
  Ops,           \* what the right-hand side of an assignment may compute
  MaxDepth,      \* bound: open calls and branches
  MixedCallees   \* BOOLEAN: see ReturnsToCaller

Store   == [Vars -> [Worlds -> Vals]]
Partial == [dom : SUBSET Worlds, val : Store]

ASSUME ConstantsAssumption ==
  /\ Vals # {}
  /\ Input \in Store
  /\ Ops \subseteq [Vals -> Vals]
  /\ MaxDepth \in Nat \ {0}
  /\ MixedCallees \in BOOLEAN

VARIABLES
  phase,     \* "run" inside an arch block, "idle" between two of them
  store,     \* the symbolic variables
  fwd,       \* conjunction of the forward_conds of all scopes
  ret,       \* conjunction of the return_conds of all scopes
  exitCond,  \* P4State::exit_cond
  exits,     \* P4State::exit_states
  exited,    \* P4State::is_exited
  returned,  \* P4Scope::is_returned of the current scope
  frames,    \* the visitor's open calls and branches, outermost first
  depth,     \* how many are open
  callee     \* the innermost open call

vars == <<phase, store, fwd, ret, exitCond, exits, exited, returned,
          frames, depth, callee>>
flow  == <<phase, fwd, exitCond, exits>>
stack == <<frames, depth, callee>>

\* The last three are those of a table's apply, see TableApply.
Kinds == {"none", "call", "then", "else", "switch", "arm",
          "table", "entry", "default"}

(***************************************************************************)
(* One frame for the C++ locals of each open preorder() call, and for the  *)
(* P4Scope of an open call.                                                *)
(*   fwd      the forward conditions in force when it was opened           *)
(*   cond     the if condition, or the case_match of the open arm          *)
(*   matched  the disjunction of the case matches so far (switch)          *)
(*   last     whether the default arm has been opened (switch)             *)
(*   old      old_vars: the store to restore for the next branch           *)
(*   kept     then_vars, case_states or return_states                      *)
(*   exitAll, returnAll   the flags the statement will leave behind        *)
(*   ret, caller          the enclosing scope, for a call                  *)
(***************************************************************************)
Frame ==
  [kind : Kinds, fwd : SUBSET Worlds, cond : SUBSET Worlds,
   matched : SUBSET Worlds, last : BOOLEAN, old : Store, kept : Partial,
   exitAll : BOOLEAN, returnAll : BOOLEAN,
   ret : SUBSET Worlds, caller : 0 .. MaxDepth]

Nothing == [dom |-> {}, val |-> Input]

NoFrame ==
  [kind |-> "none", fwd |-> {}, cond |-> {}, matched |-> {}, last |-> FALSE,
   old |-> Input, kept |-> Nothing, exitAll |-> FALSE, returnAll |-> FALSE,
   ret |-> {}, caller |-> 0]

-----------------------------------------------------------------------------
(* Merging *)

\* Mutant: the two arms of the ite swapped.
MergeVarsSwapped(p, cur) ==
  [v \in Vars |-> [w \in Worlds |->
     IF w \in p.dom THEN cur[v][w] ELSE p.val[v][w]]]

\* merge_vars(cond, then_map) for every pair a partial store stands for.
MergeVars(p, cur) ==
  [v \in Vars |-> [w \in Worlds |->
     IF w \in p.dom THEN p.val[v][w] ELSE cur[v][w]]]

\* Append a pair to a list that is merged back to front: earlier pairs win.
AddEarlier(p, cond, s) ==
  [dom |-> p.dom \cup cond, val |-> MergeVars(p, s)]

\* Append a pair to exit_states, merged front to back: later pairs win.
AddLater(p, cond, s) ==
  [dom |-> p.dom \cup cond,
   val |-> MergeVars([dom |-> cond, val |-> s], p.val)]

-----------------------------------------------------------------------------
(* The visitor's position *)

top == frames[depth]

\* Mutant: the return conditions left out of a return's or exit's condition.
PathCondNoReturns == fwd

\* The worlds the current statement is visited for.
PathCond == fwd \cap ret
Path     == PathCond \cap exitCond

\* Inside a statement list, or at its end.
InBody == phase = "run" /\ top.kind \in {"call", "then", "else", "arm"}

\* BlockStatement goes on to the next statement only with both flags down.
NextStatement == InBody /\ ~exited /\ ~returned

Push(f) ==
  /\ depth < MaxDepth
  /\ depth' = depth + 1
  /\ frames' = [frames EXCEPT ![depth + 1] = f]

\* Mutant: the callee's scope is left on the stack.
PopKeepsFrame ==
  /\ depth' = depth - 1
  /\ UNCHANGED frames

Pop ==
  /\ depth' = depth - 1
  /\ frames' = [frames EXCEPT ![depth] = NoFrame]

Init ==
  /\ phase = "idle"
  /\ store = Input
  /\ fwd = Worlds
  /\ ret = Worlds
  /\ exitCond = Worlds
  /\ exits = Nothing
  /\ exited = FALSE
  /\ returned = FALSE
  /\ frames = [d \in 1 .. MaxDepth |-> NoFrame]
  /\ depth = 0
  /\ callee = 0

\* Mutant: set_exit and set_returned as soon as one branch has left.
LeftByAny(a, b) == a \/ b

\* A statement leaves a flag up only if each of its branches did.
LeftByAll(a, b) == a /\ b

\* Mutant: exit without the set_exit_cond.
ExitCondKept == exitCond

\* The exit condition after an exit statement.
ExitCondAfter == exitCond \ PathCond

\* Mutant: the exit states dropped at the end of the block.
MergeExitStatesNone(s) == s

\* merge_exit_states, after copy_out has merged the return states.
MergeExitStates(s) == MergeVars(exits, s)

-----------------------------------------------------------------------------
(* Statements *)

AssignmentStatement(v, u, op) ==
  /\ NextStatement
  /\ store' = [store EXCEPT ![v] = [w \in Worlds |-> op[store[u][w]]]]
  /\ UNCHANGED <<flow, ret, exited, returned, stack>>

ReturnStatement ==
  /\ NextStatement
  /\ frames' = [frames EXCEPT ![callee].kept =
                  AddEarlier(@, PathCond \cap exitCond, store)]
  /\ ret' = ret \ PathCond
  /\ returned' = TRUE
  /\ UNCHANGED <<flow, store, exited, depth, callee>>

ExitStatement ==
  /\ NextStatement
  /\ exits' = AddLater(exits, exitCond \cap PathCond, store)
  /\ exitCond' = ExitCondAfter
  /\ exited' = TRUE
  /\ UNCHANGED <<phase, store, fwd, ret, returned, stack>>

-----------------------------------------------------------------------------
(* IfStatement.  A condition that simplifies to a constant visits one       *)
(* branch in place and opens no frame.                                      *)

IfThen(c) ==
  /\ NextStatement
  /\ Push([NoFrame EXCEPT !.kind = "then", !.fwd = fwd, !.cond = c,
                          !.old = store])
  /\ fwd' = fwd \cap c
  /\ UNCHANGED <<phase, store, ret, exitCond, exits, exited, returned, callee>>

IfElse ==
  /\ phase = "run" /\ top.kind = "then"
  /\ LET thenVars == IF exited \/ returned THEN top.old ELSE store
     IN  frames' = [frames EXCEPT ![depth].kind = "else",
                      ![depth].kept = [dom |-> top.cond, val |-> thenVars],
                      ![depth].exitAll = exited,
                      ![depth].returnAll = returned]
  /\ exited' = FALSE
  /\ returned' = FALSE
  /\ store' = top.old
  /\ fwd' = top.fwd \ top.cond
  /\ UNCHANGED <<phase, ret, exitCond, exits, depth, callee>>

IfEnd ==
  /\ phase = "run" /\ top.kind = "else"
  /\ store' = MergeVars(top.kept,
                        IF exited \/ returned THEN top.old ELSE store)
  /\ exited' = LeftByAll(top.exitAll, exited)
  /\ returned' = LeftByAll(top.returnAll, returned)
  /\ fwd' = top.fwd
  /\ Pop
  /\ UNCHANGED <<phase, ret, exitCond, exits, callee>>

-----------------------------------------------------------------------------
(* SwitchStatement on an expression or on a table's action_run: the case    *)
(* matches compare one value with distinct labels, so they are disjoint.    *)

SwitchOpen ==
  /\ NextStatement
  /\ Push([NoFrame EXCEPT !.kind = "switch", !.fwd = fwd, !.old = store,
                          !.exitAll = TRUE, !.returnAll = TRUE])
  /\ UNCHANGED <<flow, store, ret, exited, returned, callee>>

ArmOpen(m, isDefault) ==
  /\ phase = "run" /\ top.kind = "switch" /\ ~top.last
  /\ frames' = [frames EXCEPT ![depth].kind = "arm", ![depth].cond = m,
                  ![depth].matched = @ \cup m, ![depth].last = isDefault,
                  ![depth].old = store]
  /\ fwd' = fwd \cap m
  /\ UNCHANGED <<phase, store, ret, exitCond, exits, exited, returned,
                 depth, callee>>

CaseArm(m) == ArmOpen(m, FALSE) /\ m \cap top.matched = {}

\* The default arm comes last; a switch without one gets an empty one.
DefaultArm == ArmOpen(Worlds \ top.matched, TRUE)

ArmEnd ==
  /\ phase = "run" /\ top.kind = "arm"
  /\ frames' = [frames EXCEPT ![depth].kind = "switch",
                  ![depth].kept = IF exited \/ returned THEN @
                                  ELSE AddEarlier(@, top.cond, store),
                  ![depth].exitAll = LeftByAll(@, exited),
                  ![depth].returnAll = LeftByAll(@, returned)]
  /\ exited' = FALSE
  /\ returned' = FALSE
  /\ store' = top.old
  /\ fwd' = top.fwd
  /\ UNCHANGED <<phase, ret, exitCond, exits, depth, callee>>

SwitchEnd ==
  /\ phase = "run" /\ top.kind = "switch" /\ top.last
  /\ store' = MergeVars(top.kept, store)
  /\ exited' = top.exitAll
  /\ returned' = top.returnAll
  /\ Pop
  /\ UNCHANGED <<flow, ret, callee>>

-----------------------------------------------------------------------------
(* Calls of actions and functions, and the apply of a control *)

NewScope ==
  [NoFrame EXCEPT !.kind = "call", !.fwd = fwd, !.ret = ret, !.caller = callee]

Call ==
  /\ NextStatement
  /\ Push(NewScope)
  /\ callee' = depth + 1
  /\ UNCHANGED <<flow, store, ret, exited, returned>>

(***************************************************************************)
(* is_exited belongs to the whole P4State and copy_out does not touch it,  *)
(* so a callee that some inputs leave through return and all the others    *)
(* through exit comes back with the flag up although its caller is still   *)
(* live in the first ones.  MixedCallees = FALSE leaves such callees out.  *)
(***************************************************************************)
ReturnsToCaller == MixedCallees \/ ~exited \/ top.kept.dom = {}

CallEnd ==
  /\ phase = "run" /\ top.kind = "call" /\ depth > 1
  /\ ReturnsToCaller
  /\ store' = MergeVars(top.kept, store)
  /\ ret' = top.ret
  /\ returned' = FALSE
  /\ callee' = top.caller
  /\ Pop
  /\ UNCHANGED <<flow, exited>>

\* run_arch_block opens a scope for the block's parameters and calls apply.
BlockBegin ==
  /\ phase = "idle"
  /\ phase' = "run"
  /\ store' = Input
  /\ Push(NewScope)
  /\ callee' = depth + 1
  /\ returned' = FALSE
  /\ UNCHANGED <<fwd, ret, exitCond, exits, exited>>

\* copy_out of the apply call, then merge_exit_states.
BlockEnd ==
  /\ phase = "run" /\ top.kind = "call" /\ depth = 1
  /\ phase' = "idle"
  /\ store' = MergeExitStates(MergeVars(top.kept, store))
  /\ ret' = top.ret
  /\ exits' = Nothing
  /\ exitCond' = Worlds
  /\ exited' = FALSE
  /\ returned' = FALSE
  /\ callee' = top.caller
  /\ Pop
  /\ UNCHANGED fwd

-----------------------------------------------------------------------------

Next ==
  \/ \E v, u \in Vars, op \in Ops : AssignmentStatement(v, u, op)
  \/ ReturnStatement
  \/ ExitStatement
  \/ \E c \in SUBSET Worlds : IfThen(c)
  \/ IfElse
  \/ IfEnd
  \/ SwitchOpen
  \/ \E m \in SUBSET Worlds : CaseArm(m)
  \/ DefaultArm
  \/ ArmEnd
  \/ SwitchEnd
  \/ Call
  \/ CallEnd
  \/ BlockBegin
  \/ BlockEnd

Spec == Init /\ [][Next]_vars
=============================================================================
