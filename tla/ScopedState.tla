----------------------------- MODULE ScopedState -----------------------------
(***************************************************************************)
(* Names in P4State (common/state.cpp, common/scope.h): declarations,      *)
(* calls with their copy-in and copy-out, return values, and the unwinding *)
(* of all open calls by exit.  Names are looked up through the scopes of   *)
(* all open calls, so every list of (condition, VarMap) pairs is kept, and *)
(* merged, by name.  As in PathMerge an expression has one value in every  *)
(* world.                                                                  *)
(***************************************************************************)
EXTENDS Naturals, Sequences, SequencesExt, FiniteSets

CONSTANTS
  Worlds,      \* the valuations of the symbolic inputs
  Values,      \* what a world can have in a variable
  Undef,       \* the value of the constant "undefined"
  Globals,     \* parameters of the control
  Input,       \* their symbolic values: what gen_instance gives them
  Locals       \* names of parameters and variables in calls

ASSUME NamesAssumption ==
  /\ IsFiniteSet(Globals) /\ Globals \cap Locals = {}
  /\ {"none", "operand", "result"} \cap (Globals \cup Locals) = {}
  /\ Undef \in Values /\ Input \in [Globals -> [Worlds -> Values]]

VARIABLES
  scopes,    \* scopes of P4State, the one of run_arch_block first
  frames,    \* the visitor's open calls and ifs, outermost first
  fwd,       \* conjunction of all forward_conds
  exitCond, exits, exited,
  returned   \* is_returned of the current scope

scopedVars == <<scopes, frames, fwd, exitCond, exits, exited, returned>>
scopedFlow == <<fwd, exitCond, exits, exited, returned>>

Names == Globals \cup Locals

(***************************************************************************)
(* A P4Scope.  A VarMap is a function from the names it has; lists of      *)
(* return states and values are sequences of pairs.                        *)
(***************************************************************************)
Scope(vars, copyOut) ==
  [vars |-> vars, copyOut |-> copyOut, ret |-> Worlds,
   states |-> <<>>, exprs |-> <<>>]

NoVars == [n \in {} |-> Undef]
Constant(val) == [w \in Worlds |-> val]
Ite(cond, a, b) == [w \in Worlds |-> IF w \in cond THEN a[w] ELSE b[w]]

-----------------------------------------------------------------------------
(* Variables by name *)

Visible(sc) == UNION {DOMAIN sc[i].vars : i \in DOMAIN sc}

\* The innermost scope that has the name.
Owner(sc, n) == Max({i \in DOMAIN sc : n \in DOMAIN sc[i].vars})

\* get_var and update_var.
GetVar(sc, n) == sc[Owner(sc, n)].vars[n]
UpdateVar(sc, n, val) == [sc EXCEPT ![Owner(sc, n)].vars[n] = val]

\* The variables vars with n.
With(vars, n, val) ==
  [m \in DOMAIN vars \cup {n} |-> IF m = n THEN val ELSE vars[m]]

DeclareVar(sc, n, val) == [sc EXCEPT ![Len(sc)].vars = With(@, n, val)]

\* get_vars and clone_vars: inner names shadow outer ones.
GetVars(sc) == [n \in Visible(sc) |-> GetVar(sc, n)]

RestoreVars(sc, map) ==
  [i \in DOMAIN sc |-> [sc[i] EXCEPT !.vars =
     [n \in DOMAIN @ |-> IF n \in DOMAIN map /\ Owner(sc, n) = i THEN map[n]
                         ELSE @[n]]]]

MergeVars(sc, cond, map) ==
  RestoreVars(sc, [n \in Visible(sc) \cap DOMAIN map |->
                     Ite(cond, map[n], GetVar(sc, n))])

-----------------------------------------------------------------------------
(* Calls *)

\* The arguments that are copied back, each with the parameter it is left with:
\* they are set in the order of the parameters.
CopyOutArgs(params, args) ==
  LET outs(n) == {k \in DOMAIN args : args[k] = n /\ params[k].dir # "in"}
  IN  [n \in {m \in Range(args) : outs(m) # {}} |-> params[Max(outs(n))].name]

Argument(sc, param, arg) ==
  IF param.dir = "out" THEN Constant(Undef) ELSE GetVar(sc, arg)

\* Mutant: a parameter is declared as soon as its argument is evaluated.
CopyInAtOnce(sc, params, args) ==
  FoldLeft(LAMBDA s, k :
             DeclareVar(s, params[k].name, Argument(s, params[k], args[k])),
           Append(sc, Scope(NoVars, CopyOutArgs(params, args))),
           [k \in DOMAIN params |-> k])

\* All arguments are evaluated, in the new scope already, before the parameters
\* are declared there.
CopyIn(sc, params, args) ==
  LET names == {params[k].name : k \in DOMAIN params}
      vars == [n \in names |->
                 LET k == CHOOSE i \in DOMAIN params : params[i].name = n
                 IN Argument(sc, params[k], args[k])]
  IN Append(sc, Scope(vars, CopyOutArgs(params, args)))

\* Mutant: the values are looked up under the names of the targets.
LeaveScopeLate(sc) ==
  RestoreVars(Front(sc), [n \in DOMAIN Last(sc).copyOut |-> GetVar(sc, n)])

\* Values are collected in the callee's scope, and set without it.
LeaveScope(sc) ==
  RestoreVars(Front(sc), [n \in DOMAIN Last(sc).copyOut |->
                            GetVar(sc, Last(sc).copyOut[n])])

\* The pairs of a list that a world has a value of n from.
Pairs(list, n, w) == {k \in DOMAIN list : w \in list[k].cond /\ n \in DOMAIN list[k].map}

\* MergeVars for all pairs of a list, of which the last one counts.
MergeAll(sc, list) ==
  RestoreVars(sc, [n \in Visible(sc) |-> [w \in Worlds |->
    LET pairs == Pairs(list, n, w)
    IN  IF pairs = {} THEN GetVar(sc, n)[w] ELSE list[Max(pairs)].map[n][w]]])

\* Return states are merged last to first.
CopyOut(sc) == LeaveScope(MergeAll(sc, Reverse(Last(sc).states)))

\* Mutant: only the innermost call is left.
UnwindInner(sc) == SubSeq(LeaveScope(sc), 1, 1)

\* exit leaves every open call, but merges no return states on the way.
Unwind(sc) ==
  LET left[i \in DOMAIN sc] == IF i = Len(sc) THEN sc ELSE LeaveScope(left[i + 1])
  IN  left[1]

\* The last return expression is overridden where an earlier one applies.
MergedReturn(exprs) ==
  [w \in Worlds |->
     LET applies == {k \in DOMAIN exprs : w \in exprs[k].cond}
     IN  IF applies = {} THEN Last(exprs).val[w] ELSE exprs[Min(applies)].val[w]]

-----------------------------------------------------------------------------
(* The visitor *)

frame == Last(frames)

PathCond == fwd \cap {w \in Worlds : \A i \in DOMAIN scopes : w \in scopes[i].ret}

NextStatement ==
  /\ frames # <<>> /\ frame.kind # "operand"
  /\ ~exited /\ ~returned

NoFrame ==
  [kind |-> "call", fwd |-> fwd, cond |-> {}, old |-> NoVars, kept |-> NoVars,
   exitAll |-> FALSE, returnAll |-> FALSE, result |-> "none"]

Init ==
  /\ scopes = <<>> /\ frames = <<>>
  /\ fwd = Worlds /\ exitCond = Worlds /\ exits = <<>>
  /\ exited = FALSE /\ returned = FALSE

\* run_arch_block, and the apply of the control with its own parameters.
BlockBegin ==
  /\ scopes = <<>>
  /\ LET params == SetToSeq(Globals)
     IN scopes' = CopyIn(<<Scope([n \in Globals |-> Input[n]], <<>>)>>,
                         [k \in DOMAIN params |-> [name |-> params[k], dir |-> "inout"]],
                         params)
  /\ frames' = <<NoFrame>>
  /\ UNCHANGED scopedFlow

AssignmentStatement(n, m) ==
  /\ NextStatement
  /\ scopes' = UpdateVar(scopes, n, GetVar(scopes, m))
  /\ UNCHANGED <<frames, scopedFlow>>

\* An initializer is an assignment that follows.
Declaration(n) ==
  /\ NextStatement
  /\ scopes' = DeclareVar(scopes, n, Constant(Undef))
  /\ UNCHANGED <<frames, scopedFlow>>

\* args are names, result is the variable that is assigned, "none" for an
\* action, or "operand" for a function called in an expression.
Call(params, args, result) ==
  /\ NextStatement
  /\ scopes' = CopyIn(scopes, params, args)
  /\ frames' = Append(frames, [NoFrame EXCEPT !.result = result])
  /\ UNCHANGED scopedFlow

ReturnStatement(val) ==
  /\ NextStatement
  /\ LET cond == PathCond \cap exitCond
     IN scopes' = [scopes EXCEPT ![Len(scopes)].states =
                       Append(@, [cond |-> cond, map |-> GetVars(scopes)]),
                     ![Len(scopes)].exprs = Append(@, [cond |-> cond, val |-> val]),
                     ![Len(scopes)].ret = @ \ PathCond]
  /\ returned' = TRUE
  /\ UNCHANGED <<frames, fwd, exitCond, exits, exited>>

\* The calls are left on the live scopes, which are then restored.
ExitStatement ==
  /\ NextStatement
  /\ exits' = Append(exits, [cond |-> exitCond \cap PathCond,
                             map |-> GetVars(Unwind(scopes))])
  /\ exitCond' = exitCond \ PathCond
  /\ exited' = TRUE
  /\ UNCHANGED <<scopes, frames, fwd, returned>>

\* A call whose inputs do not leave it in the two ways at once (see PathMerge).
CallEnd ==
  /\ Len(frames) > 1 /\ frame.kind = "call"
  /\ exited => Last(scopes).states = <<>>
  /\ frame.result # "none" => returned
  /\ LET after == CopyOut(scopes)
     IN scopes' = IF frame.result \in {"none", "operand"} THEN after
                  ELSE UpdateVar(after, frame.result,
                                 MergedReturn(Last(scopes).exprs))
  /\ frames' = Front(frames)
  /\ returned' = FALSE
  /\ UNCHANGED <<fwd, exitCond, exits, exited>>

\* copy_out of apply and merge_exit_states.
BlockEnd ==
  /\ Len(frames) = 1 /\ frame.kind = "call"
  /\ scopes' = MergeAll(CopyOut(scopes), exits)
  /\ frames' = <<>>
  /\ exits' = <<>> /\ exitCond' = Worlds /\ exited' = FALSE /\ returned' = FALSE
  /\ UNCHANGED fwd

IfThen(c) ==
  /\ NextStatement
  /\ frames' = Append(frames, [NoFrame EXCEPT !.kind = "then", !.cond = c,
                                              !.old = GetVars(scopes)])
  /\ fwd' = fwd \cap c
  /\ UNCHANGED <<scopes, exitCond, exits, exited, returned>>

IfElse ==
  /\ frames # <<>> /\ frame.kind = "then"
  /\ scopes' = RestoreVars(scopes, frame.old)
  /\ frames' = [frames EXCEPT ![Len(frames)] =
       [@ EXCEPT !.kind = "else",
                 !.kept = IF exited \/ returned THEN frame.old ELSE GetVars(scopes),
                 !.old = GetVars(scopes'),
                 !.exitAll = exited, !.returnAll = returned]]
  /\ fwd' = frame.fwd \ frame.cond
  /\ exited' = FALSE /\ returned' = FALSE
  /\ UNCHANGED <<exitCond, exits>>

IfEnd ==
  /\ frames # <<>> /\ frame.kind = "else"
  /\ LET sc == IF exited \/ returned THEN RestoreVars(scopes, frame.old) ELSE scopes
     IN scopes' = MergeVars(sc, frame.cond, frame.kept)
  /\ frames' = Front(frames)
  /\ fwd' = frame.fwd
  /\ exited' = (frame.exitAll /\ exited)
  /\ returned' = (frame.returnAll /\ returned)
  /\ UNCHANGED <<exitCond, exits>>

\* LAnd and LOr with a call as the right operand, which the worlds of c evaluate.
ShortCircuit(c, params, args) ==
  /\ NextStatement
  /\ scopes' = CopyIn(scopes, params, args)
  /\ frames' = frames \o <<[NoFrame EXCEPT !.kind = "operand", !.cond = c,
                                           !.old = GetVars(scopes)],
                           [NoFrame EXCEPT !.result = "operand", !.fwd = fwd \cap c]>>
  /\ fwd' = fwd \cap c
  /\ UNCHANGED <<exitCond, exits, exited, returned>>

\* Mutant: the effects of the operand reach all worlds.
OperandForAll(f) == scopes

WithoutOperand(f) == MergeVars(scopes, Worlds \ f.cond, f.old)

ShortCircuitEnd ==
  /\ frames # <<>> /\ frame.kind = "operand"
  /\ scopes' = WithoutOperand(frame)
  /\ frames' = Front(frames)
  /\ fwd' = frame.fwd
  /\ UNCHANGED <<exitCond, exits, exited, returned>>
=============================================================================
