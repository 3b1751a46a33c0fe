----------------------------- MODULE PathMergeRef -----------------------------
(***************************************************************************)
(* PathMerge in lockstep with the interpreter of WorldRun: whatever        *)
(* statement the visitor visits, every live world executes it too.         *)
(* conc, status and at only observe the visitor: no guard mentions them.   *)
(***************************************************************************)
EXTENDS PathMerge

VARIABLES conc, status, at

Ref == INSTANCE WorldRun

refVars == <<conc, status, at>>
allVars == <<vars, refVars>>

RefInit == Init /\ Ref!Init

\* The visitor meets a statement of the program, or an arm of a switch.
RefStatement ==
  \/ \E v, u \in Vars, op \in Ops :
       AssignmentStatement(v, u, op) /\ Ref!Assign(v, u, op)
  \/ ReturnStatement /\ Ref!Leave(Worlds, "returned", callee)
  \/ ExitStatement /\ Ref!Leave(Worlds, "exited", 0)
  \/ \E c \in SUBSET Worlds :
       IfThen(c) /\ Ref!Leave(Worlds \ c, "wait", depth + 1)
  \/ SwitchOpen /\ Ref!Leave(Worlds, "wait", depth + 1)
  \/ \E m \in SUBSET Worlds : CaseArm(m) /\ Ref!Turn(m, depth)
  \/ Call /\ UNCHANGED refVars

\* The visitor comes to the end of one, or to a default arm.
RefEnd ==
  \/ IfElse /\ Ref!Turn(Worlds, depth)
  \/ IfEnd /\ Ref!Enter("done", depth)
  \/ DefaultArm /\ Ref!Turn(Worlds, depth)
  \/ ArmEnd /\ Ref!Leave(Worlds, "done", depth)
  \/ SwitchEnd /\ Ref!Enter("done", depth)
  \/ CallEnd /\ Ref!Enter("returned", depth)
  \/ BlockEnd /\ UNCHANGED refVars

RefBegin ==
  /\ BlockBegin
  /\ conc' = Input
  /\ status' = [w \in Worlds |-> "live"]
  /\ at' = [w \in Worlds |-> 0]

RefNext == RefStatement \/ RefEnd \/ RefBegin

RefSpec == RefInit /\ [][RefNext]_allVars

-----------------------------------------------------------------------------
(* Properties *)


\* Every variable has its type, and the frames above the top are unused.
TypeOK ==
  /\ phase \in {"run", "idle"}
  /\ store \in Store
  /\ fwd \in SUBSET Worlds
  /\ ret \in SUBSET Worlds
  /\ exitCond \in SUBSET Worlds
  /\ exits \in Partial
  /\ exited \in BOOLEAN
  /\ returned \in BOOLEAN
  /\ frames \in [1 .. MaxDepth -> Frame]
  /\ depth \in 0 .. MaxDepth
  /\ callee \in 0 .. MaxDepth
  /\ \A d \in 1 .. MaxDepth : d > depth => frames[d] = NoFrame
  /\ conc \in Store
  /\ status \in [Worlds -> Ref!Statuses]
  /\ at \in [Worlds -> 0 .. MaxDepth]

\* forward_conds, return_conds and exit_cond together describe exactly the
\* inputs for which the program reaches the statement being visited.
PathIsLive == phase = "run" /\ top.kind # "switch" => Path = Ref!Live

\* In every input that reaches the current statement, each symbolic variable
\* has the value the program has computed.
LiveAgrees ==
  phase = "run" => \A w \in Ref!Live, v \in Vars : store[v][w] = conc[v][w]

\* BlockStatement breaks off once has_returned or has_exited: no input that
\* still has to execute the rest of the block may be left.
SkipsOnlyDead == phase = "run" /\ (exited \/ returned) => Ref!Live = {}

\* No input on the current path has exited, or returned from an open call,
\* before: return and exit states never claim an input twice, so the order in
\* which they are merged does not matter.
PathUnclaimed ==
  phase = "run" =>
    /\ Path \cap exits.dom = {}
    /\ \A d \in 1 .. depth :
         frames[d].kind = "call" => Path \cap frames[d].kept.dom = {}

\* The state collected at the end of an arch block holds, in every input, what
\* the program has computed, however it left the block.
BlockResult == phase = "idle" => store = conc

-----------------------------------------------------------------------------
(* The inductive invariant.  Each frame knows the forward conditions around  *)
(* it; each world that is not live is accounted for by one frame, or exited. *)
(* The frames of a table being applied (kinds "table", "entry" and           *)
(* "default") are those of TableApply.                                       *)

\* The forward conditions inside an open branch or call.
Inside(f) ==
  IF f.kind \in {"then", "arm", "entry", "default"} THEN f.fwd \cap f.cond
  ELSE IF f.kind = "else" THEN f.fwd \ f.cond
  ELSE f.fwd

IsCall(d) == frames[d].kind = "call"

\* An action of the table is being visited.
IsApply(d) == frames[d].kind \in {"entry", "default"}

\* Between two arms.
BetweenArms == top.kind \in {"switch", "table"}

Idle ==
  /\ depth = 0 /\ callee = 0
  /\ fwd = Worlds /\ ret = Worlds /\ exitCond = Worlds
  /\ exits = Nothing
  /\ ~exited /\ ~returned
  /\ store = conc

FrameOK(f) ==
  /\ f.kind # "none"
  /\ f.last => f.matched = Worlds
  /\ f.kind = "else" => f.kept.dom = f.cond
  /\ f.kind \in {"switch", "arm", "table", "entry", "default"} =>
       f.kept.dom \subseteq f.matched
  /\ f.kind = "arm" => /\ f.cond \subseteq f.matched
                       /\ f.kept.dom \cap f.cond = {}

\* The open frames are nested, and so are their conditions.
Nested ==
  /\ depth > 0
  /\ fwd = Inside(top)
  /\ BetweenArms => store = top.old /\ ~exited
  /\ BetweenArms \/ IsApply(depth) => ~returned
  /\ \A d \in 1 .. depth : FrameOK(frames[d])
  /\ \A d \in 1 .. depth - 1 :
       /\ frames[d].kind \notin {"switch", "table"}
       /\ frames[d + 1].fwd = Inside(frames[d])
       /\ IsApply(d) => IsCall(d + 1)
  /\ \A d, e \in 1 .. depth : e <= d => frames[d].fwd \subseteq frames[e].fwd

\* So are the scopes, and the conditions on which they have not returned.
NestedCalls ==
  /\ IsCall(1) /\ frames[1].fwd = Worlds /\ frames[1].ret = Worlds
  /\ callee \in 1 .. depth /\ IsCall(callee)
  /\ \A d \in 1 .. depth : d > callee => ~IsCall(d)
  /\ \A d \in 1 .. depth : IsCall(d) =>
       /\ frames[d].caller \in 0 .. d - 1
       /\ frames[d].caller = 0 <=> d = 1
       /\ d > 1 => IsCall(frames[d].caller)
       /\ ret \subseteq frames[d].ret
       /\ \A e \in 1 .. depth : IsCall(e) /\ e < d =>
            e <= frames[d].caller /\ frames[d].ret \subseteq frames[e].ret

\* w has not left the statement at d, and is outside of all that d has open.
Parked(w, d) ==
  /\ d \in 1 .. depth
  /\ w \in frames[d].fwd /\ w \in ret /\ w \in exitCond
  /\ \A e \in 1 .. depth : e > d => w \notin frames[e].fwd

\* w has not left the table applied at d; the action that d has open may be
\* visited for w all the same, and return.
Shadowed(w, d) ==
  /\ d \in 1 .. depth
  /\ w \in frames[d].fwd /\ w \in exitCond
  /\ w \in IF d = depth THEN ret ELSE frames[d + 1].ret

Waits(w, f) ==
  /\ f.kind \in {"then", "switch", "arm", "table", "entry"}
  /\ f.kind \in {"then", "entry"} => w \notin f.cond
  /\ f.kind # "then" => w \notin f.matched
  /\ \A v \in Vars : f.old[v][w] = conc[v][w]

IsDone(w, f) ==
  /\ f.kind \in {"else", "switch", "arm", "table", "entry", "default"}
  /\ f.kind = "else" => w \in f.cond
  /\ f.kind # "else" => w \in f.matched
  /\ f.kind = "arm" => w \notin f.cond
  /\ w \in f.kept.dom
  /\ ~f.exitAll
  /\ f.kind \in {"else", "switch", "arm"} => ~f.returnAll
  /\ \A v \in Vars : f.kept.val[v][w] = conc[v][w]

HasReturned(w, d) ==
  /\ d \in 1 .. depth /\ IsCall(d)
  /\ w \in exitCond /\ w \notin ret
  /\ w \in frames[d].fwd /\ w \in frames[d].ret
  /\ \A e \in 1 .. depth : IsCall(e) /\ e > d => w \notin frames[e].ret
  /\ w \in frames[d].kept.dom
  /\ \A v \in Vars : frames[d].kept.val[v][w] = conc[v][w]

\* The current statement may be visited for w although w is done with the table.
IsShadow(w) == status[w] = "done" /\ IsApply(at[w])

Accounted(w) ==
  /\ status[w] = "live" =>
       /\ ~BetweenArms /\ w \in Path /\ ~exited /\ ~returned
       /\ \A v \in Vars : store[v][w] = conc[v][w]
  /\ status[w] = "wait" => Parked(w, at[w]) /\ Waits(w, frames[at[w]])
  /\ status[w] = "done" =>
       /\ IsDone(w, frames[at[w]])
       /\ IF IsApply(at[w]) THEN Shadowed(w, at[w]) ELSE Parked(w, at[w])
  /\ status[w] = "returned" => HasReturned(w, at[w])
  /\ status[w] = "exited" =>
       w \notin exitCond /\ \A v \in Vars : exits.val[v][w] = conc[v][w]
  /\ w \in exits.dom <=> status[w] = "exited"

\* Only the call that w has returned from claims w, and those that have been
\* visited for it in vain.
Claimed(w) ==
  \A d \in 1 .. depth : IsCall(d) /\ w \in frames[d].kept.dom =>
    (status[w] = "returned" /\ at[w] = d) \/ (IsShadow(w) /\ at[w] < d)

\* No world runs an action of a table after it has matched an earlier one.
AppliesOnce(w) ==
  \A d \in 1 .. depth : IsApply(d) /\ w \in frames[d].matched =>
    status[w] = "exited" \/ (status[w] # "live" /\ at[w] <= d)

IInv ==
  /\ TypeOK
  /\ phase = "idle" => Idle
  /\ phase = "run" =>
       /\ Nested /\ NestedCalls
       /\ \A w \in Worlds : Accounted(w) /\ Claimed(w) /\ AppliesOnce(w)
=============================================================================
