--------------------------- MODULE PathMerge_proofs ---------------------------
(***************************************************************************)
(* Proofs about PathMergeRef, for every set of worlds, variables and       *)
(* values, every depth, and every program.                                 *)
(***************************************************************************)
EXTENDS PathMergeRef, TLAPS

USE ConstantsAssumption DEF top, BetweenArms

-----------------------------------------------------------------------------
(* The operators *)

LEMMA NothingType == Nothing \in Partial /\ Nothing.dom = {}
BY DEF Nothing, Partial, Store

LEMMA NoFrameType == NoFrame \in Frame
<1>1. 0 \in 0 .. MaxDepth
  OBVIOUS
<1> QED BY <1>1, NothingType DEF NoFrame, Frame, Kinds

LEMMA MergeVarsType ==
  ASSUME NEW p \in Partial, NEW s \in Store
  PROVE  /\ MergeVars(p, s) \in Store
         /\ \A v \in Vars, w \in Worlds :
              MergeVars(p, s)[v][w] = IF w \in p.dom THEN p.val[v][w] ELSE s[v][w]
BY DEF MergeVars, Partial, Store

LEMMA AddEarlierType ==
  ASSUME NEW p \in Partial, NEW s \in Store, NEW c \in SUBSET Worlds
  PROVE  /\ AddEarlier(p, c, s) \in Partial
         /\ AddEarlier(p, c, s).dom = p.dom \cup c
         /\ \A v \in Vars, w \in Worlds :
              AddEarlier(p, c, s).val[v][w]
                = IF w \in p.dom THEN p.val[v][w] ELSE s[v][w]
<1>1. MergeVars(p, s) \in Store
  BY MergeVarsType
<1>2. p.dom \cup c \in SUBSET Worlds
  BY DEF Partial
<1> QED BY <1>1, <1>2, MergeVarsType DEF AddEarlier, Partial

LEMMA AddLaterType ==
  ASSUME NEW p \in Partial, NEW s \in Store, NEW c \in SUBSET Worlds
  PROVE  /\ AddLater(p, c, s) \in Partial
         /\ AddLater(p, c, s).dom = p.dom \cup c
         /\ \A v \in Vars, w \in Worlds :
              AddLater(p, c, s).val[v][w]
                = IF w \in c THEN s[v][w] ELSE p.val[v][w]
<1> DEFINE q == [dom |-> c, val |-> s]
<1>1. q \in Partial /\ q.dom = c /\ q.val = s /\ p.val \in Store
  BY DEF Partial
<1>2. p.dom \cup c \in SUBSET Worlds
  BY DEF Partial
<1> HIDE DEF q
<1>3. /\ MergeVars(q, p.val) \in Store
      /\ \A v \in Vars, w \in Worlds :
           MergeVars(q, p.val)[v][w]
             = IF w \in q.dom THEN q.val[v][w] ELSE p.val[v][w]
  BY <1>1, MergeVarsType
<1>4. AddLater(p, c, s) = [dom |-> p.dom \cup c, val |-> MergeVars(q, p.val)]
  BY DEF AddLater, q
<1> QED BY <1>1, <1>2, <1>3, <1>4 DEF Partial

-----------------------------------------------------------------------------
(* Inside a block *)

LEMMA InBlock ==
  ASSUME IInv, phase = "run"
  PROVE  /\ TypeOK /\ Nested /\ NestedCalls
         /\ \A w \in Worlds : Accounted(w) /\ Claimed(w) /\ AppliesOnce(w)
         /\ depth \in 1 .. MaxDepth /\ top \in Frame
         /\ callee \in 1 .. depth /\ frames[callee] \in Frame
         /\ \A d \in 1 .. depth : d \in 1 .. MaxDepth /\ frames[d] \in Frame
BY DEF IInv, TypeOK, Nested, NestedCalls

\* Where a world is that waits or is done with a branch.
LEMMA ParkedAt ==
  ASSUME IInv, phase = "run", NEW w \in Worlds
  PROVE  /\ status[w] = "wait" => Parked(w, at[w])
         /\ status[w] = "done" /\ ~IsApply(at[w]) => Parked(w, at[w])
         /\ status[w] = "done" /\ IsApply(at[w]) => Shadowed(w, at[w])
         /\ status[w] \in {"wait", "done"} => at[w] \in 1 .. depth
BY InBlock DEF Accounted, Parked, Shadowed

\* The current statement is not visited for it.
LEMMA ParkedOutside ==
  ASSUME IInv, phase = "run", ~BetweenArms, NEW w \in Worlds,
         status[w] \in {"wait", "done"}, Parked(w, at[w])
  PROVE  w \notin fwd \/ IsShadow(w)
<1> SUFFICES ASSUME w \in fwd PROVE IsShadow(w)
  OBVIOUS
<1>1. Accounted(w) /\ w \in Inside(top) /\ w \in top.fwd
  BY InBlock DEF Nested, Inside, Frame
<1>2. at[w] = depth
  BY <1>1, InBlock DEF Parked
<1>3. CASE status[w] = "wait"
  <2>1. top.kind \in {"then", "arm", "entry"} /\ w \in top.cond /\ Waits(w, top)
    BY <1>1, <1>2, <1>3 DEF Accounted, Waits, Inside
  <2>2. top.kind = "arm" => top.cond \subseteq top.matched
    BY InBlock DEF Nested, FrameOK
  <2> QED BY <2>1, <2>2 DEF Waits
<1>4. CASE status[w] = "done"
  <2>1. IsDone(w, top)
    BY <1>1, <1>2, <1>4 DEF Accounted
  <2> QED BY <1>1, <1>2, <1>4, <2>1 DEF IsDone, Inside, IsShadow, IsApply
<1> QED BY <1>3, <1>4

\* The conditions single out the live worlds, and those that are done with a table
\* of which an action is visited.
LEMMA PathLive ==
  ASSUME IInv, phase = "run", ~BetweenArms, NEW w \in Worlds
  PROVE  /\ status[w] = "live" => w \in Path
         /\ w \in Path => status[w] = "live" \/ IsShadow(w)
<1>1. status[w] = "live" => w \in Path
  BY InBlock DEF Accounted
<1>2. ASSUME w \in Path, status[w] # "live" PROVE IsShadow(w)
  <2>1. w \in fwd /\ w \in ret /\ w \in exitCond /\ Accounted(w)
    BY <1>2, InBlock DEF Path, PathCond
  <2>2. status[w] \in {"wait", "done", "returned", "exited"}
    BY <1>2, InBlock DEF TypeOK, Ref!Statuses
  <2>3. CASE status[w] \in {"wait", "done"}
    BY <2>1, <2>3, ParkedAt, ParkedOutside DEF IsShadow
  <2>4. CASE status[w] \in {"returned", "exited"}
    BY <2>1, <2>4 DEF Accounted, HasReturned
  <2> QED BY <2>2, <2>3, <2>4
<1> QED BY <1>1, <1>2

-----------------------------------------------------------------------------
(* The stack, and the interpreter's moves *)

LEMMA PushFacts ==
  ASSUME IInv, phase = "run", NEW f \in Frame, Push(f)
  PROVE  /\ depth' = depth + 1 /\ depth' \in 1 .. MaxDepth
         /\ frames' \in [1 .. MaxDepth -> Frame]
         /\ frames'[depth'] = f
         /\ \A d \in 1 .. depth : frames'[d] = frames[d]
         /\ \A d \in 1 .. MaxDepth : d > depth' => frames'[d] = NoFrame
BY InBlock DEF TypeOK, Push

LEMMA KeepFacts ==
  ASSUME frames \in [1 .. MaxDepth -> Frame], NEW c \in 1 .. MaxDepth,
         NEW k \in Partial, frames' = [frames EXCEPT ![c].kept = k]
  PROVE  /\ frames' \in [1 .. MaxDepth -> Frame]
         /\ \A d \in 1 .. MaxDepth : d # c => frames'[d] = frames[d]
         /\ frames'[c].kept = k
         /\ \A d \in 1 .. MaxDepth :
              /\ frames'[d].kind = frames[d].kind /\ frames'[d].fwd = frames[d].fwd
              /\ frames'[d].cond = frames[d].cond /\ frames'[d].ret = frames[d].ret
              /\ frames'[d].matched = frames[d].matched
              /\ frames'[d].last = frames[d].last /\ frames'[d].old = frames[d].old
              /\ frames'[d].caller = frames[d].caller
<1> DEFINE g == frames[c]
<1>1. g \in Frame
  OBVIOUS
<1>2. [g EXCEPT !.kept = k] \in Frame /\ [g EXCEPT !.kept = k].kept = k
  BY <1>1 DEF Frame
<1>3. /\ [g EXCEPT !.kept = k].kind = g.kind
      /\ [g EXCEPT !.kept = k].fwd = g.fwd
      /\ [g EXCEPT !.kept = k].cond = g.cond
      /\ [g EXCEPT !.kept = k].ret = g.ret
      /\ [g EXCEPT !.kept = k].matched = g.matched
      /\ [g EXCEPT !.kept = k].last = g.last
      /\ [g EXCEPT !.kept = k].old = g.old
      /\ [g EXCEPT !.kept = k].caller = g.caller
  BY <1>1 DEF Frame
<1>4. /\ frames'[c] = [g EXCEPT !.kept = k]
      /\ \A d \in 1 .. MaxDepth : d # c => frames'[d] = frames[d]
  OBVIOUS
<1>5. frames' \in [1 .. MaxDepth -> Frame]
  BY <1>2
<1> HIDE DEF g
<1>6. \A d \in 1 .. MaxDepth :
        /\ frames'[d].kind = frames[d].kind /\ frames'[d].fwd = frames[d].fwd
        /\ frames'[d].cond = frames[d].cond /\ frames'[d].ret = frames[d].ret
        /\ frames'[d].matched = frames[d].matched
        /\ frames'[d].last = frames[d].last /\ frames'[d].old = frames[d].old
        /\ frames'[d].caller = frames[d].caller
  <2>1. TAKE d \in 1 .. MaxDepth
  <2>2. CASE d = c
    BY <2>2, <1>3, <1>4 DEF g
  <2>3. CASE d # c
    BY <2>3, <1>4
  <2> QED BY <2>2, <2>3
<1> QED BY <1>2, <1>4, <1>5, <1>6

LEMMA PopFacts ==
  ASSUME IInv, phase = "run", Pop
  PROVE  /\ depth' = depth - 1 /\ depth' \in 0 .. MaxDepth
         /\ frames' \in [1 .. MaxDepth -> Frame]
         /\ \A d \in 1 .. depth' : frames'[d] = frames[d]
         /\ \A d \in 1 .. MaxDepth : d > depth' => frames'[d] = NoFrame
BY InBlock, NoFrameType DEF TypeOK, Pop

LEMMA LeaveFacts ==
  ASSUME TypeOK, NEW S \in SUBSET Worlds, NEW s \in Ref!Statuses,
         NEW d \in 0 .. MaxDepth, Ref!Leave(S, s, d)
  PROVE  /\ conc' = conc
         /\ status' \in [Worlds -> Ref!Statuses]
         /\ at' \in [Worlds -> 0 .. MaxDepth]
         /\ \A w \in Worlds :
              IF status[w] = "live" /\ w \in S
                THEN status'[w] = s /\ at'[w] = d
                ELSE status'[w] = status[w] /\ at'[w] = at[w]
BY DEF TypeOK, Ref!Leave, Ref!Live

LEMMA EnterFacts ==
  ASSUME TypeOK, NEW s, NEW d, Ref!Enter(s, d)
  PROVE  /\ conc' = conc
         /\ status' \in [Worlds -> Ref!Statuses]
         /\ at' \in [Worlds -> 0 .. MaxDepth]
         /\ \A w \in Worlds :
              IF status[w] = s /\ at[w] = d
                THEN status'[w] = "live"
                ELSE status'[w] = status[w] /\ at'[w] = at[w]
BY DEF TypeOK, Ref!Enter, Ref!At, Ref!Statuses

LEMMA TurnFacts ==
  ASSUME TypeOK, NEW S \in SUBSET Worlds, NEW d \in 0 .. MaxDepth,
         Ref!Turn(S, d)
  PROVE  /\ conc' = conc
         /\ status' \in [Worlds -> Ref!Statuses]
         /\ at' \in [Worlds -> 0 .. MaxDepth]
         /\ \A w \in Worlds :
              IF status[w] = "live" THEN status'[w] = "done" /\ at'[w] = d
              ELSE IF status[w] = "wait" /\ at[w] = d /\ w \in S
                THEN status'[w] = "live"
                ELSE status'[w] = status[w] /\ at'[w] = at[w]
BY DEF TypeOK, Ref!Turn, Ref!At, Ref!Live, Ref!Statuses

-----------------------------------------------------------------------------
(* What opening, replacing and closing the top frame does to the nesting *)

LEMMA InsideEq ==
  ASSUME NEW f, NEW g, f.kind = g.kind, f.fwd = g.fwd, f.cond = g.cond
  PROVE  Inside(f) = Inside(g)
BY DEF Inside

LEMMA PushNested ==
  ASSUME IInv, phase = "run", ~BetweenArms, ~IsApply(depth),
         NEW f \in Frame, FrameOK(f), f.fwd = fwd, Push(f),
         fwd' = Inside(f), f.kind \notin {"entry", "default"},
         f.kind \in {"switch", "table"} => store' = f.old /\ ~exited' /\ ~returned'
  PROVE  Nested'
<1>1. /\ depth \in 1 .. MaxDepth /\ depth' = depth + 1 /\ frames'[depth'] = f
      /\ \A d \in 1 .. depth : frames'[d] = frames[d]
  BY InBlock, PushFacts
<1>2. \A d \in 1 .. depth' : FrameOK(frames'[d])
  BY <1>1, InBlock DEF Nested
<1>3. ASSUME NEW d \in 1 .. depth' - 1
      PROVE  /\ frames'[d].kind \notin {"switch", "table"}
             /\ frames'[d + 1].fwd = Inside(frames'[d])
             /\ IsApply(d)' => IsCall(d + 1)'
  <2>1. CASE d = depth
    BY <2>1, <1>1, InBlock DEF Nested, IsApply
  <2>2. CASE d # depth
    <3>1. d \in 1 .. depth - 1 /\ d \in 1 .. depth /\ d + 1 \in 1 .. depth
      BY <2>2, <1>1
    <3> QED BY <3>1, <1>1, InBlock DEF Nested, IsApply, IsCall
  <2> QED BY <2>1, <2>2
<1>4. ASSUME NEW d \in 1 .. depth', NEW e \in 1 .. depth', e <= d
      PROVE  frames'[d].fwd \subseteq frames'[e].fwd
  <2>1. fwd \subseteq top.fwd
    BY InBlock DEF Nested, Inside
  <2>2. CASE d = depth' /\ e # depth'
    <3>1. e \in 1 .. depth /\ depth \in 1 .. depth
      BY <2>2, <1>1
    <3>2. top.fwd \subseteq frames[e].fwd
      BY <3>1, InBlock DEF Nested
    <3> QED BY <2>1, <2>2, <3>1, <3>2, <1>1
  <2>3. CASE d # depth'
    <3>1. e \in 1 .. depth /\ d \in 1 .. depth
      BY <2>3, <1>1, <1>4
    <3>2. frames[d].fwd \subseteq frames[e].fwd
      BY <3>1, <1>4, InBlock DEF Nested
    <3> QED BY <3>1, <3>2, <1>1
  <2> QED BY <2>2, <2>3
<1>5. ~IsApply(depth)'
  BY <1>1 DEF IsApply
<1> QED BY <1>1, <1>2, <1>3, <1>4, <1>5 DEF Nested

LEMMA TopNested ==
  ASSUME IInv, phase = "run", top.kind # "call", NEW f, FrameOK(f), f.fwd = top.fwd,
         depth' = depth, frames'[depth] = f,
         \A d \in 1 .. MaxDepth : d # depth => frames'[d] = frames[d],
         fwd' = Inside(f),
         f.kind \in {"switch", "table"} => store' = f.old /\ ~exited',
         f.kind \in {"switch", "table", "entry", "default"} => ~returned'
  PROVE  Nested'
<1>1. depth \in 1 .. MaxDepth
  BY InBlock
<1>2. \A d \in 1 .. depth : FrameOK(frames'[d])
  BY <1>1, InBlock DEF Nested
<1>3. \A d \in 1 .. depth : frames'[d].fwd = frames[d].fwd
  BY <1>1
<1>4. ASSUME NEW d \in 1 .. depth - 1
      PROVE  /\ frames'[d].kind \notin {"switch", "table"}
             /\ frames'[d + 1].fwd = Inside(frames'[d])
             /\ IsApply(d)' => IsCall(d + 1)'
  <2>1. d \in 1 .. depth /\ d + 1 \in 1 .. depth /\ d # depth
    BY <1>1
  <2>2. frames'[d] = frames[d] /\ frames'[d + 1].fwd = frames[d + 1].fwd
    BY <2>1, <1>1, <1>3
  <2>3. /\ frames[d].kind \notin {"switch", "table"}
        /\ frames[d + 1].fwd = Inside(frames[d])
        /\ IsApply(d) => IsCall(d + 1)
    BY <2>1, InBlock DEF Nested
  <2>4. IsApply(d) => d + 1 # depth /\ frames'[d + 1] = frames[d + 1]
    BY <2>1, <2>3, <1>1 DEF IsCall
  <2> QED BY <2>2, <2>3, <2>4 DEF IsApply, IsCall
<1>5. \A d, e \in 1 .. depth : e <= d => frames'[d].fwd \subseteq frames'[e].fwd
  BY <1>3, InBlock DEF Nested
<1>6. IsApply(depth)' => f.kind \in {"entry", "default"}
  BY DEF IsApply
<1> QED BY <1>1, <1>2, <1>4, <1>5, <1>6 DEF Nested

LEMMA PopNested ==
  ASSUME IInv, phase = "run", depth > 1, Pop, fwd' = top.fwd,
         top.kind = "call" => ~returned'
  PROVE  Nested' /\ ~BetweenArms'
<1>1. /\ depth \in 1 .. MaxDepth /\ depth' = depth - 1
      /\ \A d \in 1 .. depth' : frames'[d] = frames[d]
  BY InBlock, PopFacts
<1>2. /\ frames[depth'].kind \notin {"switch", "table"}
      /\ top.fwd = Inside(frames[depth'])
      /\ IsApply(depth') => top.kind = "call"
  <2>1. depth' \in 1 .. depth - 1 /\ depth' + 1 = depth
    BY <1>1
  <2> QED BY <2>1, InBlock DEF Nested, IsCall
<1>3. depth' \in 1 .. depth'
  BY <1>1
<1>4. \A d \in 1 .. depth' : FrameOK(frames'[d])
  BY <1>1, InBlock DEF Nested
<1>5. \A d \in 1 .. depth' - 1 :
        /\ frames'[d].kind \notin {"switch", "table"}
        /\ frames'[d + 1].fwd = Inside(frames'[d])
        /\ IsApply(d)' => IsCall(d + 1)'
  <2>1. TAKE d \in 1 .. depth' - 1
  <2>2. d \in 1 .. depth' /\ d + 1 \in 1 .. depth' /\ d \in 1 .. depth - 1
    BY <1>1
  <2> QED BY <2>2, <1>1, InBlock DEF Nested, IsApply, IsCall
<1>6. \A d, e \in 1 .. depth' : e <= d => frames'[d].fwd \subseteq frames'[e].fwd
  BY <1>1, InBlock DEF Nested
<1>7. ~BetweenArms' /\ (IsApply(depth)' => ~returned')
  BY <1>1, <1>2, <1>3 DEF IsApply
<1> QED BY <1>1, <1>2, <1>3, <1>4, <1>5, <1>6, <1>7 DEF Nested

\* A step that opens or closes a branch leaves the open calls alone, and the open
\* actions of tables.
SameCalls ==
  /\ ret' = ret /\ callee' = callee /\ depth' \in Nat
  /\ \A d \in 1 .. depth' : IsCall(d)' => d \in 1 .. depth /\ IsCall(d)
  /\ \A d \in 1 .. depth : IsCall(d) => d \in 1 .. depth' /\ frames'[d] = frames[d]

SameApplies ==
  \A d \in 1 .. depth' : IsApply(d)' =>
    d \in 1 .. depth /\ IsApply(d) /\ frames'[d].matched = frames[d].matched

\* The calls that are open stay as they are, and those that are opened have not
\* been returned from.
KeepsCalls ==
  /\ ret' = ret /\ depth' \in Nat
  /\ \A d \in 1 .. depth' : IsCall(d)' =>
       \/ d \in 1 .. depth /\ IsCall(d)
       \/ frames'[d].ret = ret /\ frames'[d].kept.dom = {}
  /\ \A d \in 1 .. depth : IsCall(d) => d \in 1 .. depth' /\ frames'[d] = frames[d]

LEMMA SameKeeps == SameCalls => KeepsCalls
BY DEF SameCalls, KeepsCalls

LEMMA SameCallsNested ==
  ASSUME IInv, phase = "run", SameCalls
  PROVE  NestedCalls'
<1>1. /\ depth \in 1 .. MaxDepth /\ NestedCalls /\ callee \in 1 .. depth
  BY InBlock
<1>2. \A d \in 1 .. depth : IsCall(d) => d \in 1 .. depth' /\ IsCall(d)'
  BY DEF SameCalls, IsCall
<1>3. IsCall(1)' /\ frames'[1].fwd = Worlds /\ frames'[1].ret = Worlds
  BY <1>1, <1>2 DEF NestedCalls, SameCalls
<1>4. callee' \in 1 .. depth' /\ IsCall(callee)'
  BY <1>1, <1>2 DEF NestedCalls, SameCalls
<1>5. \A d \in 1 .. depth' : d > callee' => ~IsCall(d)'
  BY <1>1 DEF NestedCalls, SameCalls
<1>6. ASSUME NEW d \in 1 .. depth', IsCall(d)'
      PROVE  /\ frames'[d].caller \in 0 .. d - 1
             /\ frames'[d].caller = 0 <=> d = 1
             /\ d > 1 => IsCall(frames[d].caller)'
             /\ ret' \subseteq frames'[d].ret
             /\ \A e \in 1 .. depth' : IsCall(e)' /\ e < d =>
                  e <= frames'[d].caller /\ frames'[d].ret \subseteq frames'[e].ret
  <2>1. d \in 1 .. depth /\ IsCall(d) /\ frames'[d] = frames[d]
    BY <1>6 DEF SameCalls
  <2>2. /\ frames[d].caller \in 0 .. d - 1
        /\ frames[d].caller = 0 <=> d = 1
        /\ d > 1 => IsCall(frames[d].caller)
        /\ ret \subseteq frames[d].ret
    BY <2>1, <1>1 DEF NestedCalls
  <2>3. d > 1 => frames[d].caller \in 1 .. depth
    BY <2>1, <2>2, <1>1
  <2>4. ASSUME NEW e \in 1 .. depth', IsCall(e)', e < d
        PROVE  e <= frames[d].caller /\ frames[d].ret \subseteq frames[e].ret
               /\ frames'[e] = frames[e]
    <3>1. e \in 1 .. depth /\ IsCall(e) /\ frames'[e] = frames[e]
      BY <2>4 DEF SameCalls
    <3> QED BY <3>1, <2>1, <2>4, <1>1 DEF NestedCalls
  <2>5. ret' = ret
    BY DEF SameCalls
  <2> QED BY <2>1, <2>2, <2>3, <2>4, <2>5, <1>2
<1> QED BY <1>3, <1>4, <1>5, <1>6 DEF NestedCalls

\* A step that opens a call.
LEMMA OpenCallNested ==
  ASSUME IInv, phase = "run", ret' = ret,
         depth' = depth + 1, callee' = depth + 1, IsCall(depth)',
         frames'[depth + 1].ret = ret, frames'[depth + 1].caller = callee,
         \A d \in 1 .. depth : /\ IsCall(d)' <=> IsCall(d)
                               /\ IsCall(d) => frames'[d] = frames[d]
  PROVE  NestedCalls'
<1>1. NestedCalls /\ callee \in 1 .. depth /\ depth \in 1 .. MaxDepth
  BY InBlock
<1>2. /\ IsCall(1)' /\ frames'[1].fwd = Worlds /\ frames'[1].ret = Worlds
      /\ IsCall(callee)' /\ callee' = depth'
  BY <1>1 DEF NestedCalls, IsCall
<1>3. ASSUME NEW d \in 1 .. depth', IsCall(d)'
      PROVE  /\ frames'[d].caller \in 0 .. d - 1
             /\ frames'[d].caller = 0 <=> d = 1
             /\ d > 1 => IsCall(frames[d].caller)'
             /\ ret' \subseteq frames'[d].ret
             /\ \A e \in 1 .. depth' : IsCall(e)' /\ e < d =>
                  e <= frames'[d].caller /\ frames'[d].ret \subseteq frames'[e].ret
  <2>1. CASE d = depth'
    <3>1. frames'[d].caller = callee /\ frames'[d].ret = ret
      BY <2>1
    <3>2. IsCall(frames[d].caller)'
      BY <3>1, <1>1 DEF NestedCalls, IsCall
    <3>3. ASSUME NEW e \in 1 .. depth', IsCall(e)', e < d
          PROVE  e <= callee /\ ret \subseteq frames'[e].ret
      <4>1. e \in 1 .. depth /\ IsCall(e) /\ frames'[e] = frames[e]
        BY <3>3, <2>1, <1>1
      <4> QED BY <4>1, <1>1 DEF NestedCalls
    <3> QED BY <2>1, <3>1, <3>2, <3>3, <1>1
  <2>2. CASE d # depth'
    <3>1. d \in 1 .. depth /\ IsCall(d) /\ frames'[d] = frames[d]
      BY <2>2, <1>1, <1>3
    <3>2. /\ frames[d].caller \in 0 .. d - 1
          /\ frames[d].caller = 0 <=> d = 1
          /\ d > 1 => IsCall(frames[d].caller)
          /\ ret \subseteq frames[d].ret
      BY <3>1, <1>1 DEF NestedCalls
    <3>3. d > 1 => IsCall(frames[d].caller)'
      <4>1. d > 1 => frames[d].caller \in 1 .. depth
        BY <3>1, <3>2, <1>1
      <4> QED BY <3>1, <3>2, <4>1 DEF IsCall
    <3>4. ASSUME NEW e \in 1 .. depth', IsCall(e)', e < d
          PROVE  e <= frames'[d].caller /\ frames'[d].ret \subseteq frames'[e].ret
      <4>1. e \in 1 .. depth /\ IsCall(e) /\ frames'[e] = frames[e]
        BY <3>4, <3>1, <1>1
      <4> QED BY <4>1, <3>1, <3>4, <1>1 DEF NestedCalls
    <3> QED BY <3>1, <3>2, <3>3, <3>4
  <2> QED BY <2>1, <2>2
<1> QED BY <1>1, <1>2, <1>3 DEF NestedCalls

-----------------------------------------------------------------------------
(* What they do to the worlds that are not live *)

LEMMA PushParked ==
  ASSUME IInv, phase = "run", ~BetweenArms,
         NEW f \in Frame, f.fwd = fwd, Push(f), exitCond' = exitCond, ret' = ret,
         NEW w \in Worlds, status[w] \in {"wait", "done"}, ~IsShadow(w),
         NEW d, d = at[w], Parked(w, d)
  PROVE  Parked(w, d)'
<1>1. w \notin fwd
  BY ParkedOutside
<1>2. /\ depth \in 1 .. MaxDepth /\ depth' = depth + 1
      /\ frames'[depth'] = f
      /\ \A e \in 1 .. depth : frames'[e] = frames[e]
  BY InBlock, PushFacts
<1>3. ASSUME NEW e \in 1 .. depth', e > d
      PROVE  w \notin frames'[e].fwd
  BY <1>1, <1>2, <1>3 DEF Parked
<1> QED BY <1>2, <1>3 DEF Parked

LEMMA TopParked ==
  ASSUME IInv, phase = "run", depth' = depth, frames'[depth].fwd = top.fwd,
         \A d \in 1 .. MaxDepth : d # depth => frames'[d] = frames[d],
         exitCond' = exitCond, ret' = ret,
         NEW w \in Worlds, NEW d, Parked(w, d)
  PROVE  Parked(w, d)'
<1>1. \A e \in 1 .. depth : frames'[e].fwd = frames[e].fwd
  BY InBlock
<1> QED BY <1>1, InBlock DEF Parked

LEMMA PopParked ==
  ASSUME IInv, phase = "run", Pop, exitCond' = exitCond, ret' = ret,
         NEW w \in Worlds, NEW d, d # depth, Parked(w, d)
  PROVE  Parked(w, d)'
<1>1. depth \in 1 .. MaxDepth
  BY InBlock
<1>2. depth' = depth - 1 /\ \A e \in 1 .. depth' : frames'[e] = frames[e]
  BY PopFacts
<1>3. d \in 1 .. depth'
  BY <1>1, <1>2 DEF Parked
<1> QED BY <1>1, <1>2, <1>3 DEF Parked

\* The call of the action keeps the return conditions of the table's statement.
LEMMA ShadowedStays ==
  ASSUME IInv, phase = "run", KeepsCalls, exitCond' = exitCond,
         NEW w \in Worlds, NEW d, d < depth, IsApply(d), Shadowed(w, d),
         frames'[d] = frames[d]
  PROVE  Shadowed(w, d)' /\ IsApply(d)'
<1>1. d \in 1 .. depth - 1 /\ d + 1 \in 1 .. depth /\ IsCall(d + 1)
  BY InBlock DEF Shadowed, Nested
<1>2. d + 1 \in 1 .. depth' /\ frames'[d + 1] = frames[d + 1] /\ depth' \in Nat
  BY <1>1 DEF KeepsCalls
<1> QED BY <1>1, <1>2 DEF Shadowed, IsApply

\* A world that neither starts nor ends to be live, and its frame with it.
LEMMA StaysAccounted ==
  ASSUME IInv, phase = "run", KeepsCalls,
         exits' = exits, exitCond' = exitCond, conc' = conc,
         NEW w \in Worlds, status[w] # "live",
         status'[w] = status[w], at'[w] = at[w],
         status[w] \in {"wait", "done"} =>
           /\ frames'[at[w]] = frames[at[w]]
           /\ IsShadow(w) => at[w] < depth
           /\ ~IsShadow(w) /\ Parked(w, at[w]) => Parked(w, at[w])'
  PROVE  Accounted(w)'
<1>1. Accounted(w)
  BY InBlock
<1>2. status[w] \in {"wait", "done", "returned", "exited"}
  BY InBlock DEF TypeOK, Ref!Statuses
<1>3. w \in exits'.dom <=> status'[w] = "exited"
  BY <1>1 DEF Accounted
<1>4. CASE status[w] = "wait"
  <2>1. Parked(w, at[w])' /\ Waits(w, frames[at[w]])
    BY <1>1, <1>4 DEF Accounted, IsShadow
  <2>2. Waits(w, frames[at[w]])'
    BY <1>4, <2>1 DEF Waits
  <2> QED BY <1>3, <1>4, <2>1, <2>2 DEF Accounted
<1>5. CASE status[w] = "done"
  <2>1. IsDone(w, frames[at[w]])'
    BY <1>1, <1>5 DEF Accounted, IsDone
  <2>2. CASE IsApply(at[w])
    <3>1. ASSUME NEW d, d = at[w] PROVE Shadowed(w, d)' /\ IsApply(d)'
      BY <1>1, <1>5, <2>2, <3>1, ShadowedStays DEF Accounted, IsShadow
    <3>2. Shadowed(w, at[w])' /\ IsApply(at[w])'
      BY <3>1 DEF Shadowed, IsApply
    <3> QED BY <1>3, <1>5, <2>1, <3>2 DEF Accounted
  <2>3. CASE ~IsApply(at[w])
    <3>1. Parked(w, at[w])' /\ ~IsApply(at[w])'
      BY <1>1, <1>5, <2>3 DEF Accounted, IsShadow, IsApply
    <3> QED BY <1>3, <1>5, <2>1, <3>1 DEF Accounted
  <2> QED BY <2>2, <2>3
<1>6. CASE status[w] = "returned"
  <2>1. HasReturned(w, at[w])
    BY <1>1, <1>6 DEF Accounted
  <2>2. /\ at[w] \in 1 .. depth /\ at[w] \in 1 .. depth' /\ IsCall(at[w])
        /\ frames'[at[w]] = frames[at[w]]
    BY <2>1 DEF HasReturned, KeepsCalls
  <2>3. \A e \in 1 .. depth' : IsCall(e)' /\ e > at[w] => w \notin frames'[e].ret
    BY <2>1 DEF HasReturned, KeepsCalls
  <2>4. HasReturned(w, at[w])'
    BY <2>1, <2>2, <2>3 DEF HasReturned, KeepsCalls, IsCall
  <2> QED BY <1>3, <1>6, <2>4 DEF Accounted
<1>7. CASE status[w] = "exited"
  BY <1>1, <1>3, <1>7 DEF Accounted
<1> QED BY <1>2, <1>4, <1>5, <1>6, <1>7

LEMMA PushStays ==
  ASSUME IInv, phase = "run", ~BetweenArms, ~IsApply(depth),
         NEW f \in Frame, f.fwd = fwd, Push(f), SameCalls,
         exits' = exits, exitCond' = exitCond, conc' = conc,
         NEW w \in Worlds, status[w] # "live",
         status'[w] = status[w], at'[w] = at[w]
  PROVE  Accounted(w)'
<1>1. ret' = ret
  BY DEF SameCalls
<1>2. status[w] \in {"wait", "done"} =>
        /\ frames'[at[w]] = frames[at[w]]
        /\ IsShadow(w) => at[w] < depth
  BY InBlock, ParkedAt, PushFacts DEF IsShadow
<1>3. status[w] \in {"wait", "done"} =>
        (~IsShadow(w) /\ Parked(w, at[w]) => Parked(w, at[w])')
  BY <1>1, PushParked
<1> QED BY <1>2, <1>3, SameKeeps, StaysAccounted

LEMMA TopStays ==
  ASSUME IInv, phase = "run", depth' = depth, frames'[depth].fwd = top.fwd,
         \A d \in 1 .. MaxDepth : d # depth => frames'[d] = frames[d], SameCalls,
         exits' = exits, exitCond' = exitCond, conc' = conc,
         NEW w \in Worlds, status[w] # "live",
         status'[w] = status[w], at'[w] = at[w],
         status[w] \in {"wait", "done"} => at[w] # depth
  PROVE  Accounted(w)'
<1>1. ret' = ret
  BY DEF SameCalls
<1>2. status[w] \in {"wait", "done"} =>
        /\ frames'[at[w]] = frames[at[w]]
        /\ at[w] < depth
  BY InBlock, ParkedAt
<1>3. status[w] \in {"wait", "done"} =>
        (~IsShadow(w) /\ Parked(w, at[w]) => Parked(w, at[w])')
  BY <1>1, TopParked
<1> QED BY <1>2, <1>3, SameKeeps, StaysAccounted

LEMMA PopStays ==
  ASSUME IInv, phase = "run", Pop, SameCalls,
         exits' = exits, exitCond' = exitCond, conc' = conc,
         NEW w \in Worlds, status[w] # "live",
         status'[w] = status[w], at'[w] = at[w],
         status[w] \in {"wait", "done"} => at[w] # depth
  PROVE  Accounted(w)'
<1>1. ret' = ret
  BY DEF SameCalls
<1>2. status[w] \in {"wait", "done"} =>
        /\ frames'[at[w]] = frames[at[w]]
        /\ at[w] < depth
  BY InBlock, ParkedAt, PopFacts
<1>3. status[w] \in {"wait", "done"} =>
        (~IsShadow(w) /\ Parked(w, at[w]) => Parked(w, at[w])')
  BY <1>1, PopParked
<1> QED BY <1>2, <1>3, SameKeeps, StaysAccounted

\* A step that leaves the return states alone: the worlds that have returned stay
\* where they are, and so do those of a table that is still open.
LEMMA ClaimedStays ==
  ASSUME IInv, phase = "run", KeepsCalls, NEW w \in Worlds,
         status[w] = "returned" => status'[w] = "returned" /\ at'[w] = at[w],
         IsShadow(w) => at[w] = depth \/ (IsShadow(w)' /\ at'[w] = at[w])
  PROVE  Claimed(w)'
<1> SUFFICES ASSUME NEW d \in 1 .. depth', IsCall(d)', w \in frames'[d].kept.dom
             PROVE  \/ status'[w] = "returned" /\ at'[w] = d
                    \/ IsShadow(w)' /\ at'[w] < d
  BY DEF Claimed
<1>1. d \in 1 .. depth /\ IsCall(d) /\ w \in frames[d].kept.dom
  BY DEF KeepsCalls
<1>2. (status[w] = "returned" /\ at[w] = d) \/ (IsShadow(w) /\ at[w] < d)
  BY <1>1, InBlock DEF Claimed
<1> QED BY <1>1, <1>2, InBlock

\* A step that starts no action of a table: a world may go on, or wait, where it has
\* not matched an action of a table.
LEMMA AppliesStay ==
  ASSUME IInv, phase = "run", SameApplies, NEW w \in Worlds,
         \/ status[w] = "live"
         \/ status'[w] = status[w] /\ at'[w] = at[w]
         \/ status[w] # "exited" /\ \A d \in 1 .. depth' : IsApply(d)' => d < at[w]
  PROVE  AppliesOnce(w)'
<1> SUFFICES ASSUME NEW d \in 1 .. depth', IsApply(d)', w \in frames'[d].matched
             PROVE  status'[w] = "exited" \/ (status'[w] # "live" /\ at'[w] <= d)
  BY DEF AppliesOnce
<1>1. d \in 1 .. depth /\ IsApply(d) /\ w \in frames[d].matched
  BY DEF SameApplies
<1>2. status[w] = "exited" \/ (status[w] # "live" /\ at[w] <= d)
  BY <1>1, InBlock DEF AppliesOnce
<1>3. at[w] \in Nat
  BY InBlock DEF TypeOK
<1> QED BY <1>1, <1>2, <1>3

\* Worlds that no return state claims.
LEMMA Unclaimed ==
  ASSUME IInv, phase = "run", NEW w \in Worlds,
         status[w] # "returned", ~IsShadow(w)
  PROVE  \A d \in 1 .. depth : IsCall(d) => w \notin frames[d].kept.dom
BY InBlock DEF Claimed

-----------------------------------------------------------------------------
(* One lemma per action: it preserves the inductive invariant *)

\* A step that leaves the stack and the conditions around it alone.
LEMMA SameNested ==
  ASSUME Nested, ~BetweenArms, ~IsApply(depth),
         frames' = frames, depth' = depth, fwd' = fwd
  PROVE  Nested'
<1>1. top' = top
  BY DEF top
<1>2. \A f : FrameOK(f)' <=> FrameOK(f)
  BY DEF FrameOK
<1>3. \A f : Inside(f)' = Inside(f)
  BY DEF Inside
<1> QED BY <1>1, <1>2, <1>3 DEF Nested, IsApply, IsCall

LEMMA AssignStep ==
  ASSUME IInv, NEW v \in Vars, NEW u \in Vars, NEW op \in Ops,
         AssignmentStatement(v, u, op), Ref!Assign(v, u, op)
  PROVE  IInv'
<1> USE DEF AssignmentStatement, Ref!Assign, flow, stack
<1>1. phase = "run" /\ phase' = "run"
  BY DEF NextStatement, InBody
<1>2. op \in [Vals -> Vals]
  OBVIOUS
<1>3. store' \in Store /\ conc' \in Store
  BY <1>1, <1>2, InBlock DEF TypeOK, Store
<1>4. TypeOK'
  BY <1>1, <1>3, InBlock DEF TypeOK
<1>5. ~BetweenArms /\ ~IsApply(depth) /\ top' = top
  BY <1>1 DEF NextStatement, InBody, IsApply
<1>6. Nested' /\ NestedCalls'
  <2>1. /\ Nested /\ NestedCalls /\ frames' = frames /\ depth' = depth
        /\ callee' = callee /\ fwd' = fwd /\ ret' = ret
    BY <1>1, InBlock
  <2> HIDE DEF AssignmentStatement
  <2>2. Nested'
    BY <2>1, <1>5, SameNested
  <2>3. SameCalls
    <3>1. depth \in Nat
      BY <1>1, InBlock
    <3> QED BY <2>1, <3>1 DEF SameCalls, IsCall
  <2>4. NestedCalls'
    BY <2>3, <1>1, SameCallsNested
  <2> QED BY <2>2, <2>4
<1>7. ASSUME NEW w \in Worlds PROVE Accounted(w)'
  <2>1. Accounted(w)
    BY <1>1, InBlock
  <2>2. CASE status[w] = "live"
    <3>1. \A y \in Vars : store'[y][w] = conc'[y][w]
      BY <2>1, <2>2, <1>1, InBlock DEF Accounted, TypeOK, Store
    <3> QED BY <2>1, <2>2, <3>1, <1>5 DEF Accounted, Path, PathCond
  <2>3. CASE status[w] # "live"
    <3>1. \A y \in Vars : conc'[y][w] = conc[y][w]
      BY <2>3, <1>1, InBlock DEF TypeOK, Store
    <3> QED BY <2>1, <2>3, <3>1
            DEF Accounted, Parked, Shadowed, Waits, IsDone, HasReturned, IsCall, IsApply
  <2> QED BY <2>2, <2>3
<1>8. ASSUME NEW w \in Worlds PROVE Claimed(w)' /\ AppliesOnce(w)'
  <2>1. Claimed(w) /\ AppliesOnce(w)
    BY <1>1, InBlock
  <2> QED BY <2>1 DEF Claimed, AppliesOnce, IsShadow, IsApply, IsCall
<1> QED BY <1>1, <1>4, <1>6, <1>7, <1>8 DEF IInv

LEMMA ExitStep ==
  ASSUME IInv, Path \subseteq Ref!Live,
         ExitStatement, Ref!Leave(Worlds, "exited", 0)
  PROVE  IInv'
<1> USE DEF ExitStatement, stack
<1>1. phase = "run" /\ phase' = "run" /\ ~exited /\ ~returned
  BY DEF NextStatement, InBody
<1>2. ~BetweenArms /\ ~IsApply(depth) /\ top' = top
  BY DEF NextStatement, InBody, IsApply
<1>3. \A w \in Worlds : w \in Path <=> status[w] = "live"
  BY <1>1, <1>2, PathLive DEF Ref!Live
<1>4. /\ status' = [w \in Worlds |-> IF status[w] = "live" THEN "exited" ELSE status[w]]
      /\ at' = [w \in Worlds |-> IF status[w] = "live" THEN 0 ELSE at[w]]
      /\ conc' = conc
  BY <1>1, InBlock DEF Ref!Leave, Ref!Live, TypeOK
<1>5. /\ exits' \in Partial
      /\ exits'.dom = exits.dom \cup Path
      /\ \A v \in Vars, w \in Worlds :
           exits'.val[v][w] = IF w \in Path THEN store[v][w] ELSE exits.val[v][w]
  <2>1. exitCond \cap PathCond = Path /\ Path \in SUBSET Worlds
    BY <1>1, InBlock DEF TypeOK, Path, PathCond
  <2>2. exits' = AddLater(exits, Path, store)
    BY <2>1
  <2>3. exits \in Partial /\ store \in Store
    BY <1>1, InBlock DEF TypeOK
  <2> HIDE DEF ExitStatement
  <2> QED BY <2>1, <2>2, <2>3, AddLaterType
<1>6. exitCond' = exitCond \ Path
  BY <1>1, InBlock DEF ExitCondAfter, Path, PathCond, TypeOK
<1>7. /\ frames' = frames /\ depth' = depth /\ callee' = callee
      /\ fwd' = fwd /\ ret' = ret /\ store' = store
      /\ exited' = TRUE /\ returned' = returned
  OBVIOUS
<1> HIDE DEF ExitStatement
<1>8. TypeOK'
  BY <1>1, <1>4, <1>5, <1>6, <1>7, InBlock DEF TypeOK, Ref!Statuses
<1>9. Nested' /\ NestedCalls'
  <2>1. Nested /\ NestedCalls
    BY <1>1, InBlock
  <2>2. Nested'
    BY <2>1, <1>2, <1>7, SameNested
  <2>3. SameCalls
    <3>1. depth \in Nat
      BY <1>1, InBlock
    <3> QED BY <1>7, <3>1 DEF SameCalls, IsCall
  <2>4. NestedCalls'
    BY <2>3, <1>1, SameCallsNested
  <2> QED BY <2>2, <2>4
<1>10. ASSUME NEW w \in Worlds PROVE Accounted(w)'
  <2>1. Accounted(w)
    BY <1>1, InBlock
  <2>2. CASE status[w] = "live"
    <3>1. status'[w] = "exited" /\ w \in Path
      BY <2>2, <1>3, <1>4
    <3> QED BY <2>1, <2>2, <3>1, <1>4, <1>5, <1>6, <1>7 DEF Accounted
  <2>3. CASE status[w] # "live"
    <3>1. status'[w] = status[w] /\ at'[w] = at[w] /\ w \notin Path
      BY <2>3, <1>3, <1>4
    <3>2. w \in exitCond' <=> w \in exitCond
      BY <3>1, <1>6
    <3>3. /\ w \in exits'.dom <=> w \in exits.dom
          /\ \A v \in Vars : exits'.val[v][w] = exits.val[v][w]
      BY <3>1, <1>5
    <3>4. conc' = conc /\ frames' = frames /\ depth' = depth /\ ret' = ret
      BY <1>4, <1>7
    <3>5. status[w] = "wait" => Parked(w, at[w]) /\ Waits(w, frames[at[w]])
      BY <2>1 DEF Accounted
    <3>6. status[w] = "done" =>
            /\ IsDone(w, frames[at[w]])
            /\ IF IsApply(at[w]) THEN Shadowed(w, at[w]) ELSE Parked(w, at[w])
      BY <2>1 DEF Accounted
    <3>7. status[w] = "returned" => HasReturned(w, at[w])
      BY <2>1 DEF Accounted
    <3>8. /\ Parked(w, at[w]) => Parked(w, at[w])'
          /\ Shadowed(w, at[w]) => Shadowed(w, at[w])'
          /\ IsApply(at[w])' <=> IsApply(at[w])
      BY <3>1, <3>2, <3>4 DEF Parked, Shadowed, IsApply
    <3>9. /\ Waits(w, frames[at[w]]) => Waits(w, frames[at[w]])'
          /\ IsDone(w, frames[at[w]]) => IsDone(w, frames[at[w]])'
      BY <3>1, <3>4 DEF Waits, IsDone
    <3>10. HasReturned(w, at[w]) => HasReturned(w, at[w])'
      BY <3>1, <3>2, <3>4 DEF HasReturned, IsCall
    <3>11. /\ w \in exits'.dom <=> status'[w] = "exited"
           /\ status'[w] = "exited" => w \notin exitCond'
           /\ status'[w] = "exited" =>
                \A v \in Vars : exits'.val[v][w] = conc'[v][w]
      BY <2>1, <3>1, <3>2, <3>3, <3>4 DEF Accounted
    <3> QED BY <2>3, <3>1, <3>5, <3>6, <3>7, <3>8, <3>9, <3>10, <3>11 DEF Accounted
  <2> QED BY <2>2, <2>3
<1>11. ASSUME NEW w \in Worlds PROVE Claimed(w)' /\ AppliesOnce(w)'
  <2>1. Claimed(w) /\ AppliesOnce(w)
    BY <1>1, InBlock
  <2>2. CASE status[w] = "live"
    BY <2>1, <2>2, <1>4, <1>7 DEF Claimed, AppliesOnce, IsShadow, IsApply, IsCall
  <2>3. CASE status[w] # "live"
    BY <2>1, <2>3, <1>4, <1>7 DEF Claimed, AppliesOnce, IsShadow, IsApply, IsCall
  <2> QED BY <2>2, <2>3
<1> QED BY <1>1, <1>8, <1>9, <1>10, <1>11 DEF IInv

LEMMA IfThenStep ==
  ASSUME IInv, NEW c \in SUBSET Worlds,
         IfThen(c), Ref!Leave(Worlds \ c, "wait", depth + 1)
  PROVE  IInv'
<1> DEFINE f == [NoFrame EXCEPT !.kind = "then", !.fwd = fwd, !.cond = c,
                                !.old = store]
<1>1. /\ phase = "run" /\ ~BetweenArms /\ ~IsApply(depth) /\ ~exited /\ ~returned
      /\ Push(f) /\ fwd' = fwd \cap c
      /\ phase' = phase /\ store' = store /\ ret' = ret
      /\ exitCond' = exitCond /\ exits' = exits /\ exited' = exited
      /\ returned' = returned /\ callee' = callee
  BY DEF IfThen, NextStatement, InBody, IsApply
<1>2. TypeOK
  BY <1>1, InBlock
<1>3. /\ f \in Frame /\ f.kind = "then" /\ f.fwd = fwd /\ f.cond = c
      /\ f.old = store /\ ~f.last
  BY <1>2, NoFrameType DEF TypeOK, NoFrame, Frame, Kinds
<1> HIDE DEF f
<1>4. FrameOK(f) /\ Inside(f) = fwd \cap c
  BY <1>3 DEF FrameOK, Inside
<1>5. /\ depth' = depth + 1 /\ depth' \in 1 .. MaxDepth /\ depth \in 1 .. MaxDepth
      /\ frames' \in [1 .. MaxDepth -> Frame]
      /\ frames'[depth'] = f
      /\ \A d \in 1 .. depth : frames'[d] = frames[d]
      /\ \A d \in 1 .. MaxDepth : d > depth' => frames'[d] = NoFrame
  BY <1>1, <1>3, PushFacts, InBlock
<1>6. /\ conc' = conc
      /\ status' \in [Worlds -> Ref!Statuses]
      /\ at' \in [Worlds -> 0 .. MaxDepth]
      /\ \A w \in Worlds :
           IF status[w] = "live" /\ w \in Worlds \ c
             THEN status'[w] = "wait" /\ at'[w] = depth + 1
             ELSE status'[w] = status[w] /\ at'[w] = at[w]
  <2>1. depth + 1 \in 0 .. MaxDepth /\ "wait" \in Ref!Statuses
    BY <1>5 DEF Ref!Statuses
  <2> QED BY <1>2, <2>1, LeaveFacts
<1>7. TypeOK'
  BY <1>1, <1>2, <1>5, <1>6 DEF TypeOK
<1>8. Nested'
  BY <1>1, <1>3, <1>4, PushNested
<1>9. SameCalls /\ SameApplies
  BY <1>1, <1>3, <1>5 DEF SameCalls, SameApplies, IsCall, IsApply
<1>10. NestedCalls'
  BY <1>1, <1>9, SameCallsNested
<1>11. ASSUME NEW w \in Worlds PROVE Accounted(w)'
  <2>1. CASE status[w] = "live"
    <3>1. /\ w \in fwd /\ w \in ret /\ w \in exitCond
          /\ \A v \in Vars : store[v][w] = conc[v][w]
      BY <2>1, <1>1, <1>2, InBlock DEF Accounted, Path, PathCond
    <3>2. w \notin exits'.dom
      BY <2>1, <1>1, InBlock DEF Accounted
    <3>3. CASE w \in c
      <4>1. status'[w] = "live" /\ w \in Path'
        BY <2>1, <3>1, <3>3, <1>1, <1>6 DEF Path, PathCond
      <4> QED BY <3>1, <3>2, <4>1, <1>1, <1>3, <1>5, <1>6 DEF Accounted
    <3>4. CASE w \notin c
      <4>1. status'[w] = "wait" /\ at'[w] = depth'
        BY <2>1, <3>4, <1>5, <1>6
      <4>2. Parked(w, depth)'
        BY <3>1, <1>1, <1>3, <1>5 DEF Parked
      <4>3. Waits(w, frames[depth])'
        BY <3>1, <3>4, <1>3, <1>5, <1>6 DEF Waits
      <4> QED BY <3>2, <4>1, <4>2, <4>3 DEF Accounted
    <3> QED BY <3>3, <3>4
  <2>2. CASE status[w] # "live"
    BY <2>2, <1>1, <1>3, <1>6, <1>9, PushStays
  <2> QED BY <2>1, <2>2
<1>12. ASSUME NEW w \in Worlds PROVE Claimed(w)' /\ AppliesOnce(w)'
  <2>1. IsShadow(w) => IsShadow(w)' /\ at'[w] = at[w]
    BY <1>1, <1>5, <1>6, ParkedAt DEF IsShadow, IsApply
  <2>2. status[w] = "returned" => status'[w] = "returned" /\ at'[w] = at[w]
    BY <1>6
  <2>3. status[w] = "live" \/ (status'[w] = status[w] /\ at'[w] = at[w])
    BY <1>6
  <2> QED BY <1>1, <1>9, <2>1, <2>2, <2>3, SameKeeps, ClaimedStays, AppliesStay
<1> QED BY <1>1, <1>7, <1>8, <1>10, <1>11, <1>12 DEF IInv

LEMMA SwitchOpenStep ==
  ASSUME IInv, SwitchOpen, Ref!Leave(Worlds, "wait", depth + 1)
  PROVE  IInv'
<1> DEFINE f == [NoFrame EXCEPT !.kind = "switch", !.fwd = fwd, !.old = store,
                                !.exitAll = TRUE, !.returnAll = TRUE]
<1>1. /\ phase = "run" /\ ~BetweenArms /\ ~IsApply(depth) /\ ~exited /\ ~returned
      /\ Push(f) /\ fwd' = fwd
      /\ phase' = phase /\ store' = store /\ ret' = ret
      /\ exitCond' = exitCond /\ exits' = exits /\ exited' = exited
      /\ returned' = returned /\ callee' = callee
  BY DEF SwitchOpen, NextStatement, InBody, IsApply, flow
<1>2. TypeOK
  BY <1>1, InBlock
<1>3. /\ f \in Frame /\ f.kind = "switch" /\ f.fwd = fwd
      /\ f.old = store /\ ~f.last /\ f.matched = {} /\ f.kept.dom = {}
  BY <1>2, NoFrameType, NothingType DEF TypeOK, NoFrame, Frame, Kinds
<1> HIDE DEF f
<1>4. FrameOK(f) /\ Inside(f) = fwd
  BY <1>3 DEF FrameOK, Inside
<1>5. /\ depth' = depth + 1 /\ depth' \in 1 .. MaxDepth /\ depth \in 1 .. MaxDepth
      /\ frames' \in [1 .. MaxDepth -> Frame]
      /\ frames'[depth'] = f
      /\ \A d \in 1 .. depth : frames'[d] = frames[d]
      /\ \A d \in 1 .. MaxDepth : d > depth' => frames'[d] = NoFrame
  BY <1>1, <1>3, PushFacts, InBlock
<1>6. /\ conc' = conc
      /\ status' \in [Worlds -> Ref!Statuses]
      /\ at' \in [Worlds -> 0 .. MaxDepth]
      /\ \A w \in Worlds :
           IF status[w] = "live" /\ w \in Worlds
             THEN status'[w] = "wait" /\ at'[w] = depth + 1
             ELSE status'[w] = status[w] /\ at'[w] = at[w]
  <2>1. depth + 1 \in 0 .. MaxDepth /\ "wait" \in Ref!Statuses
    BY <1>5 DEF Ref!Statuses
  <2> QED BY <1>2, <2>1, LeaveFacts
<1>7. TypeOK'
  BY <1>1, <1>2, <1>5, <1>6 DEF TypeOK
<1>8. Nested'
  BY <1>1, <1>3, <1>4, PushNested
<1>9. SameCalls /\ SameApplies
  BY <1>1, <1>3, <1>5 DEF SameCalls, SameApplies, IsCall, IsApply
<1>10. NestedCalls'
  BY <1>1, <1>9, SameCallsNested
<1>11. ASSUME NEW w \in Worlds PROVE Accounted(w)'
  <2>1. CASE status[w] = "live"
    <3>1. /\ w \in fwd /\ w \in ret /\ w \in exitCond
          /\ \A v \in Vars : store[v][w] = conc[v][w]
      BY <2>1, <1>1, <1>2, InBlock DEF Accounted, Path, PathCond
    <3>2. w \notin exits'.dom
      BY <2>1, <1>1, InBlock DEF Accounted
    <3>3. status'[w] = "wait" /\ at'[w] = depth'
      BY <2>1, <1>5, <1>6
    <3>4. Parked(w, depth)'
      BY <3>1, <1>1, <1>3, <1>5 DEF Parked
    <3>5. Waits(w, frames[depth])'
      BY <3>1, <1>3, <1>5, <1>6 DEF Waits
    <3> QED BY <3>2, <3>3, <3>4, <3>5 DEF Accounted
  <2>2. CASE status[w] # "live"
    BY <2>2, <1>1, <1>3, <1>6, <1>9, PushStays
  <2> QED BY <2>1, <2>2
<1>12. ASSUME NEW w \in Worlds PROVE Claimed(w)' /\ AppliesOnce(w)'
  <2>1. IsShadow(w) => IsShadow(w)' /\ at'[w] = at[w]
    BY <1>1, <1>5, <1>6, ParkedAt DEF IsShadow, IsApply
  <2>2. status[w] = "returned" => status'[w] = "returned" /\ at'[w] = at[w]
    BY <1>6
  <2>3. status[w] = "live" \/ (status'[w] = status[w] /\ at'[w] = at[w])
    BY <1>6
  <2> QED BY <1>1, <1>9, <2>1, <2>2, <2>3, SameKeeps, ClaimedStays, AppliesStay
<1> QED BY <1>1, <1>7, <1>8, <1>10, <1>11, <1>12 DEF IInv

LEMMA IfElseStep ==
  ASSUME IInv, IfElse, Ref!Turn(Worlds, depth)
  PROVE  IInv'
<1> DEFINE k == [dom |-> top.cond,
                 val |-> IF exited \/ returned THEN top.old ELSE store]
           g == frames'[depth]
<1>1. /\ phase = "run" /\ top.kind = "then"
      /\ ~exited' /\ ~returned' /\ exited' \in BOOLEAN /\ returned' \in BOOLEAN
      /\ store' = top.old /\ fwd' = top.fwd \ top.cond
      /\ phase' = phase /\ ret' = ret /\ exitCond' = exitCond
      /\ exits' = exits /\ depth' = depth /\ callee' = callee
  BY DEF IfElse
<1>2. /\ TypeOK
      /\ depth \in 1 .. MaxDepth /\ top \in Frame /\ FrameOK(top)
      /\ fwd = top.fwd \cap top.cond
  BY <1>1, InBlock DEF Nested, Inside
<1>3. /\ k \in Partial /\ k.dom = top.cond
      /\ ~exited /\ ~returned => k.val = store
  BY <1>2 DEF TypeOK, Partial, Frame
<1>4. /\ frames' \in [1 .. MaxDepth -> Frame]
      /\ \A d \in 1 .. MaxDepth : d # depth => frames'[d] = frames[d]
      /\ g.kind = "else" /\ g.fwd = top.fwd /\ g.cond = top.cond
      /\ g.matched = top.matched /\ g.last = top.last /\ g.old = top.old
      /\ g.kept = k /\ g.exitAll = exited /\ g.returnAll = returned
  <2>1. frames' = [frames EXCEPT ![depth].kind = "else", ![depth].kept = k,
                     ![depth].exitAll = exited, ![depth].returnAll = returned]
    BY DEF IfElse
  <2> HIDE DEF k
  <2> QED BY <2>1, <1>2, <1>3 DEF TypeOK, Frame, Kinds
<1> HIDE DEF k, g
<1>5. FrameOK(g) /\ Inside(g) = top.fwd \ top.cond
  BY <1>2, <1>3, <1>4 DEF FrameOK, Inside
<1>6. /\ conc' = conc
      /\ status' \in [Worlds -> Ref!Statuses]
      /\ at' \in [Worlds -> 0 .. MaxDepth]
      /\ \A w \in Worlds :
           IF status[w] = "live" THEN status'[w] = "done" /\ at'[w] = depth
           ELSE IF status[w] = "wait" /\ at[w] = depth /\ w \in Worlds
             THEN status'[w] = "live"
             ELSE status'[w] = status[w] /\ at'[w] = at[w]
  <2>1. depth \in 0 .. MaxDepth
    BY <1>2
  <2> QED BY <1>2, <2>1, TurnFacts
<1>7. TypeOK'
  <2>1. store' \in Store /\ fwd' \in SUBSET Worlds
    BY <1>1, <1>2 DEF Frame
  <2>2. \A d \in 1 .. MaxDepth : d > depth => frames'[d] = NoFrame
    BY <1>2, <1>4 DEF TypeOK
  <2> QED BY <1>1, <1>2, <1>4, <1>6, <2>1, <2>2 DEF TypeOK
<1>8. Nested'
  <2>1. frames'[depth] = g
    BY DEF g
  <2> QED BY <2>1, <1>1, <1>4, <1>5, TopNested
<1>9. SameCalls /\ SameApplies
  BY <1>1, <1>2, <1>4 DEF SameCalls, SameApplies, IsCall, IsApply, g
<1>10. NestedCalls'
  BY <1>1, <1>9, SameCallsNested
<1>11. ASSUME NEW w \in Worlds PROVE Accounted(w)'
  <2>1. Accounted(w)
    BY <1>1, InBlock
  <2>2. status[w] \in {"live", "wait"} =>
          w \notin exits'.dom
    BY <2>1, <1>1 DEF Accounted
  <2>3. CASE status[w] = "live"
    <3>1. /\ w \in top.fwd /\ w \in top.cond /\ w \in ret /\ w \in exitCond
          /\ ~exited /\ ~returned
          /\ \A v \in Vars : store[v][w] = conc[v][w]
      BY <2>1, <2>3, <1>2 DEF Accounted, Path, PathCond
    <3>2. status'[w] = "done" /\ at'[w] = depth
      BY <2>3, <1>6
    <3>3. Parked(w, depth)'
      BY <3>1, <1>1, <1>2, <1>4 DEF Parked, g
    <3>4. IsDone(w, frames[depth])' /\ ~IsApply(depth)'
      BY <3>1, <1>1, <1>3, <1>4, <1>6 DEF IsDone, IsApply, g
    <3> QED BY <2>2, <2>3, <3>2, <3>3, <3>4, <1>1 DEF Accounted
  <2>4. CASE status[w] = "wait" /\ at[w] = depth
    <3>1. /\ w \in top.fwd /\ w \notin top.cond /\ w \in ret /\ w \in exitCond
          /\ \A v \in Vars : top.old[v][w] = conc[v][w]
      BY <2>1, <2>4, <1>1 DEF Accounted, Parked, Waits
    <3>2. status'[w] = "live" /\ w \in Path'
      BY <2>4, <3>1, <1>1, <1>6 DEF Path, PathCond
    <3>3. ~BetweenArms'
      BY <1>1, <1>4 DEF g
    <3> QED BY <2>2, <2>4, <3>1, <3>2, <3>3, <1>1, <1>6 DEF Accounted
  <2>5. CASE status[w] # "live" /\ ~(status[w] = "wait" /\ at[w] = depth)
    <3>1. status[w] = "done" => at[w] # depth
      BY <2>1, <1>1 DEF Accounted, IsDone
    <3>2. frames'[depth].fwd = top.fwd
      BY <1>4 DEF g
    <3>3. status'[w] = status[w] /\ at'[w] = at[w]
      BY <2>5, <1>6
    <3> QED BY <2>5, <3>1, <3>2, <3>3, <1>1, <1>4, <1>6, <1>9, TopStays
  <2> QED BY <2>3, <2>4, <2>5
<1>12. ASSUME NEW w \in Worlds PROVE Claimed(w)' /\ AppliesOnce(w)'
  <2>1. at[w] # depth => frames'[at[w]] = frames[at[w]] \/ status[w] \notin {"wait", "done"}
    BY <1>1, <1>2, <1>4, ParkedAt
  <2>2. ~IsApply(depth) /\ ~IsApply(depth)'
    BY <1>1, <1>4 DEF IsApply, g
  <2>3. IsShadow(w) => IsShadow(w)' /\ at'[w] = at[w]
    BY <2>1, <2>2, <1>6 DEF IsShadow, IsApply
  <2>4. status[w] = "returned" => status'[w] = "returned" /\ at'[w] = at[w]
    BY <1>6
  <2>5. \A d \in 1 .. depth' : IsApply(d)' => d < depth
    BY <1>1, <1>2, <2>2
  <2>6. \/ status[w] = "live" \/ (status'[w] = status[w] /\ at'[w] = at[w])
        \/ status[w] # "exited" /\ \A d \in 1 .. depth' : IsApply(d)' => d < at[w]
    BY <1>6, <2>5
  <2> QED BY <1>1, <1>9, <2>3, <2>4, <2>6, SameKeeps, ClaimedStays, AppliesStay
<1> QED BY <1>1, <1>7, <1>8, <1>10, <1>11, <1>12 DEF IInv

LEMMA IfEndStep ==
  ASSUME IInv, IfEnd, Ref!Enter("done", depth)
  PROVE  IInv'
<1> DEFINE s == IF exited \/ returned THEN top.old ELSE store
<1>1. /\ phase = "run" /\ top.kind = "else"
      /\ store' = MergeVars(top.kept, s)
      /\ exited' = (top.exitAll /\ exited)
      /\ returned' = (top.returnAll /\ returned)
      /\ Pop /\ fwd' = top.fwd
      /\ phase' = phase /\ ret' = ret /\ exitCond' = exitCond
      /\ exits' = exits /\ callee' = callee
  BY DEF IfEnd, LeftByAll
<1>2. /\ TypeOK
      /\ depth \in 1 .. MaxDepth /\ top \in Frame /\ FrameOK(top)
      /\ fwd = top.fwd \ top.cond /\ depth > 1
  <2>1. depth # 1
    BY <1>1, InBlock DEF NestedCalls, IsCall
  <2> QED BY <1>1, <2>1, InBlock DEF Nested, Inside
<1>3. /\ store' \in Store
      /\ \A v \in Vars, w \in Worlds :
           store'[v][w] = IF w \in top.cond THEN top.kept.val[v][w] ELSE s[v][w]
  <2>1. s \in Store /\ top.kept \in Partial /\ top.kept.dom = top.cond
    BY <1>1, <1>2 DEF TypeOK, Frame, FrameOK
  <2> HIDE DEF s
  <2>2. /\ MergeVars(top.kept, s) \in Store
        /\ \A v \in Vars, w \in Worlds :
             MergeVars(top.kept, s)[v][w]
               = IF w \in top.kept.dom THEN top.kept.val[v][w] ELSE s[v][w]
    BY <2>1, MergeVarsType
  <2> QED BY <1>1, <2>1, <2>2
<1>4. ~exited /\ ~returned => s = store
  OBVIOUS
<1> HIDE DEF s
<1>5. /\ depth' = depth - 1 /\ depth' \in 0 .. MaxDepth
      /\ frames' \in [1 .. MaxDepth -> Frame]
      /\ \A d \in 1 .. depth' : frames'[d] = frames[d]
      /\ \A d \in 1 .. MaxDepth : d > depth' => frames'[d] = NoFrame
  BY <1>1, PopFacts
<1>6. /\ conc' = conc
      /\ status' \in [Worlds -> Ref!Statuses]
      /\ at' \in [Worlds -> 0 .. MaxDepth]
      /\ \A w \in Worlds :
           IF status[w] = "done" /\ at[w] = depth
             THEN status'[w] = "live"
             ELSE status'[w] = status[w] /\ at'[w] = at[w]
  BY <1>2, EnterFacts
<1>7. TypeOK'
  <2>1. exited' \in BOOLEAN /\ returned' \in BOOLEAN /\ fwd' \in SUBSET Worlds
    BY <1>1, <1>2 DEF Frame, TypeOK
  <2> QED BY <1>1, <1>2, <1>3, <1>5, <1>6, <2>1 DEF TypeOK
<1>8. Nested' /\ ~BetweenArms'
  BY <1>1, <1>2, PopNested
<1>9. SameCalls /\ SameApplies
  BY <1>1, <1>2, <1>5 DEF SameCalls, SameApplies, IsCall, IsApply
<1>10. NestedCalls'
  BY <1>1, <1>9, SameCallsNested
<1>12. ASSUME NEW w \in Worlds PROVE Accounted(w)'
  <2>1. Accounted(w)
    BY <1>1, InBlock
  <2>2. status[w] \in {"live", "done"} =>
          w \notin exits'.dom
    BY <2>1, <1>1 DEF Accounted
  <2>3. CASE status[w] = "live"
    <3>1. /\ w \in top.fwd /\ w \notin top.cond /\ w \in ret /\ w \in exitCond
          /\ ~exited /\ ~returned
          /\ \A v \in Vars : store[v][w] = conc[v][w]
      BY <2>1, <2>3, <1>2 DEF Accounted, Path, PathCond
    <3>2. status'[w] = "live" /\ w \in Path'
      BY <2>3, <3>1, <1>1, <1>6 DEF Path, PathCond
    <3>3. \A v \in Vars : store'[v][w] = conc'[v][w]
      BY <3>1, <1>3, <1>4, <1>6
    <3> QED BY <2>2, <2>3, <3>1, <3>2, <3>3, <1>1, <1>8 DEF Accounted
  <2>4. CASE status[w] = "done" /\ at[w] = depth
    <3>1. /\ w \in top.fwd /\ w \in top.cond /\ w \in ret /\ w \in exitCond
          /\ ~top.exitAll /\ ~top.returnAll
          /\ \A v \in Vars : top.kept.val[v][w] = conc[v][w]
      BY <2>1, <2>4, <1>1 DEF Accounted, Parked, IsDone, IsApply
    <3>2. status'[w] = "live" /\ w \in Path'
      BY <2>4, <3>1, <1>1, <1>6 DEF Path, PathCond
    <3>3. \A v \in Vars : store'[v][w] = conc'[v][w]
      BY <3>1, <1>3, <1>6
    <3> QED BY <2>2, <2>4, <3>1, <3>2, <3>3, <1>1, <1>8 DEF Accounted
  <2>5. CASE status[w] # "live" /\ ~(status[w] = "done" /\ at[w] = depth)
    <3>1. status[w] = "wait" => at[w] # depth
      BY <2>1, <1>1 DEF Accounted, Waits
    <3>2. status'[w] = status[w] /\ at'[w] = at[w]
      BY <2>5, <1>6
    <3> QED BY <2>5, <3>1, <3>2, <1>1, <1>6, <1>9, PopStays
  <2> QED BY <2>3, <2>4, <2>5
<1>13. ASSUME NEW w \in Worlds PROVE Claimed(w)' /\ AppliesOnce(w)'
  <2>1. ~IsApply(depth) /\ \A d \in 1 .. depth' : d < depth
    BY <1>1, <1>2, <1>5 DEF IsApply
  <2>2. IsShadow(w) => IsShadow(w)' /\ at'[w] = at[w]
    BY <2>1, <1>1, <1>2, <1>5, <1>6, ParkedAt DEF IsShadow, IsApply
  <2>3. status[w] = "returned" => status'[w] = "returned" /\ at'[w] = at[w]
    BY <1>6
  <2>4. \/ status'[w] = status[w] /\ at'[w] = at[w]
        \/ status[w] # "exited" /\ \A d \in 1 .. depth' : IsApply(d)' => d < at[w]
    BY <1>6, <2>1
  <2> QED BY <1>1, <1>9, <2>2, <2>3, <2>4, SameKeeps, ClaimedStays, AppliesStay
<1> QED BY <1>1, <1>7, <1>8, <1>10, <1>12, <1>13 DEF IInv

LEMMA SwitchEndStep ==
  ASSUME IInv, SwitchEnd, Ref!Enter("done", depth)
  PROVE  IInv'
<1>1. /\ phase = "run" /\ top.kind = "switch" /\ top.last
      /\ store' = MergeVars(top.kept, store)
      /\ exited' = top.exitAll /\ returned' = top.returnAll
      /\ Pop /\ fwd' = fwd
      /\ phase' = phase /\ ret' = ret /\ exitCond' = exitCond
      /\ exits' = exits /\ callee' = callee
  BY DEF SwitchEnd, flow
<1>2. /\ TypeOK /\ depth \in 1 .. MaxDepth /\ top \in Frame
      /\ top.matched = Worlds /\ fwd = top.fwd /\ depth > 1
  <2>1. depth # 1
    BY <1>1, InBlock DEF NestedCalls, IsCall
  <2> QED BY <1>1, <2>1, InBlock DEF Nested, Inside, FrameOK
<1>3. /\ store' \in Store
      /\ \A v \in Vars, w \in Worlds : w \in top.kept.dom =>
           store'[v][w] = top.kept.val[v][w]
  <2>1. store \in Store /\ top.kept \in Partial
    BY <1>2 DEF TypeOK, Frame
  <2> QED BY <1>1, <2>1, MergeVarsType
<1>4. /\ depth' = depth - 1 /\ depth' \in 0 .. MaxDepth
      /\ frames' \in [1 .. MaxDepth -> Frame]
      /\ \A d \in 1 .. depth' : frames'[d] = frames[d]
      /\ \A d \in 1 .. MaxDepth : d > depth' => frames'[d] = NoFrame
  BY <1>1, PopFacts
<1>5. /\ conc' = conc
      /\ status' \in [Worlds -> Ref!Statuses]
      /\ at' \in [Worlds -> 0 .. MaxDepth]
      /\ \A w \in Worlds :
           IF status[w] = "done" /\ at[w] = depth
             THEN status'[w] = "live"
             ELSE status'[w] = status[w] /\ at'[w] = at[w]
  BY <1>2, EnterFacts
<1>6. TypeOK'
  <2>1. exited' \in BOOLEAN /\ returned' \in BOOLEAN
    BY <1>1, <1>2 DEF Frame
  <2> QED BY <1>1, <1>2, <1>3, <1>4, <1>5, <2>1 DEF TypeOK
<1>7. Nested' /\ ~BetweenArms'
  BY <1>1, <1>2, PopNested
<1>8. SameCalls /\ SameApplies
  BY <1>1, <1>2, <1>4 DEF SameCalls, SameApplies, IsCall, IsApply
<1>9. NestedCalls'
  BY <1>1, <1>8, SameCallsNested
<1>11. ASSUME NEW w \in Worlds PROVE Accounted(w)'
  <2>1. Accounted(w) /\ status[w] # "live"
    BY <1>1, InBlock DEF Accounted
  <2>2. CASE status[w] = "done" /\ at[w] = depth
    <3>1. /\ w \in top.fwd /\ w \in ret /\ w \in exitCond
          /\ ~top.exitAll /\ ~top.returnAll /\ w \in top.kept.dom
          /\ \A v \in Vars : top.kept.val[v][w] = conc[v][w]
      BY <2>1, <2>2, <1>1 DEF Accounted, Parked, IsDone, IsApply
    <3>2. status'[w] = "live" /\ w \in Path'
      BY <2>2, <3>1, <1>1, <1>2, <1>5 DEF Path, PathCond
    <3>3. \A v \in Vars : store'[v][w] = conc'[v][w]
      BY <3>1, <1>3, <1>5
    <3>4. w \notin exits'.dom
      BY <2>1, <2>2, <1>1 DEF Accounted
    <3> QED BY <3>1, <3>2, <3>3, <3>4, <1>1, <1>7 DEF Accounted
  <2>3. CASE ~(status[w] = "done" /\ at[w] = depth)
    <3>1. status[w] = "wait" => at[w] # depth
      BY <2>1, <1>1, <1>2 DEF Accounted, Waits
    <3>2. status'[w] = status[w] /\ at'[w] = at[w]
      BY <2>3, <1>5
    <3> QED BY <2>1, <2>3, <3>1, <3>2, <1>1, <1>5, <1>8, PopStays
  <2> QED BY <2>2, <2>3
<1>12. ASSUME NEW w \in Worlds PROVE Claimed(w)' /\ AppliesOnce(w)'
  <2>1. ~IsApply(depth) /\ \A d \in 1 .. depth' : d < depth
    BY <1>1, <1>2, <1>4 DEF IsApply
  <2>2. IsShadow(w) => IsShadow(w)' /\ at'[w] = at[w]
    BY <2>1, <1>1, <1>2, <1>4, <1>5, ParkedAt DEF IsShadow, IsApply
  <2>3. status[w] = "returned" => status'[w] = "returned" /\ at'[w] = at[w]
    BY <1>5
  <2>4. \/ status'[w] = status[w] /\ at'[w] = at[w]
        \/ status[w] # "exited" /\ \A d \in 1 .. depth' : IsApply(d)' => d < at[w]
    BY <1>5, <2>1
  <2> QED BY <1>1, <1>8, <2>2, <2>3, <2>4, SameKeeps, ClaimedStays, AppliesStay
<1> QED BY <1>1, <1>6, <1>7, <1>9, <1>11, <1>12 DEF IInv

LEMMA ArmOpenStep ==
  ASSUME IInv, NEW m \in SUBSET Worlds, NEW isDefault \in BOOLEAN,
         ArmOpen(m, isDefault), m \cap top.matched = {},
         isDefault => m = Worlds \ top.matched,
         NEW S \in SUBSET Worlds, S = m \/ (isDefault /\ S = Worlds),
         Ref!Turn(S, depth)
  PROVE  IInv'
<1> DEFINE g == frames'[depth]
<1>1. /\ phase = "run" /\ top.kind = "switch"
      /\ fwd' = fwd \cap m /\ store' = store
      /\ exited' = exited /\ returned' = returned
      /\ phase' = phase /\ ret' = ret /\ exitCond' = exitCond
      /\ exits' = exits /\ depth' = depth /\ callee' = callee
  BY DEF ArmOpen
<1>2. /\ TypeOK /\ depth \in 1 .. MaxDepth /\ top \in Frame /\ FrameOK(top)
      /\ fwd = top.fwd /\ store = top.old /\ ~exited /\ ~returned
  BY <1>1, InBlock DEF Nested, Inside
<1>3. /\ frames' \in [1 .. MaxDepth -> Frame]
      /\ \A d \in 1 .. MaxDepth : d # depth => frames'[d] = frames[d]
      /\ g.kind = "arm" /\ g.fwd = top.fwd /\ g.cond = m
      /\ g.matched = top.matched \cup m /\ g.last = isDefault /\ g.old = store
      /\ g.kept = top.kept /\ g.exitAll = top.exitAll
      /\ g.returnAll = top.returnAll
  <2>1. frames' = [frames EXCEPT ![depth].kind = "arm", ![depth].cond = m,
                     ![depth].matched = @ \cup m, ![depth].last = isDefault,
                     ![depth].old = store]
    BY DEF ArmOpen
  <2>2. top.matched \cup m \in SUBSET Worlds /\ store \in Store
    BY <1>2 DEF Frame, TypeOK
  <2> QED BY <2>1, <2>2, <1>2 DEF TypeOK, Frame, Kinds
<1> HIDE DEF g
<1>4. FrameOK(g) /\ Inside(g) = fwd \cap m
  BY <1>1, <1>2, <1>3 DEF FrameOK, Inside, Frame
<1>5. /\ conc' = conc
      /\ status' \in [Worlds -> Ref!Statuses]
      /\ at' \in [Worlds -> 0 .. MaxDepth]
      /\ \A w \in Worlds :
           IF status[w] = "live" THEN status'[w] = "done" /\ at'[w] = depth
           ELSE IF status[w] = "wait" /\ at[w] = depth /\ w \in S
             THEN status'[w] = "live"
             ELSE status'[w] = status[w] /\ at'[w] = at[w]
  <2>1. depth \in 0 .. MaxDepth
    BY <1>2
  <2> QED BY <1>2, <2>1, TurnFacts
<1>6. TypeOK'
  <2>1. fwd' \in SUBSET Worlds
    BY <1>1, <1>2 DEF TypeOK
  <2>2. \A d \in 1 .. MaxDepth : d > depth => frames'[d] = NoFrame
    BY <1>2, <1>3 DEF TypeOK
  <2> QED BY <1>1, <1>2, <1>3, <1>5, <2>1, <2>2 DEF TypeOK
<1>7. Nested'
  <2>1. frames'[depth] = g
    BY DEF g
  <2> QED BY <2>1, <1>1, <1>3, <1>4, TopNested
<1>8. SameCalls /\ SameApplies
  BY <1>1, <1>2, <1>3 DEF SameCalls, SameApplies, IsCall, IsApply, g
<1>9. NestedCalls'
  BY <1>1, <1>8, SameCallsNested
<1>10. ASSUME NEW w \in Worlds PROVE Accounted(w)'
  <2>1. Accounted(w) /\ status[w] # "live"
    BY <1>1, InBlock DEF Accounted
  <2>2. CASE status[w] = "wait" /\ at[w] = depth
    <3>1. /\ w \in top.fwd /\ w \notin top.matched /\ w \in ret /\ w \in exitCond
          /\ \A v \in Vars : top.old[v][w] = conc[v][w]
          /\ Parked(w, depth)
      BY <2>1, <2>2, <1>1 DEF Accounted, Parked, Waits
    <3>2. w \notin exits'.dom
      BY <2>1, <2>2, <1>1 DEF Accounted
    <3>3. CASE w \in S
      <4>1. w \in m
        BY <3>1, <3>3
      <4>2. status'[w] = "live" /\ w \in Path'
        BY <2>2, <3>1, <3>3, <4>1, <1>1, <1>2, <1>5 DEF Path, PathCond
      <4>3. ~BetweenArms'
        BY <1>1, <1>3 DEF g
      <4> QED BY <2>2, <3>1, <3>2, <4>2, <4>3, <1>1, <1>2, <1>5 DEF Accounted
    <3>4. CASE w \notin S
      <4>1. status'[w] = "wait" /\ at'[w] = depth
        BY <2>2, <3>4, <1>5
      <4>2. Parked(w, depth)'
        BY <3>1, <1>1, <1>2, <1>3 DEF Parked, g
      <4>3. Waits(w, frames[depth])'
        BY <3>1, <3>4, <1>1, <1>2, <1>3, <1>5 DEF Waits, g
      <4> QED BY <3>2, <4>1, <4>2, <4>3, <1>1 DEF Accounted
    <3> QED BY <3>3, <3>4
  <2>3. CASE status[w] = "done" /\ at[w] = depth
    <3>1. /\ Parked(w, depth) /\ IsDone(w, top)
          /\ w \in top.fwd /\ w \in ret /\ w \in exitCond /\ w \in top.matched
      BY <2>1, <2>3, <1>1 DEF Accounted, Parked, IsDone, IsApply
    <3>2. w \notin exits'.dom
      BY <2>1, <2>3, <1>1 DEF Accounted
    <3>3. status'[w] = "done" /\ at'[w] = depth
      BY <2>3, <1>5
    <3>4. Parked(w, depth)'
      BY <3>1, <1>1, <1>2, <1>3 DEF Parked, g
    <3>5. IsDone(w, frames[depth])' /\ ~IsApply(depth)'
      BY <3>1, <1>1, <1>3, <1>5 DEF IsDone, IsApply, g
    <3> QED BY <3>2, <3>3, <3>4, <3>5, <1>1 DEF Accounted
  <2>4. CASE ~(status[w] \in {"wait", "done"} /\ at[w] = depth)
    <3>1. frames'[depth].fwd = top.fwd
      BY <1>3 DEF g
    <3>2. status'[w] = status[w] /\ at'[w] = at[w]
      BY <2>1, <2>4, <1>5
    <3> QED BY <2>1, <2>4, <3>1, <3>2, <1>1, <1>3, <1>5, <1>8, TopStays
  <2> QED BY <2>2, <2>3, <2>4
<1>11. ASSUME NEW w \in Worlds PROVE Claimed(w)' /\ AppliesOnce(w)'
  <2>1. ~IsApply(depth) /\ ~IsApply(depth)'
    BY <1>1, <1>3 DEF IsApply, g
  <2>2. IsShadow(w) => frames'[at[w]] = frames[at[w]] /\ at[w] # depth
    BY <2>1, <1>1, <1>2, <1>3, ParkedAt DEF IsShadow
  <2>3. IsShadow(w) => IsShadow(w)' /\ at'[w] = at[w]
    BY <2>2, <1>5 DEF IsShadow, IsApply
  <2>4. status[w] = "returned" => status'[w] = "returned" /\ at'[w] = at[w]
    BY <1>5
  <2>5. \A d \in 1 .. depth' : IsApply(d)' => d < depth
    BY <1>1, <1>2, <2>1
  <2>6. \/ status[w] = "live" \/ (status'[w] = status[w] /\ at'[w] = at[w])
        \/ status[w] # "exited" /\ \A d \in 1 .. depth' : IsApply(d)' => d < at[w]
    BY <1>5, <2>5
  <2> QED BY <1>1, <1>8, <2>3, <2>4, <2>6, SameKeeps, ClaimedStays, AppliesStay
<1> QED BY <1>1, <1>6, <1>7, <1>9, <1>10, <1>11 DEF IInv

LEMMA ArmEndStep ==
  ASSUME IInv, ArmEnd, Ref!Leave(Worlds, "done", depth)
  PROVE  IInv'
<1> DEFINE g == frames'[depth]
           k == IF exited \/ returned THEN top.kept
                ELSE AddEarlier(top.kept, top.cond, store)
<1>1. /\ phase = "run" /\ top.kind = "arm"
      /\ ~exited' /\ ~returned' /\ exited' \in BOOLEAN /\ returned' \in BOOLEAN
      /\ store' = top.old /\ fwd' = top.fwd
      /\ phase' = phase /\ ret' = ret /\ exitCond' = exitCond
      /\ exits' = exits /\ depth' = depth /\ callee' = callee
  BY DEF ArmEnd
<1>2. /\ TypeOK
      /\ depth \in 1 .. MaxDepth /\ top \in Frame /\ FrameOK(top)
      /\ fwd = top.fwd \cap top.cond
  BY <1>1, InBlock DEF Nested, Inside
<1>3. /\ k \in Partial /\ k.dom \subseteq top.kept.dom \cup top.cond
      /\ top.kept.dom \subseteq k.dom
      /\ ~exited /\ ~returned => k.dom = top.kept.dom \cup top.cond
      /\ \A v \in Vars, w \in Worlds :
           k.val[v][w] = IF w \in top.kept.dom \/ exited \/ returned
                         THEN top.kept.val[v][w] ELSE store[v][w]
  <2>1. top.kept \in Partial /\ store \in Store /\ top.cond \in SUBSET Worlds
    BY <1>2 DEF TypeOK, Frame
  <2>2. CASE exited \/ returned
    BY <2>1, <2>2
  <2>3. CASE ~(exited \/ returned)
    <3>1. k = AddEarlier(top.kept, top.cond, store)
      BY <2>3
    <3> HIDE DEF k
    <3> QED BY <2>1, <2>3, <3>1, AddEarlierType
  <2> QED BY <2>2, <2>3
<1>4. /\ frames' \in [1 .. MaxDepth -> Frame]
      /\ \A d \in 1 .. MaxDepth : d # depth => frames'[d] = frames[d]
      /\ g.kind = "switch" /\ g.fwd = top.fwd /\ g.cond = top.cond
      /\ g.matched = top.matched /\ g.last = top.last /\ g.old = top.old
      /\ g.kept = k /\ g.exitAll = (top.exitAll /\ exited)
      /\ g.returnAll = (top.returnAll /\ returned)
  <2>1. frames' = [frames EXCEPT ![depth].kind = "switch", ![depth].kept = k,
                     ![depth].exitAll = (@ /\ exited),
                     ![depth].returnAll = (@ /\ returned)]
    BY DEF ArmEnd, LeftByAll
  <2> HIDE DEF k
  <2>2. /\ depth \in 1 .. MaxDepth /\ frames \in [1 .. MaxDepth -> Frame]
        /\ top \in Frame /\ k \in Partial
        /\ exited \in BOOLEAN /\ returned \in BOOLEAN
    BY <1>2, <1>3 DEF TypeOK
  <2>3. g = [top EXCEPT !.kind = "switch", !.kept = k,
                        !.exitAll = (@ /\ exited), !.returnAll = (@ /\ returned)]
    BY <2>1, <2>2
  <2>4. /\ g.kind = "switch" /\ g.fwd = top.fwd /\ g.cond = top.cond
        /\ g.matched = top.matched /\ g.last = top.last /\ g.old = top.old
        /\ g.kept = k /\ g.exitAll = (top.exitAll /\ exited)
        /\ g.returnAll = (top.returnAll /\ returned)
    BY <2>2, <2>3 DEF Frame
  <2>5. g \in Frame
    BY <2>2, <2>3 DEF Frame, Kinds
  <2>6. /\ frames' \in [1 .. MaxDepth -> Frame]
        /\ \A d \in 1 .. MaxDepth : d # depth => frames'[d] = frames[d]
    BY <2>1, <2>2, <2>3, <2>5
  <2> QED BY <2>4, <2>6
<1> HIDE DEF k, g
<1>5. FrameOK(g) /\ Inside(g) = top.fwd
  BY <1>1, <1>2, <1>3, <1>4 DEF FrameOK, Inside
<1>6. /\ conc' = conc
      /\ status' \in [Worlds -> Ref!Statuses]
      /\ at' \in [Worlds -> 0 .. MaxDepth]
      /\ \A w \in Worlds :
           IF status[w] = "live" /\ w \in Worlds
             THEN status'[w] = "done" /\ at'[w] = depth
             ELSE status'[w] = status[w] /\ at'[w] = at[w]
  <2>1. depth \in 0 .. MaxDepth /\ "done" \in Ref!Statuses
    BY <1>2 DEF Ref!Statuses
  <2> QED BY <1>2, <2>1, LeaveFacts
<1>7. TypeOK'
  <2>1. store' \in Store /\ fwd' \in SUBSET Worlds
    BY <1>1, <1>2 DEF Frame
  <2>2. \A d \in 1 .. MaxDepth : d > depth => frames'[d] = NoFrame
    BY <1>2, <1>4 DEF TypeOK
  <2> QED BY <1>1, <1>2, <1>4, <1>6, <2>1, <2>2 DEF TypeOK
<1>8. Nested'
  <2>1. frames'[depth] = g
    BY DEF g
  <2> QED BY <2>1, <1>1, <1>4, <1>5, TopNested
<1>9. SameCalls /\ SameApplies
  BY <1>1, <1>2, <1>4 DEF SameCalls, SameApplies, IsCall, IsApply, g
<1>10. NestedCalls'
  BY <1>1, <1>9, SameCallsNested
<1>11. ASSUME NEW w \in Worlds PROVE Accounted(w)'
  <2>1. Accounted(w)
    BY <1>1, InBlock
  <2>2. status[w] \in {"live", "wait", "done"} =>
          w \notin exits'.dom
    BY <2>1, <1>1 DEF Accounted
  <2>3. CASE status[w] = "live"
    <3>1. /\ w \in top.fwd /\ w \in top.cond /\ w \in ret /\ w \in exitCond
          /\ ~exited /\ ~returned
          /\ \A v \in Vars : store[v][w] = conc[v][w]
      BY <2>1, <2>3, <1>2 DEF Accounted, Path, PathCond
    <3>2. status'[w] = "done" /\ at'[w] = depth
      BY <2>3, <1>6
    <3>3. Parked(w, depth)'
      BY <3>1, <1>1, <1>2, <1>4 DEF Parked, g
    <3>4. w \in top.matched /\ w \notin top.kept.dom
      BY <3>1, <1>1, <1>2 DEF FrameOK
    <3>5. IsDone(w, frames[depth])' /\ ~IsApply(depth)'
      BY <3>1, <3>4, <1>1, <1>3, <1>4, <1>6 DEF IsDone, IsApply, g
    <3> QED BY <2>2, <2>3, <3>2, <3>3, <3>5, <1>1 DEF Accounted
  <2>4. CASE status[w] = "wait" /\ at[w] = depth
    <3>1. Parked(w, depth) /\ Waits(w, top)
      BY <2>1, <2>4 DEF Accounted
    <3>2. Parked(w, depth)'
      BY <3>1, <1>1, <1>2, <1>4 DEF Parked, g
    <3>3. Waits(w, frames[depth])'
      BY <3>1, <1>1, <1>4, <1>6 DEF Waits, g
    <3> QED BY <2>2, <2>4, <3>2, <3>3, <1>1, <1>6 DEF Accounted
  <2>5. CASE status[w] = "done" /\ at[w] = depth
    <3>1. Parked(w, depth) /\ IsDone(w, top)
      BY <2>1, <2>5, <1>1 DEF Accounted, IsApply
    <3>2. Parked(w, depth)'
      BY <3>1, <1>1, <1>2, <1>4 DEF Parked, g
    <3>3. IsDone(w, frames[depth])' /\ ~IsApply(depth)'
      BY <3>1, <1>1, <1>3, <1>4, <1>6 DEF IsDone, IsApply, g
    <3> QED BY <2>2, <2>5, <3>2, <3>3, <1>1, <1>6 DEF Accounted
  <2>6. CASE status[w] # "live" /\ ~(status[w] \in {"wait", "done"} /\ at[w] = depth)
    <3>1. frames'[depth].fwd = top.fwd
      BY <1>4 DEF g
    <3>2. status'[w] = status[w] /\ at'[w] = at[w]
      BY <2>6, <1>6
    <3> QED BY <2>6, <3>1, <3>2, <1>1, <1>4, <1>6, <1>9, TopStays
  <2> QED BY <2>3, <2>4, <2>5, <2>6
<1>12. ASSUME NEW w \in Worlds PROVE Claimed(w)' /\ AppliesOnce(w)'
  <2>1. ~IsApply(depth) /\ ~IsApply(depth)'
    BY <1>1, <1>4 DEF IsApply, g
  <2>2. IsShadow(w) => frames'[at[w]] = frames[at[w]] /\ at[w] # depth
    BY <2>1, <1>1, <1>2, <1>4, ParkedAt DEF IsShadow
  <2>3. IsShadow(w) => IsShadow(w)' /\ at'[w] = at[w]
    BY <2>2, <1>6 DEF IsShadow, IsApply
  <2>4. status[w] = "returned" => status'[w] = "returned" /\ at'[w] = at[w]
    BY <1>6
  <2>5. \A d \in 1 .. depth' : IsApply(d)' => d < depth
    BY <1>1, <1>2, <2>1
  <2>6. \/ status[w] = "live" \/ (status'[w] = status[w] /\ at'[w] = at[w])
        \/ status[w] # "exited" /\ \A d \in 1 .. depth' : IsApply(d)' => d < at[w]
    BY <1>6, <2>5
  <2> QED BY <1>1, <1>9, <2>3, <2>4, <2>6, SameKeeps, ClaimedStays, AppliesStay
<1> QED BY <1>1, <1>7, <1>8, <1>10, <1>11, <1>12 DEF IInv

LEMMA ReturnStep ==
  ASSUME IInv, ReturnStatement, Ref!Leave(Worlds, "returned", callee)
  PROVE  IInv'
<1> DEFINE g == frames[callee]
           k == AddEarlier(g.kept, Path, store)
<1>1. /\ phase = "run" /\ ~BetweenArms /\ ~IsApply(depth) /\ ~exited
      /\ ret' = ret \ PathCond /\ returned' = TRUE
      /\ phase' = phase /\ fwd' = fwd /\ exitCond' = exitCond
      /\ exits' = exits /\ store' = store /\ exited' = exited
      /\ depth' = depth /\ callee' = callee
  BY DEF ReturnStatement, NextStatement, InBody, IsApply, flow, Path
<1>2. \A w \in Worlds : /\ status[w] = "live" => w \in Path
                        /\ w \in Path => status[w] = "live" \/ IsShadow(w)
  BY <1>1, PathLive
<1>3. /\ TypeOK /\ Nested /\ NestedCalls /\ conc' = conc
      /\ status' \in [Worlds -> Ref!Statuses]
      /\ at' \in [Worlds -> 0 .. MaxDepth]
      /\ \A w \in Worlds :
           IF status[w] = "live"
             THEN status'[w] = "returned" /\ at'[w] = callee
             ELSE status'[w] = status[w] /\ at'[w] = at[w]
  BY <1>1, InBlock, LeaveFacts DEF Ref!Statuses, TypeOK
<1>4. /\ k \in Partial
      /\ k.dom = g.kept.dom \cup Path
      /\ \A v \in Vars, w \in Worlds :
           k.val[v][w] = IF w \in g.kept.dom THEN g.kept.val[v][w]
                         ELSE store[v][w]
  <2>1. Path \in SUBSET Worlds /\ g.kept \in Partial /\ store \in Store
    BY <1>1, InBlock DEF TypeOK, Path, PathCond, Frame
  <2> QED BY <2>1, AddEarlierType
<1> HIDE DEF k
<1>5. g \in Frame /\ g.kind = "call" /\ callee \in 1 .. depth /\ callee \in 1 .. MaxDepth
      /\ depth \in 1 .. MaxDepth /\ frames \in [1 .. MaxDepth -> Frame]
  BY <1>1, InBlock DEF TypeOK, NestedCalls, IsCall
<1>6. /\ frames' \in [1 .. MaxDepth -> Frame]
      /\ \A d \in 1 .. MaxDepth : d # callee => frames'[d] = frames[d]
      /\ frames'[callee].kept = k
  <2>1. frames' = [frames EXCEPT ![callee].kept = k]
    BY DEF ReturnStatement, k, Path
  <2> QED BY <2>1, <1>4, <1>5, KeepFacts
<1>7. \A d \in 1 .. MaxDepth :
        /\ frames'[d].kind = frames[d].kind /\ frames'[d].fwd = frames[d].fwd
        /\ frames'[d].cond = frames[d].cond /\ frames'[d].ret = frames[d].ret
        /\ frames'[d].matched = frames[d].matched
        /\ frames'[d].last = frames[d].last /\ frames'[d].old = frames[d].old
        /\ frames'[d].caller = frames[d].caller
  <2>1. frames' = [frames EXCEPT ![callee].kept = k]
    BY DEF ReturnStatement, k, Path
  <2> QED BY <2>1, <1>4, <1>5, KeepFacts
<1> HIDE DEF g
<1>8. TypeOK'
  <2>1. ret' \in SUBSET Worlds
    BY <1>1, <1>3 DEF TypeOK
  <2>2. \A d \in 1 .. MaxDepth : d > depth => frames'[d] = NoFrame
    BY <1>3, <1>5, <1>6 DEF TypeOK
  <2> QED BY <1>1, <1>3, <1>6, <2>1, <2>2 DEF TypeOK
<1>9. ret' = ret \ fwd
  BY <1>1, <1>3 DEF PathCond, TypeOK
<1>10. \A d \in 1 .. depth : Inside(frames'[d]) = Inside(frames[d])
  BY <1>5, <1>7, InsideEq
<1>11. Nested'
  <2>1. \A d \in 1 .. depth : FrameOK(frames'[d])
    <3>1. TAKE d \in 1 .. depth
    <3>2. CASE d = callee
      BY <3>2, <1>3, <1>5, <1>7 DEF Nested, FrameOK, g
    <3>3. CASE d # callee
      BY <3>3, <1>3, <1>5, <1>6 DEF Nested
    <3> QED BY <3>2, <3>3
  <2>2. fwd' = Inside(frames'[depth]) /\ frames'[depth].kind = top.kind
    <3>1. fwd = Inside(frames[depth])
      BY <1>1, <1>3 DEF Nested
    <3>2. Inside(frames'[depth]) = Inside(frames[depth])
      BY <1>5, <1>10
    <3>3. frames'[depth].kind = frames[depth].kind
      BY <1>5, <1>7
    <3> QED BY <1>1, <3>1, <3>2, <3>3
  <2>3. ASSUME NEW d \in 1 .. depth - 1
        PROVE  /\ frames'[d].kind \notin {"switch", "table"}
               /\ frames'[d + 1].fwd = Inside(frames'[d])
               /\ IsApply(d)' => IsCall(d + 1)'
    <3>1. d \in 1 .. depth /\ d + 1 \in 1 .. depth /\ d + 1 \in 1 .. MaxDepth
      BY <1>5
    <3>2. /\ frames[d].kind \notin {"switch", "table"}
          /\ frames[d + 1].fwd = Inside(frames[d])
          /\ IsApply(d) => IsCall(d + 1)
      BY <1>3 DEF Nested
    <3> QED BY <3>1, <3>2, <1>5, <1>7, <1>10 DEF IsApply, IsCall
  <2>4. ASSUME NEW d \in 1 .. depth, NEW e \in 1 .. depth, e <= d
        PROVE  frames'[d].fwd \subseteq frames'[e].fwd
    <3>1. frames[d].fwd \subseteq frames[e].fwd
      BY <2>4, <1>3 DEF Nested
    <3>2. frames'[d].fwd = frames[d].fwd /\ frames'[e].fwd = frames[e].fwd
      BY <1>5, <1>7
    <3> QED BY <3>1, <3>2
  <2>5. ~BetweenArms' /\ ~IsApply(depth)'
    BY <1>1, <2>2 DEF IsApply
  <2> QED BY <1>1, <1>5, <2>1, <2>2, <2>3, <2>4, <2>5 DEF Nested
<1>12. NestedCalls'
  <2>1. \A e \in 1 .. depth : IsCall(e)' <=> IsCall(e)
    BY <1>5, <1>7 DEF IsCall
  <2>2. /\ IsCall(1)' /\ frames'[1].fwd = Worlds /\ frames'[1].ret = Worlds
        /\ IsCall(callee)'
        /\ \A d \in 1 .. depth : d > callee => ~IsCall(d)'
    <3>1. /\ IsCall(1) /\ frames[1].fwd = Worlds /\ frames[1].ret = Worlds
          /\ callee \in 1 .. depth /\ IsCall(callee)
          /\ \A d \in 1 .. depth : d > callee => ~IsCall(d)
      BY <1>3 DEF NestedCalls
    <3>2. /\ frames'[1].kind = frames[1].kind
          /\ frames'[1].fwd = frames[1].fwd /\ frames'[1].ret = frames[1].ret
      <4>1. 1 \in 1 .. MaxDepth
        BY <1>5
      <4> QED BY <4>1, <1>7
    <3>3. IsCall(callee)'
      BY <3>1, <1>1, <1>5, <1>7 DEF IsCall
    <3>4. IsCall(1)'
      BY <3>1, <3>2 DEF IsCall
    <3> QED BY <2>1, <3>1, <3>2, <3>3, <3>4
  <2>3. ASSUME NEW d \in 1 .. depth, IsCall(d)
        PROVE  /\ frames'[d].caller \in 0 .. d - 1
               /\ frames'[d].caller = 0 <=> d = 1
               /\ d > 1 => IsCall(frames[d].caller)'
               /\ ret' \subseteq frames'[d].ret
               /\ \A e \in 1 .. depth : IsCall(e) /\ e < d =>
                    e <= frames'[d].caller /\ frames'[d].ret \subseteq frames'[e].ret
    <3>1. /\ frames[d].caller \in 0 .. d - 1
          /\ frames[d].caller = 0 <=> d = 1
          /\ d > 1 => IsCall(frames[d].caller)
          /\ ret \subseteq frames[d].ret
          /\ \A e \in 1 .. depth : IsCall(e) /\ e < d =>
               e <= frames[d].caller /\ frames[d].ret \subseteq frames[e].ret
      BY <2>3, <1>3 DEF NestedCalls
    <3>2. d > 1 => frames[d].caller \in 1 .. depth
      BY <3>1, <1>5
    <3>3. frames'[d].caller = frames[d].caller /\ frames'[d].ret = frames[d].ret
      BY <1>5, <1>7
    <3>4. d > 1 => IsCall(frames[d].caller)'
      BY <3>1, <3>2, <3>3, <1>5, <1>7 DEF IsCall
    <3>5. \A e \in 1 .. depth : frames'[e].ret = frames[e].ret
      BY <1>5, <1>7
    <3> QED BY <3>1, <3>3, <3>4, <3>5, <1>9
  <2>4. \A d \in 1 .. depth : IsCall(d)' =>
          /\ frames'[d].caller \in 0 .. d - 1
          /\ frames'[d].caller = 0 <=> d = 1
          /\ d > 1 => IsCall(frames[d].caller)'
          /\ ret' \subseteq frames'[d].ret
          /\ \A e \in 1 .. depth : IsCall(e)' /\ e < d =>
               e <= frames'[d].caller /\ frames'[d].ret \subseteq frames'[e].ret
    BY <2>1, <2>3
  <2> QED BY <1>1, <1>5, <2>2, <2>4 DEF NestedCalls
<1>13. \A d \in 1 .. depth : d # callee => frames'[d].kept = frames[d].kept
  BY <1>5, <1>6
<1>14. SameApplies
  BY <1>1, <1>5, <1>7 DEF SameApplies, IsApply
<1>15. ASSUME NEW w \in Worlds, IsShadow(w)
       PROVE  at[w] \in 1 .. depth - 1 /\ at[w] < callee
  <2>1. at[w] \in 1 .. depth /\ IsApply(at[w])
    BY <1>1, <1>15, ParkedAt DEF IsShadow
  <2>2. at[w] \in 1 .. depth - 1 /\ IsCall(at[w] + 1)
    BY <2>1, <1>1, <1>3, <1>5 DEF Nested
  <2> QED BY <2>2, <1>3, <1>5 DEF NestedCalls
<1>16. ASSUME NEW w \in Worlds PROVE Accounted(w)'
  <2>1. Accounted(w)
    BY <1>1, InBlock
  <2>2. CASE status[w] = "live"
    <3>1. w \in Path /\ w \in fwd /\ w \in ret /\ w \in exitCond
      BY <2>2, <1>2 DEF Path, PathCond
    <3>2. \A d \in 1 .. depth : IsCall(d) => w \notin frames[d].kept.dom
      BY <2>2, <1>1, Unclaimed DEF IsShadow
    <3>3. w \in g.fwd /\ w \in g.ret
      <4>1. w \in g.ret
        BY <3>1, <1>3, <1>5 DEF NestedCalls, IsCall, g
      <4>2. w \in top.fwd
        BY <3>1, <1>3 DEF Nested, Inside
      <4> QED BY <4>1, <4>2, <1>3, <1>5 DEF Nested, g
    <3>4. HasReturned(w, callee)'
      <4>1. \A e \in 1 .. depth : e > callee => ~IsCall(e)
        BY <1>3 DEF NestedCalls
      <4>2. \A v \in Vars : k.val[v][w] = conc[v][w]
        BY <1>4, <1>5, <2>1, <2>2, <3>2 DEF Accounted, IsCall, g
      <4>3. w \in k.dom
        BY <1>4, <3>1
      <4> QED BY <1>1, <1>3, <1>5, <1>6, <1>7, <1>9, <3>1, <3>3, <4>1, <4>2, <4>3
              DEF HasReturned, IsCall, g
    <3> QED BY <2>1, <2>2, <1>1, <1>3, <3>4 DEF Accounted
  <2>3. CASE status[w] # "live"
    <3>1. status'[w] = status[w] /\ at'[w] = at[w] /\ (w \in Path => IsShadow(w))
      BY <2>3, <1>2, <1>3
    <3>2. \A d \in 1 .. depth : w \in frames[d].kept.dom =>
            /\ w \in frames'[d].kept.dom
            /\ \A v \in Vars :
                 frames'[d].kept.val[v][w] = frames[d].kept.val[v][w]
      <4>1. TAKE d \in 1 .. depth
      <4>2. CASE d = callee
        BY <4>2, <1>4, <1>6 DEF g
      <4>3. CASE d # callee
        BY <4>3, <1>13
      <4> QED BY <4>2, <4>3
    <3>3. ~IsShadow(w) /\ w \in ret /\ w \in exitCond => w \notin fwd
      BY <3>1 DEF Path, PathCond
    <3>4. ASSUME NEW d, Parked(w, d), ~IsShadow(w) PROVE Parked(w, d)'
      <4>1. d \in 1 .. depth /\ w \in ret' /\ w \in exitCond'
        BY <3>3, <3>4, <1>1, <1>9 DEF Parked
      <4> QED BY <4>1, <3>4, <1>1, <1>5, <1>7 DEF Parked
    <3>5. w \in exits'.dom <=> status'[w] = "exited"
      BY <2>1, <3>1, <1>1 DEF Accounted
    <3>6. CASE status[w] = "wait"
      <4>1. /\ Parked(w, at[w]) /\ Waits(w, frames[at[w]])
            /\ Parked(w, at[w])' /\ at[w] \in 1 .. depth
        BY <2>1, <3>1, <3>4, <3>6 DEF Accounted, IsShadow, Parked
      <4>2. frames'[at[w]] = frames[at[w]]
        BY <4>1, <1>5, <1>6 DEF Waits, g
      <4>3. Waits(w, frames[at[w]])'
        BY <4>1, <4>2, <3>1, <1>3 DEF Waits
      <4> QED BY <3>1, <3>5, <3>6, <4>1, <4>3 DEF Accounted
    <3>7. CASE status[w] = "done"
      <4>1. IsDone(w, frames[at[w]]) /\ at[w] \in 1 .. depth
        BY <2>1, <3>7, <1>1, ParkedAt DEF Accounted
      <4>2. frames'[at[w]] = frames[at[w]]
        BY <4>1, <1>5, <1>6 DEF IsDone, g
      <4>3. IsDone(w, frames[at[w]])' /\ (IsApply(at[w])' <=> IsApply(at[w]))
        BY <4>1, <4>2, <3>1, <1>3 DEF IsDone, IsApply
      <4>4. CASE IsApply(at[w])
        <5>1. at[w] \in 1 .. depth - 1 /\ Shadowed(w, at[w])
          BY <3>7, <4>4, <1>1, <1>15, ParkedAt DEF IsShadow
        <5>2. at[w] + 1 \in 1 .. MaxDepth
          BY <5>1, <1>5
        <5>3. Shadowed(w, at[w])'
          BY <5>1, <5>2, <4>1, <3>1, <1>1, <1>5, <1>7 DEF Shadowed
        <5> QED BY <3>1, <3>5, <3>7, <4>3, <4>4, <5>3 DEF Accounted
      <4>5. CASE ~IsApply(at[w])
        <5>1. Parked(w, at[w])'
          BY <2>1, <3>1, <3>4, <3>7, <4>5 DEF Accounted, IsShadow
        <5> QED BY <3>1, <3>5, <3>7, <4>3, <4>5, <5>1 DEF Accounted
      <4> QED BY <4>4, <4>5
    <3>8. CASE status[w] = "returned"
      <4>1. HasReturned(w, at[w]) /\ at[w] \in 1 .. depth
        BY <2>1, <3>8 DEF Accounted, HasReturned
      <4>2. /\ IsCall(at[w])' /\ frames'[at[w]].fwd = frames[at[w]].fwd
            /\ frames'[at[w]].ret = frames[at[w]].ret
            /\ w \in frames'[at[w]].kept.dom
            /\ \A v \in Vars :
                 frames'[at[w]].kept.val[v][w] = frames[at[w]].kept.val[v][w]
        <5>1. /\ IsCall(at[w]) /\ w \in frames[at[w]].kept.dom
              /\ at[w] \in 1 .. MaxDepth
          BY <4>1, <1>5 DEF HasReturned
        <5>2. /\ frames'[at[w]].kind = frames[at[w]].kind
              /\ frames'[at[w]].fwd = frames[at[w]].fwd
              /\ frames'[at[w]].ret = frames[at[w]].ret
          BY <5>1, <1>7
        <5>3. /\ w \in frames'[at[w]].kept.dom
              /\ \A v \in Vars :
                   frames'[at[w]].kept.val[v][w] = frames[at[w]].kept.val[v][w]
          BY <4>1, <5>1, <3>2
        <5> QED BY <3>1, <5>1, <5>2, <5>3 DEF IsCall
      <4>3. \A e \in 1 .. depth :
              IsCall(e)' /\ e > at[w] => w \notin frames'[e].ret
        BY <4>1, <1>5, <1>7 DEF HasReturned, IsCall
      <4>4. HasReturned(w, at[w])'
        BY <4>1, <4>2, <4>3, <3>1, <1>1, <1>3, <1>9 DEF HasReturned
      <4> QED BY <3>1, <3>5, <3>8, <4>4 DEF Accounted
    <3>9. CASE status[w] = "exited"
      BY <2>1, <3>1, <3>5, <3>9, <1>1, <1>3 DEF Accounted
    <3>10. status[w] \in {"wait", "done", "returned", "exited"}
      BY <2>3, <1>3 DEF TypeOK, Ref!Statuses
    <3> QED BY <3>6, <3>7, <3>8, <3>9, <3>10
  <2> QED BY <2>2, <2>3
<1>17. ASSUME NEW w \in Worlds PROVE Claimed(w)'
  <2> SUFFICES ASSUME NEW d \in 1 .. depth, IsCall(d), w \in frames'[d].kept.dom
               PROVE  \/ status'[w] = "returned" /\ at'[w] = d
                      \/ IsShadow(w)' /\ at'[w] < d
    BY <1>1, <1>5, <1>7 DEF Claimed, IsCall
  <2>1. IsShadow(w) => IsShadow(w)' /\ at'[w] = at[w]
    <3>1. IsShadow(w) => at[w] \in 1 .. MaxDepth
      BY <1>5, <1>15
    <3> QED BY <3>1, <1>3, <1>7 DEF IsShadow, IsApply
  <2>2. CASE w \in frames[d].kept.dom
    <3>1. (status[w] = "returned" /\ at[w] = d) \/ (IsShadow(w) /\ at[w] < d)
      BY <2>2, <1>1, InBlock DEF Claimed
    <3> QED BY <3>1, <2>1, <1>3
  <2>3. CASE w \notin frames[d].kept.dom
    <3>1. d = callee /\ w \in Path
      BY <2>3, <1>4, <1>6, <1>13 DEF g
    <3> QED BY <3>1, <2>1, <1>2, <1>3, <1>15
  <2> QED BY <2>2, <2>3
<1>18. ASSUME NEW w \in Worlds PROVE AppliesOnce(w)'
  BY <1>1, <1>3, <1>14, AppliesStay
<1> QED BY <1>1, <1>8, <1>11, <1>12, <1>16, <1>17, <1>18 DEF IInv

LEMMA CallStep ==
  ASSUME IInv, Call, UNCHANGED refVars
  PROVE  IInv'
<1> DEFINE f == NewScope
<1>1. /\ phase = "run" /\ ~BetweenArms /\ ~IsApply(depth) /\ ~exited /\ ~returned
      /\ Push(f) /\ callee' = depth + 1
      /\ phase' = phase /\ fwd' = fwd /\ store' = store /\ ret' = ret
      /\ exitCond' = exitCond /\ exits' = exits /\ exited' = exited
      /\ returned' = returned
      /\ conc' = conc /\ status' = status /\ at' = at
  BY DEF Call, NextStatement, InBody, IsApply, flow, refVars
<1>2. TypeOK /\ NestedCalls /\ callee \in 1 .. depth
  BY <1>1, InBlock
<1>3. /\ f \in Frame /\ f.kind = "call" /\ f.fwd = fwd /\ f.ret = ret
      /\ f.caller = callee /\ ~f.last /\ f.kept.dom = {}
  BY <1>2, NoFrameType, NothingType DEF TypeOK, NewScope, NoFrame, Frame, Kinds
<1> HIDE DEF f
<1>4. FrameOK(f) /\ Inside(f) = fwd
  BY <1>3 DEF FrameOK, Inside
<1>5. /\ depth' = depth + 1 /\ depth' \in 1 .. MaxDepth /\ depth \in 1 .. MaxDepth
      /\ frames' \in [1 .. MaxDepth -> Frame]
      /\ frames'[depth'] = f
      /\ \A d \in 1 .. depth : frames'[d] = frames[d]
      /\ \A d \in 1 .. MaxDepth : d > depth' => frames'[d] = NoFrame
  BY <1>1, <1>3, PushFacts, InBlock
<1>6. TypeOK'
  BY <1>1, <1>2, <1>5 DEF TypeOK
<1>7. Nested'
  BY <1>1, <1>3, <1>4, PushNested
<1>8. NestedCalls'
  BY <1>1, <1>3, <1>5, OpenCallNested DEF IsCall
<1>9. KeepsCalls /\ SameApplies
  BY <1>1, <1>3, <1>5 DEF KeepsCalls, SameApplies, IsCall, IsApply
<1>10. ASSUME NEW w \in Worlds PROVE Accounted(w)'
  <2>1. CASE status[w] = "live"
    <3>1. Accounted(w)
      BY <1>1, InBlock
    <3> QED BY <2>1, <3>1, <1>1, <1>3, <1>5 DEF Accounted, Path, PathCond
  <2>2. CASE status[w] # "live"
    <3>1. status[w] \in {"wait", "done"} =>
            /\ frames'[at[w]] = frames[at[w]]
            /\ IsShadow(w) => at[w] < depth
      BY <1>1, <1>5, ParkedAt DEF IsShadow
    <3>2. status[w] \in {"wait", "done"} =>
            (~IsShadow(w) /\ Parked(w, at[w]) => Parked(w, at[w])')
      BY <1>1, <1>3, PushParked
    <3> QED BY <2>2, <3>1, <3>2, <1>1, <1>9, StaysAccounted
  <2> QED BY <2>1, <2>2
<1>11. ASSUME NEW w \in Worlds PROVE Claimed(w)' /\ AppliesOnce(w)'
  <2>1. IsShadow(w) => IsShadow(w)' /\ at'[w] = at[w]
    BY <1>1, <1>5, ParkedAt DEF IsShadow, IsApply
  <2> QED BY <1>1, <1>9, <2>1, ClaimedStays, AppliesStay
<1> QED BY <1>1, <1>6, <1>7, <1>8, <1>10, <1>11 DEF IInv

LEMMA CallEndStep ==
  ASSUME MixedCallees = FALSE, IInv, CallEnd, Ref!Enter("returned", depth)
  PROVE  IInv'
<1>1. /\ phase = "run" /\ top.kind = "call" /\ depth > 1
      /\ ~exited \/ top.kept.dom = {}
      /\ store' = MergeVars(top.kept, store)
      /\ ret' = top.ret /\ ~returned' /\ returned' \in BOOLEAN
      /\ callee' = top.caller /\ Pop /\ fwd' = fwd
      /\ phase' = phase /\ exitCond' = exitCond /\ exits' = exits
      /\ exited' = exited
  <2>1. /\ phase = "run" /\ top.kind = "call" /\ depth > 1
        /\ ~exited \/ top.kept.dom = {}
        /\ store' = MergeVars(top.kept, store)
        /\ ret' = top.ret /\ returned' = FALSE
        /\ callee' = top.caller /\ Pop
        /\ UNCHANGED <<phase, fwd, exitCond, exits, exited>>
    BY DEF CallEnd, ReturnsToCaller, flow
  <2>2. ~returned' /\ returned' \in BOOLEAN
    BY <2>1
  <2> QED BY <2>1, <2>2
<1>2. /\ TypeOK /\ NestedCalls /\ depth \in 1 .. MaxDepth /\ top \in Frame
      /\ fwd = top.fwd /\ callee = depth
  <2>1. callee = depth
    BY <1>1, InBlock DEF NestedCalls, IsCall
  <2> QED BY <2>1, <1>1, InBlock DEF Nested, Inside
<1>3. /\ store' \in Store
      /\ \A v \in Vars, w \in Worlds : store'[v][w] =
           IF w \in top.kept.dom THEN top.kept.val[v][w] ELSE store[v][w]
  <2>1. store \in Store /\ top.kept \in Partial
    BY <1>2 DEF TypeOK, Frame
  <2> QED BY <1>1, <2>1, MergeVarsType
<1>4. /\ depth' = depth - 1 /\ depth' \in 1 .. MaxDepth
      /\ frames' \in [1 .. MaxDepth -> Frame]
      /\ \A d \in 1 .. depth' : frames'[d] = frames[d]
      /\ \A d \in 1 .. MaxDepth : d > depth' => frames'[d] = NoFrame
  BY <1>1, <1>2, PopFacts
<1>5. /\ conc' = conc
      /\ status' \in [Worlds -> Ref!Statuses]
      /\ at' \in [Worlds -> 0 .. MaxDepth]
      /\ \A w \in Worlds :
           IF status[w] = "returned" /\ at[w] = depth
             THEN status'[w] = "live"
             ELSE status'[w] = status[w] /\ at'[w] = at[w]
  BY <1>2, EnterFacts
<1>6. TypeOK'
  <2>1. ret' \in SUBSET Worlds /\ callee' \in 0 .. MaxDepth
    BY <1>1, <1>2 DEF Frame
  <2> QED BY <1>1, <1>2, <1>3, <1>4, <1>5, <2>1 DEF TypeOK
<1>7. Nested' /\ ~BetweenArms'
  BY <1>1, <1>2, PopNested
<1>8. SameApplies
  BY <1>2, <1>4 DEF SameApplies, IsApply
<1>9. \A e \in 1 .. depth' : e \in 1 .. depth /\ e < depth /\ (IsCall(e)' <=> IsCall(e))
  BY <1>2, <1>4 DEF IsCall
<1>10. /\ top.caller \in 1 .. depth' /\ IsCall(top.caller)
       /\ ret \subseteq top.ret
       /\ \A e \in 1 .. depth' : IsCall(e) =>
            e <= top.caller /\ top.ret \subseteq frames[e].ret
  <2>1. IsCall(depth)
    BY <1>1 DEF IsCall
  <2> QED BY <2>1, <1>1, <1>2, <1>4, <1>9 DEF NestedCalls
<1>11. NestedCalls'
  <2>1. /\ IsCall(1)' /\ frames'[1].fwd = Worlds /\ frames'[1].ret = Worlds
    BY <1>1, <1>2, <1>4 DEF NestedCalls, IsCall
  <2>2. callee' \in 1 .. depth' /\ IsCall(callee)'
    BY <1>1, <1>4, <1>10 DEF IsCall
  <2>3. \A d \in 1 .. depth' : d > callee' => ~IsCall(d)'
    BY <1>1, <1>9, <1>10, <1>2
  <2>4. ASSUME NEW d \in 1 .. depth', IsCall(d)'
        PROVE  /\ frames'[d].caller \in 0 .. d - 1
               /\ frames'[d].caller = 0 <=> d = 1
               /\ d > 1 => IsCall(frames[d].caller)'
               /\ ret' \subseteq frames'[d].ret
               /\ \A e \in 1 .. depth' : IsCall(e)' /\ e < d =>
                    e <= frames'[d].caller /\ frames'[d].ret \subseteq frames'[e].ret
    <3>1. d \in 1 .. depth /\ IsCall(d) /\ frames'[d] = frames[d]
      BY <2>4, <1>4, <1>9
    <3>2. /\ frames[d].caller \in 0 .. d - 1
          /\ frames[d].caller = 0 <=> d = 1
          /\ d > 1 => IsCall(frames[d].caller)
      BY <3>1, <1>2 DEF NestedCalls
    <3>3. d > 1 => IsCall(frames[d].caller)'
      BY <3>1, <3>2, <1>4 DEF IsCall
    <3>4. \A e \in 1 .. depth' : IsCall(e)' /\ e < d =>
            e <= frames'[d].caller /\ frames'[d].ret \subseteq frames'[e].ret
      BY <3>1, <1>2, <1>4, <1>9 DEF NestedCalls
    <3> QED BY <2>4, <3>1, <3>2, <3>3, <3>4, <1>1, <1>10
  <2> QED BY <2>1, <2>2, <2>3, <2>4 DEF NestedCalls
<1>12. ASSUME NEW w \in Worlds PROVE Accounted(w)'
  <2>1. Accounted(w) /\ IsCall(depth)
    BY <1>1, InBlock DEF IsCall
  <2>2. CASE status[w] = "live"
    <3>1. /\ w \in fwd /\ w \in ret' /\ w \in exitCond /\ ~exited
          /\ w \notin exits.dom
          /\ \A v \in Vars : store[v][w] = conc[v][w]
      BY <2>1, <2>2, <1>1, <1>2, <1>10 DEF Accounted, Path, PathCond
    <3>2. w \notin top.kept.dom
      BY <2>1, <2>2, <1>1, <1>2, Unclaimed DEF IsShadow
    <3>3. status'[w] = "live" /\ w \in Path'
      BY <2>2, <3>1, <1>1, <1>5 DEF Path, PathCond
    <3>4. \A v \in Vars : store'[v][w] = conc'[v][w]
      BY <3>1, <3>2, <1>3, <1>5
    <3> QED BY <2>2, <3>1, <3>3, <3>4, <1>1, <1>7 DEF Accounted
  <2>3. CASE status[w] = "returned" /\ at[w] = depth
    <3>1. /\ w \in exitCond /\ w \in top.fwd /\ w \in top.ret
          /\ w \in top.kept.dom /\ w \notin exits.dom
          /\ \A v \in Vars : top.kept.val[v][w] = conc[v][w]
      BY <2>1, <2>3 DEF Accounted, HasReturned
    <3>2. status'[w] = "live" /\ w \in Path' /\ ~exited
      BY <2>3, <3>1, <1>1, <1>2, <1>5 DEF Path, PathCond
    <3>3. \A v \in Vars : store'[v][w] = conc'[v][w]
      BY <3>1, <1>3, <1>5
    <3> QED BY <2>3, <3>1, <3>2, <3>3, <1>1, <1>7 DEF Accounted
  <2>4. CASE status[w] \in {"wait", "done"}
    <3>1. status'[w] = status[w] /\ at'[w] = at[w] /\ at[w] \in 1 .. depth
      BY <2>1, <2>4, <1>1, <1>5, ParkedAt
    <3>2. at[w] # depth
      BY <2>1, <2>4, <1>1 DEF Accounted, Waits, IsDone
    <3>3. at[w] \in 1 .. depth' /\ frames'[at[w]] = frames[at[w]]
      BY <3>1, <3>2, <1>2, <1>4
    <3>4. Parked(w, at[w]) => Parked(w, at[w])'
      BY <3>1, <3>3, <1>1, <1>2, <1>4, <1>10 DEF Parked
    <3>5. ASSUME Shadowed(w, at[w]) PROVE Shadowed(w, at[w])'
      <4>1. w \in frames[at[w]].fwd /\ w \in exitCond /\ w \in frames[at[w] + 1].ret
        BY <3>2, <3>5 DEF Shadowed
      <4>2. CASE at[w] = depth'
        BY <4>1, <4>2, <3>1, <3>3, <1>1, <1>2, <1>4 DEF Shadowed
      <4>3. CASE at[w] # depth'
        <5>1. at[w] + 1 \in 1 .. depth'
          BY <4>3, <3>3, <1>4
        <5> QED BY <4>1, <4>3, <5>1, <3>1, <3>3, <1>1, <1>4 DEF Shadowed
      <4> QED BY <4>2, <4>3
    <3>6. /\ status[w] = "wait" => Waits(w, frames[at[w]])'
          /\ status[w] = "done" => IsDone(w, frames[at[w]])'
          /\ IsApply(at[w])' <=> IsApply(at[w])
      BY <2>1, <3>1, <3>3, <1>5 DEF Accounted, Waits, IsDone, IsApply
    <3> QED BY <2>1, <2>4, <3>1, <3>4, <3>5, <3>6, <1>1 DEF Accounted
  <2>5. CASE status[w] = "returned" /\ at[w] # depth
    <3>1. HasReturned(w, at[w]) /\ status'[w] = status[w] /\ at'[w] = at[w]
      BY <2>1, <2>5, <1>5 DEF Accounted
    <3>2. /\ at[w] \in 1 .. depth' /\ frames'[at[w]] = frames[at[w]]
          /\ at[w] \in 1 .. depth /\ IsCall(at[w])
      BY <3>1, <2>5, <1>2, <1>4 DEF HasReturned
    <3>3. w \notin top.ret
      BY <3>1, <3>2, <2>1, <2>5, <1>2 DEF HasReturned
    <3>4. \A e \in 1 .. depth' : IsCall(e)' /\ e > at[w] => w \notin frames'[e].ret
      BY <3>1, <1>4, <1>9 DEF HasReturned
    <3>5. HasReturned(w, at[w])'
      BY <3>1, <3>2, <3>3, <3>4, <1>1, <1>5 DEF HasReturned, IsCall
    <3> QED BY <2>1, <2>5, <3>1, <3>5, <1>1 DEF Accounted
  <2>6. CASE status[w] = "exited"
    BY <2>1, <2>6, <1>1, <1>5 DEF Accounted
  <2> QED BY <2>2, <2>3, <2>4, <2>5, <2>6, <1>2 DEF TypeOK, Ref!Statuses
<1>13. ASSUME NEW w \in Worlds PROVE Claimed(w)' /\ AppliesOnce(w)'
  <2>1. IsShadow(w) => IsShadow(w)' /\ at'[w] = at[w]
    <3>1. IsShadow(w) => at[w] \in 1 .. depth /\ at[w] # depth
      BY <1>1, ParkedAt DEF IsShadow, IsApply
    <3> QED BY <3>1, <1>2, <1>4, <1>5 DEF IsShadow, IsApply
  <2>2. ASSUME NEW d \in 1 .. depth', IsCall(d)', w \in frames'[d].kept.dom
        PROVE  (status'[w] = "returned" /\ at'[w] = d) \/ (IsShadow(w)' /\ at'[w] < d)
    <3>1. d \in 1 .. depth /\ d # depth /\ IsCall(d) /\ w \in frames[d].kept.dom
      BY <2>2, <1>2, <1>4, <1>9
    <3>2. (status[w] = "returned" /\ at[w] = d) \/ (IsShadow(w) /\ at[w] < d)
      BY <3>1, <1>1, InBlock DEF Claimed
    <3> QED BY <3>1, <3>2, <2>1, <1>5
  <2>3. \/ status'[w] = status[w] /\ at'[w] = at[w]
        \/ status[w] # "exited" /\ \A d \in 1 .. depth' : IsApply(d)' => d < at[w]
    BY <1>2, <1>4, <1>5
  <2> QED BY <1>1, <1>8, <2>2, <2>3, AppliesStay DEF Claimed
<1> QED BY <1>1, <1>6, <1>7, <1>11, <1>12, <1>13 DEF IInv

LEMMA BlockBeginStep ==
  ASSUME IInv, RefBegin
  PROVE  IInv'
<1> DEFINE f == NewScope
<1>1. /\ phase = "idle" /\ phase' = "run" /\ store' = Input
      /\ depth' = depth + 1 /\ frames' = [frames EXCEPT ![depth + 1] = f]
      /\ callee' = depth + 1 /\ ~returned' /\ returned' \in BOOLEAN
      /\ fwd' = fwd /\ ret' = ret /\ exitCond' = exitCond /\ exits' = exits
      /\ exited' = exited
      /\ conc' = Input /\ status' = [w \in Worlds |-> "live"]
      /\ at' = [w \in Worlds |-> 0]
  BY DEF RefBegin, BlockBegin, Push
<1>2. TypeOK /\ Idle
  BY <1>1 DEF IInv
<1>3. /\ f \in Frame /\ f.kind = "call" /\ f.fwd = Worlds /\ f.ret = Worlds
      /\ f.caller = 0 /\ ~f.last /\ f.kept.dom = {}
  <2>1. /\ fwd = Worlds /\ ret = Worlds /\ callee = 0
        /\ callee \in 0 .. MaxDepth /\ NoFrame \in Frame
    BY <1>2, NoFrameType DEF TypeOK, Idle
  <2>2. /\ f.kind = "call" /\ f.fwd = fwd /\ f.ret = ret /\ f.caller = callee
        /\ f.last = NoFrame.last /\ f.kept = NoFrame.kept
    BY <2>1 DEF NewScope, Frame
  <2>3. f \in Frame
    BY <2>1 DEF NewScope, Frame, Kinds
  <2>4. ~NoFrame.last /\ NoFrame.kept = Nothing
    BY DEF NoFrame
  <2> QED BY <2>1, <2>2, <2>3, <2>4, NothingType
<1> HIDE DEF f
<1>4. FrameOK(f) /\ Inside(f) = Worlds
  BY <1>3 DEF FrameOK, Inside
<1>5. /\ depth' = 1 /\ callee' = 1 /\ frames'[1] = f
      /\ frames' \in [1 .. MaxDepth -> Frame]
      /\ \A d \in 1 .. MaxDepth : d > 1 => frames'[d] = NoFrame
  BY <1>1, <1>2, <1>3 DEF TypeOK, Idle
<1>6. TypeOK'
  BY <1>1, <1>2, <1>5 DEF TypeOK, Ref!Statuses
<1>7. /\ fwd' = Worlds /\ ret' = Worlds /\ exitCond' = Worlds
      /\ exits'.dom = {} /\ ~exited'
  BY <1>1, <1>2, NothingType DEF Idle
<1>8. Nested'
  BY <1>3, <1>4, <1>5, <1>7 DEF Nested, IsApply
<1>9. NestedCalls'
  BY <1>3, <1>5, <1>7 DEF NestedCalls, IsCall
<1>10. ASSUME NEW w \in Worlds PROVE Accounted(w)'
  BY <1>1, <1>3, <1>5, <1>7 DEF Accounted, Path, PathCond
<1>11. ASSUME NEW w \in Worlds PROVE Claimed(w)' /\ AppliesOnce(w)'
  BY <1>3, <1>5 DEF Claimed, AppliesOnce, IsApply
<1> QED BY <1>1, <1>6, <1>8, <1>9, <1>10, <1>11 DEF IInv

LEMMA BlockEndStep ==
  ASSUME IInv, BlockEnd, UNCHANGED refVars
  PROVE  IInv'
<1> DEFINE s == MergeVars(top.kept, store)
<1>1. /\ phase = "run" /\ phase' = "idle" /\ top.kind = "call" /\ depth = 1
      /\ store' = MergeVars(exits, s)
      /\ ret' = top.ret /\ exits' = Nothing /\ exitCond' = Worlds
      /\ exited' = FALSE /\ returned' = FALSE /\ callee' = top.caller
      /\ Pop /\ fwd' = fwd
      /\ conc' = conc /\ status' = status /\ at' = at
  BY DEF BlockEnd, MergeExitStates, refVars
<1>2. /\ TypeOK /\ NestedCalls /\ top \in Frame /\ fwd = Worlds /\ top.ret = Worlds
      /\ top.caller = 0
  BY <1>1, InBlock DEF Nested, NestedCalls, Inside, IsCall
<1>3. /\ s \in Store
      /\ \A v \in Vars, w \in Worlds : s[v][w] =
           IF w \in top.kept.dom THEN top.kept.val[v][w] ELSE store[v][w]
  <2>1. store \in Store /\ top.kept \in Partial
    BY <1>2 DEF TypeOK, Frame
  <2> QED BY <2>1, MergeVarsType
<1> HIDE DEF s
<1>4. /\ store' \in Store
      /\ \A v \in Vars, w \in Worlds : store'[v][w] =
           IF w \in exits.dom THEN exits.val[v][w] ELSE s[v][w]
  <2>1. exits \in Partial
    BY <1>2 DEF TypeOK
  <2> QED BY <2>1, <1>1, <1>3, MergeVarsType
<1>5. /\ depth' = 0 /\ frames' \in [1 .. MaxDepth -> Frame]
      /\ \A d \in 1 .. MaxDepth : d > depth' => frames'[d] = NoFrame
  BY <1>1, PopFacts
<1>6. ASSUME NEW w \in Worlds, NEW v \in Vars PROVE store'[v][w] = conc[v][w]
  <2>1. Accounted(w) /\ IsCall(1) /\ status[w] \in Ref!Statuses
    BY <1>1, <1>2, InBlock DEF TypeOK, IsCall
  <2>2. CASE status[w] = "live"
    <3>1. w \notin top.kept.dom /\ w \notin exits.dom
      BY <2>1, <2>2, <1>1, Unclaimed DEF Accounted, IsShadow
    <3> QED BY <2>1, <2>2, <3>1, <1>3, <1>4 DEF Accounted
  <2>3. CASE status[w] \in {"wait", "done"}
    BY <2>1, <2>3, <1>1, ParkedAt DEF Accounted, Waits, IsDone
  <2>4. CASE status[w] = "returned"
    <3>1. HasReturned(w, at[w]) /\ w \notin exits.dom
      BY <2>1, <2>4 DEF Accounted
    <3>2. at[w] = 1
      BY <3>1, <1>1 DEF HasReturned
    <3> QED BY <3>1, <3>2, <1>1, <1>3, <1>4 DEF HasReturned
  <2>5. CASE status[w] = "exited"
    BY <2>1, <2>5, <1>4 DEF Accounted
  <2> QED BY <2>1, <2>2, <2>3, <2>4, <2>5 DEF Ref!Statuses
<1>7. store' = conc
  <2>1. conc \in Store
    BY <1>2 DEF TypeOK
  <2> QED BY <2>1, <1>4, <1>6 DEF Store
<1>8. TypeOK'
  <2>1. exits' \in Partial
    BY <1>1, NothingType
  <2>2. /\ phase' \in {"run", "idle"} /\ fwd' \in SUBSET Worlds
        /\ ret' \in SUBSET Worlds /\ exitCond' \in SUBSET Worlds
        /\ exited' \in BOOLEAN /\ returned' \in BOOLEAN
    BY <1>1, <1>2
  <2>4. depth' \in 0 .. MaxDepth /\ callee' \in 0 .. MaxDepth
    <3>1. 0 \in 0 .. MaxDepth
      OBVIOUS
    <3> QED BY <3>1, <1>1, <1>2, <1>5
  <2>3. /\ conc' \in Store /\ status' \in [Worlds -> Ref!Statuses]
        /\ at' \in [Worlds -> 0 .. MaxDepth]
    BY <1>1, <1>2 DEF TypeOK
  <2> QED BY <1>4, <1>5, <2>1, <2>2, <2>3, <2>4 DEF TypeOK
<1>9. Idle'
  BY <1>1, <1>2, <1>5, <1>7 DEF Idle
<1> QED BY <1>1, <1>8, <1>9 DEF IInv

-----------------------------------------------------------------------------
(* The invariant *)

LEMMA InitInv == RefInit => IInv
<1> SUFFICES ASSUME RefInit PROVE IInv
  OBVIOUS
<1> USE DEF RefInit, Init, Ref!Init
<1>1. TypeOK
  <2>1. /\ frames \in [1 .. MaxDepth -> Frame]
        /\ \A d \in 1 .. MaxDepth : d > depth => frames[d] = NoFrame
    BY NoFrameType
  <2>2. exits \in Partial /\ store \in Store /\ conc \in Store
    BY NothingType
  <2>3. /\ status \in [Worlds -> Ref!Statuses] /\ at \in [Worlds -> 0 .. MaxDepth]
        /\ depth \in 0 .. MaxDepth /\ callee \in 0 .. MaxDepth
    BY DEF Ref!Statuses
  <2> QED BY <2>1, <2>2, <2>3 DEF TypeOK
<1>2. Idle
  BY DEF Idle
<1> QED BY <1>1, <1>2 DEF IInv

\* The statements of PathMerge keep it, where exit claims only live worlds.
LEMMA StatementInv ==
  ASSUME IInv, RefStatement, ExitStatement => Path \subseteq Ref!Live
  PROVE  IInv'
<1>1. ASSUME NEW v \in Vars, NEW u \in Vars, NEW op \in Ops,
             AssignmentStatement(v, u, op), Ref!Assign(v, u, op)
      PROVE  IInv'
  BY <1>1, AssignStep
<1>2. CASE ReturnStatement /\ Ref!Leave(Worlds, "returned", callee)
  BY <1>2, ReturnStep
<1>3. CASE ExitStatement /\ Ref!Leave(Worlds, "exited", 0)
  BY <1>3, ExitStep
<1>4. ASSUME NEW c \in SUBSET Worlds,
             IfThen(c), Ref!Leave(Worlds \ c, "wait", depth + 1)
      PROVE  IInv'
  BY <1>4, IfThenStep
<1>5. CASE SwitchOpen /\ Ref!Leave(Worlds, "wait", depth + 1)
  BY <1>5, SwitchOpenStep
<1>6. ASSUME NEW m \in SUBSET Worlds, CaseArm(m), Ref!Turn(m, depth)
      PROVE  IInv'
  <2>1. ArmOpen(m, FALSE) /\ m \cap top.matched = {}
    BY <1>6 DEF CaseArm
  <2> QED BY <1>6, <2>1, ArmOpenStep
<1>7. CASE Call /\ UNCHANGED refVars
  BY <1>7, CallStep
<1> QED BY <1>1, <1>2, <1>3, <1>4, <1>5, <1>6, <1>7 DEF RefStatement

LEMMA EndInv ==
  ASSUME MixedCallees = FALSE, IInv, RefEnd
  PROVE  IInv'
<1>1. CASE IfElse /\ Ref!Turn(Worlds, depth)
  BY <1>1, IfElseStep
<1>2. CASE IfEnd /\ Ref!Enter("done", depth)
  BY <1>2, IfEndStep
<1>3. CASE DefaultArm /\ Ref!Turn(Worlds, depth)
  <2> DEFINE m == Worlds \ top.matched
  <2>1. ArmOpen(m, TRUE) /\ m \in SUBSET Worlds /\ m \cap top.matched = {}
    BY <1>3 DEF DefaultArm
  <2>2. Worlds \in SUBSET Worlds /\ TRUE \in BOOLEAN /\ m = Worlds \ top.matched
    OBVIOUS
  <2> HIDE DEF m
  <2> QED BY <1>3, <2>1, <2>2, ArmOpenStep
<1>4. CASE ArmEnd /\ Ref!Leave(Worlds, "done", depth)
  BY <1>4, ArmEndStep
<1>5. CASE SwitchEnd /\ Ref!Enter("done", depth)
  BY <1>5, SwitchEndStep
<1>6. CASE CallEnd /\ Ref!Enter("returned", depth)
  BY <1>6, CallEndStep
<1>7. CASE BlockEnd /\ UNCHANGED refVars
  BY <1>7, BlockEndStep
<1> QED BY <1>1, <1>2, <1>3, <1>4, <1>5, <1>6, <1>7 DEF RefEnd

LEMMA StutterInv ==
  ASSUME IInv, UNCHANGED allVars
  PROVE  IInv'
<1> USE DEF allVars, vars, refVars
<1>1. TypeOK => TypeOK'
  BY DEF TypeOK
<1>2. Idle => Idle'
  BY DEF Idle
<1>3. Nested => Nested'
  BY DEF Nested, IsApply, IsCall
<1>4. NestedCalls => NestedCalls'
  BY DEF NestedCalls, IsCall
<1>5. \A w : Accounted(w) => Accounted(w)'
  BY DEF Accounted, Parked, Shadowed, Waits, IsDone, HasReturned, IsCall, IsApply,
         Path, PathCond
<1>6. \A w : (Claimed(w) => Claimed(w)') /\ (AppliesOnce(w) => AppliesOnce(w)')
  BY DEF Claimed, AppliesOnce, IsShadow, IsApply, IsCall
<1> QED BY <1>1, <1>2, <1>3, <1>4, <1>5, <1>6 DEF IInv

\* PathMerge alone applies no table.
NoTables ==
  \A d \in 1 .. MaxDepth : frames[d].kind \notin {"table", "entry", "default"}

LEMMA OpenNoTables ==
  ASSUME TypeOK, NoTables, NEW f \in Frame, Push(f),
         f.kind \notin {"table", "entry", "default"}
  PROVE  NoTables'
BY DEF TypeOK, NoTables, Push

LEMMA CloseNoTables ==
  ASSUME TypeOK, NoTables, Pop
  PROVE  NoTables'
<1>1. NoFrame.kind = "none" /\ NoFrame \in Frame
  BY NoFrameType DEF NoFrame
<1> QED BY <1>1 DEF TypeOK, NoTables, Pop

LEMMA NoTablesStep ==
  ASSUME IInv, NoTables, [RefNext]_allVars
  PROVE  NoTables'
<1> USE DEF NoTables
<1>1. TypeOK
  BY DEF IInv
<1>2. NewScope \in Frame /\ NewScope.kind = "call"
  BY <1>1, NoFrameType DEF TypeOK, NewScope, Frame, Kinds
<1>3. ASSUME frames' = frames PROVE NoTables'
  BY <1>3
<1>4. CASE RefStatement
  <2>1. ASSUME NEW v \in Vars, NEW u \in Vars, NEW op \in Ops,
               AssignmentStatement(v, u, op)
        PROVE  NoTables'
    BY <2>1 DEF AssignmentStatement, stack
  <2>2. CASE ReturnStatement
    <3>1. /\ frames' = [frames EXCEPT ![callee].kept = AddEarlier(@, Path, store)]
          /\ phase = "run"
      BY <2>2 DEF ReturnStatement, NextStatement, InBody, Path
    <3>2. /\ Path \in SUBSET Worlds /\ store \in Store /\ callee \in 1 .. MaxDepth
          /\ frames[callee].kept \in Partial /\ frames \in [1 .. MaxDepth -> Frame]
      BY <1>1, <3>1, InBlock DEF TypeOK, Path, PathCond, Frame
    <3>3. AddEarlier(frames[callee].kept, Path, store) \in Partial
      BY <3>2, AddEarlierType
    <3>4. \A d \in 1 .. MaxDepth : frames'[d].kind = frames[d].kind
      BY <3>1, <3>2, <3>3, KeepFacts
    <3> QED BY <3>4
  <2>3. CASE ExitStatement
    BY <2>3 DEF ExitStatement, stack
  <2>4. ASSUME NEW c \in SUBSET Worlds, IfThen(c) PROVE NoTables'
    <3>1. ASSUME NEW f, f = [NoFrame EXCEPT !.kind = "then", !.fwd = fwd,
                               !.cond = c, !.old = store]
          PROVE  f \in Frame /\ f.kind = "then"
      BY <1>1, <3>1, NoFrameType DEF TypeOK, Frame, Kinds
    <3> QED BY <1>1, <2>4, <3>1, OpenNoTables DEF IfThen
  <2>5. CASE SwitchOpen
    <3>1. ASSUME NEW f, f = [NoFrame EXCEPT !.kind = "switch", !.fwd = fwd,
                               !.old = store, !.exitAll = TRUE, !.returnAll = TRUE]
          PROVE  f \in Frame /\ f.kind = "switch"
      BY <1>1, <3>1, NoFrameType DEF TypeOK, Frame, Kinds
    <3> QED BY <1>1, <2>5, <3>1, OpenNoTables DEF SwitchOpen
  <2>6. ASSUME NEW m \in SUBSET Worlds, CaseArm(m) PROVE NoTables'
    BY <1>1, <2>6 DEF CaseArm, ArmOpen, TypeOK, Frame
  <2>7. CASE Call
    BY <1>1, <1>2, <2>7, OpenNoTables DEF Call
  <2> QED BY <1>4, <2>1, <2>2, <2>3, <2>4, <2>5, <2>6, <2>7 DEF RefStatement
<1>5. CASE RefEnd
  <2>1. CASE IfElse
    BY <1>1, <2>1 DEF IfElse, TypeOK, Frame
  <2>2. CASE IfEnd \/ SwitchEnd \/ CallEnd \/ BlockEnd
    BY <1>1, <2>2, CloseNoTables DEF IfEnd, SwitchEnd, CallEnd, BlockEnd
  <2>3. CASE DefaultArm
    BY <1>1, <2>3 DEF DefaultArm, ArmOpen, TypeOK, Frame
  <2>4. CASE ArmEnd
    BY <1>1, <2>4 DEF ArmEnd, TypeOK, Frame
  <2> QED BY <1>5, <2>1, <2>2, <2>3, <2>4 DEF RefEnd
<1>6. CASE RefBegin
  BY <1>1, <1>2, <1>6, OpenNoTables DEF RefBegin, BlockBegin
<1>7. CASE UNCHANGED allVars
  BY <1>7 DEF allVars, vars
<1> QED BY <1>4, <1>5, <1>6, <1>7 DEF RefNext

\* Without tables the conditions describe exactly the live worlds.
LEMMA PathIsExact ==
  ASSUME IInv, NoTables, phase = "run", top.kind # "switch"
  PROVE  Path = Ref!Live
<1>1. ~BetweenArms /\ Path \subseteq Worlds
  BY InBlock DEF NoTables, Path, PathCond, TypeOK
<1>2. ASSUME NEW w \in Worlds, IsShadow(w) PROVE FALSE
  <2>1. at[w] \in 1 .. depth /\ depth \in 1 .. MaxDepth
    BY <1>2, InBlock, ParkedAt DEF IsShadow
  <2> QED BY <1>2, <2>1 DEF NoTables, IsShadow, IsApply
<1> QED BY <1>1, <1>2, PathLive DEF Ref!Live

LEMMA StepInv ==
  ASSUME MixedCallees = FALSE, IInv, NoTables, [RefNext]_allVars
  PROVE  IInv'
<1>1. ASSUME RefStatement PROVE IInv'
  <2>1. ExitStatement => phase = "run" /\ top.kind # "switch"
    BY DEF ExitStatement, NextStatement, InBody
  <2> QED BY <1>1, <2>1, PathIsExact, StatementInv
<1>2. ASSUME RefEnd PROVE IInv'
  BY <1>2, EndInv
<1>3. CASE RefBegin
  BY <1>3, BlockBeginStep
<1>4. CASE UNCHANGED allVars
  BY <1>4, StutterInv
<1> QED BY <1>1, <1>2, <1>3, <1>4 DEF RefNext

LEMMA Invariance ==
  ASSUME MixedCallees = FALSE
  PROVE  RefSpec => [](IInv /\ NoTables)
<1>1. RefInit => IInv /\ NoTables
  BY InitInv, NoFrameType DEF RefInit, Init, NoTables, NoFrame
<1>2. IInv /\ NoTables /\ [RefNext]_allVars => (IInv /\ NoTables)'
  BY StepInv, NoTablesStep
<1> QED BY <1>1, <1>2, PTL DEF RefSpec

\* Whatever the program, and for every set of inputs: if no callee is left by
\* return for some inputs and by exit for all others, IInv always holds.
THEOREM Inductive ==
  ASSUME MixedCallees = FALSE
  PROVE  RefSpec => []IInv
BY Invariance, PTL

-----------------------------------------------------------------------------
(* The properties *)

\* Types: whatever statements are visited, in whatever order.
THEOREM TypeCorrect ==
  ASSUME MixedCallees = FALSE
  PROVE  RefSpec => []TypeOK
<1>1. IInv => TypeOK
  BY DEF IInv
<1> QED BY <1>1, Inductive, PTL

\* forward_conds, return_conds and exit_cond describe the live inputs.
THEOREM PathSound ==
  ASSUME MixedCallees = FALSE
  PROVE  RefSpec => []PathIsLive
<1>1. IInv /\ NoTables => PathIsLive
  BY PathIsExact DEF PathIsLive
<1> QED BY <1>1, Invariance, PTL

\* Merging branches and return states never disturbs a live input's variables.
THEOREM StoreSound ==
  ASSUME MixedCallees = FALSE
  PROVE  RefSpec => []LiveAgrees
<1>1. IInv => LiveAgrees
  BY InBlock DEF LiveAgrees, Ref!Live, Accounted
<1> QED BY <1>1, Inductive, PTL

\* No statement is skipped that an input still has to execute.
THEOREM NothingSkipped ==
  ASSUME MixedCallees = FALSE
  PROVE  RefSpec => []SkipsOnlyDead
<1>1. IInv => SkipsOnlyDead
  BY InBlock DEF SkipsOnlyDead, Ref!Live, Accounted
<1> QED BY <1>1, Inductive, PTL

\* Each input is claimed by at most one return or exit state.
THEOREM ClaimedOnce ==
  ASSUME MixedCallees = FALSE
  PROVE  RefSpec => []PathUnclaimed
<1>1. IInv /\ NoTables => PathUnclaimed
  <2> SUFFICES ASSUME IInv, NoTables, phase = "run" PROVE PathUnclaimed
    BY DEF PathUnclaimed
  <2>1. ASSUME NEW w \in Worlds, w \in Path
        PROVE  /\ w \notin exits.dom
               /\ \A d \in 1 .. depth :
                    frames[d].kind = "call" => w \notin frames[d].kept.dom
    <3>1. Accounted(w) /\ w \in ret /\ w \in exitCond
      BY <2>1, InBlock DEF Path, PathCond
    <3>2. status[w] # "returned" /\ w \notin exits.dom
      BY <3>1 DEF Accounted, HasReturned
    <3>3. ~IsShadow(w)
      <4>1. IsShadow(w) => at[w] \in 1 .. MaxDepth
        BY InBlock, ParkedAt DEF IsShadow
      <4> QED BY <4>1 DEF NoTables, IsShadow, IsApply
    <3> QED BY <3>2, <3>3, Unclaimed DEF IsCall
  <2>2. Path \subseteq Worlds
    BY InBlock DEF Path, PathCond, TypeOK
  <2> QED BY <2>1, <2>2 DEF PathUnclaimed
<1> QED BY <1>1, Invariance, PTL

\* The state an arch block hands over is, input by input, the one an ordinary
\* execution of the block computes.
THEOREM BlockSound ==
  ASSUME MixedCallees = FALSE
  PROVE  RefSpec => []BlockResult
<1>1. IInv => BlockResult
  BY DEF IInv, Idle, BlockResult
<1> QED BY <1>1, Inductive, PTL
=============================================================================
