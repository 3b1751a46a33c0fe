--------------------------- MODULE TableApply_proofs ---------------------------
(***************************************************************************)
(* Proofs about TableApplyRef: the invariant of PathMergeRef also holds    *)
(* when tables are applied among the statements, however they are nested.  *)
(***************************************************************************)
EXTENDS PathMerge_proofs, TableApplyRef

USE ConstantsAssumption DEF top, BetweenArms

LEMMA ResumeFacts ==
  ASSUME TypeOK, NEW d, Ref!Resume(d)
  PROVE  /\ conc' = conc
         /\ status' \in [Worlds -> Ref!Statuses]
         /\ at' \in [Worlds -> 0 .. MaxDepth]
         /\ \A w \in Worlds :
              IF status[w] \in {"wait", "done"} /\ at[w] = d
                THEN status'[w] = "live"
                ELSE status'[w] = status[w] /\ at'[w] = at[w]
BY DEF TypeOK, Ref!Resume, Ref!At, Ref!Statuses

LEMMA TableOpenStep ==
  ASSUME IInv, TableOpen, Ref!Leave(Worlds, "wait", depth + 1)
  PROVE  IInv'
<1> DEFINE f == [NoFrame EXCEPT !.kind = "table", !.fwd = fwd, !.old = store,
                                !.exitAll = TRUE]
<1>1. /\ phase = "run" /\ ~BetweenArms /\ ~IsApply(depth) /\ ~exited /\ ~returned
      /\ Push(f) /\ fwd' = fwd
      /\ phase' = phase /\ store' = store /\ ret' = ret
      /\ exitCond' = exitCond /\ exits' = exits /\ exited' = exited
      /\ returned' = returned /\ callee' = callee
  BY DEF TableOpen, NextStatement, InBody, IsApply, flow
<1>2. TypeOK
  BY <1>1, InBlock
<1>3. /\ f \in Frame /\ f.kind = "table" /\ f.fwd = fwd
      /\ f.old = store /\ ~f.last /\ f.matched = {} /\ f.kept.dom = {}
  BY <1>2, NoFrameType, NothingType DEF TypeOK, NoFrame, Frame, Kinds
<1> HIDE DEF f
<1>4. FrameOK(f) /\ Inside(f) = fwd
  BY <1>3 DEF FrameOK, Inside
<1>5. /\ depth' = depth + 1 /\ depth' \in 1 .. MaxDepth /\ depth \in 1 .. MaxDepth
      /\ frames' \in [1 .. MaxDepth -> Frame]
      /\ frames'[depth'] = f
      /\ \A d \in 1 .. depth : frames'[d] = frames[d]
      /\ \A d \in 1 .. MaxDepth : d > depth' => frames'[d] = NoFrame
  BY <1>1, <1>3, PushFacts, InBlock
<1>6. /\ conc' = conc
      /\ status' \in [Worlds -> Ref!Statuses]
      /\ at' \in [Worlds -> 0 .. MaxDepth]
      /\ \A w \in Worlds :
           IF status[w] = "live" /\ w \in Worlds
             THEN status'[w] = "wait" /\ at'[w] = depth + 1
             ELSE status'[w] = status[w] /\ at'[w] = at[w]
  <2>1. depth + 1 \in 0 .. MaxDepth /\ "wait" \in Ref!Statuses
    BY <1>5 DEF Ref!Statuses
  <2> QED BY <1>2, <2>1, LeaveFacts
<1>7. TypeOK'
  BY <1>1, <1>2, <1>5, <1>6 DEF TypeOK
<1>8. Nested'
  BY <1>1, <1>3, <1>4, PushNested
<1>9. SameCalls /\ SameApplies
  BY <1>1, <1>3, <1>5 DEF SameCalls, SameApplies, IsCall, IsApply
<1>10. NestedCalls'
  BY <1>1, <1>9, SameCallsNested
<1>11. ASSUME NEW w \in Worlds PROVE Accounted(w)'
  <2>1. CASE status[w] = "live"
    <3>1. /\ w \in fwd /\ w \in ret /\ w \in exitCond
          /\ \A v \in Vars : store[v][w] = conc[v][w]
      BY <2>1, <1>1, <1>2, InBlock DEF Accounted, Path, PathCond
    <3>2. w \notin exits'.dom
      BY <2>1, <1>1, InBlock DEF Accounted
    <3>3. status'[w] = "wait" /\ at'[w] = depth'
      BY <2>1, <1>5, <1>6
    <3>4. Parked(w, depth)'
      BY <3>1, <1>1, <1>3, <1>5 DEF Parked
    <3>5. Waits(w, frames[depth])'
      BY <3>1, <1>3, <1>5, <1>6 DEF Waits
    <3> QED BY <3>2, <3>3, <3>4, <3>5 DEF Accounted
  <2>2. CASE status[w] # "live"
    BY <2>2, <1>1, <1>3, <1>6, <1>9, PushStays
  <2> QED BY <2>1, <2>2
<1>12. ASSUME NEW w \in Worlds PROVE Claimed(w)' /\ AppliesOnce(w)'
  <2>1. IsShadow(w) => IsShadow(w)' /\ at'[w] = at[w]
    BY <1>1, <1>5, <1>6, ParkedAt DEF IsShadow, IsApply
  <2>2. status[w] = "returned" => status'[w] = "returned" /\ at'[w] = at[w]
    BY <1>6
  <2>3. status[w] = "live" \/ (status'[w] = status[w] /\ at'[w] = at[w])
    BY <1>6
  <2> QED BY <1>1, <1>9, <2>1, <2>2, <2>3, SameKeeps, ClaimedStays, AppliesStay
<1> QED BY <1>1, <1>7, <1>8, <1>10, <1>11, <1>12 DEF IInv

\* No world has been through the table whose action it is live in.
LEMMA LiveUnmatched ==
  ASSUME IInv, phase = "run", IsApply(depth), NEW w \in Worlds, status[w] = "live"
  PROVE  w \notin top.matched /\ w \notin top.kept.dom
<1>1. w \notin top.matched
  BY InBlock DEF AppliesOnce
<1> QED BY <1>1, InBlock DEF Nested, FrameOK, IsApply

\* An action of the table, or its default action, is called.
LEMMA ActionStep ==
  ASSUME IInv, phase = "run", top.kind = "table",
         NEW m \in SUBSET Worlds, NEW k \in {"entry", "default"},
         k = "default" => m = Worlds,
         NEW g \in Frame, g.kind = k, g.fwd = top.fwd, g.cond = m,
         g.matched = top.matched, g.last = top.last, g.old = store,
         g.kept = top.kept, g.exitAll = top.exitAll,
         CallAction(g, m),
         UNCHANGED <<phase, store, ret, exitCond, exits, exited, returned>>,
         Ref!Turn(m, depth)
  PROVE  IInv'
<1> DEFINE h == [NewScope EXCEPT !.fwd = fwd \cap m]
<1>1. /\ depth < MaxDepth /\ depth' = depth + 1 /\ callee' = depth + 1
      /\ fwd' = fwd \cap m
      /\ phase' = phase /\ store' = store /\ ret' = ret
      /\ exitCond' = exitCond /\ exits' = exits /\ exited' = exited
      /\ returned' = returned
      /\ frames' = [frames EXCEPT ![depth] = g, ![depth + 1] = h]
  BY DEF CallAction
<1>2. /\ TypeOK /\ depth \in 1 .. MaxDepth /\ top \in Frame /\ FrameOK(top)
      /\ fwd = top.fwd /\ store = top.old /\ ~exited /\ ~returned
      /\ callee \in 1 .. depth /\ frames \in [1 .. MaxDepth -> Frame]
  BY InBlock DEF Nested, Inside, TypeOK
<1>3. depth' \in 1 .. MaxDepth /\ depth # depth'
  BY <1>1, <1>2
<1>4. /\ h \in Frame /\ h.kind = "call" /\ h.fwd = fwd \cap m /\ h.ret = ret
      /\ h.caller = callee /\ ~h.last /\ h.kept.dom = {}
  <2>1. /\ NewScope \in Frame /\ NewScope.kind = "call" /\ NewScope.ret = ret
        /\ NewScope.caller = callee /\ ~NewScope.last /\ NewScope.kept.dom = {}
    BY <1>2, NoFrameType, NothingType DEF TypeOK, NewScope, NoFrame, Frame, Kinds
  <2> QED BY <2>1, <1>2 DEF TypeOK, Frame
<1> HIDE DEF h
<1>5. /\ frames' \in [1 .. MaxDepth -> Frame]
      /\ frames'[depth'] = h /\ frames'[depth] = g
      /\ \A d \in 1 .. MaxDepth : d # depth /\ d # depth' => frames'[d] = frames[d]
      /\ \A d \in 1 .. MaxDepth : d > depth' => frames'[d] = NoFrame
      /\ \A d \in 1 .. depth : /\ d # depth => frames'[d] = frames[d]
                               /\ frames'[d].fwd = frames[d].fwd
                               /\ frames'[d].matched = frames[d].matched
  <2>1. \A d \in 1 .. MaxDepth :
          frames'[d] = IF d = depth' THEN h ELSE IF d = depth THEN g ELSE frames[d]
    BY <1>1, <1>2, <1>3
  <2>2. frames' \in [1 .. MaxDepth -> Frame]
    <3>1. frames' = [d \in 1 .. MaxDepth |-> frames'[d]]
      BY <1>1, <1>2
    <3> QED BY <2>1, <3>1, <1>2, <1>4
  <2>3. \A d \in 1 .. MaxDepth : d > depth => frames[d] = NoFrame
    BY <1>2 DEF TypeOK
  <2>4. \A d \in 1 .. depth : d \in 1 .. MaxDepth /\ d # depth'
    BY <1>1, <1>2
  <2>5. \A d \in 1 .. MaxDepth : d > depth' => d > depth /\ d # depth /\ d # depth'
    BY <1>1, <1>2
  <2> QED BY <2>1, <2>2, <2>3, <2>4, <2>5, <1>2, <1>3
<1>6. FrameOK(g) /\ FrameOK(h) /\ Inside(g) = fwd \cap m /\ Inside(h) = fwd \cap m
  BY <1>2, <1>3, <1>4 DEF FrameOK, Inside
<1>7. /\ conc' = conc
      /\ status' \in [Worlds -> Ref!Statuses]
      /\ at' \in [Worlds -> 0 .. MaxDepth]
      /\ \A w \in Worlds :
           IF status[w] = "live" THEN status'[w] = "done" /\ at'[w] = depth
           ELSE IF status[w] = "wait" /\ at[w] = depth /\ w \in m
             THEN status'[w] = "live"
             ELSE status'[w] = status[w] /\ at'[w] = at[w]
  <2>1. depth \in 0 .. MaxDepth
    BY <1>2
  <2> QED BY <1>2, <2>1, TurnFacts
<1>8. TypeOK'
  <2>1. fwd' \in SUBSET Worlds /\ depth' \in 0 .. MaxDepth /\ callee' \in 0 .. MaxDepth
    BY <1>1, <1>2, <1>5 DEF TypeOK
  <2> QED BY <1>1, <1>2, <1>5, <1>7, <2>1 DEF TypeOK
<1>9. Nested'
  <2>1. ASSUME NEW d \in 1 .. depth' PROVE FrameOK(frames'[d])
    <3>1. CASE d = depth \/ d = depth'
      BY <3>1, <1>5, <1>6
    <3>2. CASE d # depth /\ d # depth'
      <4>1. d \in 1 .. depth
        BY <3>2, <1>1, <1>2
      <4> QED BY <3>2, <4>1, <1>5, InBlock DEF Nested
    <3> QED BY <3>1, <3>2
  <2>2. ASSUME NEW d \in 1 .. depth' - 1
        PROVE  /\ frames'[d].kind \notin {"switch", "table"}
               /\ frames'[d + 1].fwd = Inside(frames'[d])
               /\ IsApply(d)' => IsCall(d + 1)'
    <3>1. CASE d = depth
      BY <3>1, <1>1, <1>3, <1>4, <1>5, <1>6 DEF IsCall
    <3>2. CASE d # depth
      <4>1. /\ d \in 1 .. depth - 1 /\ d # depth' /\ d \in 1 .. MaxDepth
            /\ d + 1 \in 1 .. depth /\ d + 1 \in 1 .. MaxDepth /\ d + 1 # depth'
        BY <3>2, <1>1, <1>2
      <4>2. frames'[d] = frames[d] /\ frames'[d + 1].fwd = frames[d + 1].fwd
        BY <3>2, <4>1, <1>3, <1>5
      <4>3. /\ frames[d].kind \notin {"switch", "table"}
            /\ frames[d + 1].fwd = Inside(frames[d])
            /\ IsApply(d) => IsCall(d + 1)
        BY <4>1, InBlock DEF Nested
      <4>4. IsApply(d) => d + 1 # depth /\ frames'[d + 1] = frames[d + 1]
        BY <4>1, <4>3, <1>5 DEF IsCall
      <4> QED BY <4>2, <4>3, <4>4 DEF IsApply, IsCall
    <3> QED BY <3>1, <3>2
  <2>3. ASSUME NEW d \in 1 .. depth', NEW e \in 1 .. depth', e <= d
        PROVE  frames'[d].fwd \subseteq frames'[e].fwd
    <3>1. \A c \in 1 .. depth : frames'[c].fwd = frames[c].fwd
      BY <1>5
    <3>2. CASE d = depth'
      <4>1. frames'[d].fwd \subseteq top.fwd
        BY <3>2, <1>2, <1>4, <1>5
      <4>2. ASSUME e # depth' PROVE e \in 1 .. depth /\ top.fwd \subseteq frames[e].fwd
        <5>1. e \in 1 .. depth /\ depth \in 1 .. depth /\ e <= depth
          BY <4>2, <1>1, <1>2
        <5> QED BY <5>1, InBlock DEF Nested
      <4> QED BY <3>1, <3>2, <4>1, <4>2
    <3>3. CASE d # depth'
      <4>1. d \in 1 .. depth /\ e \in 1 .. depth
        BY <3>3, <2>3, <1>1, <1>2
      <4> QED BY <3>1, <4>1, <2>3, InBlock DEF Nested
    <3> QED BY <3>2, <3>3
  <2>4. ~BetweenArms' /\ ~IsApply(depth)'
    BY <1>4, <1>5 DEF IsApply
  <2>5. depth' > 0 /\ fwd' = Inside(frames'[depth'])
    BY <1>1, <1>5, <1>6
  <2> QED BY <2>1, <2>2, <2>3, <2>4, <2>5 DEF Nested
<1>10. \A d \in 1 .. depth : /\ IsCall(d)' <=> IsCall(d)
                             /\ IsCall(d) => frames'[d] = frames[d]
  <2>1. TAKE d \in 1 .. depth
  <2>2. CASE d = depth
    BY <2>2, <1>3, <1>5 DEF IsCall
  <2>3. CASE d # depth
    BY <2>3, <1>1, <1>2, <1>5 DEF IsCall
  <2> QED BY <2>2, <2>3
<1>11. NestedCalls'
  BY <1>1, <1>4, <1>5, <1>10, OpenCallNested DEF IsCall
<1>12. KeepsCalls
  <2>1. ASSUME NEW d \in 1 .. depth', IsCall(d)', d # depth'
        PROVE  d \in 1 .. depth /\ IsCall(d)
    <3>1. d \in 1 .. depth
      BY <2>1, <1>1, <1>2
    <3> QED BY <2>1, <3>1, <1>10 DEF IsCall
  <2>2. \A d \in 1 .. depth : d \in 1 .. depth'
    BY <1>1, <1>2
  <2>3. ret' = ret /\ depth' \in Nat
    BY <1>1, <1>3
  <2> QED BY <2>1, <2>2, <2>3, <1>4, <1>5, <1>10 DEF KeepsCalls
<1>13. ASSUME NEW w \in Worlds PROVE status[w] # "live" /\ ~(IsShadow(w) /\ at[w] = depth)
  BY InBlock DEF Accounted, IsShadow, IsApply
<1>14. ASSUME NEW w \in Worlds PROVE Accounted(w)'
  <2>1. Accounted(w)
    BY InBlock
  <2>2. CASE status[w] = "wait" /\ at[w] = depth
    <3>1. /\ w \in top.fwd /\ w \notin top.matched /\ w \in ret /\ w \in exitCond
          /\ \A v \in Vars : top.old[v][w] = conc[v][w]
      BY <2>1, <2>2 DEF Accounted, Parked, Waits
    <3>2. w \notin exits'.dom
      BY <2>1, <2>2, <1>1 DEF Accounted
    <3>3. CASE w \in m
      <4>1. status'[w] = "live" /\ w \in Path'
        BY <2>2, <3>1, <3>3, <1>1, <1>2, <1>7 DEF Path, PathCond
      <4>2. ~BetweenArms'
        BY <1>4, <1>5
      <4> QED BY <3>1, <3>2, <4>1, <4>2, <1>1, <1>2, <1>7 DEF Accounted
    <3>4. CASE w \notin m
      <4>1. status'[w] = "wait" /\ at'[w] = depth
        BY <2>2, <3>4, <1>7
      <4>2. Parked(w, at[w])'
        <5>1. \A e \in 1 .. depth' : e > depth => e = depth'
          BY <1>1, <1>2
        <5>2. w \notin h.fwd /\ w \in g.fwd
          BY <3>1, <3>4, <1>4
        <5>3. depth \in 1 .. depth' /\ w \in ret' /\ w \in exitCond'
          BY <3>1, <1>1, <1>2
        <5> QED BY <4>1, <5>1, <5>2, <5>3, <1>5 DEF Parked
      <4>3. Waits(w, frames[at[w]])'
        <5>1. /\ g.kind = "entry" /\ w \notin g.cond /\ w \notin g.matched
              /\ \A v \in Vars : g.old[v][w] = conc'[v][w]
          BY <3>1, <3>4, <1>2, <1>7
        <5> QED BY <4>1, <5>1, <1>5 DEF Waits
      <4> QED BY <3>2, <4>1, <4>2, <4>3 DEF Accounted
    <3> QED BY <3>3, <3>4
  <2>3. CASE status[w] = "done" /\ at[w] = depth
    <3>1. /\ IsDone(w, top) /\ w \in top.fwd /\ w \in ret /\ w \in exitCond
      BY <2>1, <2>3 DEF Accounted, Parked, IsApply
    <3>2. w \notin exits'.dom
      BY <2>1, <2>3, <1>1 DEF Accounted
    <3>3. status'[w] = "done" /\ at'[w] = depth
      BY <2>3, <1>7
    <3>4. Shadowed(w, at[w])' /\ IsApply(at[w])'
      <4>1. depth \in 1 .. depth' /\ depth + 1 = depth'
        BY <1>1, <1>2
      <4> QED BY <3>1, <3>3, <4>1, <1>1, <1>3, <1>4, <1>5 DEF Shadowed, IsApply
    <3>5. IsDone(w, frames[at[w]])'
      BY <3>1, <3>3, <1>3, <1>5, <1>7 DEF IsDone
    <3> QED BY <3>2, <3>3, <3>4, <3>5 DEF Accounted
  <2>4. CASE ~(status[w] \in {"wait", "done"} /\ at[w] = depth)
    <3>1. status'[w] = status[w] /\ at'[w] = at[w] /\ status[w] # "live"
      BY <2>4, <1>7, <1>13
    <3>2. status[w] \in {"wait", "done"} =>
            /\ at[w] \in 1 .. depth /\ at[w] < depth
            /\ frames'[at[w]] = frames[at[w]]
      BY <2>4, <1>1, <1>2, <1>5, ParkedAt
    <3>3. ASSUME status[w] \in {"wait", "done"}, Parked(w, at[w])
          PROVE  Parked(w, at[w])'
      <4>1. w \notin top.fwd
        BY <3>2, <3>3, <1>2 DEF Parked
      <4>2. \A e \in 1 .. depth' : e > at[w] => w \notin frames'[e].fwd
        <5>1. TAKE e \in 1 .. depth'
        <5>2. CASE e = depth \/ e = depth'
          BY <5>2, <4>1, <1>2, <1>4, <1>5
        <5>3. CASE e # depth /\ e # depth'
          BY <5>3, <3>3, <1>1, <1>2, <1>5 DEF Parked
        <5> QED BY <5>2, <5>3
      <4>3. /\ w \in frames[at[w]].fwd /\ w \in ret /\ w \in exitCond
            /\ at[w] \in 1 .. depth'
        BY <3>2, <3>3, <1>1, <1>2 DEF Parked
      <4> QED BY <4>2, <4>3, <3>1, <3>2, <3>3, <1>1 DEF Parked
    <3> QED BY <3>1, <3>2, <3>3, <1>1, <1>7, <1>12, StaysAccounted
  <2> QED BY <2>2, <2>3, <2>4
<1>15. ASSUME NEW w \in Worlds PROVE Claimed(w)'
  <2>1. IsShadow(w) => IsShadow(w)' /\ at'[w] = at[w]
    <3>1. IsShadow(w) => at[w] \in 1 .. depth /\ at[w] # depth
      BY <1>13, ParkedAt DEF IsShadow
    <3> QED BY <3>1, <1>1, <1>2, <1>5, <1>7 DEF IsShadow, IsApply
  <2>2. status[w] = "returned" => status'[w] = "returned" /\ at'[w] = at[w]
    BY <1>7
  <2> QED BY <2>1, <2>2, <1>12, ClaimedStays
<1>16. ASSUME NEW w \in Worlds PROVE AppliesOnce(w)'
  <2> SUFFICES ASSUME NEW d \in 1 .. depth', IsApply(d)', w \in frames'[d].matched
               PROVE  status'[w] = "exited" \/ (status'[w] # "live" /\ at'[w] <= d)
    BY DEF AppliesOnce
  <2>1. d \in 1 .. depth /\ frames'[d].matched = frames[d].matched
    <3>1. d # depth'
      BY <1>4, <1>5 DEF IsApply
    <3>2. d \in 1 .. depth
      BY <3>1, <1>1, <1>2
    <3> QED BY <3>2, <1>5
  <2>2. CASE d = depth
    <3>1. Accounted(w) /\ status[w] # "live" /\ status[w] \in Ref!Statuses
      BY <1>2, <1>13, InBlock DEF TypeOK
    <3>2. status[w] = "wait" => at[w] # depth
      BY <2>1, <2>2, <3>1 DEF Accounted, Waits
    <3>3. status[w] # "exited" => at[w] \in 1 .. depth
      BY <3>1, ParkedAt DEF Accounted, HasReturned, Ref!Statuses
    <3> QED BY <2>2, <3>1, <3>2, <3>3, <1>2, <1>7
  <2>3. CASE d # depth
    <3>1. IsApply(d) /\ w \in frames[d].matched
      BY <2>1, <2>3, <1>1, <1>2, <1>5 DEF IsApply
    <3>2. status[w] = "exited" \/ (status[w] # "live" /\ at[w] <= d)
      BY <2>1, <3>1, InBlock DEF AppliesOnce
    <3> QED BY <2>1, <2>3, <3>2, <1>2, <1>7
  <2> QED BY <2>2, <2>3
<1> QED BY <1>1, <1>8, <1>9, <1>11, <1>14, <1>15, <1>16 DEF IInv

LEMMA TableArmStep ==
  ASSUME IInv, NEW m \in SUBSET Worlds, TableArm(m), Ref!Turn(m, depth)
  PROVE  IInv'
<1> DEFINE g == [top EXCEPT !.kind = "entry", !.cond = m, !.old = store]
<1>1. /\ phase = "run" /\ top.kind = "table" /\ CallAction(g, m)
      /\ UNCHANGED <<phase, store, ret, exitCond, exits, exited, returned>>
  BY DEF TableArm
<1>2. /\ g \in Frame /\ g.kind = "entry" /\ g.fwd = top.fwd /\ g.cond = m
      /\ g.matched = top.matched /\ g.last = top.last /\ g.old = store
      /\ g.kept = top.kept /\ g.exitAll = top.exitAll
  BY <1>1, InBlock DEF TypeOK, Frame, Kinds
<1> HIDE DEF g
<1>3. "entry" \in {"entry", "default"} /\ ~("entry" = "default")
  OBVIOUS
<1> QED BY <1>1, <1>2, <1>3, ActionStep

\* The default action is called for all worlds: DefaultCond holds in each.
LEMMA DefaultActionStep ==
  ASSUME IInv, DefaultAction, Ref!Turn(Worlds, depth)
  PROVE  IInv'
<1> DEFINE g == [top EXCEPT !.kind = "default", !.cond = Worlds, !.old = store]
<1>1. /\ phase = "run" /\ top.kind = "table" /\ CallAction(g, Worlds)
      /\ UNCHANGED <<phase, store, ret, exitCond, exits, exited, returned>>
  <2>1. DefaultCond(top.matched) = Worlds
    BY DEF DefaultCond, hit
  <2> QED BY <2>1 DEF DefaultAction
<1>2. /\ g \in Frame /\ g.kind = "default" /\ g.fwd = top.fwd /\ g.cond = Worlds
      /\ g.matched = top.matched /\ g.last = top.last /\ g.old = store
      /\ g.kept = top.kept /\ g.exitAll = top.exitAll
  BY <1>1, InBlock DEF TypeOK, Frame, Kinds
<1> HIDE DEF g
<1>3. "default" \in {"entry", "default"} /\ Worlds \in SUBSET Worlds
  OBVIOUS
<1> QED BY <1>1, <1>2, <1>3, ActionStep

LEMMA TableArmEndStep ==
  ASSUME IInv, TableArmEnd, Ref!Leave(Worlds, "done", depth)
  PROVE  IInv'
<1> DEFINE g == frames'[depth]
           k == IF exited THEN top.kept ELSE AddEarlier(top.kept, top.cond, store)
<1>1. /\ phase = "run" /\ top.kind = "entry"
      /\ ~exited' /\ exited' \in BOOLEAN /\ returned' = returned
      /\ store' = top.old /\ fwd' = top.fwd
      /\ phase' = phase /\ ret' = ret /\ exitCond' = exitCond
      /\ exits' = exits /\ depth' = depth /\ callee' = callee
  BY DEF TableArmEnd
<1>2. /\ TypeOK
      /\ depth \in 1 .. MaxDepth /\ top \in Frame /\ FrameOK(top)
      /\ fwd = top.fwd \cap top.cond /\ IsApply(depth) /\ ~returned
  BY <1>1, InBlock DEF Nested, Inside, IsApply
<1>3. /\ k \in Partial /\ k.dom \subseteq top.kept.dom \cup top.cond
      /\ top.kept.dom \subseteq k.dom
      /\ ~exited => k.dom = top.kept.dom \cup top.cond
      /\ \A v \in Vars, w \in Worlds :
           k.val[v][w] = IF w \in top.kept.dom \/ exited
                         THEN top.kept.val[v][w] ELSE store[v][w]
  <2>1. top.kept \in Partial /\ store \in Store /\ top.cond \in SUBSET Worlds
    BY <1>2 DEF TypeOK, Frame
  <2>2. CASE exited
    BY <2>1, <2>2
  <2>3. CASE ~exited
    <3>1. k = AddEarlier(top.kept, top.cond, store)
      BY <2>3
    <3> HIDE DEF k
    <3> QED BY <2>1, <2>3, <3>1, AddEarlierType
  <2> QED BY <2>2, <2>3
<1>4. /\ frames' \in [1 .. MaxDepth -> Frame]
      /\ \A d \in 1 .. MaxDepth : d # depth => frames'[d] = frames[d]
      /\ g.kind = "table" /\ g.fwd = top.fwd /\ g.cond = top.cond
      /\ g.matched = top.matched \cup top.cond /\ g.last = top.last
      /\ g.old = top.old /\ g.kept = k /\ g.exitAll = (top.exitAll /\ exited)
  <2>1. frames' = [frames EXCEPT ![depth].kind = "table", ![depth].kept = k,
                     ![depth].matched = @ \cup top.cond,
                     ![depth].exitAll = (@ /\ exited)]
    BY DEF TableArmEnd, LeftByAll, KeepArm
  <2> HIDE DEF k
  <2>2. /\ depth \in 1 .. MaxDepth /\ frames \in [1 .. MaxDepth -> Frame]
        /\ top \in Frame /\ k \in Partial /\ exited \in BOOLEAN
        /\ top.matched \cup top.cond \in SUBSET Worlds
    BY <1>2, <1>3 DEF TypeOK, Frame
  <2>3. g = [top EXCEPT !.kind = "table", !.kept = k,
                        !.matched = @ \cup top.cond, !.exitAll = (@ /\ exited)]
    BY <2>1, <2>2
  <2>4. /\ g.kind = "table" /\ g.fwd = top.fwd /\ g.cond = top.cond
        /\ g.matched = top.matched \cup top.cond /\ g.last = top.last
        /\ g.old = top.old /\ g.kept = k /\ g.exitAll = (top.exitAll /\ exited)
    BY <2>2, <2>3 DEF Frame
  <2>5. g \in Frame
    BY <2>2, <2>3 DEF Frame, Kinds
  <2>6. /\ frames' \in [1 .. MaxDepth -> Frame]
        /\ \A d \in 1 .. MaxDepth : d # depth => frames'[d] = frames[d]
    BY <2>1, <2>2, <2>3, <2>5
  <2> QED BY <2>4, <2>6
<1> HIDE DEF k, g
<1>5. FrameOK(g) /\ Inside(g) = top.fwd
  <2>1. top.cond \in SUBSET Worlds
    BY <1>2 DEF Frame
  <2> QED BY <2>1, <1>1, <1>2, <1>3, <1>4 DEF FrameOK, Inside
<1>6. /\ conc' = conc
      /\ status' \in [Worlds -> Ref!Statuses]
      /\ at' \in [Worlds -> 0 .. MaxDepth]
      /\ \A w \in Worlds :
           IF status[w] = "live" /\ w \in Worlds
             THEN status'[w] = "done" /\ at'[w] = depth
             ELSE status'[w] = status[w] /\ at'[w] = at[w]
  <2>1. depth \in 0 .. MaxDepth /\ "done" \in Ref!Statuses
    BY <1>2 DEF Ref!Statuses
  <2> QED BY <1>2, <2>1, LeaveFacts
<1>7. TypeOK'
  <2>1. store' \in Store /\ fwd' \in SUBSET Worlds
    BY <1>1, <1>2 DEF Frame
  <2>2. \A d \in 1 .. MaxDepth : d > depth => frames'[d] = NoFrame
    BY <1>2, <1>4 DEF TypeOK
  <2> QED BY <1>1, <1>2, <1>4, <1>6, <2>1, <2>2 DEF TypeOK
<1>8. Nested'
  <2>1. frames'[depth] = g
    BY DEF g
  <2> QED BY <2>1, <1>1, <1>2, <1>4, <1>5, TopNested
<1>9. SameCalls /\ SameApplies /\ ~IsApply(depth)'
  BY <1>1, <1>2, <1>4 DEF SameCalls, SameApplies, IsCall, IsApply, g
<1>10. NestedCalls'
  BY <1>1, <1>9, SameCallsNested
<1>11. ASSUME NEW w \in Worlds PROVE Accounted(w)'
  <2>1. Accounted(w)
    BY <1>1, InBlock
  <2>2. status[w] \in {"live", "wait", "done"} =>
          w \notin exits'.dom
    BY <2>1, <1>1 DEF Accounted
  <2>3. CASE status[w] = "live"
    <3>1. /\ w \in top.fwd /\ w \in top.cond /\ w \in ret /\ w \in exitCond /\ ~exited
          /\ \A v \in Vars : store[v][w] = conc[v][w]
      BY <2>1, <2>3, <1>2 DEF Accounted, Path, PathCond
    <3>2. status'[w] = "done" /\ at'[w] = depth
      BY <2>3, <1>6
    <3>3. Parked(w, depth)'
      BY <3>1, <1>1, <1>2, <1>4 DEF Parked, g
    <3>4. w \notin top.kept.dom
      BY <2>3, <1>1, <1>2, LiveUnmatched
    <3>5. IsDone(w, frames[depth])'
      BY <3>1, <3>4, <1>1, <1>3, <1>4, <1>6 DEF IsDone, g
    <3> QED BY <2>2, <2>3, <3>2, <3>3, <3>5, <1>1, <1>9 DEF Accounted
  <2>4. CASE status[w] = "wait" /\ at[w] = depth
    <3>1. Parked(w, depth) /\ Waits(w, top)
      BY <2>1, <2>4 DEF Accounted
    <3>2. Parked(w, depth)'
      BY <3>1, <1>1, <1>2, <1>4 DEF Parked, g
    <3>3. Waits(w, frames[depth])'
      BY <3>1, <1>1, <1>4, <1>6 DEF Waits, g
    <3> QED BY <2>2, <2>4, <3>2, <3>3, <1>1, <1>6 DEF Accounted
  <2>5. CASE status[w] = "done" /\ at[w] = depth
    <3>1. IsDone(w, top) /\ w \in top.fwd /\ w \in ret /\ w \in exitCond
      BY <2>1, <2>5, <1>2 DEF Accounted, Shadowed
    <3>2. Parked(w, depth)'
      BY <3>1, <1>1, <1>2, <1>4 DEF Parked, g
    <3>3. IsDone(w, frames[depth])'
      BY <3>1, <1>1, <1>3, <1>4, <1>6 DEF IsDone, g
    <3> QED BY <2>2, <2>5, <3>2, <3>3, <1>1, <1>6, <1>9 DEF Accounted
  <2>6. CASE status[w] # "live" /\ ~(status[w] \in {"wait", "done"} /\ at[w] = depth)
    <3>1. frames'[depth].fwd = top.fwd
      BY <1>4 DEF g
    <3>2. status'[w] = status[w] /\ at'[w] = at[w]
      BY <2>6, <1>6
    <3> QED BY <2>6, <3>1, <3>2, <1>1, <1>4, <1>6, <1>9, TopStays
  <2> QED BY <2>3, <2>4, <2>5, <2>6
<1>12. ASSUME NEW w \in Worlds PROVE Claimed(w)' /\ AppliesOnce(w)'
  <2>1. IsShadow(w) => at[w] = depth \/ frames'[at[w]] = frames[at[w]]
    BY <1>1, <1>2, <1>4, ParkedAt DEF IsShadow
  <2>2. IsShadow(w) => at[w] = depth \/ (IsShadow(w)' /\ at'[w] = at[w])
    BY <2>1, <1>6 DEF IsShadow, IsApply
  <2>3. status[w] = "returned" => status'[w] = "returned" /\ at'[w] = at[w]
    BY <1>6
  <2>4. status[w] = "live" \/ (status'[w] = status[w] /\ at'[w] = at[w])
    BY <1>6
  <2> QED BY <1>1, <1>9, <2>2, <2>3, <2>4, SameKeeps, ClaimedStays, AppliesStay
<1> QED BY <1>1, <1>7, <1>8, <1>10, <1>11, <1>12 DEF IInv

LEMMA TableEndStep ==
  ASSUME IInv, TableEnd, Ref!Enter("done", depth)
  PROVE  IInv'
<1> DEFINE s == IF exited THEN top.old ELSE store
<1>1. /\ phase = "run" /\ top.kind = "default"
      /\ store' = MergeVars(top.kept, s)
      /\ exited' = (top.exitAll /\ exited) /\ returned' = returned
      /\ Pop /\ fwd' = top.fwd
      /\ phase' = phase /\ ret' = ret /\ exitCond' = exitCond
      /\ exits' = exits /\ callee' = callee
  BY DEF TableEnd, LeftByAll, MergeActions
<1>2. /\ TypeOK
      /\ depth \in 1 .. MaxDepth /\ top \in Frame /\ FrameOK(top) /\ ~returned
      /\ fwd \subseteq top.fwd /\ depth > 1 /\ IsApply(depth)
  <2>1. depth # 1
    BY <1>1, InBlock DEF NestedCalls, IsCall
  <2> QED BY <1>1, <2>1, InBlock DEF Nested, Inside, IsApply
<1>3. /\ store' \in Store
      /\ \A v \in Vars, w \in Worlds :
           store'[v][w] = IF w \in top.kept.dom THEN top.kept.val[v][w] ELSE s[v][w]
  <2>1. s \in Store /\ top.kept \in Partial
    BY <1>2 DEF TypeOK, Frame
  <2> HIDE DEF s
  <2> QED BY <1>1, <2>1, MergeVarsType
<1>4. ~exited => s = store
  OBVIOUS
<1> HIDE DEF s
<1>5. /\ depth' = depth - 1 /\ depth' \in 0 .. MaxDepth
      /\ frames' \in [1 .. MaxDepth -> Frame]
      /\ \A d \in 1 .. depth' : frames'[d] = frames[d]
      /\ \A d \in 1 .. MaxDepth : d > depth' => frames'[d] = NoFrame
  BY <1>1, PopFacts
<1>6. /\ conc' = conc
      /\ status' \in [Worlds -> Ref!Statuses]
      /\ at' \in [Worlds -> 0 .. MaxDepth]
      /\ \A w \in Worlds :
           IF status[w] = "done" /\ at[w] = depth
             THEN status'[w] = "live"
             ELSE status'[w] = status[w] /\ at'[w] = at[w]
  BY <1>2, EnterFacts
<1>7. TypeOK'
  <2>1. exited' \in BOOLEAN /\ returned' \in BOOLEAN /\ fwd' \in SUBSET Worlds
    BY <1>1, <1>2 DEF Frame, TypeOK
  <2> QED BY <1>1, <1>2, <1>3, <1>5, <1>6, <2>1 DEF TypeOK
<1>8. Nested' /\ ~BetweenArms'
  BY <1>1, <1>2, PopNested
<1>9. SameCalls /\ SameApplies
  BY <1>1, <1>2, <1>5 DEF SameCalls, SameApplies, IsCall, IsApply
<1>10. NestedCalls'
  BY <1>1, <1>9, SameCallsNested
<1>11. ASSUME NEW w \in Worlds PROVE Accounted(w)'
  <2>1. Accounted(w)
    BY <1>1, InBlock
  <2>2. status[w] \in {"live", "done"} =>
          w \notin exits'.dom
    BY <2>1, <1>1 DEF Accounted
  <2>3. CASE status[w] = "live"
    <3>1. /\ w \in top.fwd /\ w \in ret /\ w \in exitCond /\ ~exited
          /\ \A v \in Vars : store[v][w] = conc[v][w]
      BY <2>1, <2>3, <1>2 DEF Accounted, Path, PathCond
    <3>2. w \notin top.kept.dom
      BY <2>3, <1>1, <1>2, LiveUnmatched
    <3>3. status'[w] = "live" /\ w \in Path'
      BY <2>3, <3>1, <1>1, <1>6 DEF Path, PathCond
    <3>4. \A v \in Vars : store'[v][w] = conc'[v][w]
      BY <3>1, <3>2, <1>3, <1>4, <1>6
    <3> QED BY <2>2, <2>3, <3>1, <3>3, <3>4, <1>1, <1>2, <1>8 DEF Accounted
  <2>4. CASE status[w] = "done" /\ at[w] = depth
    <3>1. /\ w \in top.fwd /\ w \in ret /\ w \in exitCond /\ ~top.exitAll
          /\ w \in top.kept.dom
          /\ \A v \in Vars : top.kept.val[v][w] = conc[v][w]
      BY <2>1, <2>4, <1>1, <1>2 DEF Accounted, Shadowed, IsDone
    <3>2. status'[w] = "live" /\ w \in Path'
      BY <2>4, <3>1, <1>1, <1>6 DEF Path, PathCond
    <3>3. \A v \in Vars : store'[v][w] = conc'[v][w]
      BY <3>1, <1>3, <1>6
    <3> QED BY <2>2, <2>4, <3>1, <3>2, <3>3, <1>1, <1>2, <1>8 DEF Accounted
  <2>5. CASE status[w] # "live" /\ ~(status[w] = "done" /\ at[w] = depth)
    <3>1. status[w] = "wait" => at[w] # depth
      BY <2>1, <1>1 DEF Accounted, Waits
    <3>2. status'[w] = status[w] /\ at'[w] = at[w]
      BY <2>5, <1>6
    <3> QED BY <2>5, <3>1, <3>2, <1>1, <1>6, <1>9, PopStays
  <2> QED BY <2>3, <2>4, <2>5
<1>12. ASSUME NEW w \in Worlds PROVE Claimed(w)' /\ AppliesOnce(w)'
  <2>1. IsShadow(w) => at[w] = depth \/ (at[w] \in 1 .. depth' /\ at[w] # depth)
    BY <1>1, <1>2, <1>5, ParkedAt DEF IsShadow
  <2>2. IsShadow(w) => at[w] = depth \/ (IsShadow(w)' /\ at'[w] = at[w])
    BY <2>1, <1>5, <1>6 DEF IsShadow, IsApply
  <2>3. status[w] = "returned" => status'[w] = "returned" /\ at'[w] = at[w]
    BY <1>6
  <2>4. \A d \in 1 .. depth' : d < depth
    BY <1>2, <1>5
  <2>5. \/ status'[w] = status[w] /\ at'[w] = at[w]
        \/ status[w] # "exited" /\ \A d \in 1 .. depth' : IsApply(d)' => d < at[w]
    BY <1>6, <2>4
  <2> QED BY <1>1, <1>9, <2>2, <2>3, <2>5, SameKeeps, ClaimedStays, AppliesStay
<1> QED BY <1>1, <1>7, <1>8, <1>10, <1>11, <1>12 DEF IInv

LEMMA TableEndNoDefaultStep ==
  ASSUME IInv, TableEndNoDefault, Ref!Resume(depth)
  PROVE  IInv'
<1>1. /\ phase = "run" /\ top.kind = "table"
      /\ store' = MergeVars(top.kept, store)
      /\ exited' = (top.exitAll /\ exited) /\ returned' = returned
      /\ Pop /\ fwd' = fwd
      /\ phase' = phase /\ ret' = ret /\ exitCond' = exitCond
      /\ exits' = exits /\ callee' = callee
  BY DEF TableEndNoDefault, LeftByAll, MergeActions, flow
<1>2. /\ TypeOK
      /\ depth \in 1 .. MaxDepth /\ top \in Frame /\ FrameOK(top)
      /\ fwd = top.fwd /\ store = top.old /\ ~exited /\ ~returned /\ depth > 1
  <2>1. depth # 1
    BY <1>1, InBlock DEF NestedCalls, IsCall
  <2> QED BY <1>1, <2>1, InBlock DEF Nested, Inside
<1>3. /\ store' \in Store
      /\ \A v \in Vars, w \in Worlds : store'[v][w] =
           IF w \in top.kept.dom THEN top.kept.val[v][w] ELSE store[v][w]
  <2>1. store \in Store /\ top.kept \in Partial
    BY <1>2 DEF TypeOK, Frame
  <2> QED BY <1>1, <2>1, MergeVarsType
<1>4. /\ depth' = depth - 1 /\ depth' \in 0 .. MaxDepth
      /\ frames' \in [1 .. MaxDepth -> Frame]
      /\ \A d \in 1 .. depth' : frames'[d] = frames[d]
      /\ \A d \in 1 .. MaxDepth : d > depth' => frames'[d] = NoFrame
  BY <1>1, PopFacts
<1>5. /\ conc' = conc
      /\ status' \in [Worlds -> Ref!Statuses]
      /\ at' \in [Worlds -> 0 .. MaxDepth]
      /\ \A w \in Worlds :
           IF status[w] \in {"wait", "done"} /\ at[w] = depth
             THEN status'[w] = "live"
             ELSE status'[w] = status[w] /\ at'[w] = at[w]
  BY <1>2, ResumeFacts
<1>6. TypeOK'
  BY <1>1, <1>2, <1>3, <1>4, <1>5 DEF TypeOK
<1>7. Nested' /\ ~BetweenArms'
  BY <1>1, <1>2, PopNested
<1>8. SameCalls /\ SameApplies
  BY <1>1, <1>2, <1>4 DEF SameCalls, SameApplies, IsCall, IsApply
<1>9. NestedCalls'
  BY <1>1, <1>8, SameCallsNested
<1>10. ASSUME NEW w \in Worlds PROVE Accounted(w)'
  <2>1. Accounted(w) /\ status[w] # "live" /\ ~exited' /\ ~returned'
    BY <1>1, <1>2, InBlock DEF Accounted
  <2>2. CASE status[w] \in {"wait", "done"} /\ at[w] = depth
    <3>1. w \in top.fwd /\ w \in ret /\ w \in exitCond /\ w \notin exits'.dom
      BY <2>1, <2>2, <1>1 DEF Accounted, Parked, IsApply
    <3>2. \A v \in Vars : store'[v][w] = conc'[v][w]
      <4>1. CASE status[w] = "wait"
        <5>1. w \notin top.kept.dom /\ \A v \in Vars : top.old[v][w] = conc[v][w]
          BY <2>1, <2>2, <4>1, <1>1, <1>2 DEF Accounted, Waits, FrameOK
        <5> QED BY <5>1, <1>2, <1>3, <1>5
      <4>2. CASE status[w] = "done"
        <5>1. w \in top.kept.dom /\ \A v \in Vars : top.kept.val[v][w] = conc[v][w]
          BY <2>1, <2>2, <4>2 DEF Accounted, IsDone
        <5> QED BY <5>1, <1>3, <1>5
      <4> QED BY <2>2, <4>1, <4>2
    <3>3. status'[w] = "live" /\ w \in Path'
      BY <2>2, <3>1, <1>1, <1>2, <1>5 DEF Path, PathCond
    <3> QED BY <2>1, <3>1, <3>2, <3>3, <1>7 DEF Accounted
  <2>3. CASE ~(status[w] \in {"wait", "done"} /\ at[w] = depth)
    <3>1. status'[w] = status[w] /\ at'[w] = at[w]
      BY <2>3, <1>5
    <3> QED BY <2>1, <2>3, <3>1, <1>1, <1>5, <1>8, PopStays
  <2> QED BY <2>2, <2>3
<1>11. ASSUME NEW w \in Worlds PROVE Claimed(w)' /\ AppliesOnce(w)'
  <2>1. \A d \in 1 .. depth' : d < depth
    BY <1>2, <1>4
  <2>2. IsShadow(w) => at[w] \in 1 .. depth' /\ at[w] # depth
    BY <1>1, <1>2, <1>4, ParkedAt DEF IsShadow, IsApply
  <2>3. IsShadow(w) => IsShadow(w)' /\ at'[w] = at[w]
    BY <2>2, <1>4, <1>5 DEF IsShadow, IsApply
  <2>4. status[w] = "returned" => status'[w] = "returned" /\ at'[w] = at[w]
    BY <1>5
  <2>5. \/ status'[w] = status[w] /\ at'[w] = at[w]
        \/ status[w] # "exited" /\ \A d \in 1 .. depth' : IsApply(d)' => d < at[w]
    BY <1>5, <2>1
  <2> QED BY <1>1, <1>8, <2>3, <2>4, <2>5, SameKeeps, ClaimedStays, AppliesStay
<1> QED BY <1>1, <1>6, <1>7, <1>9, <1>10, <1>11 DEF IInv

-----------------------------------------------------------------------------
(* The invariant *)

\* Of the worlds an action is visited for in vain, none is on the path of an exit
\* that is guarded.
LEMMA GuardedExit ==
  ASSUME UnguardedExits = FALSE, IInv, ExitStatement, ExitIsGuarded
  PROVE  Path \subseteq Ref!Live
<1>1. /\ phase = "run" /\ ~BetweenArms
      /\ exits' = AddLater(exits, exitCond \cap PathCond, store)
  BY DEF ExitStatement, NextStatement, InBody
<1>2. /\ exits \in Partial /\ store \in Store /\ Path \in SUBSET Worlds
      /\ exitCond \cap PathCond = Path
  BY <1>1, InBlock DEF TypeOK, Path, PathCond
<1>3. exits'.dom = exits.dom \cup Path
  BY <1>1, <1>2, AddLaterType
<1> SUFFICES ASSUME NEW w \in Worlds, w \in Path, IsShadow(w) PROVE FALSE
  BY <1>1, <1>2, PathLive DEF Ref!Live
<1>4. /\ w \notin exits.dom /\ IsDone(w, frames[at[w]])
      /\ at[w] \in 1 .. depth /\ IsApply(at[w])
  BY <1>1, InBlock, ParkedAt DEF Accounted, IsShadow
<1>5. w \in MatchedBefore
  BY <1>4 DEF MatchedBefore, IsDone, IsApply
<1> QED BY <1>3, <1>4, <1>5 DEF ExitIsGuarded

LEMMA TableStepInv ==
  ASSUME MixedCallees = FALSE, UnguardedExits = FALSE, IInv, [TableRefNext]_allVars
  PROVE  IInv'
<1>1. ASSUME TableStatement PROVE IInv'
  <2>1. CASE RefStatement /\ ExitIsGuarded
    BY <2>1, GuardedExit, StatementInv
  <2>2. CASE TableOpen /\ Ref!Leave(Worlds, "wait", depth + 1)
    BY <2>2, TableOpenStep
  <2>3. ASSUME NEW m \in SUBSET Worlds, TableArm(m), Ref!Turn(m, depth)
        PROVE  IInv'
    BY <2>3, TableArmStep
  <2> QED BY <1>1, <2>1, <2>2, <2>3 DEF TableStatement
<1>2. ASSUME TableRefEnd PROVE IInv'
  <2>1. CASE RefEnd
    BY <2>1, EndInv
  <2>2. CASE TableArmEnd /\ Ref!Leave(Worlds, "done", depth)
    BY <2>2, TableArmEndStep
  <2>3. CASE DefaultAction /\ Ref!Turn(Worlds, depth)
    BY <2>3, DefaultActionStep
  <2>4. CASE TableEnd /\ Ref!Enter("done", depth)
    BY <2>4, TableEndStep
  <2>5. CASE TableEndNoDefault /\ Ref!Resume(depth)
    BY <2>5, TableEndNoDefaultStep
  <2> QED BY <1>2, <2>1, <2>2, <2>3, <2>4, <2>5 DEF TableRefEnd
<1>3. CASE RefBegin
  BY <1>3, BlockBeginStep
<1>4. CASE UNCHANGED allVars
  BY <1>4, StutterInv
<1> QED BY <1>1, <1>2, <1>3, <1>4 DEF TableRefNext

\* Whatever the tables and statements of the program, and however they are nested,
\* IInv always holds: in the programs in which no callee is left by return for some
\* inputs and by exit for all others, and no action of a table exits for an input
\* that has matched an earlier one.
THEOREM TableInductive ==
  ASSUME MixedCallees = FALSE, UnguardedExits = FALSE
  PROVE  TableRefSpec => []IInv
<1>1. RefInit => IInv
  BY InitInv
<1>2. IInv /\ [TableRefNext]_allVars => IInv'
  BY TableStepInv
<1> QED BY <1>1, <1>2, PTL DEF TableRefSpec

-----------------------------------------------------------------------------
(* The properties *)

\* An action is visited for every input that runs it, and in vain only for inputs
\* that an earlier action of the table has matched.
THEOREM TablePathSound ==
  ASSUME MixedCallees = FALSE, UnguardedExits = FALSE
  PROVE  TableRefSpec => []PathMissesNone
<1>1. IInv => PathMissesNone
  <2> SUFFICES ASSUME IInv, phase = "run", ~BetweenArms
               PROVE  /\ Ref!Live \subseteq Path
                      /\ \A w \in Path \ Ref!Live : \E d \in 1 .. depth :
                           /\ status[w] = "done" /\ at[w] = d
                           /\ frames[d].kind \in {"entry", "default"}
                           /\ w \in frames[d].matched
    BY DEF PathMissesNone
  <2>1. Path \subseteq Worlds
    BY InBlock DEF Path, PathCond, TypeOK
  <2>2. ASSUME NEW w \in Path \ Ref!Live
        PROVE  /\ status[w] = "done" /\ at[w] \in 1 .. depth
               /\ frames[at[w]].kind \in {"entry", "default"}
               /\ w \in frames[at[w]].matched
    <3>1. w \in Worlds /\ IsShadow(w)
      BY <2>1, <2>2, PathLive DEF Ref!Live
    <3>2. IsDone(w, frames[at[w]]) /\ at[w] \in 1 .. depth
      BY <3>1, InBlock, ParkedAt DEF Accounted, IsShadow
    <3> QED BY <3>1, <3>2 DEF IsShadow, IsApply, IsDone
  <2>3. Ref!Live \subseteq Path
    BY PathLive DEF Ref!Live
  <2> QED BY <2>2, <2>3
<1> QED BY <1>1, TableInductive, PTL

\* Merging the actions' states, first match first, never disturbs the variables of
\* an input that has applied the table.
THEOREM TableStoreSound ==
  ASSUME MixedCallees = FALSE, UnguardedExits = FALSE
  PROVE  TableRefSpec => []LiveAgrees
<1>1. IInv => LiveAgrees
  BY InBlock DEF LiveAgrees, Ref!Live, Accounted
<1> QED BY <1>1, TableInductive, PTL

\* After a table no statement is skipped that an input still has to execute.
THEOREM TableNothingSkipped ==
  ASSUME MixedCallees = FALSE, UnguardedExits = FALSE
  PROVE  TableRefSpec => []SkipsOnlyDead
<1>1. IInv => SkipsOnlyDead
  BY InBlock DEF SkipsOnlyDead, Ref!Live, Accounted
<1> QED BY <1>1, TableInductive, PTL

\* The state a block with tables hands over is, input by input, the one an ordinary
\* execution computes, which takes the first match in each table.
THEOREM TableBlockSound ==
  ASSUME MixedCallees = FALSE, UnguardedExits = FALSE
  PROVE  TableRefSpec => []BlockResult
<1>1. IInv => BlockResult
  BY DEF IInv, Idle, BlockResult
<1> QED BY <1>1, TableInductive, PTL

\* Types, with tables among the statements.
THEOREM TableTypeCorrect ==
  ASSUME MixedCallees = FALSE, UnguardedExits = FALSE
  PROVE  TableRefSpec => []TypeOK
<1>1. IInv => TypeOK
  BY DEF IInv
<1> QED BY <1>1, TableInductive, PTL
=============================================================================
