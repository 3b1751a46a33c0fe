------------------------- MODULE ParserStates_proofs -------------------------
(***************************************************************************)
(* Proofs about ParserStates, for every set of worlds and states, every    *)
(* parser, its loops and overlapping cases included, and every input.      *)
(***************************************************************************)
EXTENDS ParserStatesRef, FiniteSetTheorems, WellFoundedInduction,
        SequenceTheorems, TLAPS

\* The conditions are sets of worlds, and no world is recorded twice or lost.
LeavesInv ==
  /\ ret \subseteq Worlds /\ exitCond \subseteq Worlds
  /\ returns.dom \subseteq Worlds /\ exits.dom \subseteq Worlds
  /\ LeavesOnce

\* Only accept and reject record anything.
LEMMA OthersRecordNothing ==
  ASSUME Next, ~Accept, ~Reject
  PROVE  UNCHANGED <<ret, returns, exitCond, exits>>
BY DEF Next, RejectState, GoTo, Select, CaseOpen, CaseEnd, SelectEnd, ParserEnd, leaving

\* accept records its inputs as returned.
LEMMA AcceptInv == LeavesInv /\ Accept => LeavesInv'
<1> SUFFICES ASSUME LeavesInv, Accept PROVE LeavesInv'
  OBVIOUS
<1>1. /\ returns'.dom = returns.dom \cup (PathCond \cap exitCond)
      /\ ret' = ret \ PathCond /\ UNCHANGED <<exitCond, exits>>
  BY DEF Accept, AddEarlier
<1>2. PathCond \subseteq ret
  BY DEF PathCond
<1> HIDE DEF PathCond
<1> QED BY <1>1, <1>2 DEF LeavesInv, LeavesOnce

\* reject records its inputs as exited.
LEMMA RejectInv == LeavesInv /\ Reject => LeavesInv'
<1> SUFFICES ASSUME LeavesInv, Reject PROVE LeavesInv'
  OBVIOUS
<1>1. /\ exits'.dom = exits.dom \cup (exitCond \cap PathCond)
      /\ exitCond' = exitCond \ PathCond /\ UNCHANGED <<ret, returns>>
  BY DEF Reject, AddLater
<1>2. PathCond \subseteq ret
  BY DEF PathCond
<1> HIDE DEF PathCond
<1> QED BY <1>1, <1>2 DEF LeavesInv, LeavesOnce

\* Every input is recorded once, by accept or by reject, or not yet: whichever
\* cases overlap, and wherever a path is cut.
THEOREM ParserLeavesOnce == Spec => []LeavesOnce
<1>1. Init => LeavesInv
  BY DEF Init, Nothing, LeavesInv, LeavesOnce
<1>2. LeavesInv /\ [Next]_parserVars => LeavesInv'
  <2> SUFFICES ASSUME LeavesInv, [Next]_parserVars PROVE LeavesInv'
    OBVIOUS
  <2>1. CASE Accept
    BY <2>1, AcceptInv
  <2>2. CASE Reject
    BY <2>2, RejectInv
  <2>3. CASE UNCHANGED <<ret, returns, exitCond, exits>>
    BY <2>3 DEF LeavesInv, LeavesOnce
  <2> QED BY <2>1, <2>2, <2>3, OthersRecordNothing DEF parserVars, leaving
<1>3. LeavesInv => LeavesOnce
  BY DEF LeavesInv
<1> QED BY <1>1, <1>2, <1>3, PTL DEF Spec

-----------------------------------------------------------------------------
(* Parse *)

\* Induction on a set of naturals: the rule of the library has an operator parameter.
LEMMA NatSetInduction ==
  ASSUME NEW S \in SUBSET Nat, 0 \in S, \A n \in S : n + 1 \in S
  PROVE  S = Nat
<1> DEFINE T == Nat \ S
<1> SUFFICES ASSUME T # {} PROVE FALSE
  OBVIOUS
<1>1. PICK x \in T : \A y \in T : ~(<<y, x>> \in OpToRel(<, Nat))
  BY NatLessThanWellFounded, WFMin
<1>2. x \in Nat /\ x # 0
  OBVIOUS
<1>3. x - 1 \in Nat /\ x - 1 < x /\ (x - 1) + 1 = x
  BY <1>2
<1>4. <<x - 1, x>> \in OpToRel(<, Nat)
  BY <1>2, <1>3 DEF OpToRel
<1>5. x - 1 \in S
  BY <1>1, <1>3, <1>4
<1> QED BY <1>1, <1>3, <1>5

\* The least element of a set of naturals.
LEMMA MinIsLeast ==
  ASSUME NEW S \in SUBSET Nat, S # {}
  PROVE  Min(S) \in S /\ \A n \in S : Min(S) <= n
<1>1. PICK x \in S : \A y \in S : ~(<<y, x>> \in OpToRel(<, Nat))
  BY NatLessThanWellFounded, WFMin
<1>2. \A y \in S : ~(y < x)
  BY <1>1 DEF OpToRel
<1>3. \A y \in S : x <= y
  BY <1>2
<1> QED BY <1>3 DEF Min

LEMMA ElementType ==
  ASSUME NEW S, NEW q \in Seq(S), NEW k \in DOMAIN q
  PROVE  q[k] \in S
OBVIOUS

LEMMA InvalidatedType ==
  ASSUME NEW s \in Params
  PROVE  Invalidated(s) \in Params
BY InputAssumption, Zenon DEF Invalidated

\* A transition leads to a declaration.
LEMMA TakenType ==
  ASSUME parser \in Parsers, NEW at \in States, NEW s \in Params
  PROVE  Taken(parser[at].next, s) \in Declarations
<1> DEFINE next == parser[at].next
           matching == {k \in DOMAIN next.cases : s.key \in next.cases[k].keys}
<1>1. /\ next.kind = "path" => next.to \in Declarations
      /\ next.cases \in Seq(SelectCases)
      /\ next.default \in Declarations \cup {"none"}
  BY ParsersAssumption
<1>2. "reject" \in Declarations
  BY DEF Declarations
<1>3. ASSUME matching # {} PROVE next.cases[Min(matching)].to \in Declarations
  <2>1. DOMAIN next.cases \subseteq Nat
    BY <1>1
  <2>2. Min(matching) \in DOMAIN next.cases
    BY <1>3, <2>1, MinIsLeast
  <2>3. next.cases[Min(matching)] \in SelectCases
    BY <1>1, <2>2, ElementType
  <2> QED BY <2>3 DEF SelectCases
<1> QED BY <1>1, <1>2, <1>3 DEF Taken

Results == [Declarations -> [Params -> Params]]

LEMMA ResultType ==
  ASSUME NEW r \in Results, NEW at \in Declarations, NEW s \in Params
  PROVE  r[at][s] \in Params
BY DEF Results

\* One call of Parse, whose calls of itself are those of h.
ParseStep(h, rest) ==
  [at \in Declarations |-> [s \in Params |->
     IF at \in rest
     THEN h[rest \ {at}][Taken(parser[at].next, parser[at].body[s])][parser[at].body[s]]
     ELSE IF at = "reject" THEN Invalidated(s) ELSE s]]

Upto(n) == {rest \in SUBSET States : Cardinality(rest) <= n}

LEMMA UptoShrinks ==
  ASSUME NEW n \in Nat, NEW rest \in Upto(n), NEW at \in rest
  PROVE  n # 0 /\ rest \ {at} \in Upto(n - 1)
<1>1. IsFiniteSet(rest)
  BY ParsersAssumption, FS_Subset DEF Upto
<1>2. /\ Cardinality(rest) \in Nat /\ Cardinality(rest \ {at}) \in Nat
      /\ Cardinality(rest \ {at}) = Cardinality(rest) - 1
  BY <1>1, FS_RemoveElement, FS_CardinalityType
<1>3. Cardinality(rest) <= n
  BY DEF Upto
<1>4. rest \ {at} \in SUBSET States
  BY DEF Upto
<1> QED BY <1>2, <1>3, <1>4 DEF Upto

LEMMA ParseStepType ==
  ASSUME parser \in Parsers, NEW rest \in SUBSET States, NEW h,
         \A at \in rest : h[rest \ {at}] \in Results
  PROVE  ParseStep(h, rest) \in Results
<1> SUFFICES ASSUME NEW at \in Declarations, NEW s \in Params
             PROVE ParseStep(h, rest)[at][s] \in Params
  BY DEF ParseStep, Results
<1>1. CASE at \in rest
  <2>1. parser[at].body[s] \in Params
    BY <1>1, ParsersAssumption
  <2>2. Taken(parser[at].next, parser[at].body[s]) \in Declarations
    BY <1>1, <2>1, TakenType
  <2>3. h[rest \ {at}] \in Results
    BY <1>1
  <2>4. ParseStep(h, rest)[at][s] =
          h[rest \ {at}][Taken(parser[at].next, parser[at].body[s])][parser[at].body[s]]
    BY <1>1 DEF ParseStep
  <2> QED BY <2>1, <2>2, <2>3, <2>4, ResultType
<1>2. CASE at \notin rest
  BY <1>2, InvalidatedType DEF ParseStep
<1> QED BY <1>1, <1>2

\* Recursion on sets of at most n states.
Follows(h, n) ==
  /\ h \in [Upto(n) -> Results]
  /\ \A rest \in Upto(n) : h[rest] = ParseStep(h, rest)

LEMMA StepsAgree ==
  ASSUME NEW rest, NEW g, NEW h, \A at \in rest : g[rest \ {at}] = h[rest \ {at}]
  PROVE  ParseStep(g, rest) = ParseStep(h, rest)
BY DEF ParseStep

LEMMA FollowsNone ==
  ASSUME parser \in Parsers
  PROVE  \E h : Follows(h, 0)
<1> DEFINE h == [rest \in Upto(0) |-> ParseStep(<<>>, rest)]
<1>1. ASSUME NEW rest \in Upto(0) PROVE \A at \in rest : FALSE
  BY UptoShrinks
<1>2. ASSUME NEW rest \in Upto(0) PROVE h[rest] \in Results
  <2>1. rest \in SUBSET States
    BY DEF Upto
  <2>2. ParseStep(<<>>, rest) \in Results
    BY <1>1, <2>1, ParseStepType
  <2> QED BY <2>2
<1>3. ASSUME NEW rest \in Upto(0) PROVE h[rest] = ParseStep(h, rest)
  <2> HIDE DEF h
  <2>1. ParseStep(<<>>, rest) = ParseStep(h, rest)
    BY <1>1, StepsAgree
  <2> QED BY <2>1 DEF h
<1>4. h \in [Upto(0) -> Results]
  BY <1>2
<1> HIDE DEF h
<1> QED BY <1>3, <1>4 DEF Follows

LEMMA FollowsNext ==
  ASSUME parser \in Parsers, NEW n \in Nat, NEW h, Follows(h, n)
  PROVE  \E i : Follows(i, n + 1)
<1> DEFINE i == [rest \in Upto(n + 1) |-> ParseStep(h, rest)]
<1>1. ASSUME NEW rest \in Upto(n + 1), NEW at \in rest PROVE rest \ {at} \in Upto(n)
  BY UptoShrinks, n + 1 \in Nat, (n + 1) - 1 = n
<1>2. ASSUME NEW rest \in Upto(n + 1) PROVE ParseStep(h, rest) \in Results
  <2>1. rest \in SUBSET States
    BY DEF Upto
  <2>2. \A at \in rest : h[rest \ {at}] \in Results
    BY <1>1 DEF Follows
  <2> QED BY <2>1, <2>2, ParseStepType
<1>3. Upto(n) \subseteq Upto(n + 1)
  <2> SUFFICES ASSUME NEW rest \in Upto(n) PROVE rest \in Upto(n + 1)
    OBVIOUS
  <2>1. Cardinality(rest) \in Nat
    BY ParsersAssumption, FS_Subset, FS_CardinalityType DEF Upto
  <2> QED BY <2>1 DEF Upto
<1>4. ASSUME NEW rest \in Upto(n) PROVE i[rest] = h[rest]
  BY <1>3 DEF Follows
<1>5. ASSUME NEW rest \in Upto(n + 1) PROVE i[rest] = ParseStep(i, rest)
  <2>1. \A at \in rest : i[rest \ {at}] = h[rest \ {at}]
    BY <1>1, <1>4
  <2>2. i[rest] = ParseStep(h, rest)
    OBVIOUS
  <2> HIDE DEF i
  <2>3. ParseStep(i, rest) = ParseStep(h, rest)
    BY <2>1, StepsAgree
  <2> QED BY <2>2, <2>3
<1>6. i \in [Upto(n + 1) -> Results]
  BY <1>2
<1> HIDE DEF i
<1> QED BY <1>5, <1>6 DEF Follows

\* Parse is what its definition says.
LEMMA ParseUnfolds ==
  ASSUME parser \in Parsers
  PROVE  /\ Parse \in [SUBSET States -> Results]
         /\ \A rest \in SUBSET States : Parse[rest] = ParseStep(Parse, rest)
<1> DEFINE S == {n \in Nat : \E h : Follows(h, n)}
           n == Cardinality(States)
<1>1. S = Nat
  <2>1. 0 \in S
    BY FollowsNone
  <2>2. \A k \in S : k + 1 \in S
    BY FollowsNext
  <2>3. S \in SUBSET Nat
    OBVIOUS
  <2> HIDE DEF S
  <2> QED BY <2>1, <2>2, <2>3, NatSetInduction
<1>2. n \in Nat
  BY ParsersAssumption, FS_CardinalityType
<1>3. PICK h : Follows(h, n)
  BY <1>1, <1>2
<1>4. Upto(n) = SUBSET States
  BY ParsersAssumption, FS_Subset DEF Upto
<1>5. h = [rest \in SUBSET States |-> ParseStep(h, rest)]
  BY <1>3, <1>4 DEF Follows
<1>6. Parse = [rest \in SUBSET States |-> ParseStep(Parse, rest)]
  BY <1>5, ZenonT(30) DEF Parse, ParseStep
<1>7. ASSUME NEW rest \in SUBSET States PROVE Parse[rest] = ParseStep(Parse, rest)
  BY <1>6
<1> DEFINE T == {k \in Nat : \A rest \in Upto(k) : Parse[rest] \in Results}
<1>8. T = Nat
  <2>1. 0 \in T
    <3> SUFFICES ASSUME NEW rest \in Upto(0) PROVE Parse[rest] \in Results
      OBVIOUS
    <3>1. rest \in SUBSET States /\ \A at \in rest : FALSE
      BY UptoShrinks DEF Upto
    <3>2. ParseStep(Parse, rest) \in Results
      BY <3>1, ParseStepType
    <3> QED BY <3>1, <3>2, <1>7
  <2>2. ASSUME NEW k \in T PROVE k + 1 \in T
    <3> SUFFICES ASSUME NEW rest \in Upto(k + 1) PROVE Parse[rest] \in Results
      OBVIOUS
    <3>1. rest \in SUBSET States
      BY DEF Upto
    <3>2. \A at \in rest : rest \ {at} \in Upto(k)
      BY UptoShrinks, k + 1 \in Nat, (k + 1) - 1 = k
    <3>3. ParseStep(Parse, rest) \in Results
      BY <3>1, <3>2, ParseStepType
    <3> QED BY <3>1, <3>3, <1>7
  <2>3. T \in SUBSET Nat
    OBVIOUS
  <2> HIDE DEF T
  <2> QED BY <2>1, <2>2, <2>3, NatSetInduction
<1>9. \A rest \in SUBSET States : Parse[rest] \in Results
  BY <1>2, <1>4, <1>8
<1> QED BY <1>6, <1>7, <1>9

\* Parse of a state that has not been visited: its body, then its transition.
LEMMA ParseState ==
  ASSUME parser \in Parsers, NEW seen \in SUBSET States,
         NEW at \in States \ seen, NEW s \in Params
  PROVE  /\ parser[at].body[s] \in Params
         /\ Taken(parser[at].next, parser[at].body[s]) \in Declarations
         /\ Rest(at, s, seen) = Rest(Taken(parser[at].next, parser[at].body[s]),
                                     parser[at].body[s], seen \cup {at})
<1>1. parser[at].body[s] \in Params
  BY ParsersAssumption
<1>2. Taken(parser[at].next, parser[at].body[s]) \in Declarations
  BY <1>1, TakenType
<1>3. /\ at # "back" /\ "back" \notin Declarations /\ at \in Declarations
  BY ParsersAssumption DEF Declarations
<1>4. Parse[States \ seen] = ParseStep(Parse, States \ seen)
  BY ParseUnfolds
<1>5. (States \ seen) \ {at} = States \ (seen \cup {at})
  OBVIOUS
<1>6. ParseStep(Parse, States \ seen)[at][s] =
        Parse[States \ (seen \cup {at})][Taken(parser[at].next, parser[at].body[s])][parser[at].body[s]]
  BY <1>3, <1>5 DEF ParseStep
<1> HIDE DEF Taken
<1> QED BY <1>1, <1>2, <1>3, <1>4, <1>6 DEF Rest

\* Parse of what is not a state, or has been visited.
LEMMA ParseLeaf ==
  ASSUME parser \in Parsers, NEW seen \in SUBSET States, NEW s \in Params,
         NEW at \in Declarations, at \notin States \ seen
  PROVE  Rest(at, s, seen) = IF at = "reject" THEN Invalidated(s) ELSE s
<1>1. at # "back"
  BY ParsersAssumption DEF Declarations
<1>2. Parse[States \ seen] = ParseStep(Parse, States \ seen)
  BY ParseUnfolds
<1>3. ParseStep(Parse, States \ seen)[at][s] = IF at = "reject" THEN Invalidated(s) ELSE s
  BY DEF ParseStep
<1> HIDE DEF ParseStep
<1>4. Rest(at, s, seen) = Parse[States \ seen][at][s]
  BY <1>1 DEF Rest
<1> QED BY <1>2, <1>3, <1>4

LEMMA RestType ==
  ASSUME parser \in Parsers, NEW seen \in SUBSET States, NEW s \in Params,
         NEW at \in Declarations \cup {"back"}
  PROVE  Rest(at, s, seen) \in Params
<1>1. Parse[States \ seen] \in Results
  BY ParseUnfolds
<1> QED BY <1>1, ResultType DEF Rest

\* A state that has been visited is a loop's end.
LEMMA RestTarget ==
  ASSUME parser \in Parsers, NEW seen \in SUBSET States, NEW s \in Params,
         NEW to \in Declarations
  PROVE  Rest(Target(to, seen), s, seen) = Rest(to, s, seen)
<1>1. CASE to \in seen
  <2>1. Rest(to, s, seen) = s
    BY <1>1, ParseLeaf, ParsersAssumption
  <2> QED BY <1>1, <2>1 DEF Rest, Target
<1>2. CASE to \notin seen
  BY <1>2 DEF Target
<1> QED BY <1>1, <1>2

\* The parser does not change, and so does what a parse leaves.
LEMMA ParseUnchanged ==
  ASSUME parser' = parser
  PROVE  /\ Parse' = Parse
         /\ \A w : Done(w)' = Done(w)
         /\ \A at, s, seen : Rest(at, s, seen)' = Rest(at, s, seen)
<1>1. Parse' = Parse
  BY DEF Parse
<1> QED BY <1>1 DEF Done, Rest

-----------------------------------------------------------------------------
(* Types *)

Conds == [cond : SUBSET Worlds, to : Declarations]

\* A sequence without its last element.
LEMMA FrontFacts ==
  ASSUME NEW S, NEW q \in Seq(S), q # <<>>
  PROVE  /\ Front(q) \in Seq(S) /\ Len(Front(q)) = Len(q) - 1
         /\ DOMAIN Front(q) = 1 .. Len(q) - 1
         /\ \A d \in 1 .. Len(q) - 1 : Front(q)[d] = q[d]
<1> DEFINE n == Len(q) - 1
<1>1. n \in Nat /\ \A d \in 1 .. n : q[d] \in S /\ d \in 1 .. Len(q)
  OBVIOUS
<1> HIDE DEF n
<1>2. n - 1 + 1 = n /\ (IF 1 <= n THEN n - 1 + 1 ELSE 0) = n
      /\ \A d \in 1 .. n : 1 + d - 1 = d
  BY <1>1
<1>3. 1 \in Int /\ n \in Int
  BY <1>1
<1>4. /\ SubSeq(q, 1, n) \in Seq(S) /\ Len(SubSeq(q, 1, n)) = n
      /\ \A d \in 1 .. n : SubSeq(q, 1, n)[d] = q[d]
  BY <1>1, <1>2, <1>3, SubSeqProperties
<1> QED BY <1>4 DEF n, Front

LEMMA AppendFacts ==
  ASSUME NEW S, NEW q \in Seq(S), NEW x \in S
  PROVE  /\ Append(q, x) \in Seq(S) /\ Len(Append(q, x)) = Len(q) + 1
         /\ Append(q, x) = q \o <<x>>
         /\ DOMAIN Append(q, x) = 1 .. Len(q) + 1
         /\ Append(q, x)[Len(q) + 1] = x
         /\ \A d \in 1 .. Len(q) : Append(q, x)[d] = q[d]
OBVIOUS

LEMMA FunctionIsSeq ==
  ASSUME NEW S, NEW n \in Nat, NEW q \in [1 .. n -> S]
  PROVE  q \in Seq(S) /\ Len(q) = n
OBVIOUS

\* The innermost select, and the others.
LEMMA LastFrame ==
  ASSUME frames \in Seq(Frames), frames # <<>>
  PROVE  /\ Len(frames) \in Nat \ {0} /\ Len(frames) \in DOMAIN frames
         /\ frame = frames[Len(frames)] /\ frame \in Frames
         /\ DOMAIN frames = 1 .. Len(frames)
BY DEF frame, Last

LEMMA FrontFrames ==
  ASSUME frames \in Seq(Frames), frames # <<>>
  PROVE  /\ Front(frames) \in Seq(Frames) /\ Len(Front(frames)) = Len(frames) - 1
         /\ DOMAIN Front(frames) = 1 .. Len(frames) - 1
         /\ \A d \in 1 .. Len(frames) - 1 : Front(frames)[d] = frames[d]
BY FrontFacts

LEMMA HeadTail ==
  ASSUME NEW q \in Seq(Conds), q # <<>>
  PROVE  /\ Head(q) \in Conds /\ Head(q) = q[1] /\ Tail(q) \in Seq(Conds)
         /\ 1 \in DOMAIN q /\ DOMAIN q = 1 .. Len(q) /\ Len(q) \in Nat
         /\ DOMAIN Tail(q) = 1 .. Len(q) - 1
         /\ \A k \in DOMAIN Tail(q) : Tail(q)[k] = q[k + 1] /\ k + 1 \in DOMAIN q
OBVIOUS

LEMMA MergedType ==
  ASSUME NEW p \in Partial, NEW s \in Stores
  PROVE  MergeVars(p, s) \in Stores
BY DEF MergeVars, Partial, Stores

LEMMA AddEarlierType ==
  ASSUME NEW p \in Partial, NEW cond \in SUBSET Worlds, NEW s \in Stores
  PROVE  AddEarlier(p, cond, s) \in Partial
<1>1. MergeVars(p, s) \in Stores
  BY MergedType
<1> QED BY <1>1 DEF AddEarlier, MergeVars, Partial

LEMMA AddEarlierDom ==
  ASSUME NEW p, NEW cond, NEW s
  PROVE  AddEarlier(p, cond, s).dom = p.dom \cup cond
BY DEF AddEarlier

LEMMA AddEarlierVal ==
  ASSUME NEW p, NEW cond, NEW s, NEW w \in Worlds
  PROVE  AddEarlier(p, cond, s).val[w] = IF w \in p.dom THEN p.val[w] ELSE s[w]
BY DEF AddEarlier, MergeVars

LEMMA AddLaterType ==
  ASSUME NEW p \in Partial, NEW cond \in SUBSET Worlds, NEW s \in Stores
  PROVE  AddLater(p, cond, s) \in Partial
<1>1. [dom |-> cond, val |-> s] \in Partial /\ p.val \in Stores
  BY DEF Partial
<1>2. MergeVars([dom |-> cond, val |-> s], p.val) \in Stores
  BY <1>1, MergedType
<1> QED BY <1>2 DEF AddLater, MergeVars, Partial

LEMMA AddLaterDom ==
  ASSUME NEW p, NEW cond, NEW s
  PROVE  AddLater(p, cond, s).dom = p.dom \cup cond
BY DEF AddLater

LEMMA AddLaterVal ==
  ASSUME NEW p, NEW cond, NEW s, NEW w \in Worlds
  PROVE  AddLater(p, cond, s).val[w] = IF w \in cond THEN s[w] ELSE p.val[w]
BY DEF AddLater, MergeVars

\* The body of a state, in every world.
LEMMA BodyType ==
  ASSUME parser \in Parsers, TypeOK, pc \in States
  PROVE  /\ Body \in Stores
         /\ \A w \in Worlds : Body[w] = parser[pc].body[store[w]] /\ store[w] \in Params
<1>1. parser[pc].body \in [Params -> Params]
  BY ParsersAssumption
<1> QED BY <1>1 DEF Body, TypeOK, Stores

LEMMA TargetType ==
  ASSUME NEW to \in Declarations, NEW seen
  PROVE  Target(to, seen) \in Declarations \cup {"back"}
BY DEF Target

\* The conditions of a select, a case for each of its cases and one for the default.
LEMMA SelectCondsType ==
  ASSUME parser \in Parsers, NEW at \in States, NEW s \in Stores
  PROVE  LET next == parser[at].next
             conds == SelectConds(next, s)
         IN  /\ conds \in Seq(Conds) /\ Len(conds) = Len(next.cases) + 1
             /\ Len(next.cases) \in Nat /\ DOMAIN next.cases = 1 .. Len(next.cases)
             /\ DOMAIN conds = 1 .. Len(next.cases) + 1
             /\ \A k \in 1 .. Len(next.cases) :
                  /\ conds[k].cond = Match(next.cases[k], s)
                  /\ conds[k].to = next.cases[k].to
             /\ conds[Len(next.cases) + 1].cond =
                  Worlds \ UNION {Match(next.cases[k], s) : k \in DOMAIN next.cases}
             /\ conds[Len(next.cases) + 1].to =
                  IF next.default = "none" THEN "reject" ELSE next.default
<1> DEFINE next == parser[at].next
           matches == UNION {Match(next.cases[k], s) : k \in DOMAIN next.cases}
           cases == [k \in DOMAIN next.cases |->
                       [cond |-> Match(next.cases[k], s), to |-> next.cases[k].to]]
           default == [cond |-> Worlds \ matches,
                       to |-> IF next.default = "none" THEN "reject" ELSE next.default]
<1>1. /\ next.cases \in Seq(SelectCases)
      /\ next.default \in Declarations \cup {"none"}
  BY ParsersAssumption
<1>2. /\ Len(next.cases) \in Nat /\ DOMAIN next.cases = 1 .. Len(next.cases)
      /\ \A k \in DOMAIN next.cases : next.cases[k] \in SelectCases
  BY <1>1, ElementType
<1>3. \A k \in DOMAIN next.cases : next.cases[k].to \in Declarations
  BY <1>2 DEF SelectCases
<1>4. \A c : Match(c, s) \subseteq Worlds
  BY DEF Match
<1>5. cases \in Seq(Conds) /\ Len(cases) = Len(next.cases)
  <2>1. \A k \in DOMAIN next.cases :
          [cond |-> Match(next.cases[k], s), to |-> next.cases[k].to] \in Conds
    BY <1>3, <1>4 DEF Conds
  <2>2. cases \in [1 .. Len(next.cases) -> Conds]
    BY <1>2, <2>1
  <2> HIDE DEF cases
  <2> QED BY <1>2, <2>2, FunctionIsSeq
<1>6. default \in Conds
  <2>1. "reject" \in Declarations
    BY DEF Declarations
  <2> QED BY <1>1, <2>1 DEF Conds
<1>7. SelectConds(next, s) = cases \o <<default>>
  BY DEF SelectConds
<1> DEFINE conds == SelectConds(next, s)
<1>8. /\ conds \in Seq(Conds) /\ Len(conds) = Len(next.cases) + 1
      /\ \A k \in 1 .. Len(next.cases) : conds[k] = cases[k]
      /\ conds[Len(next.cases) + 1] = default
  <2> HIDE DEF cases, default
  <2>1. conds = Append(cases, default)
    BY <1>5, <1>6, <1>7, AppendFacts
  <2> QED BY <1>2, <1>5, <1>6, <2>1, AppendFacts
<1>9. /\ \A k \in 1 .. Len(next.cases) :
           conds[k].cond = Match(next.cases[k], s) /\ conds[k].to = next.cases[k].to
      /\ conds[Len(next.cases) + 1].cond = Worlds \ matches
      /\ conds[Len(next.cases) + 1].to = IF next.default = "none" THEN "reject" ELSE next.default
  <2> HIDE DEF conds
  <2>1. \A k \in 1 .. Len(next.cases) :
          cases[k] = [cond |-> Match(next.cases[k], s), to |-> next.cases[k].to]
    BY <1>2
  <2>2. Len(next.cases) \in Nat
    BY <1>2
  <2> HIDE DEF cases, matches, next
  <2>3. \A k \in 1 .. Len(next.cases) :
          conds[k].cond = Match(next.cases[k], s) /\ conds[k].to = next.cases[k].to
    <3> TAKE k \in 1 .. Len(next.cases)
    <3> DEFINE cond == Match(next.cases[k], s)
               to == next.cases[k].to
    <3>1. conds[k] = [cond |-> cond, to |-> to]
      BY <1>8, <2>1
    <3> HIDE DEF cond, to
    <3>2. conds[k].cond = cond /\ conds[k].to = to
      BY <3>1
    <3> QED BY <3>2 DEF cond, to
  <2>4. conds[Len(next.cases) + 1] = default
    BY <1>8
  <2> QED BY <2>3, <2>4
<1>10. DOMAIN conds = 1 .. Len(next.cases) + 1
  <2> HIDE DEF conds
  <2> QED BY <1>8
<1> HIDE DEF conds
<1> QED BY <1>2, <1>8, <1>9, <1>10 DEF conds

-----------------------------------------------------------------------------
(* Frames *)

LEMMA FrameFields ==
  ASSUME NEW f \in Frames
  PROVE  /\ f.cases \in Seq(Conds) /\ f.open \in BOOLEAN /\ f.old \in Stores
         /\ f.visited \in SUBSET States /\ f.kept \in Partial
         /\ f.exitAll \in BOOLEAN /\ f.returnAll \in BOOLEAN /\ f.fwd \in SUBSET Worlds
BY DEF Frames, Conds

\* The innermost select goes on.
LEMMA TopReplaced ==
  ASSUME frames \in Seq(Frames), frames # <<>>, NEW g \in Frames,
         frames' = [frames EXCEPT ![Len(frames)] = g]
  PROVE  /\ frames' \in Seq(Frames) /\ frames' # <<>> /\ Len(frames') = Len(frames)
         /\ DOMAIN frames' = 1 .. Len(frames) /\ frames'[Len(frames)] = g /\ frame' = g
         /\ \A d \in 1 .. Len(frames) - 1 : frames'[d] = frames[d]
<1>1. /\ frames' \in Seq(Frames) /\ frames' # <<>> /\ Len(frames') = Len(frames)
      /\ DOMAIN frames' = 1 .. Len(frames) /\ frames'[Len(frames)] = g
      /\ \A d \in 1 .. Len(frames) - 1 : frames'[d] = frames[d]
  OBVIOUS
<1> QED BY <1>1 DEF frame, Last

\* A select is opened.
LEMMA FramePushed ==
  ASSUME frames \in Seq(Frames), NEW g \in Frames, frames' = Append(frames, g)
  PROVE  /\ frames' \in Seq(Frames) /\ frames' # <<>> /\ Len(frames') = Len(frames) + 1
         /\ DOMAIN frames' = 1 .. Len(frames) + 1 /\ frames'[Len(frames) + 1] = g /\ frame' = g
         /\ \A d \in 1 .. Len(frames) : frames'[d] = frames[d]
         /\ Len(frames) \in Nat
<1>1. /\ frames' \in Seq(Frames) /\ Len(frames') = Len(frames) + 1
      /\ DOMAIN frames' = 1 .. Len(frames) + 1 /\ frames'[Len(frames) + 1] = g
      /\ \A d \in 1 .. Len(frames) : frames'[d] = frames[d]
  BY AppendFacts
<1>2. Len(frames) \in Nat
  OBVIOUS
<1>3. frames' # <<>> /\ Last(frames') = frames'[Len(frames')]
  BY <1>1, <1>2 DEF Last
<1> QED BY <1>1, <1>2, <1>3 DEF frame

\* What an outer select knows of a world stays as it is.
LEMMA FrameKept ==
  ASSUME parser' = parser, NEW d, frames'[d] = frames[d], NEW w
  PROVE  /\ Waits(frames[d], w) => Waits(frames[d], w)'
         /\ IsKept(frames[d], w) => IsKept(frames[d], w)'
         /\ (frames[d].open /\ w \in Head(frames[d].cases).cond) =>
              (frames[d].open /\ w \in Head(frames[d].cases).cond)'
<1> DEFINE f == frames[d]
<1>0. Parse' = Parse /\ f' = f
  BY ParseUnchanged
<1>1. Waits(f, w) => Waits(f, w)'
  <2> SUFFICES ASSUME Waits(f, w) PROVE Waits(f, w)'
    OBVIOUS
  <2>1. PICK k \in DOMAIN Left(f) :
           /\ w \in Left(f)[k].cond
           /\ \A j \in 1 .. k - 1 : w \notin Left(f)[j].cond
           /\ Rest(Left(f)[k].to, f.old[w], f.visited) = Done(w)
    BY DEF Waits
  <2>2. /\ Left(f)' = Left(f) /\ (f.old[w])' = f.old[w] /\ f.visited' = f.visited
        /\ Done(w)' = Done(w)
    BY <1>0 DEF Left, Done
  <2>3. Rest(Left(f)[k].to, f.old[w], f.visited)' = Rest(Left(f)[k].to, f.old[w], f.visited)
    BY <1>0, <2>2 DEF Rest
  <2> HIDE DEF f
  <2> QED BY <2>1, <2>2, <2>3 DEF Waits
<1>2. Loops(parser)' = Loops(parser)
  OBVIOUS
<1>3. IsKept(frames[d], w) => IsKept(frames[d], w)'
  BY <1>2, ParseUnchanged DEF IsKept, Done
<1> QED BY <1>1, <1>3

LEMMA FramedKept ==
  ASSUME Framed, parser' = parser, frames' = frames, Within' \subseteq Within
  PROVE  Framed'
<1> SUFFICES ASSUME NEW d \in DOMAIN frames, NEW w \in Within' \cap frames[d].fwd
             PROVE (\/ frames[d].open /\ w \in Head(frames[d].cases).cond
                    \/ Waits(frames[d], w)
                    \/ IsKept(frames[d], w))'
  BY DEF Framed
<1>1. w \in Within \cap frames[d].fwd
  OBVIOUS
<1>2. \/ frames[d].open /\ w \in Head(frames[d].cases).cond
      \/ Waits(frames[d], w)
      \/ IsKept(frames[d], w)
  BY <1>1 DEF Framed
<1> QED BY <1>2, FrameKept

\* Where the states are not visited for ever, there is no rank.
LEMMA NoRank ==
  ASSUME NEW p, \A rank \in Ranks(p) : FALSE
  PROVE  Loops(p)
BY DEF Loops

\* A rank goes down along a transition.
LEMMA RankDown ==
  ASSUME NEW p, NEW rank \in Ranks(p), NEW s \in States,
         NEW t \in Transition(p[s].next) \cap States
  PROVE  rank[t] < rank[s]
BY DEF Ranks

LEMMA RankType ==
  ASSUME NEW p, NEW rank \in Ranks(p), NEW s \in States
  PROVE  rank[s] \in Nat
<1>1. rank \in [States -> 1 .. Cardinality(States)]
  BY DEF Ranks
<1>2. Cardinality(States) \in Nat
  BY ParsersAssumption, FS_CardinalityType
<1> QED BY <1>1, <1>2

-----------------------------------------------------------------------------
(* States, accept and reject *)

Inv == parser \in Parsers /\ Orderly(parser) /\ IInv

LEMMA NotStates ==
  ASSUME NEW s \in States
  PROVE  s # "accept" /\ s # "reject" /\ s # "none" /\ s # "back" /\ s # "end" /\ s \in Declarations
BY ParsersAssumption DEF Declarations

LEMMA NotPlaces ==
  ASSUME NEW to \in Declarations
  PROVE  to # "none" /\ to # "back" /\ to # "end"
BY ParsersAssumption DEF Declarations

LEMMA RestPrimed ==
  ASSUME parser' = parser, NEW w
  PROVE  /\ Rest(pc, store[w], visited)' = Rest(pc', store'[w], visited')
         /\ Done(w)' = Done(w)
<1>1. Parse' = Parse
  BY ParseUnchanged
<1> QED BY <1>1 DEF Rest, Done

\* A state is visited, and another declaration is next, whatever its parameters.
LEMMA PathStep ==
  ASSUME Inv, pc \in States, NEW to \in Declarations,
         \A s : Taken(parser[pc].next, s) = to,
         to \in States => to \in Transition(parser[pc].next),
         visited' = visited \cup {pc}, store' = Body, pc' = Target(to, visited'),
         UNCHANGED <<parser, frames, fwd, leaving>>
  PROVE  IInv'
<1>1. /\ parser \in Parsers /\ TypeOK /\ visited \in SUBSET States
      /\ pc # "back" /\ pc # "end" /\ pc \notin visited /\ ~exited /\ ~returned
      /\ frames # <<>> => frame.open
  BY NotStates DEF Inv, IInv, TypeOK, Nested, Ranked
<1>2. visited' \in SUBSET States /\ pc \in visited'
  BY <1>1
<1>3. \/ pc' = "back" /\ to \in visited'
      \/ pc' = to /\ to \notin visited' /\ to # "back" /\ to # "end"
  BY NotPlaces DEF Target
<1>4. TypeOK'
  BY <1>1, <1>2, <1>3, BodyType DEF TypeOK, leaving
<1>5. LeavesOnce'
  BY DEF Inv, IInv, LeavesOnce, leaving
<1>6. ASSUME NEW rank \in Ranks(parser), to \in States, NEW s \in visited'
      PROVE  rank[to] < rank[s]
  <2>1. rank[to] < rank[pc]
    BY <1>6, RankDown
  <2>2. s # pc => rank[pc] < rank[s]
    BY <1>6 DEF Inv, IInv, Ranked
  <2>3. rank[to] \in Nat /\ rank[pc] \in Nat /\ rank[s] \in Nat
    BY <1>2, <1>6, RankType
  <2> QED BY <2>1, <2>2, <2>3
<1>7. ASSUME to \in visited' PROVE Loops(parser)
  <2> SUFFICES ASSUME NEW rank \in Ranks(parser) PROVE FALSE
    BY NoRank
  <2>1. to \in States
    BY <1>2, <1>7
  <2>2. rank[to] < rank[to] /\ rank[to] \in Nat
    BY <1>6, <1>7, <2>1, RankType
  <2> QED BY <2>2
<1>8. Nested'
  <2>1. Nested
    BY DEF Inv, IInv
  <2>2. pc' # "end" /\ UNCHANGED <<frames, fwd, exited, returned>>
    BY <1>3, ParsersAssumption DEF leaving
  <2>3. frame' = frame
    BY <2>2 DEF frame
  <2>4. \A d \in DOMAIN frames : frames[d].fwd = Outer(d - 1)'
    BY <2>1, <2>2 DEF Nested, Outer
  <2>5. Outer(Len(frames))' = Outer(Len(frames))
    BY <2>2 DEF Outer
  <2> QED BY <1>1, <2>1, <2>2, <2>3, <2>4, <2>5 DEF Nested
<1>9. Ranked'
  <2>1. UNCHANGED <<parser, frames>>
    OBVIOUS
  <2>2. pc' \in States => pc' = to /\ to \notin visited'
    BY <1>3, ParsersAssumption
  <2>3. Ranks(parser)' = Ranks(parser)
    OBVIOUS
  <2>4. Ranked
    BY DEF Inv, IInv
  <2> QED BY <1>6, <2>1, <2>2, <2>3, <2>4 DEF Ranked
<1>10. CasesDisjoint'
  BY DEF Inv, IInv, CasesDisjoint
<1>11. Recorded'
  BY ParseUnchanged DEF Inv, IInv, Recorded, leaving
<1>12. Current'
  <2> SUFFICES ASSUME NEW w \in Within' \cap fwd'
               PROVE /\ Rest(pc, store[w], visited)' = Done(w)'
                     /\ (pc = "back" => ~exited /\ ~returned /\ Loops(parser))'
    BY DEF Current
  <2>1. w \in Within \cap fwd /\ UNCHANGED <<parser, exited, returned>> /\ w \in Worlds
    BY <1>1 DEF Within, leaving, TypeOK
  <2>2. Rest(pc, store[w], visited) = Done(w)
    BY <1>1, <2>1 DEF Inv, IInv, Current
  <2>3. store[w] \in Params /\ store'[w] = parser[pc].body[store[w]]
    BY <1>1, <2>1, BodyType
  <2>4. /\ store'[w] \in Params
        /\ Rest(pc, store[w], visited) = Rest(to, store'[w], visited')
    <3> DEFINE after == parser[pc].body[store[w]]
    <3>1. /\ after \in Params
          /\ Rest(pc, store[w], visited) = Rest(Taken(parser[pc].next, after), after, visited \cup {pc})
      BY <1>1, <2>3, ParseState
    <3>2. Taken(parser[pc].next, after) = to
      OBVIOUS
    <3>3. after = store'[w]
      BY <2>3
    <3> HIDE DEF after
    <3> QED BY <3>1, <3>2, <3>3
  <2>5. Rest(pc', store'[w], visited') = Rest(to, store'[w], visited')
    BY <1>1, <1>2, <2>4, RestTarget
  <2>6. Rest(pc', store'[w], visited') = Done(w)
    BY <2>2, <2>4, <2>5
  <2>7. pc' = "back" => to \in visited'
    BY <1>3
  <2>8. Rest(pc, store[w], visited)' = Rest(pc', store'[w], visited') /\ Done(w)' = Done(w)
    BY <2>1, RestPrimed
  <2> QED BY <1>1, <1>7, <2>1, <2>6, <2>7, <2>8
<1>13. Framed'
  BY FramedKept DEF Inv, IInv, Within, leaving
<1>14. ParserAgrees'
  BY <1>3, ParsersAssumption DEF ParserAgrees
<1> QED BY <1>4, <1>5, <1>8, <1>9, <1>10, <1>11, <1>12, <1>13, <1>14 DEF IInv

LEMMA RejectStateInv == Inv /\ RejectState => IInv'
<1> SUFFICES ASSUME Inv, RejectState PROVE IInv'
  OBVIOUS
<1>1. /\ pc \in States /\ visited' = visited \cup {pc} /\ store' = Body
      /\ pc' = "reject" /\ UNCHANGED <<parser, frames, fwd, leaving>>
      /\ parser[pc].next.kind = "none"
  BY DEF RejectState
<1>2. "reject" \in Declarations /\ "reject" \notin States
  BY ParsersAssumption DEF Declarations
<1>3. \A s : Taken(parser[pc].next, s) = "reject"
  BY <1>1 DEF Taken
<1>4. visited' \subseteq States
  BY <1>1 DEF Inv, IInv, TypeOK
<1>5. pc' = Target("reject", visited')
  BY <1>1, <1>2, <1>4 DEF Target
<1> QED BY <1>1, <1>2, <1>3, <1>5, PathStep

LEMMA GoToInv == Inv /\ GoTo => IInv'
<1> SUFFICES ASSUME Inv, GoTo PROVE IInv'
  OBVIOUS
<1> DEFINE to == parser[pc].next.to
<1>1. /\ pc \in States /\ visited' = visited \cup {pc} /\ store' = Body
      /\ pc' = Target(to, visited') /\ UNCHANGED <<parser, frames, fwd, leaving>>
      /\ parser[pc].next.kind = "path"
  BY DEF GoTo
<1>2. to \in Declarations
  BY <1>1, ParsersAssumption DEF Inv
<1>3. \A s : Taken(parser[pc].next, s) = to
  BY <1>1 DEF Taken
<1>4. to \in Transition(parser[pc].next)
  BY <1>1 DEF Transition
<1> HIDE DEF to
<1> QED BY <1>1, <1>2, <1>3, <1>4, PathStep

\* Where a path ends, the parse of its worlds does.
LEMMA PathEnds ==
  ASSUME Inv, pc \in {"accept", "reject"}, NEW w \in Within \cap fwd
  PROVE  /\ w \in Worlds /\ store[w] \in Params
         /\ Done(w) = IF pc = "reject" THEN Invalidated(store[w]) ELSE store[w]
<1>1. /\ pc \in Declarations /\ pc \notin States /\ pc # "end" /\ pc # "back"
      /\ parser \in Parsers /\ TypeOK
  BY ParsersAssumption DEF Inv, IInv, Declarations
<1>2. w \in Worlds /\ store[w] \in Params /\ visited \in SUBSET States
  BY <1>1 DEF TypeOK, Within, Stores
<1>3. frames = <<>> \/ frame.open
  BY <1>1 DEF Inv, IInv, Nested
<1>4. Rest(pc, store[w], visited) = Done(w)
  BY <1>1, <1>3 DEF Inv, IInv, Current
<1>5. Rest(pc, store[w], visited) = IF pc = "reject" THEN Invalidated(store[w]) ELSE store[w]
  BY <1>1, <1>2, ParseLeaf
<1> QED BY <1>2, <1>4, <1>5

\* A path ends: its worlds are recorded, and the visitor is back.
LEMMA PathLeft ==
  ASSUME Inv, pc \in {"accept", "reject"}, pc' = "back",
         UNCHANGED <<parser, frames, store, fwd, visited>>,
         Within' \cap fwd = {}, Within' \subseteq Within, TypeOK', LeavesOnce', Recorded'
  PROVE  IInv'
<1>1. /\ pc # "end" /\ pc # "back" /\ pc' \notin States
  BY ParsersAssumption
<1>2. frames = <<>> \/ frame.open
  BY <1>1 DEF Inv, IInv, Nested
<1>3. frame' = frame
  BY DEF frame
<1>4. Nested'
  <2>1. Nested
    BY DEF Inv, IInv
  <2>2. \A d \in DOMAIN frames : frames[d].fwd = Outer(d - 1)'
    BY <2>1 DEF Nested, Outer
  <2>3. Outer(Len(frames))' = Outer(Len(frames))
    BY DEF Outer
  <2> QED BY <1>1, <1>2, <1>3, <2>1, <2>2, <2>3 DEF Nested
<1>5. Ranked'
  <2>1. Ranked /\ Ranks(parser)' = Ranks(parser)
    BY DEF Inv, IInv
  <2> QED BY <1>1, <2>1 DEF Ranked
<1>6. CasesDisjoint'
  BY DEF Inv, IInv, CasesDisjoint
<1>7. Current'
  BY DEF Current
<1>8. Framed'
  BY FramedKept DEF Inv, IInv
<1>9. ParserAgrees'
  BY <1>1 DEF ParserAgrees
<1> QED BY <1>4, <1>5, <1>6, <1>7, <1>8, <1>9 DEF IInv

LEMMA LeavesFromInv == Inv => LeavesInv
BY DEF Inv, IInv, TypeOK, LeavesInv, Partial

LEMMA AcceptStep == Inv /\ Accept => IInv'
<1> SUFFICES ASSUME Inv, Accept PROVE IInv'
  OBVIOUS
<1> DEFINE cond == PathCond \cap exitCond
<1>1. /\ pc = "accept" /\ pc' = "back"
      /\ returns' = AddEarlier(returns, cond, store) /\ ret' = ret \ PathCond
      /\ returned' = TRUE
      /\ UNCHANGED <<parser, frames, store, fwd, exitCond, exits, exited, visited>>
  BY DEF Accept
<1>2. TypeOK
  BY DEF Inv, IInv
<1>3. cond = Within \cap fwd /\ cond \in SUBSET Worlds /\ cond \cap returns.dom = {}
  BY <1>2 DEF PathCond, Within, TypeOK, Inv, IInv, LeavesOnce
<1>4. /\ returns' \in Partial /\ returns'.dom = returns.dom \cup cond
      /\ \A w \in Worlds : returns'.val[w] = IF w \in returns.dom THEN returns.val[w] ELSE store[w]
  <2> HIDE DEF cond
  <2>1. returns \in Partial /\ store \in Stores /\ returns' = AddEarlier(returns, cond, store)
    BY <1>1, <1>2 DEF TypeOK
  <2>2. cond \in SUBSET Worlds
    BY <1>3
  <2>3. returns' \in Partial
    BY <2>1, <2>2, AddEarlierType
  <2>4. returns'.dom = returns.dom \cup cond
    BY <2>1, <2>2, AddEarlierDom
  <2>5. \A w \in Worlds : returns'.val[w] = IF w \in returns.dom THEN returns.val[w] ELSE store[w]
    BY <2>1, <2>2, AddEarlierVal
  <2> QED BY <2>3, <2>4, <2>5
<1>5. ret' = ret \ fwd /\ Within' \cap fwd = {} /\ Within' \subseteq Within
  BY <1>1 DEF PathCond, Within
<1> HIDE DEF cond
<1>6. TypeOK'
  BY <1>1, <1>2, <1>4, <1>5 DEF TypeOK
<1>7. LeavesOnce'
  BY AcceptInv, LeavesFromInv DEF LeavesInv
<1>8. Recorded'
  <2>1. Recorded
    BY DEF Inv, IInv
  <2>2. Parse' = Parse
    BY <1>1, ParseUnchanged
  <2>3. ASSUME NEW w \in returns'.dom PROVE returns'.val[w] = Done(w)
    <3>1. CASE w \in returns.dom
      <4>1. w \in Worlds
        BY <1>2, <3>1 DEF TypeOK, Partial
      <4> QED BY <1>4, <2>1, <3>1, <4>1 DEF Recorded
    <3>2. CASE w \in cond
      BY <1>1, <1>3, <1>4, <3>2, PathEnds
    <3> QED BY <1>4, <3>1, <3>2
  <2> QED BY <1>1, <2>1, <2>2, <2>3 DEF Recorded, Done
<1> QED BY <1>1, <1>5, <1>6, <1>7, <1>8, PathLeft

LEMMA RejectStep == Inv /\ Reject => IInv'
<1> SUFFICES ASSUME Inv, Reject PROVE IInv'
  OBVIOUS
<1> DEFINE cond == exitCond \cap PathCond
           invalid == [w \in Worlds |-> Invalidated(store[w])]
<1>1. /\ pc = "reject" /\ pc' = "back"
      /\ exits' = AddLater(exits, cond, invalid) /\ exitCond' = exitCond \ PathCond
      /\ exited' = TRUE
      /\ UNCHANGED <<parser, frames, store, fwd, ret, returns, returned, visited>>
  BY DEF Reject
<1>2. TypeOK
  BY DEF Inv, IInv
<1>3. cond = Within \cap fwd /\ cond \in SUBSET Worlds
  BY <1>2 DEF PathCond, Within, TypeOK
<1>4. invalid \in Stores
  BY <1>2, InvalidatedType DEF TypeOK, Stores
<1>5. /\ exits' \in Partial /\ exits'.dom = exits.dom \cup cond
      /\ \A w \in Worlds : exits'.val[w] = IF w \in cond THEN invalid[w] ELSE exits.val[w]
  <2> HIDE DEF cond, invalid
  <2>1. exits \in Partial /\ exits' = AddLater(exits, cond, invalid)
    BY <1>1, <1>2 DEF TypeOK
  <2>2. cond \in SUBSET Worlds
    BY <1>3
  <2>3. exits' \in Partial
    BY <1>4, <2>1, <2>2, AddLaterType
  <2>4. exits'.dom = exits.dom \cup cond
    BY <1>4, <2>1, <2>2, AddLaterDom
  <2>5. \A w \in Worlds : exits'.val[w] = IF w \in cond THEN invalid[w] ELSE exits.val[w]
    BY <1>4, <2>1, <2>2, AddLaterVal
  <2> QED BY <2>3, <2>4, <2>5
<1>6. Within' \cap fwd = {} /\ Within' \subseteq Within /\ exitCond' \subseteq exitCond
  BY <1>1 DEF PathCond, Within
<1> HIDE DEF cond
<1>7. TypeOK'
  BY <1>1, <1>2, <1>5, <1>6 DEF TypeOK
<1>8. LeavesOnce'
  BY RejectInv, LeavesFromInv DEF LeavesInv
<1>9. Recorded'
  <2>1. Recorded
    BY DEF Inv, IInv
  <2>2. Parse' = Parse
    BY <1>1, ParseUnchanged
  <2>3. ASSUME NEW w \in exits'.dom PROVE exits'.val[w] = Done(w)
    <3>1. CASE w \in cond
      <4>1. w \in Worlds /\ exits'.val[w] = Invalidated(store[w])
        BY <1>3, <1>5, <3>1
      <4> QED BY <1>1, <1>3, <3>1, <4>1, PathEnds
    <3>2. CASE w \notin cond
      <4>1. w \in exits.dom /\ w \in Worlds
        BY <1>2, <1>5, <3>2 DEF TypeOK, Partial
      <4> QED BY <1>5, <2>1, <3>2, <4>1 DEF Recorded
    <3> QED BY <3>1, <3>2
  <2> QED BY <1>1, <2>1, <2>2, <2>3 DEF Recorded, Done
<1> QED BY <1>1, <1>6, <1>7, <1>8, <1>9, PathLeft

-----------------------------------------------------------------------------
(* Select *)

\* Each world has a first case, the one that its transition takes.
LEMMA FirstCase ==
  ASSUME parser \in Parsers, NEW at \in States, parser[at].next.kind = "select",
         NEW s \in Stores, NEW w \in Worlds,
         NEW conds, conds = SelectConds(parser[at].next, s)
  PROVE  \E k \in DOMAIN conds :
           /\ w \in conds[k].cond
           /\ \A j \in 1 .. k - 1 : w \notin conds[j].cond
           /\ conds[k].to = Taken(parser[at].next, s[w])
<1> DEFINE next == parser[at].next
           n == Len(next.cases)
           matching == {k \in DOMAIN next.cases : s[w].key \in next.cases[k].keys}
<1>1. /\ n \in Nat /\ DOMAIN next.cases = 1 .. n /\ DOMAIN conds = 1 .. n + 1
      /\ \A k \in 1 .. n : conds[k].cond = Match(next.cases[k], s) /\ conds[k].to = next.cases[k].to
      /\ conds[n + 1].cond = Worlds \ UNION {Match(next.cases[k], s) : k \in DOMAIN next.cases}
      /\ conds[n + 1].to = IF next.default = "none" THEN "reject" ELSE next.default
  <2> HIDE DEF matching
  <2> QED BY SelectCondsType, ZenonT(30)
<1>2. Taken(next, s[w]) = IF matching # {} THEN next.cases[Min(matching)].to
                          ELSE IF next.default = "none" THEN "reject" ELSE next.default
  BY DEF Taken
<1>3. \A k \in 1 .. n : w \in Match(next.cases[k], s) <=> k \in matching
  BY <1>1 DEF Match
<1>4. matching \subseteq 1 .. n
  BY <1>1
<1> HIDE DEF matching
<1>5. CASE matching # {}
  <2> DEFINE k == Min(matching)
  <2>1. k \in matching /\ \A j \in matching : k <= j
    BY <1>4, <1>5, MinIsLeast
  <2> HIDE DEF k
  <2>2. k \in 1 .. n /\ k \in DOMAIN conds
    BY <1>1, <1>4, <2>1
  <2>3. w \in conds[k].cond
    BY <1>1, <1>3, <2>1, <2>2
  <2>4. ASSUME NEW j \in 1 .. k - 1 PROVE w \notin conds[j].cond
    <3>1. j \in 1 .. n /\ j \notin matching
      BY <1>1, <2>1, <2>2
    <3> QED BY <1>1, <1>3, <3>1
  <2>5. conds[k].to = Taken(next, s[w])
    BY <1>1, <1>2, <1>5, <2>2 DEF k
  <2> QED BY <2>2, <2>3, <2>4, <2>5
<1>6. CASE matching = {}
  <2>1. \A j \in 1 .. n : w \notin Match(next.cases[j], s)
    BY <1>3, <1>6
  <2>2. w \in conds[n + 1].cond
    BY <1>1, <2>1
  <2>3. \A j \in 1 .. (n + 1) - 1 : w \notin conds[j].cond
    BY <1>1, <2>1
  <2>4. conds[n + 1].to = Taken(next, s[w])
    BY <1>1, <1>2, <1>6
  <2>5. n + 1 \in DOMAIN conds
    BY <1>1
  <2> QED BY <2>2, <2>3, <2>4, <2>5
<1> QED BY <1>5, <1>6

\* Cases with disjoint keys have disjoint conditions.
LEMMA DisjointConds ==
  ASSUME parser \in Parsers, Disjoint(parser), NEW at \in States, NEW s \in Stores,
         NEW conds, conds = SelectConds(parser[at].next, s),
         NEW k \in DOMAIN conds, NEW j \in 1 .. k - 1
  PROVE  conds[j].cond \cap conds[k].cond = {}
<1> DEFINE next == parser[at].next
           n == Len(next.cases)
<1>1. /\ n \in Nat /\ DOMAIN next.cases = 1 .. n /\ DOMAIN conds = 1 .. n + 1
      /\ \A i \in 1 .. n : conds[i].cond = Match(next.cases[i], s)
      /\ conds[n + 1].cond = Worlds \ UNION {Match(next.cases[i], s) : i \in DOMAIN next.cases}
  BY SelectCondsType
<1>2. j \in 1 .. n /\ j # k
  BY <1>1
<1>3. CASE k \in 1 .. n
  <2>1. next.cases[j].keys \cap next.cases[k].keys = {}
    BY <1>1, <1>2, <1>3 DEF Disjoint
  <2>2. conds[j].cond = Match(next.cases[j], s) /\ conds[k].cond = Match(next.cases[k], s)
    BY <1>1, <1>2, <1>3
  <2> QED BY <2>1, <2>2 DEF Match
<1>4. CASE k = n + 1
  <2>1. conds[j].cond \subseteq UNION {Match(next.cases[i], s) : i \in DOMAIN next.cases}
    BY <1>1, <1>2
  <2>2. conds[k].cond = Worlds \ UNION {Match(next.cases[i], s) : i \in DOMAIN next.cases}
    BY <1>1, <1>4
  <2> QED BY <2>1, <2>2
<1>5. k \in 1 .. n + 1 /\ n \in Nat
  BY <1>1
<1> HIDE DEF n
<1>6. k \in 1 .. n \/ k = n + 1
  BY <1>5
<1> QED BY <1>3, <1>4, <1>6

\* The cases of a select are transitions.
LEMMA CondTransition ==
  ASSUME parser \in Parsers, NEW at \in States, parser[at].next.kind = "select",
         NEW s \in Stores, NEW conds, conds = SelectConds(parser[at].next, s),
         NEW k \in DOMAIN conds, conds[k].to \in States
  PROVE  conds[k].to \in Transition(parser[at].next)
<1> DEFINE next == parser[at].next
           n == Len(next.cases)
<1>1. /\ n \in Nat /\ DOMAIN next.cases = 1 .. n /\ DOMAIN conds = 1 .. n + 1
      /\ \A i \in 1 .. n : conds[i].to = next.cases[i].to
      /\ conds[n + 1].to = IF next.default = "none" THEN "reject" ELSE next.default
  BY SelectCondsType
<1>2. Transition(next) = {next.cases[i].to : i \in DOMAIN next.cases} \cup {next.default}
  BY DEF Transition
<1>3. CASE k \in 1 .. n
  BY <1>1, <1>2, <1>3
<1>4. CASE k = n + 1
  <2>1. conds[k].to # "reject"
    BY NotStates
  <2> QED BY <1>1, <1>2, <1>4, <2>1
<1> QED BY <1>1, <1>3, <1>4

LEMMA SelectStep == Inv /\ Select => IInv'
<1> SUFFICES ASSUME Inv, Select PROVE IInv'
  OBVIOUS
<1> DEFINE n == Len(frames)
           conds == SelectConds(parser[pc].next, Body)
           g == [cases |-> conds, open |-> FALSE, old |-> Body, visited |-> visited \cup {pc},
                 kept |-> Nothing, exitAll |-> TRUE, returnAll |-> TRUE, fwd |-> fwd]
<1>1. /\ pc \in States /\ parser[pc].next.kind = "select"
      /\ visited' = visited \cup {pc} /\ store' = Body
      /\ frames' = Append(frames, g) /\ pc' = "back"
      /\ UNCHANGED <<parser, fwd, ret, returns, exitCond, exits, exited, returned>>
  BY DEF Select, leaving
<1>2. /\ parser \in Parsers /\ TypeOK /\ pc # "back" /\ pc # "end" /\ pc \notin visited
      /\ frames \in Seq(Frames) /\ ~exited /\ ~returned
      /\ frames # <<>> => frame.open
  BY <1>1, NotStates DEF Inv, IInv, TypeOK, Nested, Ranked
<1>3. /\ Body \in Stores
      /\ \A w \in Worlds : Body[w] = parser[pc].body[store[w]] /\ store[w] \in Params
  BY <1>1, <1>2, BodyType
<1>4. conds \in Seq(Conds)
  BY <1>1, <1>2, <1>3, SelectCondsType
<1> HIDE DEF conds
<1>5. g \in Frames
  <2>1. Nothing \in Partial
    BY InputAssumption DEF Nothing, Partial, Stores
  <2>2. fwd \in SUBSET Worlds /\ visited \cup {pc} \in SUBSET States
    BY <1>1, <1>2 DEF TypeOK
  <2> QED BY <1>3, <1>4, <2>1, <2>2 DEF Frames, Conds
<1>6. /\ g.cases = conds /\ g.open = FALSE /\ g.old = Body /\ g.visited = visited \cup {pc}
      /\ g.kept.dom = {} /\ g.fwd = fwd
  BY DEF Nothing
<1> HIDE DEF g
<1>7. /\ frames' \in Seq(Frames) /\ frames' # <<>> /\ Len(frames') = n + 1 /\ n \in Nat
      /\ DOMAIN frames' = 1 .. n + 1 /\ frames'[n + 1] = g /\ frame' = g
      /\ \A d \in 1 .. n : frames'[d] = frames[d]
      /\ DOMAIN frames = 1 .. n
  <2>1. frames' = Append(frames, g) /\ frames \in Seq(Frames)
    BY <1>1, <1>2
  <2>2. DOMAIN frames = 1 .. n
    BY <2>1
  <2> QED BY <1>5, <2>1, <2>2, FramePushed
<1> HIDE DEF n
<1>8. TypeOK'
  BY <1>1, <1>2, <1>3, <1>7 DEF TypeOK
<1>9. LeavesOnce'
  BY <1>1 DEF Inv, IInv, LeavesOnce
<1>10. Nested'
  <2>1. Nested /\ (n # 0 => frames[n].open)
    <3>1. n # 0 => frames # <<>>
      BY DEF n
    <3>2. frames # <<>> => frame = frames[n]
      BY DEF n, frame, Last
    <3> QED BY <1>2, <3>1, <3>2 DEF Inv, IInv
  <2>2. \A d \in 0 .. n : Outer(d)' = Outer(d)
    BY <1>7 DEF Outer
  <2>3. fwd = Outer(n)
    BY <1>2, <2>1 DEF Nested, n
  <2>4. Outer(Len(frames))' = fwd'
    <3>1. Len(frames') # 0 /\ frames'[Len(frames')] = g
      BY <1>7
    <3> QED BY <1>1, <1>6, <3>1 DEF Outer, Inside
  <2>5. ASSUME NEW d \in 1 .. n + 1
        PROVE  /\ frames'[d].fwd = Outer(d - 1)'
               /\ frames'[d].open => frames'[d].cases # <<>>
               /\ d < n + 1 => frames'[d].open
    <3>1. CASE d = n + 1
      <4>1. Outer(d - 1)' = Outer(n)
        BY <1>7, <2>2, <3>1
      <4> QED BY <1>6, <1>7, <2>3, <3>1, <4>1
    <3>2. CASE d \in 1 .. n
      <4>1. d - 1 \in 0 .. n /\ frames'[d] = frames[d] /\ d \in DOMAIN frames
        BY <1>7, <3>2
      <4>2. Outer(d - 1)' = Outer(d - 1)
        BY <2>2, <4>1
      <4>3. frames[d].open
        BY <1>7, <2>1, <3>2 DEF Nested, n
      <4> QED BY <2>1, <4>1, <4>2, <4>3 DEF Nested
    <3> QED BY <1>7, <3>1, <3>2
  <2>6. \A d \in DOMAIN frames' :
          /\ frames'[d].fwd = Outer(d - 1)'
          /\ frames'[d].open => frames'[d].cases # <<>>
          /\ d < Len(frames') => frames'[d].open
    BY <1>7, <2>5
  <2>7. store' = g.old /\ visited' = g.visited /\ pc' = "back" /\ ~exited' /\ ~returned'
    BY <1>1, <1>2, <1>6
  <2> QED BY <1>7, <2>4, <2>6, <2>7 DEF Nested
<1>11. Ranked'
  <2>1. Ranked /\ Ranks(parser)' = Ranks(parser)
    BY <1>1 DEF Inv, IInv
  <2>2. ASSUME NEW rank \in Ranks(parser), NEW k \in DOMAIN conds, conds[k].to \in States,
               NEW s \in visited \cup {pc}
        PROVE  rank[conds[k].to] < rank[s]
    <3>1. conds[k].to \in Transition(parser[pc].next)
      BY <1>1, <1>2, <1>3, <2>2, CondTransition DEF conds
    <3>2. rank[conds[k].to] < rank[pc]
      BY <1>1, <2>2, <3>1, RankDown
    <3>3. s # pc => rank[pc] < rank[s]
      BY <1>1, <2>1, <2>2 DEF Ranked
    <3>4. s \in States
      BY <1>1, <1>2 DEF TypeOK
    <3>5. rank[conds[k].to] \in Nat /\ rank[pc] \in Nat /\ rank[s] \in Nat
      BY <1>1, <2>2, <3>4, RankType
    <3> QED BY <3>2, <3>3, <3>5
  <2>3. ASSUME NEW rank \in Ranks(parser), NEW d \in 1 .. n + 1,
               NEW k \in DOMAIN frames'[d].cases, frames'[d].cases[k].to \in States,
               NEW s \in frames'[d].visited
        PROVE  rank[frames'[d].cases[k].to] < rank[s]
    <3>1. CASE d = n + 1
      BY <1>6, <1>7, <2>2, <2>3, <3>1
    <3>2. CASE d \in 1 .. n
      BY <1>7, <2>1, <2>3, <3>2 DEF Ranked
    <3> QED BY <1>7, <3>1, <3>2
  <2>4. pc' \notin States
    BY <1>1, ParsersAssumption
  <2> QED BY <1>7, <2>1, <2>3, <2>4 DEF Ranked
<1>12. CasesDisjoint'
  <2> SUFFICES ASSUME Disjoint(parser), NEW d \in 1 .. n + 1, NEW k \in DOMAIN frames'[d].cases
               PROVE  /\ frames'[d].kept.dom \cap frames'[d].cases[k].cond = {}
                      /\ \A j \in 1 .. k - 1 : frames'[d].cases[j].cond \cap frames'[d].cases[k].cond = {}
    BY <1>1, <1>7 DEF CasesDisjoint
  <2>1. CASE d = n + 1
    <3>1. frames'[d] = g /\ k \in DOMAIN conds
      BY <1>6, <1>7, <2>1
    <3>2. \A j \in 1 .. k - 1 : conds[j].cond \cap conds[k].cond = {}
      BY <1>1, <1>2, <1>3, <3>1, DisjointConds DEF conds
    <3> QED BY <1>6, <3>1, <3>2
  <2>2. CASE d \in 1 .. n
    <3>1. frames'[d] = frames[d] /\ d \in DOMAIN frames
      BY <1>7, <2>2
    <3> QED BY <3>1 DEF Inv, IInv, CasesDisjoint
  <2> QED BY <1>7, <2>1, <2>2
<1>13. Recorded'
  <2>1. Parse' = Parse
    BY <1>1, ParseUnchanged
  <2> QED BY <1>1, <2>1 DEF Inv, IInv, Recorded, Done
<1>14. Current'
  BY <1>6, <1>7 DEF Current
<1>15. Framed'
  <2> SUFFICES ASSUME NEW d \in 1 .. n + 1, NEW w \in Within' \cap frames'[d].fwd
               PROVE (\/ frames[d].open /\ w \in Head(frames[d].cases).cond
                      \/ Waits(frames[d], w)
                      \/ IsKept(frames[d], w))'
    BY <1>7 DEF Framed
  <2>1. Within' = Within
    BY <1>1 DEF Within
  <2>2. CASE d \in 1 .. n
    <3>1. frames'[d] = frames[d] /\ d \in DOMAIN frames
      BY <1>7, <2>2
    <3>2. \/ frames[d].open /\ w \in Head(frames[d].cases).cond
          \/ Waits(frames[d], w)
          \/ IsKept(frames[d], w)
      BY <2>1, <3>1 DEF Inv, IInv, Framed
    <3> QED BY <1>1, <3>1, <3>2, FrameKept
  <2>3. CASE d = n + 1
    <3>1. frames'[d] = g /\ w \in Within \cap fwd
      BY <1>6, <1>7, <2>1, <2>3
    <3>2. w \in Worlds
      BY <1>2, <3>1 DEF TypeOK
    <3>3. Rest(pc, store[w], visited) = Done(w)
      BY <1>2, <3>1 DEF Inv, IInv, Current
    <3>4. visited \in SUBSET States /\ pc \in States \ visited /\ store[w] \in Params
      BY <1>1, <1>2, <1>3, <3>2 DEF TypeOK
    <3>5. Rest(pc, store[w], visited) = Rest(Taken(parser[pc].next, Body[w]), Body[w], visited \cup {pc})
      <4>1. Body[w] = parser[pc].body[store[w]]
        BY <1>3, <3>2
      <4>2. Rest(pc, store[w], visited)
              = Rest(Taken(parser[pc].next, parser[pc].body[store[w]]), parser[pc].body[store[w]],
                     visited \cup {pc})
        BY <1>2, <3>4, ParseState
      <4> QED BY <4>1, <4>2
    <3>6. PICK k \in DOMAIN conds :
            /\ w \in conds[k].cond
            /\ \A j \in 1 .. k - 1 : w \notin conds[j].cond
            /\ conds[k].to = Taken(parser[pc].next, Body[w])
      BY <1>1, <1>2, <1>3, <3>2, FirstCase DEF conds
    <3>7. Rest(conds[k].to, Body[w], visited \cup {pc}) = Done(w)
      BY <3>3, <3>5, <3>6
    <3>8. Waits(g, w)
      BY <1>6, <3>6, <3>7 DEF Waits, Left
    <3>9. Waits(frames[d], w)'
      <4>1. Parse' = Parse
        BY <1>1, ParseUnchanged
      <4> QED BY <3>1, <3>8, <4>1 DEF Waits, Left, Rest, Done
    <3> QED BY <3>9
  <2> QED BY <1>7, <2>2, <2>3
<1>16. ParserAgrees'
  BY <1>1 DEF ParserAgrees
<1> QED BY <1>8, <1>9, <1>10, <1>11, <1>12, <1>13, <1>14, <1>15, <1>16 DEF IInv

-----------------------------------------------------------------------------
(* The cases of a select *)

\* What an outer select knows of a world, with the parser and its frame unchanged.
LEMMA OuterFrame ==
  ASSUME Inv, parser' = parser, Within' = Within,
         NEW d \in DOMAIN frames, frames'[d] = frames[d], NEW w \in Within \cap frames[d].fwd
  PROVE  (\/ frames[d].open /\ w \in Head(frames[d].cases).cond
          \/ Waits(frames[d], w)
          \/ IsKept(frames[d], w))'
<1>1. \/ frames[d].open /\ w \in Head(frames[d].cases).cond
      \/ Waits(frames[d], w)
      \/ IsKept(frames[d], w)
  BY DEF Inv, IInv, Framed
<1> QED BY <1>1, FrameKept

\* A frame that is replaced: what it knows of a world can be said of the frame.
LEMMA FramePrimed ==
  ASSUME parser' = parser, NEW d, NEW g, frames'[d] = g, NEW w
  PROVE  /\ Waits(g, w) => Waits(frames[d], w)'
         /\ IsKept(g, w) => IsKept(frames[d], w)'
<1>1. Parse' = Parse /\ Loops(parser)' = Loops(parser)
  BY ParseUnchanged
<1>2. Waits(g, w) => Waits(frames[d], w)'
  BY <1>1 DEF Waits, Left, Rest, Done
<1>3. IsKept(g, w) => IsKept(frames[d], w)'
  BY <1>1 DEF IsKept, Done
<1> QED BY <1>2, <1>3

\* The part of Nested about the outer selects, when the innermost is replaced.
LEMMA NestedReplaced ==
  ASSUME Inv, frames # <<>>, NEW g \in Frames,
         frames' = [frames EXCEPT ![Len(frames)] = g], g.fwd = frame.fwd,
         g.open => g.cases # <<>>
  PROVE  /\ \A d \in DOMAIN frames' :
              /\ frames'[d].fwd = Outer(d - 1)'
              /\ frames'[d].open => frames'[d].cases # <<>>
              /\ d < Len(frames') => frames'[d].open
         /\ Outer(Len(frames))' = Inside(g)
<1> DEFINE n == Len(frames)
<1>1. frames \in Seq(Frames) /\ Nested
  BY DEF Inv, IInv, TypeOK
<1>2. /\ n \in Nat \ {0} /\ n \in DOMAIN frames /\ frame = frames[n]
      /\ DOMAIN frames = 1 .. n
  BY <1>1, LastFrame
<1>3. /\ Len(frames') = n /\ DOMAIN frames' = 1 .. n /\ frames'[n] = g
      /\ \A d \in 1 .. n - 1 : frames'[d] = frames[d]
  BY <1>1, TopReplaced
<1> HIDE DEF n
<1>4. \A d \in 0 .. n - 1 : Outer(d)' = Outer(d)
  BY <1>2, <1>3 DEF Outer
<1>5. ASSUME NEW d \in 1 .. n
      PROVE  /\ frames'[d].fwd = Outer(d - 1)'
             /\ frames'[d].open => frames'[d].cases # <<>>
             /\ d < n => frames'[d].open
  <2>1. /\ d - 1 \in 0 .. n - 1 /\ d \in DOMAIN frames
        /\ frames[d].fwd = Outer(d - 1) /\ (frames[d].open => frames[d].cases # <<>>)
        /\ (d < n => frames[d].open)
    BY <1>1, <1>2 DEF Nested, n
  <2>2. Outer(d - 1)' = Outer(d - 1)
    BY <1>4, <2>1
  <2>3. CASE d = n
    BY <1>2, <1>3, <2>1, <2>2, <2>3
  <2>4. CASE d # n
    <3>1. frames'[d] = frames[d]
      BY <1>2, <1>3, <2>4
    <3> QED BY <2>1, <2>2, <3>1
  <2> QED BY <2>3, <2>4
<1>6. Outer(Len(frames))' = Inside(g)
  <2>1. Len(frames') # 0 /\ frames'[Len(frames')] = g
    BY <1>2, <1>3
  <2> QED BY <2>1 DEF Outer, Inside
<1> QED BY <1>3, <1>5, <1>6

LEMMA CaseOpenStep == Inv /\ CaseOpen => IInv'
<1> SUFFICES ASSUME Inv, CaseOpen PROVE IInv'
  OBVIOUS
<1> DEFINE n == Len(frames)
           f == frame
           h == Head(f.cases)
           g == [f EXCEPT !.open = TRUE, !.old = store, !.visited = visited]
<1>1. /\ pc = "back" /\ frames # <<>> /\ ~f.open /\ f.cases # <<>>
      /\ fwd' = f.fwd \cap h.cond /\ frames' = [frames EXCEPT ![n] = g]
      /\ pc' = Target(h.to, visited)
      /\ UNCHANGED <<parser, store, ret, returns, exitCond, exits, exited, returned, visited>>
  BY DEF CaseOpen, AtSelect, leaving
<1>2. /\ parser \in Parsers /\ TypeOK /\ frames \in Seq(Frames) /\ visited \in SUBSET States
      /\ store = f.old /\ visited = f.visited /\ ~exited /\ ~returned
  BY <1>1 DEF Inv, IInv, TypeOK, Nested
<1>3. /\ n \in Nat \ {0} /\ n \in DOMAIN frames /\ f = frames[n] /\ f \in Frames
      /\ DOMAIN frames = 1 .. n
  BY <1>1, <1>2, LastFrame
<1>4. /\ f.cases \in Seq(Conds) /\ f.old \in Stores /\ f.fwd \in SUBSET Worlds
  BY <1>3, FrameFields
<1>5. /\ h \in Conds /\ h = f.cases[1] /\ 1 \in DOMAIN f.cases /\ h.to \in Declarations
      /\ Len(f.cases) \in Nat /\ DOMAIN f.cases = 1 .. Len(f.cases)
      /\ DOMAIN Tail(f.cases) = 1 .. Len(f.cases) - 1
      /\ \A k \in DOMAIN Tail(f.cases) : Tail(f.cases)[k] = f.cases[k + 1] /\ k + 1 \in DOMAIN f.cases
  BY <1>1, <1>4, HeadTail DEF Conds
<1>6. /\ g \in Frames /\ g.cases = f.cases /\ g.open = TRUE /\ g.old = f.old
      /\ g.visited = f.visited /\ g.kept = f.kept /\ g.fwd = f.fwd
      /\ g.exitAll = f.exitAll /\ g.returnAll = f.returnAll
  BY <1>2, <1>3 DEF Frames
<1> HIDE DEF g, f
<1>7. /\ frames' \in Seq(Frames) /\ frames' # <<>> /\ Len(frames') = n
      /\ DOMAIN frames' = 1 .. n /\ frames'[n] = g /\ frame' = g
      /\ \A d \in 1 .. n - 1 : frames'[d] = frames[d]
  BY <1>1, <1>2, <1>6, TopReplaced
<1>8. /\ \A d \in DOMAIN frames' :
           /\ frames'[d].fwd = Outer(d - 1)'
           /\ frames'[d].open => frames'[d].cases # <<>>
           /\ d < Len(frames') => frames'[d].open
      /\ Outer(Len(frames))' = Inside(g)
  BY <1>1, <1>6, NestedReplaced DEF f
<1> HIDE DEF n
<1>9. /\ \/ pc' = "back" /\ h.to \in visited
         \/ pc' = h.to /\ h.to \notin visited /\ h.to # "back"
      /\ pc' # "end"
  BY <1>1, <1>5, NotPlaces DEF Target
<1>10. TypeOK'
  <2>1. fwd' \subseteq Worlds
    BY <1>1, <1>4
  <2>2. pc' \in Declarations \cup {"back", "end"}
    BY <1>5, <1>9
  <2> QED BY <1>1, <1>2, <1>7, <2>1, <2>2 DEF TypeOK
<1>11. LeavesOnce'
  BY <1>1 DEF Inv, IInv, LeavesOnce
<1>12. Nested'
  <2>1. Inside(g) = fwd'
    BY <1>1, <1>6 DEF Inside
  <2> QED BY <1>1, <1>2, <1>6, <1>7, <1>8, <1>9, <2>1 DEF Nested
<1>13. ASSUME NEW rank \in Ranks(parser), h.to \in States, NEW s \in visited
       PROVE  rank[h.to] < rank[s]
  BY <1>2, <1>3, <1>5, <1>13 DEF Inv, IInv, Ranked
<1>14. Ranked'
  <2>1. Ranked /\ Ranks(parser)' = Ranks(parser)
    BY <1>1 DEF Inv, IInv
  <2>2. ASSUME NEW rank \in Ranks(parser), NEW d \in 1 .. n,
               NEW k \in DOMAIN frames'[d].cases, frames'[d].cases[k].to \in States,
               NEW s \in frames'[d].visited
        PROVE  rank[frames'[d].cases[k].to] < rank[s]
    <3>1. d \in DOMAIN frames /\ frames'[d].cases = frames[d].cases /\ frames'[d].visited = frames[d].visited
      BY <1>3, <1>6, <1>7
    <3> QED BY <2>1, <2>2, <3>1 DEF Ranked
  <2>3. pc' \in States => pc' = h.to /\ h.to \notin visited
    BY <1>9, ParsersAssumption
  <2> QED BY <1>1, <1>7, <1>13, <2>1, <2>2, <2>3 DEF Ranked
<1>15. CasesDisjoint'
  <2> SUFFICES ASSUME Disjoint(parser), NEW d \in 1 .. n, NEW k \in DOMAIN frames'[d].cases
               PROVE  /\ frames'[d].kept.dom \cap frames'[d].cases[k].cond = {}
                      /\ \A j \in 1 .. k - 1 : frames'[d].cases[j].cond \cap frames'[d].cases[k].cond = {}
    BY <1>1, <1>7 DEF CasesDisjoint
  <2>1. d \in DOMAIN frames /\ frames'[d].cases = frames[d].cases /\ frames'[d].kept = frames[d].kept
    BY <1>3, <1>6, <1>7
  <2> QED BY <2>1 DEF Inv, IInv, CasesDisjoint
<1>16. Recorded'
  <2>1. Parse' = Parse
    BY <1>1, ParseUnchanged
  <2> QED BY <1>1, <2>1 DEF Inv, IInv, Recorded, Done
<1>17. Within' = Within
  BY <1>1 DEF Within
<1>18. ASSUME NEW w \in Within \cap f.fwd
       PROVE  Waits(f, w) \/ IsKept(f, w)
  BY <1>1, <1>3 DEF Inv, IInv, Framed
<1>19. Current'
  <2> SUFFICES ASSUME NEW w \in Within' \cap fwd'
               PROVE /\ Rest(pc, store[w], visited)' = Done(w)'
                     /\ (pc = "back" => ~exited /\ ~returned /\ Loops(parser))'
    BY DEF Current
  <2>1. w \in Within \cap f.fwd /\ w \in h.cond /\ w \in Worlds
    BY <1>1, <1>4, <1>17
  <2>2. ~IsKept(f, w)
    <3> SUFFICES ASSUME IsKept(f, w) PROVE FALSE
      OBVIOUS
    <3>1. Disjoint(parser) /\ w \in f.kept.dom
      BY DEF IsKept, Inv, Orderly
    <3>2. f.kept.dom \cap h.cond = {}
      BY <1>3, <1>5, <3>1 DEF Inv, IInv, CasesDisjoint
    <3> QED BY <2>1, <3>1, <3>2
  <2>3. PICK k \in DOMAIN f.cases :
          /\ w \in f.cases[k].cond
          /\ \A j \in 1 .. k - 1 : w \notin f.cases[j].cond
          /\ Rest(f.cases[k].to, f.old[w], f.visited) = Done(w)
    BY <1>1, <1>18, <2>1, <2>2 DEF Waits, Left
  <2>4. k = 1
    BY <1>5, <2>1, <2>3
  <2>5. Rest(h.to, store[w], visited) = Done(w)
    BY <1>2, <1>5, <2>3, <2>4
  <2>6. store[w] \in Params
    BY <1>2, <2>1 DEF TypeOK, Stores
  <2>7. Rest(pc', store'[w], visited') = Done(w)
    BY <1>1, <1>2, <1>5, <2>5, <2>6, RestTarget
  <2>8. Rest(pc, store[w], visited)' = Rest(pc', store'[w], visited') /\ Done(w)' = Done(w)
    BY <1>1, RestPrimed
  <2>9. pc' = "back" => Loops(parser)
    <3> SUFFICES ASSUME h.to \in visited, NEW rank \in Ranks(parser) PROVE FALSE
      BY <1>9, NoRank
    <3>1. h.to \in States
      BY <1>2
    <3>2. rank[h.to] < rank[h.to] /\ rank[h.to] \in Nat
      BY <1>13, <3>1, RankType
    <3> QED BY <3>2
  <2> QED BY <1>1, <1>2, <2>7, <2>8, <2>9
<1>20. Framed'
  <2> SUFFICES ASSUME NEW d \in 1 .. n, NEW w \in Within' \cap frames'[d].fwd
               PROVE (\/ frames[d].open /\ w \in Head(frames[d].cases).cond
                      \/ Waits(frames[d], w)
                      \/ IsKept(frames[d], w))'
    BY <1>7 DEF Framed
  <2>1. CASE d \in 1 .. n - 1
    <3>1. frames'[d] = frames[d] /\ d \in DOMAIN frames
      BY <1>3, <1>7, <2>1
    <3> QED BY <1>1, <1>17, <3>1, OuterFrame
  <2>2. CASE d = n
    <3>1. frames'[d] = g /\ w \in Within \cap f.fwd
      BY <1>6, <1>7, <1>17, <2>2
    <3>2. CASE w \in h.cond
      BY <1>6, <3>1, <3>2
    <3>3. CASE w \notin h.cond
      <4>1. CASE Waits(f, w)
        <5>1. PICK k \in DOMAIN f.cases :
                /\ w \in f.cases[k].cond
                /\ \A j \in 1 .. k - 1 : w \notin f.cases[j].cond
                /\ Rest(f.cases[k].to, f.old[w], f.visited) = Done(w)
          BY <1>1, <4>1 DEF Waits, Left
        <5> DEFINE i == k - 1
        <5>2. i \in DOMAIN Tail(f.cases) /\ Tail(f.cases)[i] = f.cases[k]
          BY <1>5, <3>3, <5>1
        <5>3. \A j \in 1 .. i - 1 : w \notin Tail(f.cases)[j].cond
          <6> SUFFICES ASSUME NEW j \in 1 .. i - 1 PROVE w \notin Tail(f.cases)[j].cond
            OBVIOUS
          <6>1. j \in DOMAIN Tail(f.cases) /\ j + 1 \in 1 .. k - 1
            <7>1. k \in 1 .. Len(f.cases) /\ Len(f.cases) \in Nat
              BY <1>5, <5>1
            <7>2. j \in 1 .. Len(f.cases) - 1 /\ j + 1 \in 1 .. k - 1
              BY <7>1
            <7> QED BY <1>5, <7>2
          <6>2. Tail(f.cases)[j] = f.cases[j + 1]
            BY <1>5, <6>1
          <6> QED BY <5>1, <6>1, <6>2
        <5> HIDE DEF i
        <5>4. Left(g) = Tail(f.cases)
          BY <1>6 DEF Left
        <5>5. Rest(Left(g)[i].to, g.old[w], g.visited) = Done(w)
          BY <1>6, <5>1, <5>2, <5>4
        <5>6. Waits(g, w)
          BY <5>1, <5>2, <5>3, <5>4, <5>5 DEF Waits
        <5> QED BY <1>1, <3>1, <5>6, FramePrimed
      <4>2. CASE IsKept(f, w)
        <5>1. IsKept(g, w)
          BY <1>6, <4>2 DEF IsKept
        <5> QED BY <1>1, <3>1, <5>1, FramePrimed
      <4> QED BY <1>18, <3>1, <4>1, <4>2
    <3> QED BY <3>2, <3>3
  <2> QED BY <1>3, <2>1, <2>2
<1>21. ParserAgrees'
  BY <1>9 DEF ParserAgrees
<1> QED BY <1>10, <1>11, <1>12, <1>14, <1>15, <1>16, <1>19, <1>20, <1>21 DEF IInv

LEMMA CaseEndStep == Inv /\ CaseEnd => IInv'
<1> SUFFICES ASSUME Inv, CaseEnd PROVE IInv'
  OBVIOUS
<1> DEFINE n == Len(frames)
           f == frame
           h == Head(f.cases)
           added == IF exited \/ returned THEN f.kept ELSE AddEarlier(f.kept, h.cond, store)
           g == [f EXCEPT !.open = FALSE, !.cases = Tail(@), !.kept = added,
                          !.exitAll = @ /\ exited, !.returnAll = @ /\ returned]
<1>1. /\ pc = "back" /\ pc' = pc /\ frames # <<>> /\ f.open
      /\ fwd' = f.fwd /\ frames' = [frames EXCEPT ![n] = g]
      /\ visited' = f.visited /\ store' = f.old /\ exited' = FALSE /\ returned' = FALSE
      /\ UNCHANGED <<parser, ret, returns, exitCond, exits>>
  BY DEF CaseEnd, AtSelect, VisitedAfter
<1>2. /\ parser \in Parsers /\ TypeOK /\ frames \in Seq(Frames) /\ store \in Stores
      /\ Nested /\ fwd = Outer(n)
  BY <1>1 DEF Inv, IInv, TypeOK, Nested
<1>3. /\ n \in Nat \ {0} /\ n \in DOMAIN frames /\ f = frames[n] /\ f \in Frames
      /\ DOMAIN frames = 1 .. n
  BY <1>1, <1>2, LastFrame
<1>4. /\ f.cases \in Seq(Conds) /\ f.old \in Stores /\ f.fwd \in SUBSET Worlds
      /\ f.kept \in Partial /\ f.visited \in SUBSET States
      /\ f.exitAll \in BOOLEAN /\ f.returnAll \in BOOLEAN
  BY <1>3, FrameFields
<1>5. f.cases # <<>> /\ fwd = f.fwd \cap h.cond
  <2>1. f.cases # <<>>
    BY <1>1, <1>2, <1>3 DEF Nested
  <2> QED BY <1>1, <1>2, <1>3, <2>1 DEF Outer, Inside
<1>6. /\ h \in Conds /\ h = f.cases[1] /\ 1 \in DOMAIN f.cases /\ h.cond \in SUBSET Worlds
      /\ Len(f.cases) \in Nat /\ DOMAIN f.cases = 1 .. Len(f.cases) /\ Tail(f.cases) \in Seq(Conds)
      /\ DOMAIN Tail(f.cases) = 1 .. Len(f.cases) - 1
      /\ \A k \in DOMAIN Tail(f.cases) : Tail(f.cases)[k] = f.cases[k + 1] /\ k + 1 \in DOMAIN f.cases
  BY <1>4, <1>5, HeadTail DEF Conds
<1>7. /\ added \in Partial /\ f.kept.dom \subseteq added.dom
      /\ added.dom \subseteq f.kept.dom \cup h.cond
      /\ \A w \in f.kept.dom : added.val[w] = f.kept.val[w]
      /\ ~exited /\ ~returned => \A w \in h.cond : w \in added.dom
      /\ ~exited /\ ~returned => \A w \in h.cond \ f.kept.dom : added.val[w] = store[w]
  <2>1. CASE exited \/ returned
    BY <1>4, <2>1
  <2>2. CASE ~exited /\ ~returned
    <3>0. added = AddEarlier(f.kept, h.cond, store)
      BY <2>2
    <3> HIDE DEF added, h
    <3>1. added \in Partial
      BY <1>2, <1>4, <1>6, <3>0, AddEarlierType
    <3>2. added.dom = f.kept.dom \cup h.cond
      BY <3>0, AddEarlierDom
    <3>3. \A w \in Worlds : added.val[w] = IF w \in f.kept.dom THEN f.kept.val[w] ELSE store[w]
      BY <3>0, AddEarlierVal
    <3>4. f.kept.dom \subseteq Worlds
      BY <1>4 DEF Partial
    <3> QED BY <1>6, <3>1, <3>2, <3>3, <3>4
  <2> QED BY <2>1, <2>2
<1> HIDE DEF added
<1>8. /\ g \in Frames /\ g.cases = Tail(f.cases) /\ g.open = FALSE /\ g.old = f.old
      /\ g.visited = f.visited /\ g.kept = added /\ g.fwd = f.fwd
      /\ g.exitAll = (f.exitAll /\ exited) /\ g.returnAll = (f.returnAll /\ returned)
  <2>1. Tail(f.cases) \in Seq([cond : SUBSET Worlds, to : Declarations])
    BY <1>6 DEF Conds
  <2>2. (f.exitAll /\ exited) \in BOOLEAN /\ (f.returnAll /\ returned) \in BOOLEAN
    OBVIOUS
  <2> HIDE DEF f
  <2> QED BY <1>3, <1>7, <2>1, <2>2 DEF Frames
<1> HIDE DEF g, f
<1>9. /\ frames' \in Seq(Frames) /\ frames' # <<>> /\ Len(frames') = n
      /\ DOMAIN frames' = 1 .. n /\ frames'[n] = g /\ frame' = g
      /\ \A d \in 1 .. n - 1 : frames'[d] = frames[d]
  BY <1>1, <1>2, <1>8, TopReplaced
<1>10. /\ \A d \in DOMAIN frames' :
            /\ frames'[d].fwd = Outer(d - 1)'
            /\ frames'[d].open => frames'[d].cases # <<>>
            /\ d < Len(frames') => frames'[d].open
       /\ Outer(Len(frames))' = Inside(g)
  BY <1>1, <1>8, NestedReplaced DEF f
<1> HIDE DEF n
<1>11. TypeOK'
  <2>1. fwd' \subseteq Worlds /\ store' \in Stores /\ visited' \subseteq States
    BY <1>1, <1>4
  <2> QED BY <1>1, <1>2, <1>9, <2>1 DEF TypeOK
<1>12. LeavesOnce'
  BY <1>1 DEF Inv, IInv, LeavesOnce
<1>13. Nested'
  <2>1. Inside(g) = fwd'
    BY <1>1, <1>8 DEF Inside
  <2>2. pc' # "end" /\ pc' = "back"
    BY <1>1
  <2> QED BY <1>1, <1>8, <1>9, <1>10, <2>1, <2>2 DEF Nested
<1>14. Ranked'
  <2>1. Ranked /\ Ranks(parser)' = Ranks(parser)
    BY <1>1 DEF Inv, IInv
  <2>2. ASSUME NEW rank \in Ranks(parser), NEW d \in 1 .. n,
               NEW k \in DOMAIN frames'[d].cases, frames'[d].cases[k].to \in States,
               NEW s \in frames'[d].visited
        PROVE  rank[frames'[d].cases[k].to] < rank[s]
    <3>1. CASE d \in 1 .. n - 1
      BY <1>3, <1>9, <2>1, <2>2, <3>1 DEF Ranked
    <3>2. CASE d = n
      <4>1. /\ k \in DOMAIN Tail(f.cases) /\ frames'[d].cases[k] = f.cases[k + 1]
            /\ k + 1 \in DOMAIN f.cases /\ s \in f.visited
        BY <1>6, <1>8, <1>9, <3>2
      <4> QED BY <1>3, <2>1, <2>2, <4>1 DEF Ranked
    <3> QED BY <1>3, <3>1, <3>2
  <2>3. pc' \notin States
    BY <1>1, ParsersAssumption
  <2> QED BY <1>1, <1>9, <2>1, <2>2, <2>3 DEF Ranked
<1>15. CasesDisjoint'
  <2> SUFFICES ASSUME Disjoint(parser), NEW d \in 1 .. n, NEW k \in DOMAIN frames'[d].cases
               PROVE  /\ frames'[d].kept.dom \cap frames'[d].cases[k].cond = {}
                      /\ \A j \in 1 .. k - 1 : frames'[d].cases[j].cond \cap frames'[d].cases[k].cond = {}
    BY <1>1, <1>9 DEF CasesDisjoint
  <2>0. CasesDisjoint
    BY DEF Inv, IInv
  <2>1. CASE d \in 1 .. n - 1
    <3>1. frames'[d] = frames[d] /\ d \in DOMAIN frames
      BY <1>3, <1>9, <2>1
    <3> QED BY <2>0, <3>1 DEF CasesDisjoint
  <2>2. CASE d = n
    <3>1. /\ frames'[d].kept = added /\ frames'[d].cases = Tail(f.cases)
          /\ k \in 1 .. Len(f.cases) - 1 /\ Tail(f.cases)[k] = f.cases[k + 1]
          /\ k + 1 \in DOMAIN f.cases
      BY <1>6, <1>8, <1>9, <2>2
    <3>2. /\ f.kept.dom \cap f.cases[k + 1].cond = {}
          /\ \A j \in 1 .. (k + 1) - 1 : f.cases[j].cond \cap f.cases[k + 1].cond = {}
      BY <1>3, <2>0, <3>1 DEF CasesDisjoint
    <3>3. 1 \in 1 .. (k + 1) - 1
      BY <1>6, <3>1
    <3>4. h.cond \cap f.cases[k + 1].cond = {}
      BY <1>6, <3>2, <3>3
    <3>5. ASSUME NEW j \in 1 .. k - 1
          PROVE  Tail(f.cases)[j].cond \cap Tail(f.cases)[k].cond = {}
      <4>1. j \in 1 .. Len(f.cases) - 1 /\ j + 1 \in 1 .. (k + 1) - 1
        BY <1>6, <3>1
      <4>2. Tail(f.cases)[j] = f.cases[j + 1]
        BY <1>6, <4>1
      <4> QED BY <3>1, <3>2, <4>1, <4>2
    <3> QED BY <1>7, <3>1, <3>2, <3>4, <3>5
  <2> QED BY <1>3, <2>1, <2>2
<1>16. Recorded'
  <2>1. Parse' = Parse
    BY <1>1, ParseUnchanged
  <2> QED BY <1>1, <2>1 DEF Inv, IInv, Recorded, Done
<1>17. Within' = Within
  BY <1>1 DEF Within
<1>18. Current'
  BY <1>8, <1>9 DEF Current
<1>19. Framed'
  <2> SUFFICES ASSUME NEW d \in 1 .. n, NEW w \in Within' \cap frames'[d].fwd
               PROVE (\/ frames[d].open /\ w \in Head(frames[d].cases).cond
                      \/ Waits(frames[d], w)
                      \/ IsKept(frames[d], w))'
    BY <1>9 DEF Framed
  <2>1. CASE d \in 1 .. n - 1
    <3>1. frames'[d] = frames[d] /\ d \in DOMAIN frames
      BY <1>3, <1>9, <2>1
    <3> QED BY <1>1, <1>17, <3>1, OuterFrame
  <2>2. CASE d = n
    <3>1. frames'[d] = g /\ w \in Within \cap f.fwd
      BY <1>8, <1>9, <1>17, <2>2
    <3>2. \/ w \in h.cond
          \/ Waits(f, w)
          \/ IsKept(f, w)
      BY <1>1, <1>3, <3>1 DEF Inv, IInv, Framed
    <3>3. CASE w \in h.cond
      <4>1. w \in Within \cap fwd
        BY <1>5, <3>1, <3>3
      <4>2. Rest(pc, store[w], visited) = Done(w) /\ ~exited /\ ~returned /\ Loops(parser)
        BY <1>1, <4>1 DEF f, Inv, IInv, Current
      <4>3. store[w] = Done(w)
        BY <1>1, <4>2 DEF Rest
      <4>4. w \notin f.kept.dom
        <5>1. Disjoint(parser)
          BY <4>2 DEF Inv, Orderly
        <5> QED BY <1>3, <1>6, <3>3, <5>1 DEF Inv, IInv, CasesDisjoint
      <4>5. w \in added.dom /\ added.val[w] = Done(w)
        BY <1>7, <3>3, <4>2, <4>3, <4>4
      <4>6. IsKept(g, w)
        BY <1>8, <4>2, <4>5 DEF IsKept
      <4> QED BY <1>1, <3>1, <4>6, FramePrimed
    <3>4. CASE Waits(f, w)
      <4>1. Left(f) = Left(g)
        BY <1>1, <1>8 DEF Left
      <4>2. Waits(g, w)
        BY <1>8, <3>4, <4>1 DEF Waits
      <4> QED BY <1>1, <3>1, <4>2, FramePrimed
    <3>5. CASE IsKept(f, w)
      <4>1. IsKept(g, w)
        BY <1>7, <1>8, <3>5 DEF IsKept
      <4> QED BY <1>1, <3>1, <4>1, FramePrimed
    <3> QED BY <3>2, <3>3, <3>4, <3>5
  <2> QED BY <1>3, <2>1, <2>2
<1>20. ParserAgrees'
  BY <1>1 DEF ParserAgrees
<1> QED BY <1>11, <1>12, <1>13, <1>14, <1>15, <1>16, <1>18, <1>19, <1>20 DEF IInv

LEMMA SelectEndStep == Inv /\ SelectEnd => IInv'
<1> SUFFICES ASSUME Inv, SelectEnd PROVE IInv'
  OBVIOUS
<1> DEFINE n == Len(frames)
           f == frame
<1>1. /\ pc = "back" /\ pc' = pc /\ frames # <<>> /\ ~f.open /\ f.cases = <<>>
      /\ exited' = f.exitAll /\ returned' = f.returnAll
      /\ store' = MergeVars(f.kept, store) /\ frames' = Front(frames)
      /\ UNCHANGED <<parser, fwd, ret, returns, exitCond, exits, visited>>
  BY DEF SelectEnd, AtSelect
<1>2. /\ parser \in Parsers /\ TypeOK /\ frames \in Seq(Frames) /\ store \in Stores
      /\ Nested /\ fwd = Outer(n)
  BY <1>1 DEF Inv, IInv, TypeOK, Nested
<1>3. /\ n \in Nat \ {0} /\ n \in DOMAIN frames /\ f = frames[n] /\ f \in Frames
      /\ DOMAIN frames = 1 .. n
  BY <1>1, <1>2, LastFrame
<1>4. /\ f.kept \in Partial /\ f.exitAll \in BOOLEAN /\ f.returnAll \in BOOLEAN
  BY <1>3, FrameFields
<1>5. fwd = f.fwd
  BY <1>1, <1>2, <1>3 DEF Outer, Inside
<1>6. f.fwd = Outer(n - 1) /\ \A d \in 1 .. n - 1 : frames[d].open
  BY <1>2, <1>3 DEF Nested
<1> HIDE DEF f
<1>7. /\ frames' \in Seq(Frames) /\ Len(frames') = n - 1
      /\ DOMAIN frames' = 1 .. n - 1
      /\ \A d \in 1 .. n - 1 : frames'[d] = frames[d] /\ d \in DOMAIN frames
  <2>1. frames \in Seq(Frames) /\ frames # <<>> /\ frames' = Front(frames)
    BY <1>1, <1>2
  <2>2. \A d \in 1 .. n - 1 : d \in DOMAIN frames
    BY <1>3
  <2> QED BY <2>1, <2>2, FrontFrames
<1> HIDE DEF n
<1>8. frames' # <<>> => n - 1 \in 1 .. n - 1 /\ frame' = frames'[n - 1] /\ frame'.open
  <2> SUFFICES ASSUME frames' # <<>>
               PROVE  n - 1 \in 1 .. n - 1 /\ frame' = frames'[n - 1] /\ frame'.open
    OBVIOUS
  <2>1. Len(frames') # 0
    BY <1>7
  <2>2. n - 1 \in 1 .. n - 1
    BY <1>3, <1>7, <2>1
  <2>3. frame' = frames'[n - 1]
    BY <1>7 DEF frame, Last
  <2> QED BY <1>6, <1>7, <2>2, <2>3
<1>9. store' \in Stores /\ \A w \in f.kept.dom : w \in Worlds /\ store'[w] = f.kept.val[w]
  <2>1. store' \in Stores
    BY <1>1, <1>2, <1>4, MergedType
  <2>2. f.kept.dom \subseteq Worlds
    BY <1>4 DEF Partial
  <2> QED BY <1>1, <2>1, <2>2 DEF MergeVars
<1>10. TypeOK'
  BY <1>1, <1>2, <1>4, <1>7, <1>9 DEF TypeOK
<1>11. LeavesOnce'
  BY <1>1 DEF Inv, IInv, LeavesOnce
<1>12. \A d \in 0 .. n - 1 : Outer(d)' = Outer(d)
  BY <1>3, <1>7 DEF Outer
<1>13. Nested'
  <2>1. ASSUME NEW d \in 1 .. n - 1
        PROVE  /\ frames'[d].fwd = Outer(d - 1)'
               /\ frames'[d].open => frames'[d].cases # <<>>
               /\ d < n - 1 => frames'[d].open
    <3>1. /\ d \in DOMAIN frames /\ frames'[d] = frames[d] /\ d - 1 \in 0 .. n - 1
      BY <1>3, <1>7
    <3>2. Outer(d - 1)' = Outer(d - 1)
      BY <1>12, <3>1
    <3> QED BY <1>2, <1>6, <3>1, <3>2 DEF Nested
  <2>2. \A d \in DOMAIN frames' :
          /\ frames'[d].fwd = Outer(d - 1)'
          /\ frames'[d].open => frames'[d].cases # <<>>
          /\ d < Len(frames') => frames'[d].open
    BY <1>7, <2>1
  <2>3. fwd' = Outer(Len(frames))'
    <3>1. n - 1 \in 0 .. n - 1
      BY <1>3
    <3>2. \A d \in 0 .. n - 1 : d = n - 1 => fwd' = Outer(d)'
      BY <1>1, <1>5, <1>6, <1>12
    <3>3. \A d \in 0 .. n - 1 : d = n - 1 => Outer(Len(frames))' = Outer(d)'
      BY <1>7 DEF Outer
    <3> QED BY <3>1, <3>2, <3>3
  <2>4. pc' = "back"
    BY <1>1
  <2> QED BY <1>8, <2>2, <2>3, <2>4 DEF Nested
<1>14. Ranked'
  <2>1. Ranked /\ Ranks(parser)' = Ranks(parser)
    BY <1>1 DEF Inv, IInv
  <2>2. ASSUME NEW rank \in Ranks(parser), NEW d \in 1 .. n - 1,
               NEW k \in DOMAIN frames'[d].cases, frames'[d].cases[k].to \in States,
               NEW s \in frames'[d].visited
        PROVE  rank[frames'[d].cases[k].to] < rank[s]
    BY <1>7, <2>1, <2>2 DEF Ranked
  <2>3. pc' \notin States
    BY <1>1, ParsersAssumption
  <2> QED BY <1>1, <1>7, <2>1, <2>2, <2>3 DEF Ranked
<1>15. CasesDisjoint'
  <2> SUFFICES ASSUME Disjoint(parser), NEW d \in 1 .. n - 1, NEW k \in DOMAIN frames'[d].cases
               PROVE  /\ frames'[d].kept.dom \cap frames'[d].cases[k].cond = {}
                      /\ \A j \in 1 .. k - 1 : frames'[d].cases[j].cond \cap frames'[d].cases[k].cond = {}
    BY <1>1, <1>7 DEF CasesDisjoint
  <2> QED BY <1>7 DEF Inv, IInv, CasesDisjoint
<1>16. Recorded'
  <2>1. Parse' = Parse
    BY <1>1, ParseUnchanged
  <2> QED BY <1>1, <2>1 DEF Inv, IInv, Recorded, Done
<1>17. Within' = Within
  BY <1>1 DEF Within
<1>18. ASSUME NEW w \in Within \cap f.fwd PROVE IsKept(f, w)
  <2>1. Waits(f, w) \/ IsKept(f, w)
    BY <1>1, <1>3 DEF Inv, IInv, Framed
  <2>2. ~Waits(f, w)
    BY <1>1 DEF Waits, Left
  <2> QED BY <2>1, <2>2
<1>19. Current'
  <2> SUFFICES ASSUME NEW w \in Within' \cap fwd'
               PROVE /\ Rest(pc, store[w], visited)' = Done(w)'
                     /\ (pc = "back" => ~exited /\ ~returned /\ Loops(parser))'
    BY DEF Current
  <2>1. IsKept(f, w)
    BY <1>1, <1>5, <1>17, <1>18
  <2>2. store'[w] = Done(w)
    BY <1>9, <2>1 DEF IsKept
  <2>3. Rest(pc', store'[w], visited') = Done(w)
    BY <1>1, <2>2 DEF Rest
  <2>4. Rest(pc, store[w], visited)' = Rest(pc', store'[w], visited') /\ Done(w)' = Done(w)
    BY <1>1, RestPrimed
  <2>5. ~exited' /\ ~returned' /\ Loops(parser)
    BY <1>1, <2>1 DEF IsKept
  <2> QED BY <1>1, <2>3, <2>4, <2>5
<1>20. Framed'
  <2> SUFFICES ASSUME NEW d \in 1 .. n - 1, NEW w \in Within' \cap frames'[d].fwd
               PROVE (\/ frames[d].open /\ w \in Head(frames[d].cases).cond
                      \/ Waits(frames[d], w)
                      \/ IsKept(frames[d], w))'
    BY <1>7 DEF Framed
  <2>1. frames'[d] = frames[d] /\ d \in DOMAIN frames
    BY <1>7
  <2> QED BY <1>1, <1>17, <2>1, OuterFrame
<1>21. ParserAgrees'
  BY <1>1 DEF ParserAgrees
<1> QED BY <1>10, <1>11, <1>13, <1>14, <1>15, <1>16, <1>19, <1>20, <1>21 DEF IInv

\* The results are merged in the order of their lists, and each world is in one of
\* them, or has come to a loop and is where the visitor is.
LEMMA ParserEndStep == Inv /\ ParserEnd => IInv'
<1> SUFFICES ASSUME Inv, ParserEnd PROVE IInv'
  OBVIOUS
<1>1. /\ pc = "back" /\ frames = <<>> /\ pc' = "end"
      /\ store' = MergeVars(exits, MergeVars(returns, store))
      /\ UNCHANGED <<parser, frames, fwd, ret, returns, exitCond, exits, exited, returned, visited>>
  BY DEF ParserEnd, leaving
<1>2. /\ TypeOK /\ LeavesOnce /\ Recorded /\ Current /\ Nested
      /\ store \in Stores /\ returns \in Partial /\ exits \in Partial
  BY DEF Inv, IInv, TypeOK
<1>3. frames' = <<>> /\ Len(frames') = 0 /\ DOMAIN frames' = {}
  BY <1>1
<1>4. fwd = Worlds
  BY <1>1, <1>2 DEF Nested, Outer
<1>5. store' \in Stores
  BY <1>1, <1>2, MergedType
<1>6. \A w \in Worlds : store'[w] = IF w \in exits.dom THEN exits.val[w]
                                    ELSE IF w \in returns.dom THEN returns.val[w] ELSE store[w]
  BY <1>1 DEF MergeVars
<1>7. ASSUME NEW w \in Worlds PROVE store'[w] = Done(w)
  <2>1. CASE w \in exits.dom
    BY <1>2, <1>6, <2>1 DEF Recorded
  <2>2. CASE w \notin exits.dom /\ w \in returns.dom
    BY <1>2, <1>6, <2>2 DEF Recorded
  <2>3. CASE w \notin exits.dom /\ w \notin returns.dom
    <3>1. w \in Within \cap fwd
      BY <1>2, <1>4, <2>3 DEF LeavesOnce, Within
    <3>2. Rest(pc, store[w], visited) = Done(w)
      BY <1>1, <1>2, <3>1 DEF Current
    <3> QED BY <1>1, <1>6, <2>3, <3>2 DEF Rest
  <2> QED BY <2>1, <2>2, <2>3
<1>8. Parse' = Parse
  BY <1>1, ParseUnchanged
<1>9. TypeOK'
  BY <1>1, <1>2, <1>5 DEF TypeOK
<1>10. LeavesOnce'
  BY <1>1, <1>2 DEF LeavesOnce
<1>11. Nested'
  BY <1>1, <1>2, <1>3 DEF Nested
<1>12. Ranked'
  BY <1>1, <1>3, ParsersAssumption DEF Ranked
<1>13. CasesDisjoint'
  BY <1>3 DEF CasesDisjoint
<1>14. Recorded'
  BY <1>1, <1>2, <1>8 DEF Recorded, Done
<1>15. Current'
  BY <1>1 DEF Current
<1>16. Framed'
  BY <1>3 DEF Framed
<1>17. ParserAgrees'
  BY <1>7, <1>8 DEF ParserAgrees, Done
<1> QED BY <1>9, <1>10, <1>11, <1>12, <1>13, <1>14, <1>15, <1>16, <1>17 DEF IInv

-----------------------------------------------------------------------------
(* The parser *)

LEMMA ParserInit ==
  ASSUME Init
  PROVE  IInv
<1>1. /\ parser \in Parsers /\ pc = "start" /\ frames = <<>> /\ store = Input
      /\ fwd = Worlds /\ ret = Worlds /\ returns = Nothing
      /\ exitCond = Worlds /\ exits = Nothing /\ exited = FALSE /\ returned = FALSE
      /\ visited = {}
  BY DEF Init
<1>2. /\ "start" \in Declarations /\ "start" \in States
      /\ "start" # "back" /\ "start" # "end"
  BY NotPlaces, ParsersAssumption DEF Declarations
<1>3. Input \in Stores /\ Nothing \in Partial /\ Nothing.dom = {}
  BY InputAssumption DEF Stores, Nothing, Partial
<1>4. DOMAIN frames = {} /\ Len(frames) = 0 /\ frames \in Seq(Frames)
  BY <1>1
<1>5. TypeOK
  BY <1>1, <1>2, <1>3, <1>4 DEF TypeOK
<1>6. LeavesOnce
  BY <1>1, <1>3 DEF LeavesOnce
<1>7. Nested
  BY <1>1, <1>2, <1>4 DEF Nested, Outer
<1>8. Ranked
  BY <1>1, <1>4 DEF Ranked
<1>9. CasesDisjoint
  BY <1>4 DEF CasesDisjoint
<1>10. Recorded
  BY <1>1, <1>3 DEF Recorded
<1>11. Current
  <2>1. ASSUME NEW w PROVE Rest(pc, store[w], visited) = Done(w)
    <3>1. States \ {} = States
      OBVIOUS
    <3> QED BY <1>1, <1>2, <3>1 DEF Rest, Done
  <2>2. pc # "back"
    BY <1>1, <1>2
  <2> QED BY <2>1, <2>2 DEF Current
<1>12. Framed
  BY <1>4 DEF Framed
<1>13. ParserAgrees
  BY <1>1, <1>2 DEF ParserAgrees
<1> QED BY <1>5, <1>6, <1>7, <1>8, <1>9, <1>10, <1>11, <1>12, <1>13 DEF IInv

LEMMA ParserStutters == Inv /\ UNCHANGED parserVars => IInv'
<1> SUFFICES ASSUME Inv, UNCHANGED parserVars PROVE IInv'
  OBVIOUS
<1>1. /\ parser' = parser /\ pc' = pc /\ frames' = frames /\ store' = store /\ fwd' = fwd
      /\ ret' = ret /\ returns' = returns /\ exitCond' = exitCond /\ exits' = exits
      /\ exited' = exited /\ returned' = returned /\ visited' = visited
  BY DEF parserVars
<1>2. Parse' = Parse /\ frame' = frame
  BY <1>1, ParseUnchanged DEF frame
<1>3. TypeOK'
  BY <1>1 DEF Inv, IInv, TypeOK
<1>4. LeavesOnce'
  BY <1>1 DEF Inv, IInv, LeavesOnce
<1>5. Nested'
  <2>1. Nested
    BY DEF Inv, IInv
  <2>2. \A d \in DOMAIN frames : frames[d].fwd = Outer(d - 1)'
    BY <1>1, <2>1 DEF Nested, Outer
  <2>3. Outer(Len(frames))' = Outer(Len(frames))
    BY <1>1 DEF Outer
  <2> QED BY <1>1, <1>2, <2>1, <2>2, <2>3 DEF Nested
<1>6. Ranked'
  BY <1>1 DEF Inv, IInv, Ranked
<1>7. CasesDisjoint'
  BY <1>1 DEF Inv, IInv, CasesDisjoint
<1>8. Recorded'
  BY <1>1, <1>2 DEF Inv, IInv, Recorded, Done
<1>9. Current'
  <2>1. Within' = Within
    BY <1>1 DEF Within
  <2> QED BY <1>1, <1>2, <2>1 DEF Inv, IInv, Current, Rest, Done
<1>10. Framed'
  BY <1>1, FramedKept DEF Inv, IInv, Within
<1>11. ParserAgrees'
  BY <1>1, <1>2 DEF Inv, IInv, ParserAgrees
<1> QED BY <1>3, <1>4, <1>5, <1>6, <1>7, <1>8, <1>9, <1>10, <1>11 DEF IInv

\* Whatever the visitor does next, what it knows of every input stays true.
LEMMA ParserStep == Inv /\ [Next]_parserVars => Inv'
<1> SUFFICES ASSUME Inv, [Next]_parserVars PROVE Inv'
  OBVIOUS
<1>1. (parser \in Parsers /\ Orderly(parser))'
  BY DEF Inv, Next, RejectState, GoTo, Select, CaseOpen, CaseEnd, SelectEnd, Accept, Reject,
         ParserEnd, parserVars
<1>2. IInv'
  BY RejectStateInv, GoToInv, SelectStep, CaseOpenStep, CaseEndStep, SelectEndStep,
     AcceptStep, RejectStep, ParserEndStep, ParserStutters DEF Next
<1> QED BY <1>1, <1>2 DEF Inv

\* On its way through a parser the visitor has, for every input, its result, or it is
\* on the way to it.  With a loop cases have to be disjoint: see Orderly.
THEOREM ParserKnows ==
  ASSUME \A p \in Parsers : Orderly(p)
  PROVE  Spec => []IInv
<1>1. Init => Inv
  BY ParserInit DEF Inv, Init
<1>2. Inv => IInv
  BY DEF Inv
<1> QED BY <1>1, <1>2, ParserStep, PTL DEF Spec

\* A parser leaves for every input what a parse of that input alone leaves, whatever
\* states are reached on several paths, cases overlap or paths are rejected.
THEOREM ParserParses ==
  ASSUME \A p \in Parsers : Orderly(p)
  PROVE  Spec => []ParserAgrees
<1>1. IInv => ParserAgrees
  BY DEF IInv
<1> QED BY <1>1, ParserKnows, PTL
================================================================================
