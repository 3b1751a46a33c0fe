-------------------------- MODULE ScopedState_proofs --------------------------
(***************************************************************************)
(* Proofs about ScopedStateRef, for all sets of worlds, names and values,  *)
(* calls of any depth, and programs of any length.                         *)
(*                                                                         *)
(* Facts about maps, scopes, merging and leaving a call come first, then   *)
(* what unwinding an exit does, then the parts of the inductive invariant: *)
(* Framed (shapes, lists and frozen maps, which no world matters to) and   *)
(* Located and Accounted (where a world is, and where its values are).     *)
(* After these there is one lemma for each action, and the theorems.       *)
(***************************************************************************)
EXTENDS ScopedStateRef, FiniteSetTheorems, WellFoundedInduction,
        SequenceTheorems, TLAPS

-----------------------------------------------------------------------------
(* Sets and sequences *)

\* The greatest element of a set of positive numbers with a bound.
LEMMA MaxIsGreatest ==
  ASSUME NEW n \in Nat, NEW S \in SUBSET (1 .. n), S # {}
  PROVE  Max(S) \in S /\ \A k \in S : k <= Max(S)
<1> DEFINE T == {m \in Nat : \A k \in S : k <= m}
<1>1. n \in T
  OBVIOUS
<1>2. PICK m \in T : \A y \in T : ~(<<y, m>> \in OpToRel(<, Nat))
  BY <1>1, NatLessThanWellFounded, WFMin
<1>3. \A y \in T : ~(y < m)
  BY <1>2 DEF OpToRel
<1>4. m \in S
  <2> SUFFICES ASSUME m \notin S PROVE FALSE
    OBVIOUS
  <2>1. \A k \in S : k <= m - 1
    <3> SUFFICES ASSUME NEW k \in S PROVE k <= m - 1
      OBVIOUS
    <3>1. k \in 1 .. n /\ k <= m /\ k # m /\ m \in Nat
      OBVIOUS
    <3> QED BY <3>1
  <2>2. m - 1 \in Nat
    <3> PICK k \in S : TRUE
      OBVIOUS
    <3>1. k \in 1 .. n /\ k <= m - 1 /\ m \in Nat
      BY <2>1
    <3> QED BY <3>1
  <2>3. m - 1 \in T
    BY <2>1, <2>2
  <2> QED BY <1>3, <2>3
<1>5. \A k \in S : m >= k
  OBVIOUS
<1> QED BY <1>4, <1>5 DEF Max

LEMMA FrontFacts ==
  ASSUME NEW S, NEW q \in Seq(S), q # <<>>
  PROVE  /\ Front(q) \in Seq(S) /\ Len(Front(q)) = Len(q) - 1 /\ Len(q) \in Nat \ {0}
         /\ DOMAIN Front(q) = 1 .. Len(q) - 1 /\ DOMAIN q = 1 .. Len(q)
         /\ \A d \in 1 .. Len(q) - 1 : Front(q)[d] = q[d]
         /\ Last(q) = q[Len(q)] /\ q[Len(q)] \in S
<1> DEFINE n == Len(q) - 1
<1>1. n \in Nat /\ \A d \in 1 .. n : q[d] \in S /\ d \in 1 .. Len(q)
  OBVIOUS
<1>2. /\ DOMAIN q = 1 .. Len(q) /\ Last(q) = q[Len(q)] /\ q[Len(q)] \in S
      /\ Len(q) \in Nat \ {0}
  BY DEF Last
<1> HIDE DEF n
<1>3. n - 1 + 1 = n /\ (IF 1 <= n THEN n - 1 + 1 ELSE 0) = n
      /\ \A d \in 1 .. n : 1 + d - 1 = d
  BY <1>1
<1>4. 1 \in Int /\ n \in Int
  BY <1>1
<1>5. /\ SubSeq(q, 1, n) \in Seq(S) /\ Len(SubSeq(q, 1, n)) = n
      /\ \A d \in 1 .. n : SubSeq(q, 1, n)[d] = q[d]
  BY <1>1, <1>3, <1>4, SubSeqProperties
<1> QED BY <1>2, <1>5 DEF n, Front

LEMMA AppendFacts ==
  ASSUME NEW S, NEW q \in Seq(S), NEW x \in S
  PROVE  /\ Append(q, x) \in Seq(S) /\ Len(Append(q, x)) = Len(q) + 1 /\ Len(q) \in Nat
         /\ DOMAIN Append(q, x) = 1 .. Len(q) + 1 /\ DOMAIN q = 1 .. Len(q)
         /\ Append(q, x)[Len(q) + 1] = x /\ Last(Append(q, x)) = x
         /\ \A d \in 1 .. Len(q) : Append(q, x)[d] = q[d]
BY DEF Last

LEMMA FunctionIsSeq ==
  ASSUME NEW S, NEW n \in Nat, NEW q \in [1 .. n -> S]
  PROVE  q \in Seq(S) /\ Len(q) = n
OBVIOUS

-----------------------------------------------------------------------------
(* Variables by name *)

LEMMA MapFacts ==
  ASSUME NEW map \in VarMaps
  PROVE  /\ DOMAIN map \subseteq Names /\ map = [n \in DOMAIN map |-> map[n]]
         /\ \A n \in DOMAIN map : map[n] \in Store
BY DEF VarMaps

LEMMA MapType ==
  ASSUME NEW S \in SUBSET Names, NEW map, map = [n \in S |-> map[n]],
         \A n \in S : map[n] \in Store
  PROVE  map \in VarMaps /\ DOMAIN map = S
<1>1. map \in [S -> Store]
  OBVIOUS
<1> QED BY <1>1 DEF VarMaps

LEMMA ScopeFields ==
  ASSUME NEW s \in Scopes
  PROVE  /\ s.vars \in VarMaps /\ s.ret \in SUBSET Worlds /\ s.states \in Seq(Pair)
         /\ s.exprs \in Seq([cond : SUBSET Worlds, val : Store])
         /\ DOMAIN s.copyOut \subseteq Names
         /\ \A n \in DOMAIN s.copyOut : s.copyOut[n] \in Names
BY DEF Scopes

LEMMA ScopeWithVars ==
  ASSUME NEW s \in Scopes, NEW map \in VarMaps
  PROVE  /\ [s EXCEPT !.vars = map] \in Scopes
         /\ [s EXCEPT !.vars = map].vars = map
         /\ [s EXCEPT !.vars = map].copyOut = s.copyOut
         /\ [s EXCEPT !.vars = map].ret = s.ret
         /\ [s EXCEPT !.vars = map].states = s.states
         /\ [s EXCEPT !.vars = map].exprs = s.exprs
BY DEF Scopes

LEMMA OwnerFacts ==
  ASSUME NEW sc \in Seq(Scopes), NEW n \in Visible(sc)
  PROVE  /\ Owner(sc, n) \in DOMAIN sc /\ n \in DOMAIN sc[Owner(sc, n)].vars
         /\ \A j \in DOMAIN sc : n \in DOMAIN sc[j].vars => j <= Owner(sc, n)
         /\ GetVar(sc, n) = sc[Owner(sc, n)].vars[n] /\ GetVar(sc, n) \in Store
         /\ n \in Names
<1> DEFINE S == {i \in DOMAIN sc : n \in DOMAIN sc[i].vars}
<1>1. S # {}
  BY DEF Visible
<1>2. S \in SUBSET (1 .. Len(sc)) /\ Len(sc) \in Nat
  OBVIOUS
<1>3. Max(S) \in S /\ \A k \in S : k <= Max(S)
  <2> HIDE DEF S
  <2> QED BY <1>1, <1>2, MaxIsGreatest
<1>4. sc[Max(S)] \in Scopes
  BY <1>3
<1>5. /\ sc[Max(S)].vars[n] \in Store /\ n \in Names
  BY <1>3, <1>4, ScopeFields, MapFacts
<1> QED BY <1>3, <1>5 DEF Owner, GetVar

LEMMA OwnerIs ==
  ASSUME NEW sc \in Seq(Scopes), NEW i \in DOMAIN sc, NEW n \in DOMAIN sc[i].vars,
         \A j \in i + 1 .. Len(sc) : n \notin DOMAIN sc[j].vars
  PROVE  n \in Visible(sc) /\ Owner(sc, n) = i /\ GetVar(sc, n) = sc[i].vars[n]
<1>1. n \in Visible(sc)
  BY DEF Visible
<1>2. /\ Owner(sc, n) \in 1 .. Len(sc) /\ n \in DOMAIN sc[Owner(sc, n)].vars
      /\ i <= Owner(sc, n) /\ i \in 1 .. Len(sc) /\ Len(sc) \in Nat
  BY <1>1, OwnerFacts
<1>3. Owner(sc, n) = i
  BY <1>2
<1> QED BY <1>1, <1>3 DEF GetVar

\* The scopes sc with other values.
SameShape(sc, r) ==
  /\ r \in Seq(Scopes) /\ Len(r) = Len(sc) /\ DOMAIN r = DOMAIN sc
  /\ \A i \in DOMAIN sc :
       /\ DOMAIN r[i].vars = DOMAIN sc[i].vars
       /\ r[i].copyOut = sc[i].copyOut /\ r[i].ret = sc[i].ret
       /\ r[i].states = sc[i].states /\ r[i].exprs = sc[i].exprs

LEMMA SameOwner ==
  ASSUME NEW sc, NEW r, SameShape(sc, r)
  PROVE  /\ Visible(r) = Visible(sc)
         /\ \A n : Owner(r, n) = Owner(sc, n)
BY DEF SameShape, Visible, Owner

LEMMA SameTwice ==
  ASSUME NEW sc, NEW r, NEW q, SameShape(sc, r), SameShape(r, q)
  PROVE  SameShape(sc, q)
BY DEF SameShape

LEMMA RestoreFacts ==
  ASSUME NEW sc \in Seq(Scopes), NEW map \in VarMaps,
         NEW r, r = RestoreVars(sc, map)
  PROVE  /\ SameShape(sc, r)
         /\ \A i \in DOMAIN sc : \A n \in DOMAIN sc[i].vars :
              r[i].vars[n] = IF n \in DOMAIN map /\ Owner(sc, n) = i THEN map[n]
                             ELSE sc[i].vars[n]
<1> DEFINE new(i) == [n \in DOMAIN sc[i].vars |->
                        IF n \in DOMAIN map /\ Owner(sc, n) = i THEN map[n]
                        ELSE sc[i].vars[n]]
<1>1. r = [i \in DOMAIN sc |-> [sc[i] EXCEPT !.vars = new(i)]]
  BY DEF RestoreVars
<1>2. ASSUME NEW i \in DOMAIN sc
      PROVE  /\ sc[i] \in Scopes /\ new(i) \in VarMaps /\ DOMAIN new(i) = DOMAIN sc[i].vars
             /\ \A n \in DOMAIN sc[i].vars :
                  new(i)[n] = IF n \in DOMAIN map /\ Owner(sc, n) = i THEN map[n]
                              ELSE sc[i].vars[n]
  <2>1. sc[i] \in Scopes
    OBVIOUS
  <2>2. DOMAIN sc[i].vars \subseteq Names /\ \A n \in DOMAIN sc[i].vars : sc[i].vars[n] \in Store
    BY <2>1, ScopeFields, MapFacts
  <2>3. \A n \in DOMAIN map : map[n] \in Store
    BY MapFacts
  <2>4. new(i) \in [DOMAIN sc[i].vars -> Store]
    BY <2>2, <2>3
  <2>5. new(i) \in VarMaps
    BY <2>2, <2>4 DEF VarMaps
  <2> QED BY <2>1, <2>5
<1> HIDE DEF new
<1>3. ASSUME NEW i \in DOMAIN sc
      PROVE  /\ r[i] \in Scopes /\ r[i].vars = new(i)
             /\ r[i].copyOut = sc[i].copyOut /\ r[i].ret = sc[i].ret
             /\ r[i].states = sc[i].states /\ r[i].exprs = sc[i].exprs
  <2>1. r[i] = [sc[i] EXCEPT !.vars = new(i)]
    BY <1>1
  <2>2. sc[i] \in Scopes /\ new(i) \in VarMaps
    BY <1>2
  <2> QED BY <2>1, <2>2, ScopeWithVars
<1>4. r \in Seq(Scopes) /\ Len(r) = Len(sc) /\ DOMAIN r = DOMAIN sc
  <2>1. DOMAIN sc = 1 .. Len(sc) /\ Len(sc) \in Nat
    OBVIOUS
  <2>2. r \in [1 .. Len(sc) -> Scopes]
    BY <1>1, <1>3, <2>1
  <2> QED BY <2>1, <2>2, FunctionIsSeq
<1> QED BY <1>2, <1>3, <1>4 DEF SameShape

LEMMA UpdateFacts ==
  ASSUME NEW sc \in Seq(Scopes), NEW n \in Visible(sc), NEW val \in Store,
         NEW r, r = UpdateVar(sc, n, val)
  PROVE  /\ SameShape(sc, r)
         /\ \A i \in DOMAIN sc : \A m \in DOMAIN sc[i].vars :
              r[i].vars[m] = IF m = n /\ Owner(sc, n) = i THEN val ELSE sc[i].vars[m]
<1> DEFINE o == Owner(sc, n)
           new == [sc[o].vars EXCEPT ![n] = val]
<1>1. o \in DOMAIN sc /\ n \in DOMAIN sc[o].vars /\ sc[o] \in Scopes
  BY OwnerFacts
<1>2. r = [sc EXCEPT ![o] = [sc[o] EXCEPT !.vars = new]]
  BY DEF UpdateVar
<1> HIDE DEF o
<1>3. /\ sc[o].vars \in VarMaps /\ DOMAIN sc[o].vars \subseteq Names
      /\ \A m \in DOMAIN sc[o].vars : sc[o].vars[m] \in Store
      /\ sc[o].vars = [m \in DOMAIN sc[o].vars |-> sc[o].vars[m]]
  BY <1>1, ScopeFields, MapFacts
<1>4. /\ DOMAIN new = DOMAIN sc[o].vars
      /\ \A m \in DOMAIN sc[o].vars : new[m] = IF m = n THEN val ELSE sc[o].vars[m]
  BY <1>1, <1>3
<1>5. new \in VarMaps
  <2>1. new \in [DOMAIN sc[o].vars -> Store]
    BY <1>3
  <2> QED BY <1>3, <2>1 DEF VarMaps
<1> HIDE DEF new
<1>6. r \in Seq(Scopes) /\ Len(r) = Len(sc) /\ DOMAIN r = DOMAIN sc
  <2>1. [sc[o] EXCEPT !.vars = new] \in Scopes
    BY <1>1, <1>5, ScopeWithVars
  <2> QED BY <1>1, <1>2, <2>1
<1>7. /\ r[o].vars = new /\ r[o].copyOut = sc[o].copyOut /\ r[o].ret = sc[o].ret
      /\ r[o].states = sc[o].states /\ r[o].exprs = sc[o].exprs
      /\ \A i \in DOMAIN sc : i # o => r[i] = sc[i]
  <2>1. r[o] = [sc[o] EXCEPT !.vars = new] /\ \A i \in DOMAIN sc : i # o => r[i] = sc[i]
    BY <1>1, <1>2
  <2> QED BY <1>1, <1>5, <2>1, ScopeWithVars
<1> QED BY <1>1, <1>4, <1>6, <1>7 DEF SameShape, o

LEMMA IteFacts ==
  ASSUME NEW cond, NEW a \in Store, NEW b \in Store
  PROVE  /\ Ite(cond, a, b) \in Store
         /\ \A w \in Worlds : Ite(cond, a, b)[w] = IF w \in cond THEN a[w] ELSE b[w]
         /\ a = b => Ite(cond, a, b) = b
BY DEF Ite, Store

LEMMA MergeFacts ==
  ASSUME NEW sc \in Seq(Scopes), NEW map \in VarMaps, NEW cond,
         NEW r, r = MergeVars(sc, cond, map)
  PROVE  /\ SameShape(sc, r)
         /\ \A i \in DOMAIN sc : \A n \in DOMAIN sc[i].vars :
              r[i].vars[n] = IF n \in DOMAIN map /\ Owner(sc, n) = i
                             THEN Ite(cond, map[n], sc[i].vars[n])
                             ELSE sc[i].vars[n]
<1> DEFINE new == [n \in Visible(sc) \cap DOMAIN map |-> Ite(cond, map[n], GetVar(sc, n))]
<1>1. r = RestoreVars(sc, new)
  BY DEF MergeVars
<1>2. new \in VarMaps
  <2>1. ASSUME NEW n \in Visible(sc) \cap DOMAIN map PROVE n \in Names /\ new[n] \in Store
    BY OwnerFacts, MapFacts, IteFacts
  <2>2. new \in [Visible(sc) \cap DOMAIN map -> Store]
    BY <2>1
  <2>3. Visible(sc) \cap DOMAIN map \in SUBSET Names
    BY <2>1
  <2> QED BY <2>2, <2>3 DEF VarMaps
<1>3. DOMAIN new = Visible(sc) \cap DOMAIN map
  OBVIOUS
<1>4. \A n \in DOMAIN new : new[n] = Ite(cond, map[n], GetVar(sc, n))
  OBVIOUS
<1> HIDE DEF new
<1>5. SameShape(sc, r)
  BY <1>1, <1>2, RestoreFacts
<1>6. ASSUME NEW i \in DOMAIN sc, NEW n \in DOMAIN sc[i].vars
      PROVE  r[i].vars[n] = IF n \in DOMAIN map /\ Owner(sc, n) = i
                             THEN Ite(cond, map[n], sc[i].vars[n])
                             ELSE sc[i].vars[n]
  <2>1. r[i].vars[n] = IF n \in DOMAIN new /\ Owner(sc, n) = i THEN new[n] ELSE sc[i].vars[n]
    BY <1>1, <1>2, RestoreFacts
  <2>2. n \in Visible(sc)
    BY DEF Visible
  <2>3. Owner(sc, n) = i => GetVar(sc, n) = sc[i].vars[n]
    BY DEF GetVar
  <2> QED BY <1>3, <1>4, <2>1, <2>2, <2>3
<1> QED BY <1>5, <1>6

\* What a world has in the variables after the pairs of a list have been merged.
LEMMA MergeAllFacts ==
  ASSUME NEW sc \in Seq(Scopes), NEW list \in Seq(Pair), NEW r, r = MergeAll(sc, list)
  PROVE  /\ SameShape(sc, r)
         /\ \A i \in DOMAIN sc : \A n \in DOMAIN sc[i].vars :
              /\ Owner(sc, n) # i => r[i].vars[n] = sc[i].vars[n]
              /\ (\A k \in DOMAIN list : n \in DOMAIN list[k].map =>
                    list[k].map[n] = sc[i].vars[n])
                 => r[i].vars[n] = sc[i].vars[n]
              /\ \A w \in Worlds :
                   /\ (\A k \in DOMAIN list : w \notin list[k].cond)
                      => r[i].vars[n][w] = sc[i].vars[n][w]
                   /\ \A k \in DOMAIN list :
                        /\ w \in list[k].cond /\ n \in DOMAIN list[k].map
                        /\ \A j \in DOMAIN list : j # k => w \notin list[j].cond
                        /\ Owner(sc, n) = i
                        => r[i].vars[n][w] = list[k].map[n][w]
<1> DEFINE val(n, w) == IF Pairs(list, n, w) = {} THEN GetVar(sc, n)[w]
                        ELSE list[Max(Pairs(list, n, w))].map[n][w]
           new == [n \in Visible(sc) |-> [w \in Worlds |-> val(n, w)]]
<1>1. r = RestoreVars(sc, new)
  BY DEF MergeAll
<1>2. ASSUME NEW n, NEW w
      PROVE  /\ Pairs(list, n, w) # {} =>
                  /\ Max(Pairs(list, n, w)) \in DOMAIN list
                  /\ Max(Pairs(list, n, w)) \in Pairs(list, n, w)
  <2> DEFINE P == Pairs(list, n, w)
  <2>1. P \in SUBSET (1 .. Len(list)) /\ Len(list) \in Nat
    BY DEF Pairs
  <2>2. P # {} => Max(P) \in P
    <3> HIDE DEF P
    <3> QED BY <2>1, MaxIsGreatest
  <2> QED BY <2>1, <2>2
<1>3. \A k \in DOMAIN list : list[k] \in Pair /\ list[k].map \in VarMaps
  <2>1. \A k \in DOMAIN list : list[k] \in Pair
    OBVIOUS
  <2>2. \A p \in Pair : p.map \in VarMaps
    BY DEF Pair
  <2> QED BY <2>1, <2>2
<1>4. ASSUME NEW n \in Visible(sc), NEW w \in Worlds PROVE val(n, w) \in Values
  <2>1. GetVar(sc, n)[w] \in Values
    BY OwnerFacts DEF Store
  <2>2. ASSUME NEW k \in Pairs(list, n, w) PROVE list[k].map[n][w] \in Values
    <3>1. list[k].map \in VarMaps /\ n \in DOMAIN list[k].map
      BY <1>3 DEF Pairs
    <3>2. list[k].map[n] \in Store
      BY <3>1, MapFacts
    <3> QED BY <3>2 DEF Store
  <2> QED BY <1>2, <2>1, <2>2
<1>5. new \in VarMaps
  <2>1. \A n \in Visible(sc) : n \in Names
    BY OwnerFacts
  <2>2. \A n \in Visible(sc) : [w \in Worlds |-> val(n, w)] \in Store
    <3> HIDE DEF val
    <3> QED BY <1>4 DEF Store
  <2>3. new \in [Visible(sc) -> Store] /\ Visible(sc) \in SUBSET Names
    <3> HIDE DEF val
    <3> QED BY <2>1, <2>2
  <2> HIDE DEF new
  <2> QED BY <2>3 DEF VarMaps
<1>6. DOMAIN new = Visible(sc) /\ \A n \in Visible(sc) : new[n] = [w \in Worlds |-> val(n, w)]
  OBVIOUS
<1>7. \A n \in Visible(sc), w \in Worlds : new[n][w] = val(n, w)
  OBVIOUS
<1> HIDE DEF new, val
<1>8. /\ SameShape(sc, r)
      /\ \A i \in DOMAIN sc : \A n \in DOMAIN sc[i].vars :
           r[i].vars[n] = IF n \in DOMAIN new /\ Owner(sc, n) = i THEN new[n]
                          ELSE sc[i].vars[n]
  BY <1>1, <1>5, RestoreFacts
<1>9. ASSUME NEW i \in DOMAIN sc, NEW n \in DOMAIN sc[i].vars
      PROVE  /\ n \in Visible(sc) /\ sc[i].vars[n] \in Store
             /\ Owner(sc, n) # i => r[i].vars[n] = sc[i].vars[n]
             /\ Owner(sc, n) = i => r[i].vars[n] = new[n] /\ GetVar(sc, n) = sc[i].vars[n]
  <2>1. n \in Visible(sc)
    BY DEF Visible
  <2>2. sc[i] \in Scopes
    OBVIOUS
  <2>3. sc[i].vars[n] \in Store
    BY <2>2, ScopeFields, MapFacts
  <2> QED BY <1>6, <1>8, <2>1, <2>3 DEF GetVar
<1>10. ASSUME NEW i \in DOMAIN sc, NEW n \in DOMAIN sc[i].vars,
              \A k \in DOMAIN list : n \in DOMAIN list[k].map => list[k].map[n] = sc[i].vars[n]
       PROVE  r[i].vars[n] = sc[i].vars[n]
  <2> SUFFICES ASSUME Owner(sc, n) = i PROVE new[n] = sc[i].vars[n]
    BY <1>9
  <2>1. ASSUME NEW w \in Worlds PROVE val(n, w) = sc[i].vars[n][w]
    <3>1. CASE Pairs(list, n, w) = {}
      BY <1>9, <3>1 DEF val
    <3>2. CASE Pairs(list, n, w) # {}
      BY <1>2, <1>10, <3>2 DEF val, Pairs
    <3> QED BY <3>1, <3>2
  <2>2. sc[i].vars[n] = [w \in Worlds |-> sc[i].vars[n][w]]
    BY <1>9 DEF Store
  <2> QED BY <1>6, <1>9, <2>1, <2>2
<1>11. ASSUME NEW i \in DOMAIN sc, NEW n \in DOMAIN sc[i].vars, NEW w \in Worlds
       PROVE  /\ (\A k \in DOMAIN list : w \notin list[k].cond)
                 => r[i].vars[n][w] = sc[i].vars[n][w]
              /\ \A k \in DOMAIN list :
                   /\ w \in list[k].cond /\ n \in DOMAIN list[k].map
                   /\ \A j \in DOMAIN list : j # k => w \notin list[j].cond
                   /\ Owner(sc, n) = i
                   => r[i].vars[n][w] = list[k].map[n][w]
  <2>1. (\A k \in DOMAIN list : w \notin list[k].cond) => Pairs(list, n, w) = {}
    BY DEF Pairs
  <2>2. ASSUME NEW k \in DOMAIN list, w \in list[k].cond, n \in DOMAIN list[k].map,
               \A j \in DOMAIN list : j # k => w \notin list[j].cond
        PROVE  Pairs(list, n, w) # {} /\ Max(Pairs(list, n, w)) = k
    <3>1. k \in Pairs(list, n, w) /\ \A j \in Pairs(list, n, w) : j = k
      BY <2>2 DEF Pairs
    <3> QED BY <1>2, <3>1
  <2>3. CASE Owner(sc, n) # i
    BY <1>9, <2>3
  <2>4. CASE Owner(sc, n) = i
    <3>1. r[i].vars[n][w] = val(n, w)
      BY <1>7, <1>9, <2>4
    <3> QED BY <1>9, <2>1, <2>2, <2>4, <3>1 DEF val
  <2> QED BY <2>3, <2>4
<1> QED BY <1>8, <1>9, <1>10, <1>11

LEMMA ReverseFacts ==
  ASSUME NEW S, NEW q \in Seq(S)
  PROVE  /\ Reverse(q) \in Seq(S) /\ DOMAIN Reverse(q) = DOMAIN q
         /\ \A k \in DOMAIN q : Len(q) - k + 1 \in DOMAIN q
                                /\ Reverse(q)[k] = q[Len(q) - k + 1]
                                /\ Reverse(q)[Len(q) - k + 1] = q[k]
<1>1. Len(q) \in Nat /\ DOMAIN q = 1 .. Len(q)
  OBVIOUS
<1>2. Reverse(q) = [k \in 1 .. Len(q) |-> q[Len(q) - k + 1]]
  BY DEF Reverse
<1>3. \A k \in 1 .. Len(q) : Len(q) - k + 1 \in 1 .. Len(q) /\ Len(q) - (Len(q) - k + 1) + 1 = k
  BY <1>1
<1>4. Reverse(q) \in [1 .. Len(q) -> S]
  BY <1>1, <1>2, <1>3
<1> QED BY <1>1, <1>2, <1>3, <1>4

\* LeaveScope sets the variables that its caller's arguments name.
LeavesTo(sc, co, r) ==
  /\ SameShape(Front(sc), r) /\ Front(sc) \in Seq(Scopes)
  /\ r \in Seq(Scopes) /\ Len(r) = Len(sc) - 1
  /\ DOMAIN sc = 1 .. Len(sc) /\ DOMAIN Front(sc) = 1 .. Len(sc) - 1
  /\ \A i \in 1 .. Len(sc) - 1 :
       /\ Front(sc)[i] = sc[i] /\ DOMAIN r[i].vars = DOMAIN sc[i].vars
       /\ r[i].copyOut = sc[i].copyOut /\ r[i].ret = sc[i].ret
       /\ r[i].states = sc[i].states /\ r[i].exprs = sc[i].exprs
  /\ \A i \in 1 .. Len(sc) - 1 : \A n \in DOMAIN sc[i].vars :
       r[i].vars[n] = IF n \in DOMAIN co /\ Owner(Front(sc), n) = i
                      THEN GetVar(sc, co[n]) ELSE sc[i].vars[n]

LEMMA LeaveFacts ==
  ASSUME NEW sc \in Seq(Scopes), Len(sc) > 0,
         NEW co, co = sc[Len(sc)].copyOut,
         \A n \in DOMAIN co : co[n] \in Visible(sc)
  PROVE  LeavesTo(sc, co, LeaveScope(sc))
<1> DEFINE r == LeaveScope(sc)
<1> DEFINE new == [n \in DOMAIN co |-> GetVar(sc, co[n])]
           n1 == Len(sc) - 1
<1>1. sc # <<>>
  OBVIOUS
<1>2. /\ Front(sc) \in Seq(Scopes) /\ Len(Front(sc)) = n1 /\ Len(sc) \in Nat
      /\ DOMAIN Front(sc) = 1 .. n1 /\ DOMAIN sc = 1 .. Len(sc)
      /\ \A d \in 1 .. n1 : Front(sc)[d] = sc[d]
      /\ Last(sc) = sc[Len(sc)] /\ sc[Len(sc)] \in Scopes
  BY <1>1, FrontFacts
<1>3. r = RestoreVars(Front(sc), new)
  BY <1>2 DEF LeaveScope
<1> HIDE DEF r
<1>4. DOMAIN co \subseteq Names
  BY <1>2, ScopeFields
<1>5. \A n \in DOMAIN co : GetVar(sc, co[n]) \in Store
  BY OwnerFacts
<1>6. new \in [DOMAIN co -> Store]
  BY <1>5
<1>7. DOMAIN new = DOMAIN co /\ \A n \in DOMAIN co : new[n] = GetVar(sc, co[n])
  OBVIOUS
<1> HIDE DEF new
<1>8. new \in VarMaps
  BY <1>4, <1>6 DEF VarMaps
<1>9. /\ SameShape(Front(sc), r)
      /\ \A i \in DOMAIN Front(sc) : \A n \in DOMAIN Front(sc)[i].vars :
           r[i].vars[n] = IF n \in DOMAIN new /\ Owner(Front(sc), n) = i THEN new[n]
                          ELSE Front(sc)[i].vars[n]
  BY <1>2, <1>3, <1>8, RestoreFacts
<1>10. r \in Seq(Scopes) /\ Len(r) = n1
  BY <1>2, <1>9 DEF SameShape
<1>11. \A i \in 1 .. n1 :
         /\ Front(sc)[i] = sc[i] /\ DOMAIN r[i].vars = DOMAIN sc[i].vars
         /\ r[i].copyOut = sc[i].copyOut /\ r[i].ret = sc[i].ret
         /\ r[i].states = sc[i].states /\ r[i].exprs = sc[i].exprs
  BY <1>2, <1>9 DEF SameShape
<1>12. \A i \in 1 .. n1 : \A n \in DOMAIN sc[i].vars :
         r[i].vars[n] = IF n \in DOMAIN co /\ Owner(Front(sc), n) = i
                        THEN GetVar(sc, co[n]) ELSE sc[i].vars[n]
  BY <1>2, <1>7, <1>9
<1> HIDE DEF n1
<1> QED BY <1>2, <1>9, <1>10, <1>11, <1>12 DEF n1, r, LeavesTo

-----------------------------------------------------------------------------
(* The scopes of a block *)

LEMMA TopOwner ==
  ASSUME NEW sc \in Seq(Scopes), Len(sc) > 0, NEW n \in DOMAIN sc[Len(sc)].vars
  PROVE  n \in Visible(sc) /\ Owner(sc, n) = Len(sc) /\ GetVar(sc, n) = sc[Len(sc)].vars[n]
<1>1. Len(sc) \in Nat /\ Len(sc) \in DOMAIN sc /\ Len(sc) + 1 .. Len(sc) = {}
  OBVIOUS
<1> QED BY <1>1, OwnerIs

LEMMA LayeredFacts ==
  ASSUME NEW sc \in Seq(Scopes), Layered(sc)
  PROVE  /\ Len(sc) \in Nat /\ Len(sc) >= 2 /\ DOMAIN sc = 1 .. Len(sc)
         /\ 1 \in DOMAIN sc /\ 2 \in DOMAIN sc /\ Len(sc) \in DOMAIN sc
         /\ \A i \in DOMAIN sc : sc[i] \in Scopes
BY DEF Layered

LEMMA GlobalOwner ==
  ASSUME NEW sc \in Seq(Scopes), Layered(sc), NEW n \in Globals
  PROVE  /\ n \in Visible(sc) /\ Owner(sc, n) = 2 /\ GetVar(sc, n) = sc[2].vars[n]
         /\ n \in DOMAIN sc[2].vars /\ n \notin Locals
<1>1. 2 \in DOMAIN sc /\ n \in DOMAIN sc[2].vars /\ n \notin Locals
  BY LayeredFacts, NamesAssumption DEF Layered
<1>2. \A j \in 2 + 1 .. Len(sc) : n \notin DOMAIN sc[j].vars
  <2>1. \A j \in 2 + 1 .. Len(sc) : j \in DOMAIN sc /\ j > 2
    BY LayeredFacts
  <2> QED BY <1>1, <2>1 DEF Layered
<1> QED BY <1>1, <1>2, OwnerIs

\* What a statement leaves alone: the local variables below scope m.
Under(sc, r, m) ==
  /\ \A j \in 1 .. m : DOMAIN sc[j].vars \subseteq DOMAIN r[j].vars
  /\ \A j \in 1 .. m - 1 :
       /\ DOMAIN r[j].vars = DOMAIN sc[j].vars
       /\ \A n \in DOMAIN sc[j].vars \cap Locals : r[j].vars[n] = sc[j].vars[n]

LEMMA UnderTwice ==
  ASSUME NEW sc, NEW r, NEW q, NEW m \in Nat, NEW k \in Nat, k <= m,
         Under(sc, r, m), Under(r, q, k)
  PROVE  Under(sc, q, k)
<1>1. (\A j \in 1 .. k : j \in 1 .. m) /\ (\A j \in 1 .. k - 1 : j \in 1 .. m - 1)
  OBVIOUS
<1> QED BY <1>1 DEF Under

LEMMA FrozenStays ==
  ASSUME NEW sc, NEW r, NEW map, NEW m \in Nat, NEW i \in 1 .. m,
         Under(sc, r, m), Frozen(sc, map, i)
  PROVE  Frozen(r, map, i)
<1>1. SUFFICES ASSUME NEW j \in 1 .. i - 1,
                      NEW n \in DOMAIN map \cap DOMAIN r[j].vars \cap Locals,
                      \A k \in j + 1 .. i : n \notin DOMAIN r[k].vars
               PROVE  map[n] = r[j].vars[n]
  BY DEF Frozen
<1>2. j \in 1 .. m - 1 /\ j \in 1 .. m
  OBVIOUS
<1>3. n \in DOMAIN sc[j].vars /\ r[j].vars[n] = sc[j].vars[n]
  BY <1>2 DEF Under
<1>4. \A k \in j + 1 .. i : k \in 1 .. m /\ n \notin DOMAIN sc[k].vars
  BY <1>1, <1>2 DEF Under
<1> QED BY <1>3, <1>4 DEF Frozen

LEMMA GetVarsFacts ==
  ASSUME NEW sc \in Seq(Scopes)
  PROVE  /\ GetVars(sc) \in VarMaps /\ DOMAIN GetVars(sc) = Visible(sc)
         /\ \A n \in Visible(sc) : GetVars(sc)[n] = GetVar(sc, n)
         /\ Frozen(sc, GetVars(sc), Len(sc))
<1>1. \A n \in Visible(sc) : n \in Names /\ GetVar(sc, n) \in Store
  BY OwnerFacts
<1>2. /\ DOMAIN GetVars(sc) = Visible(sc)
      /\ \A n \in Visible(sc) : GetVars(sc)[n] = GetVar(sc, n)
  BY DEF GetVars
<1>3. GetVars(sc) \in [Visible(sc) -> Store] /\ Visible(sc) \in SUBSET Names
  BY <1>1 DEF GetVars
<1>4. GetVars(sc) \in VarMaps
  BY <1>3 DEF VarMaps
<1>5. ASSUME NEW j \in 1 .. Len(sc) - 1, NEW n \in DOMAIN sc[j].vars,
             \A k \in j + 1 .. Len(sc) : n \notin DOMAIN sc[k].vars
      PROVE  GetVars(sc)[n] = sc[j].vars[n]
  <2>1. j \in DOMAIN sc
    OBVIOUS
  <2> QED BY <1>2, <1>5, <2>1, OwnerIs
<1> QED BY <1>2, <1>4, <1>5 DEF Frozen

\* A local variable of a caller, unless a call hides it.
LEMMA LowerOwner ==
  ASSUME NEW sc \in Seq(Scopes), NEW j \in 1 .. Len(sc) - 1, NEW n \in DOMAIN sc[j].vars,
         Owner(sc, n) = j
  PROVE  \A k \in j + 1 .. Len(sc) : n \notin DOMAIN sc[k].vars
<1>1. j \in DOMAIN sc /\ n \in Visible(sc)
  BY DEF Visible
<1> QED BY <1>1, OwnerFacts

LEMMA SameUnder ==
  ASSUME NEW sc \in Seq(Scopes), NEW r, SameShape(sc, r),
         \A j \in 1 .. Len(sc) - 1 : \A n \in DOMAIN sc[j].vars \cap Locals :
           r[j].vars[n] = sc[j].vars[n]
  PROVE  Under(sc, r, Len(sc))
<1>1. Len(sc) \in Nat /\ DOMAIN sc = 1 .. Len(sc)
  OBVIOUS
<1> QED BY <1>1 DEF Under, SameShape

LEMMA UpdateUnder ==
  ASSUME NEW sc \in Seq(Scopes), Layered(sc), NEW n \in Globals \cup DOMAIN sc[Len(sc)].vars,
         NEW val \in Store
  PROVE  Under(sc, UpdateVar(sc, n, val), Len(sc))
<1>1. n \in Visible(sc)
  BY TopOwner, GlobalOwner, LayeredFacts
<1>2. Owner(sc, n) = Len(sc) \/ n \notin Locals
  BY TopOwner, GlobalOwner, LayeredFacts
<1>3. \A j \in 1 .. Len(sc) - 1 : j \in DOMAIN sc /\ j # Len(sc)
  BY LayeredFacts
<1> DEFINE r == UpdateVar(sc, n, val)
<1>4. /\ SameShape(sc, r)
      /\ \A i \in DOMAIN sc : \A m \in DOMAIN sc[i].vars :
           r[i].vars[m] = IF m = n /\ Owner(sc, n) = i THEN val ELSE sc[i].vars[m]
  BY <1>1, UpdateFacts
<1> HIDE DEF r
<1> QED BY <1>2, <1>3, <1>4, SameUnder DEF r

LEMMA RestoreUnder ==
  ASSUME NEW sc \in Seq(Scopes), NEW map \in VarMaps, Frozen(sc, map, Len(sc))
  PROVE  Under(sc, RestoreVars(sc, map), Len(sc))
<1> DEFINE r == RestoreVars(sc, map)
<1>1. /\ SameShape(sc, r)
      /\ \A i \in DOMAIN sc : \A n \in DOMAIN sc[i].vars :
           r[i].vars[n] = IF n \in DOMAIN map /\ Owner(sc, n) = i THEN map[n]
                          ELSE sc[i].vars[n]
  BY RestoreFacts
<1> HIDE DEF r
<1>2. ASSUME NEW j \in 1 .. Len(sc) - 1, NEW n \in DOMAIN sc[j].vars \cap Locals
      PROVE  r[j].vars[n] = sc[j].vars[n]
  <2>1. j \in DOMAIN sc
    OBVIOUS
  <2>2. n \in DOMAIN map /\ Owner(sc, n) = j => map[n] = sc[j].vars[n]
    BY LowerOwner DEF Frozen
  <2> QED BY <1>1, <2>1, <2>2
<1> QED BY <1>1, <1>2, SameUnder DEF r

LEMMA MergeUnder ==
  ASSUME NEW sc \in Seq(Scopes), NEW map \in VarMaps, Frozen(sc, map, Len(sc)), NEW cond
  PROVE  Under(sc, MergeVars(sc, cond, map), Len(sc))
<1> DEFINE r == MergeVars(sc, cond, map)
<1>1. /\ SameShape(sc, r)
      /\ \A i \in DOMAIN sc : \A n \in DOMAIN sc[i].vars :
           r[i].vars[n] = IF n \in DOMAIN map /\ Owner(sc, n) = i
                          THEN Ite(cond, map[n], sc[i].vars[n]) ELSE sc[i].vars[n]
  BY MergeFacts
<1> HIDE DEF r
<1>2. ASSUME NEW j \in 1 .. Len(sc) - 1, NEW n \in DOMAIN sc[j].vars \cap Locals
      PROVE  r[j].vars[n] = sc[j].vars[n]
  <2>1. j \in DOMAIN sc /\ sc[j] \in Scopes
    OBVIOUS
  <2>2. n \in DOMAIN map /\ Owner(sc, n) = j => map[n] = sc[j].vars[n]
    BY LowerOwner DEF Frozen
  <2>3. sc[j].vars[n] \in Store
    <3>1. sc[j].vars \in VarMaps
      BY <2>1, ScopeFields
    <3> QED BY <3>1, MapFacts
  <2>4. Ite(cond, sc[j].vars[n], sc[j].vars[n]) = sc[j].vars[n]
    <3> DEFINE v == sc[j].vars[n]
    <3>1. v \in Store
      BY <2>3
    <3> HIDE DEF v
    <3>2. Ite(cond, v, v) = v
      BY <3>1 DEF Ite, Store
    <3> QED BY <3>2 DEF v
  <2> QED BY <1>1, <2>1, <2>2, <2>4
<1> QED BY <1>1, <1>2, SameUnder DEF r

LEMMA MergeAllUnder ==
  ASSUME NEW sc \in Seq(Scopes), NEW list \in Seq(Pair),
         \A k \in DOMAIN list : Frozen(sc, list[k].map, Len(sc))
  PROVE  Under(sc, MergeAll(sc, list), Len(sc))
<1> DEFINE r == MergeAll(sc, list)
<1>1. /\ SameShape(sc, r)
      /\ \A i \in DOMAIN sc : \A n \in DOMAIN sc[i].vars :
              /\ Owner(sc, n) # i => r[i].vars[n] = sc[i].vars[n]
              /\ (\A k \in DOMAIN list : n \in DOMAIN list[k].map =>
                    list[k].map[n] = sc[i].vars[n])
                 => r[i].vars[n] = sc[i].vars[n]
  BY MergeAllFacts
<1> HIDE DEF r
<1>2. ASSUME NEW j \in 1 .. Len(sc) - 1, NEW n \in DOMAIN sc[j].vars \cap Locals
      PROVE  r[j].vars[n] = sc[j].vars[n]
  <2>1. j \in DOMAIN sc
    OBVIOUS
  <2>2. ASSUME Owner(sc, n) = j, NEW k \in DOMAIN list, n \in DOMAIN list[k].map
        PROVE  list[k].map[n] = sc[j].vars[n]
    <3>1. \A i \in j + 1 .. Len(sc) : n \notin DOMAIN sc[i].vars
      BY <2>2, LowerOwner
    <3>2. Frozen(sc, list[k].map, Len(sc))
      OBVIOUS
    <3> QED BY <2>2, <3>1, <3>2 DEF Frozen
  <2> QED BY <1>1, <2>1, <2>2
<1> QED BY <1>1, <1>2, SameUnder DEF r

\* A call leaves the variables of its caller's callers alone.
LEMMA LeaveUnder ==
  ASSUME NEW sc \in Seq(Scopes), Len(sc) > 1,
         NEW co, co = sc[Len(sc)].copyOut,
         \A n \in DOMAIN co : /\ co[n] \in Visible(sc)
                              /\ n \in DOMAIN sc[Len(sc) - 1].vars \/ n \notin Locals
  PROVE  Under(sc, LeaveScope(sc), Len(sc) - 1)
<1> DEFINE r == LeaveScope(sc)
           m == Len(sc) - 1
<1>01. Len(sc) > 0 /\ \A n \in DOMAIN co : co[n] \in Visible(sc)
  OBVIOUS
<1> HIDE DEF r
<1>02. r = LeaveScope(sc)
  BY DEF r
<1>1. /\ Front(sc) \in Seq(Scopes) /\ Len(r) = m /\ DOMAIN Front(sc) = 1 .. m
      /\ \A i \in 1 .. m : Front(sc)[i] = sc[i] /\ DOMAIN r[i].vars = DOMAIN sc[i].vars
      /\ \A i \in 1 .. m : \A n \in DOMAIN sc[i].vars :
           r[i].vars[n] = IF n \in DOMAIN co /\ Owner(Front(sc), n) = i
                          THEN GetVar(sc, co[n]) ELSE sc[i].vars[n]
  <2>1. LeavesTo(sc, co, r)
    BY <1>01, <1>02, LeaveFacts
  <2> QED BY <2>1 DEF LeavesTo
<1>2. m \in Nat /\ m > 0 /\ Len(Front(sc)) = m
  <2>1. Len(sc) \in Nat
    OBVIOUS
  <2> QED BY <1>1, <2>1
<1> HIDE DEF m
<1>3. ASSUME NEW j \in 1 .. m - 1, NEW n \in DOMAIN sc[j].vars \cap Locals
      PROVE  r[j].vars[n] = sc[j].vars[n]
  <2>1. j \in 1 .. m /\ j # m
    BY <1>2
  <2>2. n \in DOMAIN co => n \in DOMAIN Front(sc)[m].vars
    BY <1>1, <1>2 DEF m
  <2>3. n \in DOMAIN co => Owner(Front(sc), n) = m
    BY <1>1, <1>2, <2>2, TopOwner
  <2> QED BY <1>1, <2>1, <2>3
<1>4. \A j \in 1 .. m - 1 : j \in 1 .. m
  BY <1>2
<1> QED BY <1>1, <1>3, <1>4 DEF Under, r, m

-----------------------------------------------------------------------------
(* The stack of open calls and ifs *)

LEMMA ScopeType ==
  ASSUME NEW fs, NEW d \in Nat
  PROVE  /\ IsFiniteSet({j \in 1 .. d : fs[j].kind = "call"})
         /\ ScopeAt(fs, d) \in Nat /\ ScopeAt(fs, d) >= 1
<1> DEFINE S == {j \in 1 .. d : fs[j].kind = "call"}
<1>1. IsFiniteSet(1 .. d) /\ S \subseteq 1 .. d
  BY FS_Interval
<1>2. IsFiniteSet(S) /\ Cardinality(S) \in Nat
  <2> HIDE DEF S
  <2> QED BY <1>1, FS_Subset, FS_CardinalityType
<1>3. ScopeAt(fs, d) = 1 + Cardinality(S)
  BY DEF ScopeAt
<1> HIDE DEF S
<1> QED BY <1>2, <1>3 DEF S

LEMMA ScopeNone ==
  ASSUME NEW fs PROVE ScopeAt(fs, 0) = 1
<1>1. {j \in 1 .. 0 : fs[j].kind = "call"} = {}
  OBVIOUS
<1>2. Cardinality({}) = 0
  BY FS_EmptySet
<1> QED BY <1>1, <1>2 DEF ScopeAt

LEMMA ScopeNext ==
  ASSUME NEW fs, NEW d \in Nat \ {0}
  PROVE  ScopeAt(fs, d) = IF fs[d].kind = "call" THEN ScopeAt(fs, d - 1) + 1
                          ELSE ScopeAt(fs, d - 1)
<1> DEFINE S(e) == {j \in 1 .. e : fs[j].kind = "call"}
<1>1. d - 1 \in Nat /\ d \notin 1 .. d - 1 /\ 1 .. d = (1 .. d - 1) \cup {d}
  OBVIOUS
<1>2. IsFiniteSet(S(d - 1)) /\ ScopeAt(fs, d - 1) \in Nat
  BY <1>1, ScopeType
<1>3. Cardinality(S(d - 1)) \in Nat
  BY <1>2, FS_CardinalityType
<1>4. S(d) = IF fs[d].kind = "call" THEN S(d - 1) \cup {d} ELSE S(d - 1)
  BY <1>1
<1>5. d \notin S(d - 1)
  BY <1>1
<1>6. Cardinality(S(d - 1) \cup {d}) = Cardinality(S(d - 1)) + 1
  <2> HIDE DEF S
  <2> QED BY <1>2, <1>5, FS_AddElement
<1>7. ScopeAt(fs, d) = 1 + Cardinality(S(d)) /\ ScopeAt(fs, d - 1) = 1 + Cardinality(S(d - 1))
  BY DEF ScopeAt
<1> HIDE DEF S
<1> QED BY <1>3, <1>4, <1>6, <1>7

LEMMA ScopeGrows ==
  ASSUME NEW fs, NEW d \in Nat, NEW e \in Nat, d <= e
  PROVE  ScopeAt(fs, d) <= ScopeAt(fs, e)
<1> DEFINE S(m) == {j \in 1 .. m : fs[j].kind = "call"}
<1>1. S(d) \subseteq S(e)
  <2>1. \A j \in 1 .. d : j \in 1 .. e
    OBVIOUS
  <2> QED BY <2>1
<1>2. IsFiniteSet(S(e)) /\ IsFiniteSet(S(d))
  BY ScopeType
<1>3. /\ Cardinality(S(d)) <= Cardinality(S(e))
      /\ Cardinality(S(d)) \in Nat /\ Cardinality(S(e)) \in Nat
  <2> HIDE DEF S
  <2> QED BY <1>1, <1>2, FS_Subset, FS_CardinalityType
<1>4. ScopeAt(fs, d) = 1 + Cardinality(S(d)) /\ ScopeAt(fs, e) = 1 + Cardinality(S(e))
  BY DEF ScopeAt
<1> HIDE DEF S
<1> QED BY <1>3, <1>4

LEMMA ScopeSame ==
  ASSUME NEW fs, NEW gs, NEW d \in Nat, \A j \in 1 .. d : gs[j].kind = fs[j].kind
  PROVE  ScopeAt(gs, d) = ScopeAt(fs, d)
<1>1. {j \in 1 .. d : gs[j].kind = "call"} = {j \in 1 .. d : fs[j].kind = "call"}
  OBVIOUS
<1> QED BY <1>1 DEF ScopeAt

\* No call is opened between two frames of the same scope.
LEMMA ScopeKept ==
  ASSUME NEW fs, NEW d \in Nat, NEW e \in Nat, d < e
  PROVE  /\ fs[e].kind = "call" => ScopeAt(fs, d) < ScopeAt(fs, e)
         /\ ScopeAt(fs, d) = ScopeAt(fs, e) =>
              fs[e].kind # "call" /\ ScopeAt(fs, e - 1) = ScopeAt(fs, e)
<1>1. e - 1 \in Nat /\ d <= e - 1 /\ e \in Nat \ {0}
  OBVIOUS
<1>2. ScopeAt(fs, d) <= ScopeAt(fs, e - 1)
  BY <1>1, ScopeGrows
<1>3. ScopeAt(fs, d) \in Nat /\ ScopeAt(fs, e - 1) \in Nat /\ ScopeAt(fs, e) \in Nat
  BY <1>1, ScopeType
<1>4. ScopeAt(fs, e) = IF fs[e].kind = "call" THEN ScopeAt(fs, e - 1) + 1
                       ELSE ScopeAt(fs, e - 1)
  BY <1>1, ScopeNext
<1> QED BY <1>2, <1>3, <1>4

\* Every scope but the first is opened by a call.
LEMMA ScopeOpened ==
  ASSUME NEW fs, NEW m \in Nat, NEW i \in 2 .. ScopeAt(fs, m)
  PROVE  \E d \in 1 .. m : fs[d].kind = "call" /\ ScopeAt(fs, d) = i
<1> DEFINE T == {d \in Nat : ScopeAt(fs, d) >= i}
<1>0. i \in Nat /\ i >= 2 /\ ScopeAt(fs, m) >= i
  BY ScopeType
<1>1. m \in T
  BY <1>0
<1>2. PICK d \in T : \A y \in T : ~(<<y, d>> \in OpToRel(<, Nat))
  BY <1>1, NatLessThanWellFounded, WFMin
<1>3. \A y \in T : ~(y < d)
  BY <1>2 DEF OpToRel
<1>4. d \in Nat \ {0} /\ d - 1 \in Nat /\ ~(m < d) /\ ScopeAt(fs, d) >= i
  <2>1. d # 0
    BY <1>0, ScopeNone
  <2> QED BY <1>1, <1>3, <2>1
<1>5. ~(ScopeAt(fs, d - 1) >= i)
  BY <1>3, <1>4
<1>6. ScopeAt(fs, d - 1) \in Nat /\ ScopeAt(fs, d) \in Nat
  BY <1>4, ScopeType
<1>7. ScopeAt(fs, d) = IF fs[d].kind = "call" THEN ScopeAt(fs, d - 1) + 1
                       ELSE ScopeAt(fs, d - 1)
  BY <1>4, ScopeNext
<1> HIDE DEF T
<1>8. fs[d].kind = "call" /\ ScopeAt(fs, d) = i
  BY <1>0, <1>4, <1>5, <1>6, <1>7
<1>9. d \in 1 .. m
  BY <1>4
<1> QED BY <1>8, <1>9

-----------------------------------------------------------------------------
(* Leaving calls *)

\* The scopes b up to the last of sc, with other values.
Like(b, sc) ==
  /\ sc \in Seq(Scopes) /\ Len(sc) <= Len(b)
  /\ \A i \in 1 .. Len(sc) : DOMAIN sc[i].vars = DOMAIN b[i].vars
                             /\ sc[i].copyOut = b[i].copyOut

EnvLike(b, e) ==
  /\ e \in Seq(EnvMaps) /\ Len(e) <= Len(b)
  /\ Len(e) > 0 => DOMAIN e[1] = Globals
  /\ \A i \in 1 .. Len(e) : DOMAIN b[i].vars \subseteq DOMAIN e[i]

LEMMA EnvFacts ==
  ASSUME NEW e \in Seq(EnvMaps), NEW i \in 1 .. Len(e)
  PROVE  /\ DOMAIN e[i] \subseteq Names \cup {"result"} /\ e[i] \in EnvMaps
         /\ e[i] = [n \in DOMAIN e[i] |-> e[i][n]]
         /\ \A n \in DOMAIN e[i] : e[i][n] \in Store
<1>1. e[i] \in EnvMaps
  OBVIOUS
<1> QED BY <1>1 DEF EnvMaps

LEMMA EnvValue ==
  ASSUME NEW e \in Seq(EnvMaps), NEW i \in 1 .. Len(e), NEW n \in DOMAIN e[i]
  PROVE  e[i][n] \in Store
BY EnvFacts

LEMMA VarValue ==
  ASSUME NEW sc \in Seq(Scopes), NEW i \in 1 .. Len(sc), NEW n \in DOMAIN sc[i].vars
  PROVE  sc[i].vars[n] \in Store /\ n \in Names /\ n \in Visible(sc)
<1>1. sc[i] \in Scopes /\ i \in DOMAIN sc
  OBVIOUS
<1>2. sc[i].vars \in VarMaps
  BY <1>1, ScopeFields
<1>3. n \in Visible(sc)
  BY <1>1 DEF Visible
<1> QED BY <1>2, <1>3, MapFacts

LEMMA LastOwner ==
  ASSUME NEW sc \in Seq(Scopes), NEW k \in Nat \ {0}, Len(sc) = k,
         NEW n, n \in DOMAIN sc[k].vars
  PROVE  n \in Visible(sc) /\ Owner(sc, n) = k /\ GetVar(sc, n) = sc[k].vars[n]
BY TopOwner

LEMMA EnvType ==
  ASSUME NEW S \in SUBSET (Names \cup {"result"}), NEW map, map = [n \in S |-> map[n]],
         \A n \in S : map[n] \in Store
  PROVE  map \in EnvMaps /\ DOMAIN map = S
<1>1. map \in [S -> Store]
  OBVIOUS
<1> QED BY <1>1 DEF EnvMaps

\* The call of scope m + 1 of b is left.
Leaving(fs, sn, b, e0, m, sc, e) ==
  /\ fs \in Seq(Frames) /\ sn \in Seq(SUBSET Locals) /\ b \in Seq(Scopes)
  /\ Shaped(fs, b, e0, sn) /\ Returns(fs, b, sn) /\ m \in 1 .. Len(b) - 1
  /\ Like(b, sc) /\ Len(sc) = m + 1 /\ EnvLike(b, e) /\ Len(e) = m + 1

\* Where the values go that it copies back.
Placed(m, sc, e, co) ==
  \A n \in DOMAIN co :
    /\ co[n] \in DOMAIN sc[m + 1].vars /\ co[n] \in Visible(sc)
    /\ GetVar(sc, co[n]) = sc[m + 1].vars[co[n]]
    /\ Value(e, co[n]) = e[m + 1][co[n]] /\ Value(e, co[n]) \in Store
    /\ Owner(Front(sc), n) = Place(Front(e), n)
    /\ n \in Locals => n \in DOMAIN sc[m].vars

LEMMA LeavePlaces ==
  ASSUME NEW fs, NEW sn, NEW b, NEW e0, NEW m, NEW sc, NEW e,
         Leaving(fs, sn, b, e0, m, sc, e)
  PROVE  Placed(m, sc, e, b[m + 1].copyOut)
<1> DEFINE co == b[m + 1].copyOut
<1> SUFFICES ASSUME NEW n \in DOMAIN co
             PROVE  /\ co[n] \in DOMAIN sc[m + 1].vars /\ co[n] \in Visible(sc)
                    /\ GetVar(sc, co[n]) = sc[m + 1].vars[co[n]]
                    /\ Value(e, co[n]) = e[m + 1][co[n]] /\ Value(e, co[n]) \in Store
                    /\ Owner(Front(sc), n) = Place(Front(e), n)
                    /\ n \in Locals => n \in DOMAIN sc[m].vars
  BY DEF Placed
<1>0. co = b[m + 1].copyOut
  OBVIOUS
<1> HIDE DEF co
<1>00. /\ fs \in Seq(Frames) /\ sn \in Seq(SUBSET Locals) /\ b \in Seq(Scopes)
       /\ Shaped(fs, b, e0, sn) /\ Returns(fs, b, sn) /\ m \in 1 .. Len(b) - 1
       /\ Like(b, sc) /\ Len(sc) = m + 1 /\ EnvLike(b, e) /\ Len(e) = m + 1
  BY DEF Leaving
<1> USE <1>0, <1>00
<1>1. /\ Len(b) \in Nat /\ m + 1 \in 1 .. Len(b) /\ m \in Nat \ {0} /\ Layered(b)
      /\ DOMAIN b = 1 .. Len(b) /\ m + 1 \in 1 .. Len(sc) /\ m \in 1 .. Len(sc)
      /\ Len(sc) > 0 /\ m + 1 \in 1 .. Len(e) /\ Len(sc) - 1 = m /\ Len(e) - 1 = m
  BY DEF Shaped
<1>2. sc # <<>> /\ e # <<>> /\ sc \in Seq(Scopes) /\ e \in Seq(EnvMaps)
  BY <1>1 DEF Like, EnvLike
<1>3. /\ Front(sc) \in Seq(Scopes) /\ Len(Front(sc)) = m
      /\ \A i \in 1 .. m : Front(sc)[i] = sc[i]
  BY <1>1, <1>2, FrontFacts
<1>4. /\ Front(e) \in Seq(EnvMaps) /\ Len(Front(e)) = m
      /\ \A i \in 1 .. m : Front(e)[i] = e[i]
  BY <1>1, <1>2, FrontFacts
<1>5. \A i \in 1 .. m + 1 : /\ DOMAIN sc[i].vars = DOMAIN b[i].vars
                            /\ DOMAIN b[i].vars \subseteq DOMAIN e[i]
  BY DEF Like, EnvLike
<1>6. CASE m = 1
  <2>1. co[n] = n /\ n \in Globals
    BY <1>1, <1>6 DEF Layered
  <2>2. /\ DOMAIN sc[1].vars = Globals /\ n \in DOMAIN sc[2].vars
        /\ n \in DOMAIN sc[1].vars
    BY <1>1, <1>5, <1>6, <2>1 DEF Layered
  <2>3. n \notin Locals
    BY <2>1, NamesAssumption
  <2>4. /\ n \in Visible(sc) /\ GetVar(sc, n) = sc[2].vars[n]
    <3>1. m + 1 \in Nat \ {0} /\ m + 1 = 2
      BY <1>1, <1>6
    <3>2. n \in DOMAIN sc[m + 1].vars
      BY <2>2, <3>1
    <3>3. n \in Visible(sc) /\ GetVar(sc, n) = sc[m + 1].vars[n]
      BY <1>2, <3>1, <3>2, LastOwner
    <3> QED BY <3>1, <3>3
  <2>5. Owner(Front(sc), n) = 1
    <3>1. m \in 1 .. m
      BY <1>1
    <3>2. n \in DOMAIN Front(sc)[m].vars
      BY <1>3, <1>6, <2>2, <3>1
    <3>3. Owner(Front(sc), n) = m
      BY <1>1, <1>3, <3>2, LastOwner
    <3> QED BY <1>6, <3>3
  <2>6. Place(Front(e), n) = 1 /\ Place(e, n) = 2
    BY <1>4, <1>6 DEF Place
  <2>7. n \in DOMAIN e[2] /\ 2 \in 1 .. Len(e)
    <3>1. 2 \in 1 .. m + 1 /\ 2 \in 1 .. Len(e)
      BY <1>1, <1>6
    <3> QED BY <1>5, <2>2, <3>1
  <2>8. e[2][n] \in Store
    BY <1>2, <2>7, EnvValue
  <2> QED BY <1>6, <2>1, <2>2, <2>3, <2>4, <2>5, <2>6, <2>8 DEF Value
<1>7. CASE m # 1
  <2>1. m >= 2 /\ m + 1 \in 2 .. ScopeAt(fs, Len(fs)) /\ Len(fs) \in Nat
    BY <1>1, <1>7 DEF Shaped
  <2>2. PICK d \in 1 .. Len(fs) : fs[d].kind = "call" /\ ScopeAt(fs, d) = m + 1
    BY <2>1, ScopeOpened
  <2>3. d # 1
    <3>1. ScopeAt(fs, 1) = ScopeAt(fs, 0) + 1 /\ ScopeAt(fs, 0) = 1
      BY ScopeNext, ScopeNone DEF Shaped
    <3> QED BY <2>1, <2>2, <3>1
  <2>4. d - 1 \in DOMAIN fs /\ d \in DOMAIN fs /\ d > 1 /\ d \in Nat \ {0} /\ d - 1 \in Nat
    BY <2>1, <2>3
  <2>5. ScopeAt(fs, d - 1) = m
    <3>1. ScopeAt(fs, d) = ScopeAt(fs, d - 1) + 1
      BY <2>2, <2>4, ScopeNext
    <3>2. ScopeAt(fs, d - 1) \in Nat
      BY <2>4, ScopeType
    <3> QED BY <2>2, <3>1, <3>2, <1>1
  <2>6. n \in sn[d - 1] \cup Globals /\ co[n] \in sn[d]
    BY <2>2, <2>4 DEF Returns
  <2>7. /\ sn[d - 1] \subseteq DOMAIN sc[m].vars /\ sn[d] \subseteq DOMAIN sc[m + 1].vars
        /\ sn[d - 1] \subseteq Locals /\ sn[d] \subseteq Locals
    <3>1. d - 1 \in DOMAIN sn /\ d \in DOMAIN sn
      BY <2>4 DEF Shaped
    <3>2. m \in 1 .. m + 1 /\ m + 1 \in 1 .. m + 1
      BY <1>1
    <3>3. sn[d - 1] \subseteq DOMAIN b[m].vars /\ sn[d] \subseteq DOMAIN b[m + 1].vars
      BY <2>2, <2>4, <2>5 DEF Shaped
    <3>4. m \in 1 .. m + 1
      BY <1>1
    <3>5. sn[d - 1] \in SUBSET Locals /\ sn[d] \in SUBSET Locals
      BY <3>1
    <3>6. DOMAIN b[m].vars = DOMAIN sc[m].vars /\ DOMAIN b[m + 1].vars = DOMAIN sc[m + 1].vars
      BY <1>5, <3>2
    <3> QED BY <3>3, <3>5, <3>6
  <2>8. /\ co[n] \in DOMAIN sc[m + 1].vars /\ co[n] \in Visible(sc)
        /\ GetVar(sc, co[n]) = sc[m + 1].vars[co[n]]
    <3>1. m + 1 \in Nat \ {0}
      BY <1>1
    <3> QED BY <1>2, <2>6, <2>7, <3>1, LastOwner
  <2>9. co[n] \notin Globals /\ Value(e, co[n]) = e[m + 1][co[n]]
    BY <2>6, <2>7, NamesAssumption DEF Value, Place
  <2>10. Value(e, co[n]) \in Store
    <3>1. co[n] \in DOMAIN e[m + 1]
      <4>1. m + 1 \in 1 .. m + 1
        BY <1>1
      <4> QED BY <4>1, <1>5, <2>8
    <3>2. e[m + 1][co[n]] \in Store
      BY <1>1, <1>2, <3>1, EnvValue
    <3> QED BY <2>9, <3>2
  <2>11. Layered(Front(sc))
    <3>1. /\ 1 \in 1 .. m /\ 2 \in 1 .. m /\ \A i \in 1 .. m : i \in 1 .. m + 1 /\ i \in 1 .. Len(b)
      BY <1>1, <2>1
    <3>2. /\ DOMAIN sc[1].vars = Globals /\ Globals \subseteq DOMAIN sc[2].vars
          /\ sc[2].copyOut = [k \in Globals |-> k]
      BY <1>1, <1>5, <3>1 DEF Layered, Like
    <3>3. \A i \in 1 .. m : i > 2 => DOMAIN sc[i].vars \subseteq Locals
      BY <1>1, <1>5, <3>1 DEF Layered
    <3>4. DOMAIN Front(sc) = 1 .. m
      BY <1>3
    <3> QED BY <1>3, <2>1, <3>1, <3>2, <3>3, <3>4 DEF Layered
  <2>12. Owner(Front(sc), n) = Place(Front(e), n)
    <3>1. CASE n \in Globals
      BY <1>1, <1>3, <1>4, <2>1, <2>11, <3>1, GlobalOwner DEF Place
    <3>2. CASE n \in sn[d - 1]
      <4>0. m \in 1 .. m
        BY <1>1
      <4>1. n \notin Globals /\ n \in DOMAIN Front(sc)[m].vars
        BY <4>0, <1>3, <2>7, <3>2, NamesAssumption
      <4>2. Owner(Front(sc), n) = m
        BY <1>1, <1>3, <4>1, LastOwner
      <4> QED BY <1>4, <4>1, <4>2 DEF Place
    <3> QED BY <2>6, <3>1, <3>2
  <2>13. n \in Locals => n \in DOMAIN sc[m].vars
    BY <2>6, <2>7, NamesAssumption
  <2> QED BY <2>8, <2>9, <2>10, <2>12, <2>13
<1> QED BY <1>6, <1>7

CallLeft(m, e, co, W, q) ==
  /\ q \in Seq(EnvMaps) /\ Len(q) = m
  /\ \A i \in 1 .. m : /\ DOMAIN q[i] = DOMAIN e[i]
       /\ \A n \in DOMAIN e[i] :
            q[i][n] = IF n \in DOMAIN co /\ Place(Front(e), n) = i
                      THEN Ite(W, Value(e, co[n]), e[i][n]) ELSE e[i][n]

LEMMA LeaveCallFacts ==
  ASSUME NEW e \in Seq(EnvMaps), NEW m \in Nat \ {0}, Len(e) = m + 1,
         NEW co, \A n \in DOMAIN co : Value(e, co[n]) \in Store, NEW W
  PROVE  CallLeft(m, e, co, W, LeaveCall(e, co, W))
<1> DEFINE q == LeaveCall(e, co, W)
<1> DEFINE new(i) == [n \in DOMAIN e[i] |->
                        IF n \in DOMAIN co /\ Place(Front(e), n) = i
                        THEN Ite(W, Value(e, co[n]), e[i][n]) ELSE e[i][n]]
<1>1. e # <<>> /\ Len(e) - 1 = m /\ \A i \in 1 .. m : i \in 1 .. Len(e)
  OBVIOUS
<1>2. DOMAIN Front(e) = 1 .. m
  BY <1>1, FrontFacts
<1>3. q = [i \in 1 .. m |-> new(i)]
  BY <1>2 DEF LeaveCall
<1> HIDE DEF q
<1>4. ASSUME NEW i \in 1 .. m
      PROVE  /\ new(i) \in EnvMaps /\ DOMAIN new(i) = DOMAIN e[i]
             /\ \A n \in DOMAIN e[i] :
                   new(i)[n] = IF n \in DOMAIN co /\ Place(Front(e), n) = i
                               THEN Ite(W, Value(e, co[n]), e[i][n]) ELSE e[i][n]
  <2>1. /\ DOMAIN e[i] \in SUBSET (Names \cup {"result"})
        /\ \A n \in DOMAIN e[i] : e[i][n] \in Store
    BY <1>1, EnvFacts
  <2>2. \A n \in DOMAIN e[i] : n \in DOMAIN co => Ite(W, Value(e, co[n]), e[i][n]) \in Store
    BY <2>1, IteFacts
  <2>3. new(i) \in [DOMAIN e[i] -> Store]
    BY <2>1, <2>2
  <2>4. new(i) \in EnvMaps
    BY <2>1, <2>3 DEF EnvMaps
  <2> QED BY <2>4
<1> HIDE DEF new
<1>5. q \in [1 .. m -> EnvMaps]
  BY <1>3, <1>4
<1>6. q \in Seq(EnvMaps) /\ Len(q) = m
  BY <1>5, FunctionIsSeq
<1> QED BY <1>3, <1>4, <1>6 DEF q, CallLeft

\* Up to scope m the variables have the values that are meant for w.
Agree(fs, sn, sc, e, w, m) ==
  /\ m >= 2 => \A n \in Globals : sc[2].vars[n][w] = e[2][n][w]
  /\ \A d \in DOMAIN fs : ScopeAt(fs, d) <= m =>
       \A n \in sn[d] : sc[ScopeAt(fs, d)].vars[n][w] = e[ScopeAt(fs, d)][n][w]

LEMMA ScopeBounds ==
  ASSUME NEW fs \in Seq(Frames), fs # <<>>, fs[1].kind = "call", NEW d \in DOMAIN fs
  PROVE  /\ ScopeAt(fs, d) \in Nat /\ ScopeAt(fs, d) >= 2
         /\ ScopeAt(fs, d) <= ScopeAt(fs, Len(fs))
         /\ ScopeAt(fs, 1) = 2 /\ d \in Nat \ {0} /\ Len(fs) \in Nat \ {0}
<1>1. d \in Nat \ {0} /\ Len(fs) \in Nat \ {0} /\ d <= Len(fs) /\ 1 <= d /\ 1 \in Nat \ {0}
  OBVIOUS
<1>2. ScopeAt(fs, 1) = 2
  BY ScopeNext, ScopeNone
<1> QED BY <1>1, <1>2, ScopeType, ScopeGrows

\* The worlds of W leave the call of scope m + 1.
LeftBy(fs, sn, b, m, sc, e, W, r, q) ==
  /\ Like(b, r) /\ Len(r) = m /\ EnvLike(b, q) /\ Len(q) = m
  /\ \A i \in 1 .. m :
       /\ DOMAIN r[i].vars = DOMAIN sc[i].vars /\ r[i].ret = sc[i].ret
       /\ r[i].copyOut = sc[i].copyOut
       /\ r[i].states = sc[i].states /\ r[i].exprs = sc[i].exprs
       /\ DOMAIN q[i] = DOMAIN e[i]
  /\ Under(sc, r, m)
  /\ \A w \in Worlds :
       /\ w \in W /\ Agree(fs, sn, sc, e, w, m)
       /\ \A n \in DOMAIN b[m + 1].copyOut :
            sc[m + 1].vars[b[m + 1].copyOut[n]][w] = e[m + 1][b[m + 1].copyOut[n]][w]
       => /\ Agree(fs, sn, r, q, w, m)
          /\ m = 1 => \A n \in Globals : r[1].vars[n][w] = q[1][n][w]
  /\ \A w \in Worlds : w \notin W =>
       \A i \in 1 .. m : \A n \in DOMAIN e[i] : q[i][n][w] = e[i][n][w]

LEMMA LeaveAgrees ==
  ASSUME NEW fs, NEW sn, NEW b, NEW e0, NEW m, NEW sc, NEW e,
         Leaving(fs, sn, b, e0, m, sc, e), NEW W
  PROVE  LeftBy(fs, sn, b, m, sc, e, W, LeaveScope(sc), LeaveCall(e, b[m + 1].copyOut, W))
<1> DEFINE co == b[m + 1].copyOut
           r == LeaveScope(sc)
           q == LeaveCall(e, co, W)
<1>0. co = b[m + 1].copyOut /\ r = LeaveScope(sc) /\ q = LeaveCall(e, co, W)
  OBVIOUS
<1> HIDE DEF co, r, q
<1>00. /\ fs \in Seq(Frames) /\ sn \in Seq(SUBSET Locals) /\ b \in Seq(Scopes)
       /\ Shaped(fs, b, e0, sn) /\ Returns(fs, b, sn) /\ m \in 1 .. Len(b) - 1
       /\ Like(b, sc) /\ Len(sc) = m + 1 /\ EnvLike(b, e) /\ Len(e) = m + 1
  BY DEF Leaving
<1> USE <1>0, <1>00
<1>1. /\ Len(b) \in Nat /\ m \in Nat \ {0} /\ m + 1 \in 1 .. Len(b) /\ m <= Len(b)
      /\ \A i \in 1 .. m : i \in 1 .. m + 1
      /\ Len(sc) > 0 /\ Len(sc) - 1 = m /\ m + 1 \in 1 .. m + 1
  OBVIOUS
<1>2. /\ sc \in Seq(Scopes) /\ e \in Seq(EnvMaps) /\ sc[m + 1].copyOut = co
      /\ \A i \in 1 .. m : /\ DOMAIN sc[i].vars = DOMAIN b[i].vars
                           /\ sc[i].copyOut = b[i].copyOut
                           /\ DOMAIN b[i].vars \subseteq DOMAIN e[i]
  BY <1>1 DEF Like, EnvLike
<1>3. \A n \in DOMAIN co :
         /\ co[n] \in Visible(sc) /\ GetVar(sc, co[n]) = sc[m + 1].vars[co[n]]
         /\ Value(e, co[n]) = e[m + 1][co[n]] /\ Value(e, co[n]) \in Store
         /\ Owner(Front(sc), n) = Place(Front(e), n)
         /\ n \in DOMAIN sc[m].vars \/ n \notin Locals
  <2>1. Placed(m, sc, e, co)
    BY LeavePlaces
  <2> QED BY <2>1 DEF Placed
<1>4. /\ r \in Seq(Scopes) /\ Len(r) = m
      /\ \A i \in 1 .. m :
           /\ DOMAIN r[i].vars = DOMAIN sc[i].vars
           /\ r[i].copyOut = sc[i].copyOut /\ r[i].ret = sc[i].ret
           /\ r[i].states = sc[i].states /\ r[i].exprs = sc[i].exprs
      /\ \A i \in 1 .. m : \A n \in DOMAIN sc[i].vars :
           r[i].vars[n] = IF n \in DOMAIN co /\ Owner(Front(sc), n) = i
                          THEN GetVar(sc, co[n]) ELSE sc[i].vars[n]
  <2>1. co = sc[Len(sc)].copyOut /\ \A n \in DOMAIN co : co[n] \in Visible(sc)
    BY <1>2, <1>3
  <2>2. /\ r \in Seq(Scopes) /\ Len(r) = Len(sc) - 1
        /\ \A i \in 1 .. Len(sc) - 1 :
             /\ DOMAIN r[i].vars = DOMAIN sc[i].vars
             /\ r[i].copyOut = sc[i].copyOut /\ r[i].ret = sc[i].ret
             /\ r[i].states = sc[i].states /\ r[i].exprs = sc[i].exprs
        /\ \A i \in 1 .. Len(sc) - 1 : \A n \in DOMAIN sc[i].vars :
             r[i].vars[n] = IF n \in DOMAIN co /\ Owner(Front(sc), n) = i
                            THEN GetVar(sc, co[n]) ELSE sc[i].vars[n]
    <3>1. LeavesTo(sc, co, r)
      BY <1>1, <1>2, <2>1, LeaveFacts
    <3> QED BY <3>1 DEF LeavesTo
  <2> QED BY <1>1, <2>2
<1>5. /\ q \in Seq(EnvMaps) /\ Len(q) = m
      /\ \A i \in 1 .. m : /\ DOMAIN q[i] = DOMAIN e[i]
           /\ \A n \in DOMAIN e[i] :
                q[i][n] = IF n \in DOMAIN co /\ Place(Front(e), n) = i
                          THEN Ite(W, Value(e, co[n]), e[i][n]) ELSE e[i][n]
  <2>1. e \in Seq(EnvMaps) /\ m \in Nat \ {0} /\ \A n \in DOMAIN co : Value(e, co[n]) \in Store
    BY <1>1, <1>2, <1>3
  <2>2. CallLeft(m, e, co, W, q)
    BY <2>1, LeaveCallFacts
  <2> QED BY <2>2 DEF CallLeft
<1>6. Like(b, r) /\ EnvLike(b, q)
  <2>1. DOMAIN e[1] = Globals /\ 1 \in 1 .. m
    BY <1>1 DEF EnvLike
  <2>2. Like(b, r)
    BY <1>1, <1>2, <1>4 DEF Like
  <2> QED BY <1>1, <1>2, <1>5, <2>1, <2>2 DEF EnvLike
<1>7. Under(sc, r, m)
  <2>1. co = sc[Len(sc)].copyOut /\ Len(sc) > 1
    BY <1>1, <1>2
  <2>2. \A n \in DOMAIN co : /\ co[n] \in Visible(sc)
                             /\ n \in DOMAIN sc[Len(sc) - 1].vars \/ n \notin Locals
    BY <1>1, <1>3
  <2>3. Under(sc, LeaveScope(sc), Len(sc) - 1)
    BY <1>2, <2>1, <2>2, LeaveUnder
  <2> QED BY <1>1, <2>3
<1>8. ASSUME NEW i \in 1 .. m, NEW n \in DOMAIN e[i], n \in DOMAIN co, NEW w \in Worlds
      PROVE  Ite(W, Value(e, co[n]), e[i][n])[w]
               = IF w \in W THEN e[m + 1][co[n]][w] ELSE e[i][n][w]
  <2>1. e[i][n] \in Store
    BY <1>1, <1>2, <1>8, EnvValue
  <2> QED BY <1>3, <1>8, <2>1, IteFacts
<1>9. ASSUME NEW w \in Worlds, w \in W, NEW i \in 1 .. m, NEW n \in DOMAIN sc[i].vars,
             \A l \in DOMAIN co : sc[m + 1].vars[co[l]][w] = e[m + 1][co[l]][w],
             \/ sc[i].vars[n][w] = e[i][n][w]
             \/ n \in DOMAIN co /\ Owner(Front(sc), n) = i
      PROVE  r[i].vars[n][w] = q[i][n][w]
  <2>1. n \in DOMAIN e[i]
    BY <1>2, <1>9
  <2>2. /\ r[i].vars[n] = IF n \in DOMAIN co /\ Owner(Front(sc), n) = i
                          THEN GetVar(sc, co[n]) ELSE sc[i].vars[n]
        /\ q[i][n] = IF n \in DOMAIN co /\ Place(Front(e), n) = i
                     THEN Ite(W, Value(e, co[n]), e[i][n]) ELSE e[i][n]
    <3> HIDE <1>0, <1>00
    <3> QED BY <1>4, <1>5, <1>9, <2>1
  <2>3. n \in DOMAIN co => Owner(Front(sc), n) = Place(Front(e), n)
    <3> HIDE <1>0, <1>00
    <3> QED BY <1>3
  <2>4. CASE n \in DOMAIN co /\ Owner(Front(sc), n) = i
    <3>1. r[i].vars[n][w] = sc[m + 1].vars[co[n]][w]
      <4> HIDE <1>0, <1>00
      <4> QED BY <1>3, <2>2, <2>4
    <3>2. q[i][n][w] = e[m + 1][co[n]][w]
      <4>1. q[i][n] = Ite(W, Value(e, co[n]), e[i][n])
        <5> HIDE <1>0, <1>00
        <5> QED BY <2>2, <2>3, <2>4
      <4>2. Ite(W, Value(e, co[n]), e[i][n])[w]
              = IF w \in W THEN e[m + 1][co[n]][w] ELSE e[i][n][w]
        BY <1>8, <1>9, <2>1, <2>4
      <4> HIDE <1>0, <1>00
      <4> QED BY <1>9, <4>1, <4>2
    <3>3. sc[m + 1].vars[co[n]][w] = e[m + 1][co[n]][w]
      BY <1>9, <2>4
    <3> HIDE <1>0, <1>00
    <3> QED BY <3>1, <3>2, <3>3
  <2>5. CASE ~(n \in DOMAIN co /\ Owner(Front(sc), n) = i)
    <3>1. sc[i].vars[n][w] = e[i][n][w]
      BY <1>9, <2>5
    <3>2. r[i].vars[n] = sc[i].vars[n] /\ q[i][n] = e[i][n]
      <4> HIDE <1>0, <1>00
      <4> QED BY <2>2, <2>3, <2>5
    <3> HIDE <1>0, <1>00
    <3> QED BY <3>1, <3>2
  <2> QED BY <2>4, <2>5
<1>10. ASSUME NEW w \in Worlds, w \in W, Agree(fs, sn, sc, e, w, m),
              \A n \in DOMAIN co : sc[m + 1].vars[co[n]][w] = e[m + 1][co[n]][w]
       PROVE  /\ Agree(fs, sn, r, q, w, m)
              /\ m = 1 => \A n \in Globals : r[1].vars[n][w] = q[1][n][w]
  <2>1. ASSUME m >= 2, NEW n \in Globals PROVE r[2].vars[n][w] = q[2][n][w]
    <3>1. 2 \in 1 .. m /\ n \in DOMAIN sc[2].vars
      <4>1. 2 \in 1 .. m
        BY <1>1, <2>1
      <4>2. n \in DOMAIN b[2].vars
        BY <2>1 DEF Shaped, Layered
      <4> QED BY <1>2, <4>1, <4>2
    <3>2. sc[2].vars[n][w] = e[2][n][w]
      BY <1>10, <2>1 DEF Agree
    <3> QED BY <1>9, <1>10, <3>1, <3>2
  <2>2. ASSUME NEW d \in DOMAIN fs, ScopeAt(fs, d) <= m, NEW n \in sn[d]
        PROVE  r[ScopeAt(fs, d)].vars[n][w] = q[ScopeAt(fs, d)][n][w]
    <3>1. ScopeAt(fs, d) \in 1 .. m
      BY <1>1, <2>2, ScopeBounds, SMTT(30) DEF Shaped
    <3>2. n \in DOMAIN b[ScopeAt(fs, d)].vars
      BY <2>2 DEF Shaped
    <3>3. n \in DOMAIN sc[ScopeAt(fs, d)].vars
      BY <1>2, <3>1, <3>2
    <3>4. sc[ScopeAt(fs, d)].vars[n][w] = e[ScopeAt(fs, d)][n][w]
      BY <1>10, <2>2 DEF Agree
    <3> QED BY <1>9, <1>10, <3>1, <3>3, <3>4
  <2>3. ASSUME m = 1, NEW n \in Globals PROVE r[1].vars[n][w] = q[1][n][w]
    <3>1. 1 \in 1 .. m /\ n \in DOMAIN sc[1].vars /\ n \in DOMAIN co
      BY <1>1, <1>2, <2>3 DEF Shaped, Layered
    <3>2. Owner(Front(sc), n) = 1
      <4>1. sc # <<>> /\ Front(sc) \in Seq(Scopes) /\ Len(Front(sc)) = 1
            /\ Front(sc)[1] = sc[1]
        <5>1. sc # <<>>
          BY <1>1
        <5>2. Len(sc) - 1 = 1 /\ 1 \in 1 .. Len(sc) - 1
          BY <1>1, <2>3
        <5> QED BY <1>2, <5>1, <5>2, FrontFacts
      <4>2. m \in Nat \ {0} /\ n \in DOMAIN Front(sc)[m].vars /\ Len(Front(sc)) = m
        BY <1>1, <2>3, <3>1, <4>1
      <4>3. Owner(Front(sc), n) = m
        BY <4>1, <4>2, LastOwner, ZenonT(30)
      <4> QED BY <2>3, <4>3
    <3> QED BY <1>9, <1>10, <3>1, <3>2
  <2> QED BY <2>1, <2>2, <2>3 DEF Agree
<1>11. ASSUME NEW w \in Worlds, w \notin W, NEW i \in 1 .. m, NEW n \in DOMAIN e[i]
       PROVE  q[i][n][w] = e[i][n][w]
  <2>1. q[i][n] = e[i][n] \/ (n \in DOMAIN co /\ q[i][n] = Ite(W, Value(e, co[n]), e[i][n]))
    BY <1>5
  <2> QED BY <1>8, <1>11, <2>1
<1>12. /\ \A w \in Worlds :
           /\ w \in W /\ Agree(fs, sn, sc, e, w, m)
           /\ \A n \in DOMAIN co : sc[m + 1].vars[co[n]][w] = e[m + 1][co[n]][w]
           => /\ Agree(fs, sn, r, q, w, m)
              /\ m = 1 => \A n \in Globals : r[1].vars[n][w] = q[1][n][w]
       /\ \A w \in Worlds : w \notin W =>
            \A i \in 1 .. m : \A n \in DOMAIN e[i] : q[i][n][w] = e[i][n][w]
  BY <1>10, <1>11
<1>13. LeftBy(fs, sn, b, m, sc, e, W, r, q)
  <2>1. \A i \in 1 .. m :
          /\ DOMAIN r[i].vars = DOMAIN sc[i].vars /\ r[i].ret = sc[i].ret
          /\ r[i].copyOut = sc[i].copyOut
          /\ r[i].states = sc[i].states /\ r[i].exprs = sc[i].exprs
          /\ DOMAIN q[i] = DOMAIN e[i]
    <3> HIDE <1>0, <1>00
    <3> QED BY <1>4, <1>5
  <2>2. Len(r) = m /\ Len(q) = m
    BY <1>4, <1>5
  <2>3. /\ \A w \in Worlds :
             /\ w \in W /\ Agree(fs, sn, sc, e, w, m)
             /\ \A n \in DOMAIN b[m + 1].copyOut :
                  sc[m + 1].vars[b[m + 1].copyOut[n]][w] = e[m + 1][b[m + 1].copyOut[n]][w]
             => /\ Agree(fs, sn, r, q, w, m)
                /\ m = 1 => \A n \in Globals : r[1].vars[n][w] = q[1][n][w]
       /\ \A w \in Worlds : w \notin W =>
            \A i \in 1 .. m : \A n \in DOMAIN e[i] : q[i][n][w] = e[i][n][w]
    <3> HIDE <1>0, <1>00
    <3> QED BY <1>12 DEF co
  <2> HIDE <1>0, <1>00
  <2> QED BY <1>6, <1>7, <2>1, <2>2, <2>3 DEF LeftBy
<1> QED BY <1>0, <1>13

-----------------------------------------------------------------------------
(* Unwind and Exit *)

\* Induction on a set of naturals: the rule of the library has an operator parameter.
LEMMA NatSetInduction ==
  ASSUME NEW S \in SUBSET Nat, 0 \in S, \A n \in S : n + 1 \in S
  PROVE  S = Nat
<1> DEFINE T == Nat \ S
<1> SUFFICES ASSUME T # {} PROVE FALSE
  OBVIOUS
<1>1. PICK x \in T : \A y \in T : ~(<<y, x>> \in OpToRel(<, Nat))
  BY NatLessThanWellFounded, WFMin
<1>2. x \in Nat /\ x # 0
  OBVIOUS
<1>3. x - 1 \in Nat /\ x - 1 < x /\ (x - 1) + 1 = x
  BY <1>2
<1>4. <<x - 1, x>> \in OpToRel(<, Nat)
  BY <1>2, <1>3 DEF OpToRel
<1>5. x - 1 \in S
  BY <1>1, <1>3, <1>4
<1> QED BY <1>1, <1>3, <1>5

\* A function that is defined from its last value down.
\* A chain from x down to the first member, each the image of the next one.
Chainable(S, n, x, g) == x \in S /\ n \in Nat \ {0} /\ g \in [1 .. n -> [S -> S]]
Chained(S, n, x, g, f) ==
  f \in [1 .. n -> S] /\ f[n] = x /\ \A i \in 1 .. n - 1 : f[i] = g[i][f[i + 1]]

LEMMA ChainExists ==
  ASSUME NEW S, NEW n, NEW x, NEW g, Chainable(S, n, x, g)
  PROVE  \E f : Chained(S, n, x, g, f)
<1>0. x \in S /\ n \in Nat \ {0} /\ g \in [1 .. n -> [S -> S]]
  BY DEF Chainable
<1>00. SUFFICES \E f \in [1 .. n -> S] : f[n] = x /\ \A i \in 1 .. n - 1 : f[i] = g[i][f[i + 1]]
  BY DEF Chained
<1> USE <1>0
<1> DEFINE P(k) == \E f \in [1 .. n -> S] :
                     f[n] = x /\ \A i \in 1 .. n - 1 : i >= n - k => f[i] = g[i][f[i + 1]]
           T == {k \in Nat : P(k)}
<1>1. P(0)
  <2> DEFINE f == [i \in 1 .. n |-> x]
  <2>1. f \in [1 .. n -> S] /\ f[n] = x
    OBVIOUS
  <2>2. \A i \in 1 .. n - 1 : ~(i >= n - 0)
    OBVIOUS
  <2> HIDE DEF f
  <2> QED BY <2>1, <2>2
<1>2. ASSUME NEW k \in Nat, P(k) PROVE P(k + 1)
  <2>1. PICK f \in [1 .. n -> S] :
          f[n] = x /\ \A i \in 1 .. n - 1 : i >= n - k => f[i] = g[i][f[i + 1]]
    BY <1>2
  <2> DEFINE j == n - (k + 1)
             h == [i \in 1 .. n |-> IF i = j THEN g[i][f[i + 1]] ELSE f[i]]
  <2>2. ASSUME NEW i \in 1 .. n, i = j
        PROVE  i + 1 \in 1 .. n /\ i # n
    BY <2>2
  <2>3. ASSUME NEW i \in 1 .. n PROVE h[i] \in S
    <3>1. CASE i = j
      <4>1. f[i + 1] \in S /\ g[i] \in [S -> S]
        BY <2>2, <3>1
      <4> QED BY <3>1, <4>1
    <3>2. CASE i # j
      BY <3>2
    <3> QED BY <3>1, <3>2
  <2>4. h \in [1 .. n -> S]
    <3>1. h = [i \in 1 .. n |-> h[i]]
      OBVIOUS
    <3> HIDE DEF h
    <3> QED BY <2>3, <3>1
  <2>5. h[n] = x
    BY <2>1, <2>2
  <2>6. ASSUME NEW i \in 1 .. n - 1, i >= n - (k + 1)
        PROVE  h[i] = g[i][h[i + 1]]
    <3>1. i \in 1 .. n /\ i + 1 \in 1 .. n /\ i + 1 # j /\ (i # j => i >= n - k)
      BY <2>6
    <3>2. h[i + 1] = f[i + 1]
      BY <3>1
    <3>3. h[i] = IF i = j THEN g[i][f[i + 1]] ELSE f[i]
      BY <3>1
    <3> HIDE DEF h, j
    <3> QED BY <2>1, <3>1, <3>2, <3>3
  <2> HIDE DEF h
  <2> QED BY <2>4, <2>5, <2>6
<1>3. T = Nat
  <2>1. 0 \in T /\ \A k \in T : k + 1 \in T
    <3>1. \A k \in T : k \in Nat /\ P(k) /\ k + 1 \in Nat
      OBVIOUS
    <3>2. 0 \in T
      BY <1>1
    <3>3. \A k \in T : P(k + 1)
      <4> HIDE DEF P
      <4> QED BY <1>2, <3>1
    <3> HIDE DEF P
    <3> QED BY <3>1, <3>2, <3>3
  <2>2. T \in SUBSET Nat
    OBVIOUS
  <2> HIDE DEF T
  <2> QED BY <2>1, <2>2, NatSetInduction
<1>4. P(n)
  BY <1>3
<1>5. \A i \in 1 .. n - 1 : i >= n - n
  OBVIOUS
<1> QED BY <1>4, <1>5

LEMMA SourcesAgree ==
  ASSUME NEW fs, NEW sn, NEW b, NEW e0, NEW m, NEW sc, NEW e,
         Leaving(fs, sn, b, e0, m, sc, e), NEW w, Agree(fs, sn, sc, e, w, m + 1),
         NEW n \in DOMAIN b[m + 1].copyOut
  PROVE  sc[m + 1].vars[b[m + 1].copyOut[n]][w] = e[m + 1][b[m + 1].copyOut[n]][w]
<1> DEFINE co == b[m + 1].copyOut
<1>0. co = b[m + 1].copyOut /\ n \in DOMAIN co
  OBVIOUS
<1> HIDE DEF co
<1>00. /\ fs \in Seq(Frames) /\ b \in Seq(Scopes)
       /\ Shaped(fs, b, e0, sn) /\ Returns(fs, b, sn) /\ m \in 1 .. Len(b) - 1
  BY DEF Leaving
<1>1. m \in Nat \ {0} /\ Layered(b) /\ Len(b) = ScopeAt(fs, Len(fs)) /\ Len(b) \in Nat
  BY <1>00 DEF Shaped
<1>2. CASE m = 1
  <2>1. co[n] = n /\ n \in Globals
    BY <1>0, <1>1, <1>2 DEF Layered
  <2>2. sc[2].vars[n][w] = e[2][n][w]
    BY <1>2, <2>1 DEF Agree
  <2> QED BY <1>0, <1>2, <2>1, <2>2
<1>3. CASE m # 1
  <2>1. m + 1 \in 2 .. ScopeAt(fs, Len(fs)) /\ Len(fs) \in Nat
    BY <1>00, <1>1
  <2>2. PICK d \in 1 .. Len(fs) : fs[d].kind = "call" /\ ScopeAt(fs, d) = m + 1
    BY <2>1, ScopeOpened
  <2>3. d \in DOMAIN fs
    BY <1>00
  <2>4. d > 1
    <3>1. ScopeAt(fs, 1) = 2
      BY <1>00, <2>3, ScopeBounds DEF Shaped
    <3>2. d # 1
      BY <1>1, <1>3, <2>2, <3>1
    <3> QED BY <2>1, <3>2
  <2>5. co[n] \in sn[d]
    BY <1>0, <1>00, <2>2, <2>3, <2>4 DEF Returns
  <2>6. m + 1 <= m + 1
    BY <1>1
  <2>7. sc[m + 1].vars[co[n]][w] = e[m + 1][co[n]][w]
    BY <2>2, <2>3, <2>5, <2>6 DEF Agree
  <2> QED BY <1>0, <2>7
<1> QED BY <1>2, <1>3

\* The scopes that are left, and the variables of the interpreter.
LeftScopes(b, f) ==
  /\ f[Len(b)] = b
  /\ \A i \in 1 .. Len(b) - 1 :
       LeaveScope(f[i + 1]) \in Seq(Scopes) => f[i] = LeaveScope(f[i + 1])

LeftEnvs(b, e, h) ==
  /\ h[Len(b)] = e
  /\ \A i \in 1 .. Len(b) - 1 :
       LeaveCall(h[i + 1], b[i + 1].copyOut, Worlds) \in Seq(EnvMaps) =>
         h[i] = LeaveCall(h[i + 1], b[i + 1].copyOut, Worlds)

Unwinding(fs, sn, b, e, f, h) ==
  /\ fs \in Seq(Frames) /\ sn \in Seq(SUBSET Locals) /\ b \in Seq(Scopes)
  /\ e \in Seq(EnvMaps) /\ Shaped(fs, b, e, sn) /\ Returns(fs, b, sn)
  /\ LeftScopes(b, f) /\ LeftEnvs(b, e, h)

Unwound(fs, sn, b, e, f, h) ==
  /\ \A i \in 1 .. Len(b) : /\ Like(b, f[i]) /\ Len(f[i]) = i
                            /\ EnvLike(b, h[i]) /\ Len(h[i]) = i
  /\ \A i \in 1 .. Len(b) - 1 :
       f[i] = LeaveScope(f[i + 1]) /\ h[i] = LeaveCall(h[i + 1], b[i + 1].copyOut, Worlds)
  /\ \A w \in Worlds : Agree(fs, sn, b, e, w, Len(b)) =>
       \A n \in Globals : f[1][1].vars[n][w] = h[1][1][n][w]

LEMMA UnwoundAgree ==
  ASSUME NEW fs, NEW sn, NEW b, NEW e, NEW f, NEW h, Unwinding(fs, sn, b, e, f, h)
  PROVE  Unwound(fs, sn, b, e, f, h)
<1> DEFINE Good(i) == /\ Like(b, f[i]) /\ Len(f[i]) = i /\ EnvLike(b, h[i]) /\ Len(h[i]) = i
                      /\ \A w \in Worlds : Agree(fs, sn, b, e, w, Len(b)) =>
                           /\ Agree(fs, sn, f[i], h[i], w, i)
                           /\ i = 1 => \A n \in Globals : f[1][1].vars[n][w] = h[1][1][n][w]
           S == {k \in Nat : k < Len(b) => Good(Len(b) - k)}
<1>0. /\ fs \in Seq(Frames) /\ sn \in Seq(SUBSET Locals) /\ b \in Seq(Scopes)
      /\ e \in Seq(EnvMaps) /\ Shaped(fs, b, e, sn) /\ Returns(fs, b, sn)
      /\ LeftScopes(b, f) /\ LeftEnvs(b, e, h)
  BY DEF Unwinding
<1>1. Len(b) \in Nat /\ Len(b) >= 2 /\ Layered(b) /\ Len(e) = Len(b)
  BY <1>0 DEF Shaped, Layered
<1>2. Good(Len(b))
  <2>1. f[Len(b)] = b /\ h[Len(b)] = e /\ Len(b) # 1
    BY <1>0, <1>1, SMTT(30) DEF LeftScopes, LeftEnvs
  <2>2. Like(b, b)
    BY <1>0, <1>1 DEF Like
  <2>3. EnvLike(b, e)
    BY <1>0, <1>1 DEF EnvLike, Shaped
  <2> QED BY <1>1, <2>1, <2>2, <2>3
<1>3. ASSUME NEW m \in 1 .. Len(b) - 1, Good(m + 1)
      PROVE  /\ Good(m) /\ f[m] = LeaveScope(f[m + 1])
             /\ h[m] = LeaveCall(h[m + 1], b[m + 1].copyOut, Worlds)
  <2> DEFINE r == LeaveScope(f[m + 1])
             q == LeaveCall(h[m + 1], b[m + 1].copyOut, Worlds)
  <2>0. m \in Nat /\ (m = 1 => ~(m >= 2)) /\ (m >= 2 => m + 1 >= 2) /\ m <= m + 1
    OBVIOUS
  <2>1. Leaving(fs, sn, b, e, m, f[m + 1], h[m + 1])
    BY <1>0, <1>3 DEF Leaving
  <2>2. LeftBy(fs, sn, b, m, f[m + 1], h[m + 1], Worlds, r, q)
    BY <2>1, LeaveAgrees
  <2> HIDE DEF r, q
  <2>3. Like(b, r) /\ Len(r) = m /\ EnvLike(b, q) /\ Len(q) = m
    BY <2>2 DEF LeftBy
  <2>4. r \in Seq(Scopes) /\ q \in Seq(EnvMaps)
    BY <2>3 DEF Like, EnvLike
  <2>5. f[m] = r /\ h[m] = q
    BY <1>0, <2>4 DEF r, q, LeftScopes, LeftEnvs
  <2>6. ASSUME NEW w \in Worlds, Agree(fs, sn, b, e, w, Len(b))
        PROVE  /\ Agree(fs, sn, r, q, w, m)
               /\ m = 1 => \A n \in Globals : r[1].vars[n][w] = q[1][n][w]
    <3>1. Agree(fs, sn, f[m + 1], h[m + 1], w, m + 1)
      BY <1>3, <2>6
    <3>2. \A n \in DOMAIN b[m + 1].copyOut :
            f[m + 1][m + 1].vars[b[m + 1].copyOut[n]][w] = h[m + 1][m + 1][b[m + 1].copyOut[n]][w]
      <4>1. ASSUME NEW n \in DOMAIN b[m + 1].copyOut
            PROVE  f[m + 1][m + 1].vars[b[m + 1].copyOut[n]][w]
                     = h[m + 1][m + 1][b[m + 1].copyOut[n]][w]
        BY <2>1, <3>1, SourcesAgree
      <4> QED BY <4>1
    <3>3. Agree(fs, sn, f[m + 1], h[m + 1], w, m)
      <4>1. \A d \in DOMAIN fs : ScopeAt(fs, d) <= m => ScopeAt(fs, d) <= m + 1
        <5>1. \A d \in DOMAIN fs : ScopeAt(fs, d) \in Nat
          BY <1>0, ScopeBounds DEF Shaped
        <5> QED BY <2>0, <5>1
      <4> QED BY <2>0, <3>1, <4>1 DEF Agree
    <3> QED BY <2>2, <3>2, <3>3 DEF LeftBy
  <2>7. Good(m)
    BY <2>3, <2>5, <2>6
  <2> QED BY <2>5, <2>7 DEF r, q
<1> HIDE DEF Good
<1>4. S = Nat
  <2>1. 0 \in S
    BY <1>1, <1>2
  <2>2. ASSUME NEW k \in S PROVE k + 1 \in S
    <3> SUFFICES ASSUME k + 1 < Len(b) PROVE Good(Len(b) - (k + 1))
      OBVIOUS
    <3>1. /\ Len(b) - (k + 1) \in 1 .. Len(b) - 1 /\ k < Len(b)
          /\ (Len(b) - (k + 1)) + 1 = Len(b) - k
      BY <1>1
    <3>2. Good(Len(b) - k)
      BY <3>1
    <3> QED BY <1>3, <3>1, <3>2
  <2>3. S \in SUBSET Nat
    OBVIOUS
  <2> HIDE DEF S
  <2> QED BY <2>1, <2>2, <2>3, NatSetInduction
<1>5. ASSUME NEW i \in 1 .. Len(b) PROVE Good(i)
  <2>1. Len(b) - i \in Nat /\ Len(b) - i < Len(b) /\ Len(b) - (Len(b) - i) = i
    BY <1>1
  <2>2. Len(b) - i \in S
    BY <1>4, <2>1
  <2>3. Good(Len(b) - (Len(b) - i))
    BY <2>1, <2>2
  <2> QED BY <2>1, <2>3
<1>6. \A i \in 1 .. Len(b) - 1 : i + 1 \in 1 .. Len(b)
  BY <1>1
<1>7. 1 \in 1 .. Len(b)
  BY <1>1
<1>8. \A i \in 1 .. Len(b) : /\ Like(b, f[i]) /\ Len(f[i]) = i
                             /\ EnvLike(b, h[i]) /\ Len(h[i]) = i
  BY <1>5 DEF Good
<1>9. \A w \in Worlds : Agree(fs, sn, b, e, w, Len(b)) =>
        \A n \in Globals : f[1][1].vars[n][w] = h[1][1][n][w]
  BY <1>5, <1>7 DEF Good
<1>10. \A i \in 1 .. Len(b) - 1 :
         f[i] = LeaveScope(f[i + 1]) /\ h[i] = LeaveCall(h[i + 1], b[i + 1].copyOut, Worlds)
  BY <1>3, <1>5, <1>6
<1> QED BY <1>8, <1>9, <1>10 DEF Unwound

LEMMA LeftExist ==
  ASSUME NEW b \in Seq(Scopes), NEW e \in Seq(EnvMaps), Len(b) > 0, Len(e) = Len(b)
  PROVE  /\ \E f : f \in [1 .. Len(b) -> Seq(Scopes)] /\ LeftScopes(b, f)
         /\ \E h : h \in [1 .. Len(b) -> Seq(EnvMaps)] /\ LeftEnvs(b, e, h)
<1> DEFINE n == Len(b)
           A == Seq(Scopes)
           B == Seq(EnvMaps)
           g == [i \in 1 .. n |-> [x \in A |->
                   IF LeaveScope(x) \in A THEN LeaveScope(x) ELSE x]]
           k == [i \in 1 .. n |-> [x \in B |->
                   IF LeaveCall(x, b[i + 1].copyOut, Worlds) \in B
                   THEN LeaveCall(x, b[i + 1].copyOut, Worlds) ELSE x]]
<1>1. n \in Nat \ {0} /\ \A i \in 1 .. n - 1 : i \in 1 .. n /\ i + 1 \in 1 .. n
  OBVIOUS
<1>2. g \in [1 .. n -> [A -> A]] /\ k \in [1 .. n -> [B -> B]]
  OBVIOUS
<1>3. \A i \in 1 .. n : \A x \in A : LeaveScope(x) \in A => g[i][x] = LeaveScope(x)
  OBVIOUS
<1>4. \A i \in 1 .. n : \A x \in B : LeaveCall(x, b[i + 1].copyOut, Worlds) \in B =>
        k[i][x] = LeaveCall(x, b[i + 1].copyOut, Worlds)
  OBVIOUS
<1>5. b \in A /\ e \in B
  OBVIOUS
<1> HIDE DEF A, B, g, k, n
<1>6. PICK f : Chained(A, n, b, g, f)
  <2>1. Chainable(A, n, b, g)
    BY <1>1, <1>2, <1>5 DEF Chainable
  <2> QED BY <2>1, ChainExists
<1>7. PICK h : Chained(B, n, e, k, h)
  <2>1. Chainable(B, n, e, k)
    BY <1>1, <1>2, <1>5 DEF Chainable
  <2> QED BY <2>1, ChainExists
<1>8. \A i \in 1 .. n - 1 : LeaveScope(f[i + 1]) \in A => f[i] = LeaveScope(f[i + 1])
  BY <1>1, <1>3, <1>6 DEF Chained
<1>9. \A i \in 1 .. n - 1 : LeaveCall(h[i + 1], b[i + 1].copyOut, Worlds) \in B =>
        h[i] = LeaveCall(h[i + 1], b[i + 1].copyOut, Worlds)
  BY <1>1, <1>4, <1>7 DEF Chained
<1>10. LeftScopes(b, f)
  BY <1>6, <1>8 DEF LeftScopes, Chained, n, A
<1>11. LeftEnvs(b, e, h)
  BY <1>7, <1>9 DEF LeftEnvs, Chained, n, B
<1> QED BY <1>6, <1>7, <1>10, <1>11 DEF Chained, n, A, B

LEMMA UnwindFacts ==
  ASSUME NEW fs \in Seq(Frames), NEW sn \in Seq(SUBSET Locals), scopes \in Seq(Scopes),
         env \in Seq(EnvMaps), Shaped(fs, scopes, env, sn), Returns(fs, scopes, sn)
  PROVE  /\ Unwind(scopes) \in Seq(Scopes) /\ Len(Unwind(scopes)) = 1
         /\ DOMAIN Unwind(scopes)[1].vars = Globals /\ Layered(scopes)
         /\ Exit(env) \in EnvMaps /\ DOMAIN Exit(env) = Globals
         /\ \A w \in Worlds : Agree(fs, sn, scopes, env, w, Len(scopes)) =>
              \A n \in Globals : Unwind(scopes)[1].vars[n][w] = Exit(env)[n][w]
<1> DEFINE n == Len(scopes)
<1>1. /\ n \in Nat /\ n >= 2 /\ n = Len(env) /\ DOMAIN scopes = 1 .. n /\ DOMAIN env = 1 .. n
      /\ Layered(scopes)
  BY DEF Shaped, Layered
<1>2. PICK f : f \in [1 .. n -> Seq(Scopes)] /\ LeftScopes(scopes, f)
  BY <1>1, LeftExist
<1>3. PICK h : h \in [1 .. n -> Seq(EnvMaps)] /\ LeftEnvs(scopes, env, h)
  BY <1>1, LeftExist
<1>4. /\ \A i \in 1 .. n - 1 : f[i] = LeaveScope(f[i + 1])
      /\ \A i \in 1 .. n - 1 : h[i] = LeaveCall(h[i + 1], scopes[i + 1].copyOut, Worlds)
  <2>1. Unwinding(fs, sn, scopes, env, f, h)
    BY <1>2, <1>3 DEF Unwinding
  <2>2. Unwound(fs, sn, scopes, env, f, h)
    BY <2>1, UnwoundAgree
  <2> QED BY <2>2 DEF Unwound
<1>5. f[n] = scopes /\ h[n] = env
  <2>1. f[Len(scopes)] = scopes /\ h[Len(scopes)] = env
    BY <1>2, <1>3 DEF LeftScopes, LeftEnvs
  <2> QED BY <2>1
<1>6. \A i \in 1 .. n : i # n => i \in 1 .. n - 1
  <2>1. n \in Nat
    BY <1>1, SMTT(30)
  <2> HIDE DEF n
  <2> QED BY <2>1
<1>7. f = [i \in DOMAIN scopes |-> IF i = Len(scopes) THEN scopes ELSE LeaveScope(f[i + 1])]
  BY <1>1, <1>2, <1>4, <1>5, <1>6, ZenonT(30)
<1>8. h = [i \in DOMAIN env |-> IF i = Len(env) THEN env
                               ELSE LeaveCall(h[i + 1], scopes[i + 1].copyOut, Worlds)]
  BY <1>1, <1>3, <1>4, <1>5, <1>6
<1> HIDE DEF n
<1>9. PICK u : /\ Unwind(scopes) = u[1]
               /\ u = [i \in DOMAIN scopes |-> IF i = Len(scopes) THEN scopes
                                              ELSE LeaveScope(u[i + 1])]
  BY <1>7, ZenonT(30) DEF Unwind
<1>10. PICK v : /\ Exit(env) = v[1][1]
                /\ v = [i \in DOMAIN env |-> IF i = Len(env) THEN env
                                ELSE LeaveCall(v[i + 1], scopes[i + 1].copyOut, Worlds)]
  BY <1>8, ZenonT(30) DEF Exit
<1>11. LeftScopes(scopes, u)
  <2>1. n \in DOMAIN scopes /\ \A i \in 1 .. n - 1 : i \in DOMAIN scopes /\ i # n
    BY <1>1
  <2> QED BY <1>9, <2>1 DEF LeftScopes, n
<1>12. LeftEnvs(scopes, env, v)
  <2>1. n \in DOMAIN env /\ \A i \in 1 .. n - 1 : i \in DOMAIN env /\ i # n
    BY <1>1
  <2>2. v[n] = env
    BY <1>1, <1>10, <2>1
  <2>3. \A i \in 1 .. n - 1 : v[i] = LeaveCall(v[i + 1], scopes[i + 1].copyOut, Worlds)
    BY <1>1, <1>10, <2>1
  <2> QED BY <2>2, <2>3 DEF LeftEnvs, n
<1>13. 1 \in 1 .. n /\ 1 \in 1 .. 1
  BY <1>1
<1>0. Unwound(fs, sn, scopes, env, u, v)
  <2>1. Unwinding(fs, sn, scopes, env, u, v)
    BY <1>11, <1>12 DEF Unwinding
  <2> QED BY <2>1, UnwoundAgree
<1>14. Like(scopes, u[1]) /\ Len(u[1]) = 1 /\ EnvLike(scopes, v[1]) /\ Len(v[1]) = 1
  BY <1>0, <1>13 DEF Unwound, n
<1>15. \A w \in Worlds : Agree(fs, sn, scopes, env, w, n) =>
         \A m \in Globals : u[1][1].vars[m][w] = v[1][1][m][w]
  BY <1>0 DEF Unwound, n
<1>16. /\ u[1] \in Seq(Scopes) /\ DOMAIN u[1][1].vars = DOMAIN scopes[1].vars
       /\ v[1] \in Seq(EnvMaps) /\ DOMAIN v[1][1] = Globals
  BY <1>13, <1>14 DEF Like, EnvLike
<1>17. DOMAIN u[1][1].vars = Globals /\ v[1][1] \in EnvMaps
  <2>1. v[1][1] \in EnvMaps
    BY <1>13, <1>14, <1>16
  <2> QED BY <1>1, <1>16, <2>1 DEF Layered
<1> QED BY <1>1, <1>9, <1>10, <1>14, <1>15, <1>16, <1>17 DEF n

-----------------------------------------------------------------------------
(* Opening and closing a frame *)

Listed(sc) ==
  \A i \in DOMAIN sc :
    /\ Apart(sc[i].states, sc[i].ret) /\ Len(sc[i].exprs) = Len(sc[i].states)
    /\ \A k \in DOMAIN sc[i].states : sc[i].exprs[k].cond = sc[i].states[k].cond

\* The part of the invariant that is not about one world.
Framed(fs, sc, e, sn) ==
  /\ fs \in Seq(Frames) /\ sc \in Seq(Scopes) /\ e \in Seq(EnvMaps)
  /\ sn \in Seq(SUBSET Locals) /\ Shaped(fs, sc, e, sn) /\ Returns(fs, sc, sn)
  /\ AllFrozen(fs, sc) /\ Listed(sc)

LEMMA FramedFacts ==
  ASSUME NEW fs, NEW sc, NEW e, NEW sn, Framed(fs, sc, e, sn)
  PROVE  /\ Len(fs) \in Nat \ {0} /\ DOMAIN fs = 1 .. Len(fs) /\ Len(sn) = Len(fs)
         /\ DOMAIN sn = 1 .. Len(fs) /\ Last(fs) = fs[Len(fs)] /\ Last(sn) = sn[Len(fs)]
         /\ fs # <<>> /\ sn # <<>> /\ sc # <<>> /\ e # <<>>
         /\ Len(sc) \in Nat /\ Len(sc) >= 2 /\ Len(e) = Len(sc)
         /\ DOMAIN sc = 1 .. Len(sc) /\ DOMAIN e = 1 .. Len(sc)
         /\ Last(sc) = sc[Len(sc)] /\ Last(e) = e[Len(sc)]
         /\ Layered(sc) /\ ScopeAt(fs, Len(fs)) = Len(sc)
         /\ \A d \in 1 .. Len(fs) :
              /\ ScopeAt(fs, d) \in 2 .. Len(sc) /\ fs[d] \in Frames
              /\ sn[d] \subseteq Locals /\ sn[d] \subseteq DOMAIN sc[ScopeAt(fs, d)].vars
         /\ \A i \in 1 .. Len(sc) : sc[i] \in Scopes /\ DOMAIN sc[i].vars \subseteq DOMAIN e[i]
<1>1. /\ fs \in Seq(Frames) /\ sc \in Seq(Scopes) /\ e \in Seq(EnvMaps)
      /\ sn \in Seq(SUBSET Locals) /\ Shaped(fs, sc, e, sn)
  BY DEF Framed
<1>2. /\ fs # <<>> /\ fs[1].kind = "call" /\ Len(sn) = Len(fs)
      /\ Layered(sc) /\ Len(sc) = ScopeAt(fs, Len(fs)) /\ Len(e) = Len(sc)
  BY <1>1 DEF Shaped
<1>3. /\ \A d \in DOMAIN fs : sn[d] \subseteq DOMAIN sc[ScopeAt(fs, d)].vars
      /\ \A i \in DOMAIN sc : DOMAIN sc[i].vars \subseteq DOMAIN e[i]
  BY <1>1 DEF Shaped
<1>4. /\ Len(fs) \in Nat \ {0} /\ DOMAIN fs = 1 .. Len(fs)
      /\ DOMAIN sn = 1 .. Len(fs) /\ Last(fs) = fs[Len(fs)] /\ Last(sn) = sn[Len(fs)]
      /\ sn # <<>>
  BY <1>1, <1>2 DEF Last
<1>5. /\ Len(sc) \in Nat /\ Len(sc) >= 2 /\ DOMAIN sc = 1 .. Len(sc) /\ DOMAIN e = 1 .. Len(sc)
      /\ Last(sc) = sc[Len(sc)] /\ Last(e) = e[Len(sc)] /\ sc # <<>> /\ e # <<>>
  BY <1>1, <1>2 DEF Last, Layered
<1>6. ASSUME NEW d \in 1 .. Len(fs) PROVE ScopeAt(fs, d) \in 2 .. Len(sc)
  BY <1>1, <1>2, <1>4, <1>5, ScopeBounds, SMTT(30)
<1>7. \A d \in 1 .. Len(fs) : fs[d] \in Frames /\ sn[d] \in SUBSET Locals
  BY <1>1, <1>4
<1>8. \A i \in 1 .. Len(sc) : sc[i] \in Scopes
  BY <1>1
<1> QED BY <1>2, <1>3, <1>4, <1>5, <1>6, <1>7, <1>8

\* A statement leaves the frames as they are.
Changed(sc, r, e, q) ==
  /\ r \in Seq(Scopes) /\ Len(r) = Len(sc) /\ Under(sc, r, Len(sc)) /\ Listed(r)
  /\ \A i \in 1 .. Len(sc) :
       /\ DOMAIN r[i].vars = DOMAIN sc[i].vars /\ r[i].copyOut = sc[i].copyOut
       /\ \A k \in DOMAIN r[i].states :
            \/ k \in DOMAIN sc[i].states /\ r[i].states[k] = sc[i].states[k]
            \/ Frozen(r, r[i].states[k].map, i)
  /\ q \in Seq(EnvMaps) /\ Len(q) = Len(e) /\ DOMAIN q[1] = DOMAIN e[1]
  /\ \A i \in 1 .. Len(e) : DOMAIN e[i] \subseteq DOMAIN q[i]

LEMMA FramedChanged ==
  ASSUME NEW fs, NEW sc, NEW e, NEW sn, Framed(fs, sc, e, sn), NEW r, NEW q,
         Changed(sc, r, e, q)
  PROVE  Framed(fs, r, q, sn)
<1>1. /\ fs \in Seq(Frames) /\ sc \in Seq(Scopes) /\ e \in Seq(EnvMaps)
      /\ sn \in Seq(SUBSET Locals) /\ Shaped(fs, sc, e, sn) /\ Returns(fs, sc, sn)
      /\ AllFrozen(fs, sc)
  BY DEF Framed
<1>2. /\ Len(fs) \in Nat \ {0} /\ DOMAIN fs = 1 .. Len(fs) /\ Len(sc) \in Nat /\ Len(sc) >= 2
      /\ Len(e) = Len(sc) /\ DOMAIN sc = 1 .. Len(sc) /\ Layered(sc)
      /\ \A d \in 1 .. Len(fs) : ScopeAt(fs, d) \in 2 .. Len(sc) /\ ScopeAt(fs, d) \in 1 .. Len(sc)
  BY FramedFacts
<1>3. r \in Seq(Scopes) /\ Len(r) = Len(sc) /\ DOMAIN r = 1 .. Len(sc) /\ Under(sc, r, Len(sc))
  BY <1>2 DEF Changed
<1>4. \A i \in 1 .. Len(sc) : DOMAIN r[i].vars = DOMAIN sc[i].vars /\ r[i].copyOut = sc[i].copyOut
  BY DEF Changed
<1>5. /\ q \in Seq(EnvMaps) /\ Len(q) = Len(sc) /\ DOMAIN q[1] = DOMAIN e[1]
      /\ \A i \in 1 .. Len(sc) : DOMAIN e[i] \subseteq DOMAIN q[i]
  BY <1>2 DEF Changed
<1>6. Layered(r)
  <2>1. 1 \in 1 .. Len(sc) /\ 2 \in 1 .. Len(sc)
    BY <1>2
  <2> QED BY <1>2, <1>3, <1>4, <2>1 DEF Layered
<1>7. Shaped(fs, r, q, sn)
  BY <1>1, <1>2, <1>3, <1>4, <1>5, <1>6 DEF Shaped
<1>8. Returns(fs, r, sn)
  BY <1>1, <1>2, <1>4 DEF Returns
<1>9. AllFrozen(fs, r)
  <2>1. ASSUME NEW d \in DOMAIN fs
        PROVE  /\ fs[d].kind # "call" => Frozen(r, fs[d].old, ScopeAt(fs, d))
               /\ fs[d].kind = "else" => Frozen(r, fs[d].kept, ScopeAt(fs, d))
    <3>1. Len(sc) \in Nat /\ ScopeAt(fs, d) \in 1 .. Len(sc)
      BY <1>2, <2>1
    <3>2. /\ fs[d].kind # "call" => Frozen(sc, fs[d].old, ScopeAt(fs, d))
          /\ fs[d].kind = "else" => Frozen(sc, fs[d].kept, ScopeAt(fs, d))
      BY <1>1, <2>1 DEF AllFrozen
    <3>3. fs[d].kind # "call" => Frozen(r, fs[d].old, ScopeAt(fs, d))
      BY <1>3, <3>1, <3>2, FrozenStays
    <3>4. fs[d].kind = "else" => Frozen(r, fs[d].kept, ScopeAt(fs, d))
      BY <1>3, <3>1, <3>2, FrozenStays
    <3> QED BY <3>3, <3>4
  <2>2. ASSUME NEW i \in DOMAIN r, NEW k \in DOMAIN r[i].states
        PROVE  Frozen(r, r[i].states[k].map, i)
    <3>1. i \in 1 .. Len(sc) /\ Len(sc) \in Nat
      BY <1>2, <1>3
    <3>2. CASE k \in DOMAIN sc[i].states /\ r[i].states[k] = sc[i].states[k]
      <4>1. Frozen(sc, r[i].states[k].map, i)
        BY <1>1, <1>2, <3>1, <3>2 DEF AllFrozen
      <4> QED BY <1>3, <3>1, <4>1, FrozenStays
    <3> QED BY <3>1, <3>2 DEF Changed
  <2> QED BY <2>1, <2>2 DEF AllFrozen
<1>10. Listed(r)
  BY DEF Changed
<1> QED BY <1>1, <1>3, <1>5, <1>7, <1>8, <1>9, <1>10 DEF Framed

EnvChanged(e, q) ==
  /\ q \in Seq(EnvMaps) /\ Len(q) = Len(e)
  /\ \A i \in 1 .. Len(e) : DOMAIN q[i] = DOMAIN e[i]

LEMMA SameChanged ==
  ASSUME NEW fs, NEW sc, NEW e, NEW sn, Framed(fs, sc, e, sn), NEW r, SameShape(sc, r),
         Under(sc, r, Len(sc)), NEW q, EnvChanged(e, q)
  PROVE  Changed(sc, r, e, q)
<1>1. Len(sc) >= 2 /\ Len(e) = Len(sc) /\ Len(sc) \in Nat /\ DOMAIN sc = 1 .. Len(sc)
  BY FramedFacts
<1>2. 1 \in 1 .. Len(e)
  BY <1>1
<1>3. Listed(r)
  BY ZenonT(30) DEF Listed, Framed, SameShape
<1>4. \A i \in 1 .. Len(sc) :
        /\ DOMAIN r[i].vars = DOMAIN sc[i].vars /\ r[i].copyOut = sc[i].copyOut
        /\ r[i].states = sc[i].states
  BY <1>1 DEF SameShape
<1> QED BY <1>1, <1>2, <1>3, <1>4 DEF Changed, SameShape, EnvChanged

LEMMA ScopePush ==
  ASSUME NEW fs \in Seq(Frames), NEW f \in Frames
  PROVE  /\ \A d \in 0 .. Len(fs) : ScopeAt(Append(fs, f), d) = ScopeAt(fs, d)
         /\ ScopeAt(Append(fs, f), Len(fs) + 1)
              = IF f.kind = "call" THEN ScopeAt(fs, Len(fs)) + 1 ELSE ScopeAt(fs, Len(fs))
<1>1. Len(fs) \in Nat
  OBVIOUS
<1>2. ASSUME NEW d \in 0 .. Len(fs) PROVE ScopeAt(Append(fs, f), d) = ScopeAt(fs, d)
  <2>1. d \in Nat /\ \A j \in 1 .. d : Append(fs, f)[j] = fs[j]
    BY <1>1
  <2> QED BY <2>1, ScopeSame
<1>3. Len(fs) \in 0 .. Len(fs) /\ Len(fs) + 1 \in Nat \ {0} /\ (Len(fs) + 1) - 1 = Len(fs)
  BY <1>1
<1>4. Append(fs, f)[Len(fs) + 1] = f
  OBVIOUS
<1>5. ScopeAt(Append(fs, f), Len(fs)) = ScopeAt(fs, Len(fs))
  BY <1>2, <1>3
<1>6. ScopeAt(Append(fs, f), Len(fs) + 1)
        = IF Append(fs, f)[Len(fs) + 1].kind = "call"
          THEN ScopeAt(Append(fs, f), (Len(fs) + 1) - 1) + 1
          ELSE ScopeAt(Append(fs, f), (Len(fs) + 1) - 1)
  BY <1>3, ScopeNext
<1> QED BY <1>2, <1>3, <1>4, <1>5, <1>6

LEMMA ScopePop ==
  ASSUME NEW fs \in Seq(Frames), fs # <<>>
  PROVE  \A d \in 0 .. Len(fs) - 1 : ScopeAt(Front(fs), d) = ScopeAt(fs, d)
<1>1. Len(fs) \in Nat \ {0} /\ \A j \in 1 .. Len(fs) - 1 : Front(fs)[j] = fs[j]
  BY FrontFacts
<1>2. ASSUME NEW d \in 0 .. Len(fs) - 1 PROVE ScopeAt(Front(fs), d) = ScopeAt(fs, d)
  <2>1. d \in Nat /\ \A j \in 1 .. d : j \in 1 .. Len(fs) - 1
    BY <1>1
  <2> QED BY <1>1, <2>1, ScopeSame
<1> QED BY <1>2

\* A frame of a branch or an operand.
Pushes(sc, f) ==
  /\ f \in Frames /\ f.kind # "call" /\ Frozen(sc, f.old, Len(sc))
  /\ f.kind = "else" => Frozen(sc, f.kept, Len(sc))

LEMMA FramedPush ==
  ASSUME NEW fs, NEW sc, NEW e, NEW sn, Framed(fs, sc, e, sn), NEW f, Pushes(sc, f)
  PROVE  Framed(Append(fs, f), sc, e, Append(sn, Last(sn)))
<1> DEFINE g == Append(fs, f)
           t == Append(sn, Last(sn))
           n == Len(fs)
<1>1. /\ fs \in Seq(Frames) /\ sc \in Seq(Scopes) /\ e \in Seq(EnvMaps) /\ f \in Frames
      /\ sn \in Seq(SUBSET Locals) /\ Shaped(fs, sc, e, sn) /\ Returns(fs, sc, sn)
      /\ AllFrozen(fs, sc) /\ Listed(sc)
  BY DEF Framed, Pushes
<1>2. /\ n \in Nat \ {0} /\ DOMAIN fs = 1 .. n /\ Len(sn) = n /\ Last(sn) = sn[n]
      /\ n \in 1 .. n
      /\ ScopeAt(fs, n) = Len(sc) /\ \A d \in 1 .. n : sn[d] \subseteq Locals
  BY FramedFacts
<1>3. /\ g \in Seq(Frames) /\ Len(g) = n + 1 /\ DOMAIN g = 1 .. n + 1 /\ g[n + 1] = f
      /\ g # <<>> /\ \A d \in 1 .. n : g[d] = fs[d]
  BY <1>1, <1>2, AppendFacts
<1>4. /\ t \in Seq(SUBSET Locals) /\ Len(t) = n + 1 /\ t[n + 1] = sn[n]
      /\ \A d \in 1 .. n : t[d] = sn[d]
  <2>1. sn[n] \in SUBSET Locals
    BY <1>2
  <2> QED BY <1>1, <1>2, <2>1
<1>5. \A d \in 1 .. n : ScopeAt(g, d) = ScopeAt(fs, d)
  <2>1. \A d \in 1 .. n : d \in 0 .. Len(fs)
    BY <1>2
  <2> QED BY <1>1, <2>1, ScopePush
<1>6. ScopeAt(g, n + 1) = Len(sc)
  BY <1>1, <1>2, ScopePush DEF Pushes
<1>7. \A d \in 1 .. n + 1 : d # n + 1 => d \in 1 .. n
  BY <1>2
<1> HIDE DEF g, t, n
<1>8. Shaped(g, sc, e, t)
  <2>1. g[1].kind = "call" /\ Layered(sc) /\ Len(e) = Len(sc) /\ DOMAIN e[1] = Globals
    <3>1. 1 \in 1 .. n
      BY <1>2
    <3> QED BY <1>1, <1>3, <3>1 DEF Shaped
  <2>2. \A i \in DOMAIN sc : DOMAIN sc[i].vars \subseteq DOMAIN e[i]
    BY <1>1 DEF Shaped
  <2>3. \A d \in 1 .. n : sn[d] \subseteq DOMAIN sc[ScopeAt(fs, d)].vars
    BY <1>1, <1>2 DEF Shaped
  <2>4. \A d \in DOMAIN g : t[d] \subseteq DOMAIN sc[ScopeAt(g, d)].vars
    <3>1. sn[n] \subseteq DOMAIN sc[Len(sc)].vars
      BY <1>2, <2>3
    <3> QED BY <1>3, <1>4, <1>5, <1>6, <1>7, <2>3, <3>1
  <2>5. ASSUME NEW d \in DOMAIN g, NEW k \in DOMAIN g, d < k, ScopeAt(g, d) = ScopeAt(g, k)
        PROVE  t[d] \subseteq t[k]
    <3>1. d \in 1 .. n
      BY <1>2, <1>3, <2>5
    <3>2. CASE k \in 1 .. n
      BY <1>1, <1>2, <1>4, <1>5, <2>5, <3>1, <3>2 DEF Shaped
    <3>3. CASE k = n + 1
      <4>1. ScopeAt(fs, d) = ScopeAt(fs, n)
        BY <1>2, <1>5, <1>6, <2>5, <3>1, <3>3
      <4>2. d = n \/ d < n
        BY <1>2, <3>1
      <4>3. sn[d] \subseteq sn[n]
        BY <1>1, <1>2, <3>1, <4>1, <4>2 DEF Shaped
      <4> QED BY <1>4, <3>1, <3>3, <4>3
    <3> QED BY <1>3, <1>7, <3>2, <3>3
  <2> QED BY <1>3, <1>4, <1>6, <2>1, <2>2, <2>4, <2>5 DEF Shaped
<1>9. Returns(g, sc, t)
  <2>1. ASSUME NEW d \in DOMAIN g, d > 1, g[d].kind = "call"
        PROVE  /\ d \in 1 .. n /\ d - 1 \in 1 .. n
    <3>1. d # n + 1
      BY <1>3, <2>1 DEF Pushes
    <3> QED BY <1>2, <1>3, <1>7, <2>1, <3>1
  <2> QED BY <1>1, <1>2, <1>3, <1>4, <1>5, <2>1 DEF Returns
<1>10. AllFrozen(g, sc)
  BY <1>1, <1>2, <1>3, <1>5, <1>6, <1>7 DEF AllFrozen, Pushes
<1> QED BY <1>1, <1>3, <1>4, <1>8, <1>9, <1>10 DEF Framed, g, t

LEMMA FramedPop ==
  ASSUME NEW fs, NEW sc, NEW e, NEW sn, Framed(fs, sc, e, sn), Last(fs).kind # "call"
  PROVE  Framed(Front(fs), sc, e, Front(sn)) /\ Len(fs) > 1
<1> DEFINE g == Front(fs)
           t == Front(sn)
           n == Len(fs)
<1>1. /\ fs \in Seq(Frames) /\ sc \in Seq(Scopes) /\ e \in Seq(EnvMaps)
      /\ sn \in Seq(SUBSET Locals) /\ Shaped(fs, sc, e, sn) /\ Returns(fs, sc, sn)
      /\ AllFrozen(fs, sc) /\ Listed(sc)
  BY DEF Framed
<1>2. /\ n \in Nat \ {0} /\ DOMAIN fs = 1 .. n /\ Len(sn) = n /\ fs # <<>> /\ sn # <<>>
      /\ ScopeAt(fs, n) = Len(sc) /\ n \in 1 .. n /\ Last(fs) = fs[n]
  BY FramedFacts
<1>3. n > 1
  BY <1>1, <1>2, SMTT(30) DEF Shaped
<1>4. /\ g \in Seq(Frames) /\ Len(g) = n - 1 /\ DOMAIN g = 1 .. n - 1
      /\ \A d \in 1 .. n - 1 : g[d] = fs[d]
  BY <1>1, <1>2, FrontFacts, ZenonT(30)
<1>5. /\ t \in Seq(SUBSET Locals) /\ Len(t) = n - 1 /\ \A d \in 1 .. n - 1 : t[d] = sn[d]
  BY <1>1, <1>2, FrontFacts, Zenon
<1>6. \A d \in 1 .. n - 1 : ScopeAt(g, d) = ScopeAt(fs, d) /\ d \in 1 .. n
  BY <1>1, <1>2, ScopePop
<1>7. ScopeAt(fs, n - 1) = Len(sc)
  BY <1>2, ScopeNext
<1>8. n - 1 \in 1 .. n - 1 /\ 1 \in 1 .. n - 1 /\ g # <<>>
  BY <1>2, <1>3, <1>4
<1> HIDE DEF g, t, n
<1>9. Shaped(g, sc, e, t)
  BY <1>1, <1>2, <1>4, <1>5, <1>6, <1>7, <1>8 DEF Shaped
<1>10. Returns(g, sc, t)
  <2>1. \A d \in 1 .. n - 1 : d > 1 => d - 1 \in 1 .. n - 1
    BY <1>2
  <2> QED BY <1>1, <1>2, <1>4, <1>5, <1>6, <2>1 DEF Returns
<1>11. AllFrozen(g, sc)
  BY <1>1, <1>2, <1>4, <1>6 DEF AllFrozen
<1> QED BY <1>1, <1>3, <1>4, <1>5, <1>9, <1>10, <1>11 DEF Framed, g, t, n

\* A call of a function or an action.
Calls(sn, f, s, v, names) ==
  /\ f \in Frames /\ f.kind = "call" /\ s \in Scopes /\ v \in EnvMaps
  /\ f.result \in Last(sn) \cup Globals \cup {"none", "operand"}
  /\ names \subseteq Locals /\ DOMAIN s.vars = names /\ names \subseteq DOMAIN v
  /\ s.states = <<>> /\ s.exprs = <<>>
  /\ \A n \in DOMAIN s.copyOut : n \in Last(sn) \cup Globals /\ s.copyOut[n] \in names

LEMMA FramedCall ==
  ASSUME NEW fs, NEW sc, NEW e, NEW sn, Framed(fs, sc, e, sn), NEW f, NEW s, NEW v,
         NEW names, Calls(sn, f, s, v, names)
  PROVE  Framed(Append(fs, f), Append(sc, s), Append(e, v), Append(sn, names))
<1> DEFINE g == Append(fs, f)
           r == Append(sc, s)
           q == Append(e, v)
           t == Append(sn, names)
           n == Len(fs)
           m == Len(sc)
<1>1. /\ fs \in Seq(Frames) /\ sc \in Seq(Scopes) /\ e \in Seq(EnvMaps)
      /\ f \in Frames /\ f.kind = "call" /\ s \in Scopes /\ v \in EnvMaps
      /\ names \in SUBSET Locals
      /\ sn \in Seq(SUBSET Locals) /\ Shaped(fs, sc, e, sn) /\ Returns(fs, sc, sn)
      /\ AllFrozen(fs, sc) /\ Listed(sc)
  BY DEF Framed, Calls
<1>2. /\ n \in Nat \ {0} /\ DOMAIN fs = 1 .. n /\ Len(sn) = n /\ Last(sn) = sn[n]
      /\ ScopeAt(fs, n) = m /\ m \in Nat /\ m >= 2 /\ Len(e) = m /\ DOMAIN sc = 1 .. m
      /\ Layered(sc) /\ \A d \in 1 .. n : ScopeAt(fs, d) \in 1 .. m
  BY FramedFacts
<1>3. /\ g \in Seq(Frames) /\ Len(g) = n + 1 /\ DOMAIN g = 1 .. n + 1 /\ g[n + 1] = f
      /\ \A d \in 1 .. n : g[d] = fs[d]
  BY <1>1, <1>2, AppendFacts
<1>4. /\ t \in Seq(SUBSET Locals) /\ Len(t) = n + 1 /\ t[n + 1] = names
      /\ \A d \in 1 .. n : t[d] = sn[d]
  BY <1>1, <1>2
<1>5. /\ r \in Seq(Scopes) /\ Len(r) = m + 1 /\ DOMAIN r = 1 .. m + 1 /\ r[m + 1] = s
      /\ \A i \in 1 .. m : r[i] = sc[i]
  BY <1>1, <1>2, AppendFacts
<1>6. /\ q \in Seq(EnvMaps) /\ Len(q) = m + 1 /\ q[m + 1] = v
      /\ \A i \in 1 .. m : q[i] = e[i]
  BY <1>1, <1>2, AppendFacts
<1>7. \A d \in 1 .. n : ScopeAt(g, d) = ScopeAt(fs, d)
  <2>1. \A d \in 1 .. n : d \in 0 .. Len(fs)
    BY <1>2
  <2> QED BY <1>1, <2>1, ScopePush
<1>8. ScopeAt(g, n + 1) = m + 1
  BY <1>1, <1>2, ScopePush
<1>9. /\ \A d \in 1 .. n + 1 : d # n + 1 => d \in 1 .. n
      /\ \A i \in 1 .. m + 1 : i # m + 1 => i \in 1 .. m
      /\ 1 \in 1 .. n /\ 1 \in 1 .. m /\ 2 \in 1 .. m /\ m + 1 > 2
  BY <1>2
<1>10. g # <<>> /\ g[1] = fs[1]
  BY <1>3, <1>9
<1> HIDE DEF g, t, n, r, q, m
<1>11. Layered(r)
  BY <1>1, <1>2, <1>5, <1>9, SMTT(30) DEF Layered, Calls
<1>12. Shaped(g, r, q, t)
  <2>1. g[1].kind = "call" /\ DOMAIN q[1] = Globals
    BY <1>1, <1>6, <1>9, <1>10 DEF Shaped
  <2>2. \A i \in DOMAIN r : DOMAIN r[i].vars \subseteq DOMAIN q[i]
    <3>1. \A i \in 1 .. m : DOMAIN sc[i].vars \subseteq DOMAIN e[i]
      BY <1>1, <1>2 DEF Shaped
    <3> QED BY <1>5, <1>6, <1>9, <3>1 DEF Calls
  <2>3. \A d \in DOMAIN g : t[d] \subseteq DOMAIN r[ScopeAt(g, d)].vars
    <3>1. \A d \in 1 .. n : sn[d] \subseteq DOMAIN sc[ScopeAt(fs, d)].vars
      BY <1>1, <1>2 DEF Shaped
    <3>2. \A d \in 1 .. n : t[d] \subseteq DOMAIN r[ScopeAt(g, d)].vars
      BY <1>2, <1>4, <1>5, <1>7, <3>1
    <3>3. names = DOMAIN s.vars
      BY DEF Calls
    <3>4. t[n + 1] \subseteq DOMAIN r[ScopeAt(g, n + 1)].vars
      BY <1>4, <1>5, <1>8, <3>3
    <3> QED BY <1>3, <1>9, <3>2, <3>4
  <2>4. ASSUME NEW d \in DOMAIN g, NEW k \in DOMAIN g, d < k, ScopeAt(g, d) = ScopeAt(g, k)
        PROVE  t[d] \subseteq t[k]
    <3>1. d \in 1 .. n
      BY <1>2, <1>3, <2>4
    <3>2. k # n + 1
      <4>1. ScopeAt(g, d) \in 1 .. m
        BY <1>2, <1>7, <3>1
      <4> QED BY <1>2, <1>8, <2>4, <4>1
    <3>3. k \in 1 .. n
      BY <1>3, <1>9, <3>2
    <3> QED BY <1>1, <1>2, <1>4, <1>7, <2>4, <3>1, <3>3 DEF Shaped
  <2>5. Len(r) = ScopeAt(g, Len(g)) /\ Len(q) = Len(r) /\ Len(t) = Len(g)
    BY <1>3, <1>4, <1>5, <1>6, <1>8
  <2> QED BY <1>10, <1>11, <2>1, <2>2, <2>3, <2>4, <2>5 DEF Shaped
<1>13. Returns(g, r, t)
  <2>1. ASSUME NEW d \in DOMAIN g, d > 1, g[d].kind = "call", d # n + 1
        PROVE  /\ g[d].result \in t[d - 1] \cup Globals \cup {"none", "operand"}
               /\ \A x \in DOMAIN r[ScopeAt(g, d)].copyOut :
                    /\ x \in t[d - 1] \cup Globals
                    /\ r[ScopeAt(g, d)].copyOut[x] \in t[d]
    <3>1. d \in 1 .. n /\ d - 1 \in 1 .. n
      BY <1>2, <1>3, <1>9, <2>1
    <3> QED BY <1>1, <1>2, <1>3, <1>4, <1>5, <1>7, <2>1, <3>1 DEF Returns
  <2>2. /\ g[n + 1].result \in t[(n + 1) - 1] \cup Globals \cup {"none", "operand"}
        /\ \A x \in DOMAIN r[ScopeAt(g, n + 1)].copyOut :
             /\ x \in t[(n + 1) - 1] \cup Globals
             /\ r[ScopeAt(g, n + 1)].copyOut[x] \in t[n + 1]
    <3>1. (n + 1) - 1 = n /\ n \in 1 .. n
      BY <1>2
    <3>2. t[n] = Last(sn)
      BY <1>2, <1>4, <3>1
    <3> QED BY <1>3, <1>4, <1>5, <1>8, <3>1, <3>2 DEF Calls
  <2> QED BY <1>3, <2>1, <2>2 DEF Returns
<1>14. Under(sc, r, m)
  <2>1. \A j \in 1 .. m - 1 : j \in 1 .. m
    BY <1>2
  <2> QED BY <1>5, <2>1 DEF Under
<1>15. AllFrozen(g, r)
  <2>1. ASSUME NEW d \in DOMAIN g
        PROVE  /\ g[d].kind # "call" => Frozen(r, g[d].old, ScopeAt(g, d))
               /\ g[d].kind = "else" => Frozen(r, g[d].kept, ScopeAt(g, d))
    <3> SUFFICES ASSUME d # n + 1
                 PROVE  /\ g[d].kind # "call" => Frozen(r, g[d].old, ScopeAt(g, d))
                        /\ g[d].kind = "else" => Frozen(r, g[d].kept, ScopeAt(g, d))
      BY <1>1, <1>3
    <3>1. d \in 1 .. n
      BY <1>3, <1>9
    <3>2. /\ g[d].kind # "call" => Frozen(sc, g[d].old, ScopeAt(g, d))
          /\ g[d].kind = "else" => Frozen(sc, g[d].kept, ScopeAt(g, d))
      BY <1>1, <1>2, <1>3, <1>7, <3>1 DEF AllFrozen
    <3>3. ScopeAt(g, d) \in 1 .. m /\ m \in Nat
      BY <1>2, <1>7, <3>1
    <3>4. g[d].kind # "call" => Frozen(r, g[d].old, ScopeAt(g, d))
      BY <1>14, <3>2, <3>3, FrozenStays
    <3>5. g[d].kind = "else" => Frozen(r, g[d].kept, ScopeAt(g, d))
      BY <1>14, <3>2, <3>3, FrozenStays
    <3> QED BY <3>4, <3>5
  <2>2. ASSUME NEW i \in DOMAIN r, NEW k \in DOMAIN r[i].states
        PROVE  Frozen(r, r[i].states[k].map, i)
    <3>1. i # m + 1
      <4>1. DOMAIN s.states = {}
        BY DEF Calls
      <4> QED BY <1>5, <2>2, <4>1
    <3>2. i \in 1 .. m /\ m \in Nat
      BY <1>2, <1>5, <1>9, <3>1
    <3>3. Frozen(sc, r[i].states[k].map, i)
      BY <1>1, <1>2, <1>5, <2>2, <3>2 DEF AllFrozen
    <3> QED BY <1>14, <3>2, <3>3, FrozenStays
  <2> QED BY <2>1, <2>2 DEF AllFrozen
<1>16. Listed(r)
  <2>1. ASSUME NEW i \in DOMAIN r, i # m + 1
        PROVE  /\ Apart(r[i].states, r[i].ret) /\ Len(r[i].exprs) = Len(r[i].states)
               /\ \A k \in DOMAIN r[i].states : r[i].exprs[k].cond = r[i].states[k].cond
    <3>1. i \in 1 .. m
      BY <1>5, <1>9, <2>1
    <3> QED BY <1>1, <1>2, <1>5, <3>1 DEF Listed
  <2>2. /\ Apart(s.states, s.ret) /\ Len(s.exprs) = Len(s.states)
        /\ \A k \in DOMAIN s.states : s.exprs[k].cond = s.states[k].cond
    <3>1. DOMAIN s.states = {} /\ s.exprs = s.states
      BY DEF Calls
    <3> QED BY <3>1 DEF Apart
  <2> QED BY <1>5, <2>1, <2>2 DEF Listed
<1> QED BY <1>1, <1>3, <1>4, <1>5, <1>6, <1>12, <1>13, <1>15, <1>16 DEF Framed, g, t, r, q

\* The end of a call.
Leaves(sc, e, r, q) ==
  /\ r \in Seq(Scopes) /\ Len(r) = Len(sc) - 1 /\ Under(sc, r, Len(sc) - 1)
  /\ q \in Seq(EnvMaps) /\ Len(q) = Len(sc) - 1
  /\ \A i \in 1 .. Len(sc) - 1 :
       /\ DOMAIN r[i].vars = DOMAIN sc[i].vars /\ r[i].copyOut = sc[i].copyOut
       /\ r[i].ret = sc[i].ret /\ r[i].states = sc[i].states /\ r[i].exprs = sc[i].exprs
       /\ DOMAIN q[i] = DOMAIN e[i]

LEMMA FramedReturn ==
  ASSUME NEW fs, NEW sc, NEW e, NEW sn, Framed(fs, sc, e, sn),
         Last(fs).kind = "call", Len(fs) > 1, NEW r, NEW q, Leaves(sc, e, r, q)
  PROVE  Framed(Front(fs), r, q, Front(sn)) /\ Len(sc) > 2
<1> DEFINE g == Front(fs)
           t == Front(sn)
           n == Len(fs)
           m == Len(sc) - 1
<1>1. /\ fs \in Seq(Frames) /\ sc \in Seq(Scopes) /\ e \in Seq(EnvMaps)
      /\ sn \in Seq(SUBSET Locals) /\ Shaped(fs, sc, e, sn) /\ Returns(fs, sc, sn)
      /\ AllFrozen(fs, sc) /\ Listed(sc)
  BY DEF Framed
<1>2. /\ n \in Nat \ {0} /\ DOMAIN fs = 1 .. n /\ Len(sn) = n /\ fs # <<>> /\ sn # <<>>
      /\ ScopeAt(fs, n) = Len(sc) /\ n \in 1 .. n /\ Last(fs) = fs[n] /\ Layered(sc)
      /\ Len(sc) \in Nat /\ DOMAIN sc = 1 .. Len(sc)
      /\ \A d \in 1 .. n : ScopeAt(fs, d) \in 2 .. Len(sc)
  BY FramedFacts
<1>3. ScopeAt(fs, n - 1) = m /\ n - 1 \in 1 .. n /\ n - 1 \in Nat /\ n > 1
  <2>1. fs[n].kind = "call"
    BY <1>2
  <2>2. ScopeAt(fs, n) = ScopeAt(fs, n - 1) + 1
    BY <1>2, <2>1, ScopeNext
  <2>3. n - 1 \in 1 .. n /\ n - 1 \in Nat /\ n > 1
    BY <1>2
  <2>4. ScopeAt(fs, n - 1) \in Nat
    BY <2>3, ScopeType
  <2> QED BY <1>2, <2>2, <2>3, <2>4
<1>4. m \in Nat /\ m >= 2 /\ Len(sc) > 2
  BY <1>2, <1>3, SMTT(30)
<1>5. /\ g \in Seq(Frames) /\ Len(g) = n - 1 /\ DOMAIN g = 1 .. n - 1
      /\ \A d \in 1 .. n - 1 : g[d] = fs[d]
  BY <1>1, <1>2, FrontFacts, ZenonT(30)
<1>6. /\ t \in Seq(SUBSET Locals) /\ Len(t) = n - 1 /\ \A d \in 1 .. n - 1 : t[d] = sn[d]
  BY <1>1, <1>2, FrontFacts, Zenon
<1>7. ASSUME NEW d \in 1 .. n - 1
      PROVE ScopeAt(g, d) = ScopeAt(fs, d) /\ d \in 1 .. n /\ ScopeAt(fs, d) \in 1 .. m
  <2>1. d \in 1 .. n /\ d \in 0 .. n - 1 /\ d \in Nat /\ d <= n - 1
    BY <1>2
  <2>2. ScopeAt(g, d) = ScopeAt(fs, d)
    BY <1>1, <1>2, <2>1, ScopePop
  <2>3. ScopeAt(fs, d) <= ScopeAt(fs, n - 1)
    BY <1>3, <2>1, ScopeGrows
  <2>4. ScopeAt(fs, d) \in Nat /\ ScopeAt(fs, d) >= 1
    BY <1>2, <2>1
  <2> QED BY <1>3, <1>4, <2>1, <2>2, <2>3, <2>4
<1>8. /\ r \in Seq(Scopes) /\ Len(r) = m /\ DOMAIN r = 1 .. m /\ Under(sc, r, m)
      /\ q \in Seq(EnvMaps) /\ Len(q) = m
  BY <1>4 DEF Leaves
<1>9. \A i \in 1 .. m :
        /\ DOMAIN r[i].vars = DOMAIN sc[i].vars /\ r[i].copyOut = sc[i].copyOut
        /\ r[i].ret = sc[i].ret /\ r[i].states = sc[i].states /\ r[i].exprs = sc[i].exprs
        /\ DOMAIN q[i] = DOMAIN e[i]
  BY DEF Leaves
<1>10. n - 1 \in 1 .. n - 1 /\ 1 \in 1 .. n - 1 /\ g # <<>> /\ 1 \in 1 .. m /\ 2 \in 1 .. m
       /\ \A i \in 1 .. m : i \in 1 .. Len(sc)
  BY <1>2, <1>3, <1>4, <1>5
<1> HIDE DEF g, t, n, m
<1>11. Layered(r)
  <2>1. Len(r) > 1 /\ DOMAIN r[1].vars = DOMAIN sc[1].vars /\ DOMAIN r[2].vars = DOMAIN sc[2].vars
        /\ r[2].copyOut = sc[2].copyOut
    BY <1>4, <1>8, <1>9, <1>10
  <2>2. \A i \in DOMAIN r : i \in DOMAIN sc /\ DOMAIN r[i].vars = DOMAIN sc[i].vars
    BY <1>2, <1>8, <1>9, <1>10
  <2> QED BY <1>2, <2>1, <2>2 DEF Layered
<1>12. Shaped(g, r, q, t)
  <2>1. g[1].kind = "call" /\ DOMAIN q[1] = Globals
    BY <1>1, <1>5, <1>9, <1>10 DEF Shaped
  <2>2. \A i \in DOMAIN r : DOMAIN r[i].vars \subseteq DOMAIN q[i]
    BY <1>1, <1>2, <1>8, <1>9, <1>10 DEF Shaped
  <2>3. \A d \in DOMAIN g : t[d] \subseteq DOMAIN r[ScopeAt(g, d)].vars
    BY <1>1, <1>2, <1>5, <1>6, <1>7, <1>9, ZenonT(30) DEF Shaped
  <2>4. \A d, k \in DOMAIN g : d < k /\ ScopeAt(g, d) = ScopeAt(g, k) => t[d] \subseteq t[k]
    BY <1>1, <1>2, <1>5, <1>6, <1>7 DEF Shaped
  <2>5. Len(r) = ScopeAt(g, Len(g)) /\ Len(q) = Len(r) /\ Len(t) = Len(g)
    BY <1>3, <1>5, <1>6, <1>7, <1>8, <1>10
  <2> QED BY <1>10, <1>11, <2>1, <2>2, <2>3, <2>4, <2>5 DEF Shaped
<1>13. Returns(g, r, t)
  <2>1. ASSUME NEW d \in DOMAIN g, d > 1, g[d].kind = "call"
        PROVE  /\ g[d].result \in t[d - 1] \cup Globals \cup {"none", "operand"}
               /\ \A x \in DOMAIN r[ScopeAt(g, d)].copyOut :
                    /\ x \in t[d - 1] \cup Globals
                    /\ r[ScopeAt(g, d)].copyOut[x] \in t[d]
    <3>1. d \in 1 .. n - 1 /\ d - 1 \in 1 .. n - 1 /\ d \in 1 .. n
      BY <1>2, <1>5, <2>1
    <3>2. /\ g[d] = fs[d] /\ t[d] = sn[d] /\ t[d - 1] = sn[d - 1]
          /\ ScopeAt(g, d) = ScopeAt(fs, d)
          /\ r[ScopeAt(fs, d)].copyOut = sc[ScopeAt(fs, d)].copyOut
      BY <1>5, <1>6, <1>7, <1>9, <3>1
    <3> QED BY <1>1, <1>2, <2>1, <3>1, <3>2 DEF Returns
  <2> QED BY <2>1 DEF Returns
<1>14. AllFrozen(g, r)
  <2>1. ASSUME NEW d \in DOMAIN g
        PROVE  /\ g[d].kind # "call" => Frozen(r, g[d].old, ScopeAt(g, d))
               /\ g[d].kind = "else" => Frozen(r, g[d].kept, ScopeAt(g, d))
    <3>1. d \in 1 .. n - 1
      BY <1>5
    <3>2. /\ g[d].kind # "call" => Frozen(sc, g[d].old, ScopeAt(g, d))
          /\ g[d].kind = "else" => Frozen(sc, g[d].kept, ScopeAt(g, d))
      BY <1>1, <1>2, <1>5, <1>7, <3>1 DEF AllFrozen
    <3>3. ScopeAt(g, d) \in 1 .. m /\ m \in Nat
      BY <1>4, <1>7, <3>1
    <3>4. g[d].kind # "call" => Frozen(r, g[d].old, ScopeAt(g, d))
      BY <1>8, <3>2, <3>3, FrozenStays
    <3>5. g[d].kind = "else" => Frozen(r, g[d].kept, ScopeAt(g, d))
      BY <1>8, <3>2, <3>3, FrozenStays
    <3> QED BY <3>4, <3>5
  <2>2. ASSUME NEW i \in DOMAIN r, NEW k \in DOMAIN r[i].states
        PROVE  Frozen(r, r[i].states[k].map, i)
    <3>1. i \in 1 .. m /\ m \in Nat /\ i \in 1 .. Len(sc)
      BY <1>4, <1>8, <1>10, <2>2
    <3>2. Frozen(sc, r[i].states[k].map, i)
      BY <1>1, <1>2, <1>9, <2>2, <3>1 DEF AllFrozen
    <3> QED BY <1>8, <3>1, <3>2, FrozenStays
  <2> QED BY <2>1, <2>2 DEF AllFrozen
<1>15. Listed(r)
  <2>1. ASSUME NEW i \in DOMAIN r
        PROVE  /\ Apart(r[i].states, r[i].ret) /\ Len(r[i].exprs) = Len(r[i].states)
               /\ \A k \in DOMAIN r[i].states : r[i].exprs[k].cond = r[i].states[k].cond
    <3>1. i \in 1 .. m /\ i \in DOMAIN sc
      BY <1>2, <1>8, <1>10
    <3>2. r[i].ret = sc[i].ret /\ r[i].states = sc[i].states /\ r[i].exprs = sc[i].exprs
      BY <1>9, <3>1
    <3> QED BY <1>1, <3>1, <3>2 DEF Listed
  <2> QED BY <2>1 DEF Listed
<1> QED BY <1>1, <1>4, <1>5, <1>6, <1>8, <1>12, <1>13, <1>14, <1>15 DEF Framed, g, t

LEMMA WithType ==
  ASSUME NEW vars \in VarMaps, NEW n \in Names, NEW val \in Store
  PROVE  With(vars, n, val) \in VarMaps
<1>1. DOMAIN vars \subseteq Names /\ \A m \in DOMAIN vars : vars[m] \in Store
  BY MapFacts
<1>2. \A m \in DOMAIN vars \cup {n} : With(vars, n, val)[m] \in Store
  BY <1>1 DEF With
<1>3. DOMAIN vars \cup {n} \in SUBSET Names
  BY <1>1
<1>4. With(vars, n, val) = [m \in DOMAIN vars \cup {n} |-> With(vars, n, val)[m]]
  BY DEF With
<1> QED BY <1>2, <1>3, <1>4, MapType

LEMMA WithEnvType ==
  ASSUME NEW vars \in EnvMaps, NEW n \in Names \cup {"result"}, NEW val \in Store
  PROVE  With(vars, n, val) \in EnvMaps
<1>1. DOMAIN vars \subseteq Names \cup {"result"} /\ \A m \in DOMAIN vars : vars[m] \in Store
  BY DEF EnvMaps
<1>2. \A m \in DOMAIN vars \cup {n} : With(vars, n, val)[m] \in Store
  BY <1>1 DEF With
<1>3. DOMAIN vars \cup {n} \in SUBSET (Names \cup {"result"})
  BY <1>1
<1>4. With(vars, n, val) = [m \in DOMAIN vars \cup {n} |-> With(vars, n, val)[m]]
  BY DEF With
<1> QED BY <1>2, <1>3, <1>4, EnvType

LEMMA DeclareFacts ==
  ASSUME NEW sc \in Seq(Scopes), Len(sc) > 0, NEW n \in Names, NEW val \in Store
  PROVE  /\ DeclareVar(sc, n, val) \in Seq(Scopes)
         /\ Len(DeclareVar(sc, n, val)) = Len(sc)
         /\ \A i \in 1 .. Len(sc) :
              /\ DeclareVar(sc, n, val)[i].vars
                   = IF i = Len(sc) THEN With(sc[i].vars, n, val) ELSE sc[i].vars
              /\ DeclareVar(sc, n, val)[i].copyOut = sc[i].copyOut
              /\ DeclareVar(sc, n, val)[i].ret = sc[i].ret
              /\ DeclareVar(sc, n, val)[i].states = sc[i].states
              /\ DeclareVar(sc, n, val)[i].exprs = sc[i].exprs
<1> DEFINE k == Len(sc)
           s == [sc[k] EXCEPT !.vars = With(sc[k].vars, n, val)]
<1>1. k \in Nat \ {0} /\ k \in 1 .. k /\ sc[k] \in Scopes
  OBVIOUS
<1>2. sc[k].vars \in VarMaps
  BY <1>1, ScopeFields
<1>3. With(sc[k].vars, n, val) \in VarMaps
  BY <1>2, WithType
<1>4. /\ s \in Scopes /\ s.vars = With(sc[k].vars, n, val) /\ s.copyOut = sc[k].copyOut
      /\ s.ret = sc[k].ret /\ s.states = sc[k].states /\ s.exprs = sc[k].exprs
  BY <1>1, <1>3, ScopeWithVars
<1>5. DeclareVar(sc, n, val) = [sc EXCEPT ![k] = s]
  BY DEF DeclareVar
<1> HIDE DEF s
<1> QED BY <1>1, <1>4, <1>5

Declared(sc, e, sn, n, val, r, q, t) ==
  /\ n \in Locals /\ val \in Store /\ r = DeclareVar(sc, n, val)
  /\ q = [e EXCEPT ![Len(e)] = With(e[Len(e)], n, val)]
  /\ t = [sn EXCEPT ![Len(sn)] = sn[Len(sn)] \cup {n}]

LEMMA FramedDeclare ==
  ASSUME NEW fs, NEW sc, NEW e, NEW sn, Framed(fs, sc, e, sn), NEW n, NEW val,
         NEW r, NEW q, NEW t, Declared(sc, e, sn, n, val, r, q, t)
  PROVE  Framed(fs, r, q, t)
<1> DEFINE l == Len(fs)
           m == Len(sc)
<1>1. /\ fs \in Seq(Frames) /\ sc \in Seq(Scopes) /\ e \in Seq(EnvMaps)
      /\ sn \in Seq(SUBSET Locals) /\ Shaped(fs, sc, e, sn) /\ Returns(fs, sc, sn)
      /\ AllFrozen(fs, sc) /\ Listed(sc)
  BY DEF Framed
<1>2. /\ l \in Nat \ {0} /\ DOMAIN fs = 1 .. l /\ Len(sn) = l /\ l \in 1 .. l
      /\ ScopeAt(fs, l) = m /\ m \in Nat /\ m >= 2 /\ Len(e) = m /\ DOMAIN sc = 1 .. m
      /\ DOMAIN sn = 1 .. l /\ DOMAIN e = 1 .. m
      /\ Layered(sc) /\ \A d \in 1 .. l : ScopeAt(fs, d) \in 1 .. m
      /\ m \in 1 .. m /\ 1 \in 1 .. m /\ 2 \in 1 .. m /\ m # 1
  BY FramedFacts
<1>3. /\ r \in Seq(Scopes) /\ Len(r) = m /\ r[m].vars = With(sc[m].vars, n, val)
      /\ \A i \in 1 .. m : i # m => r[i].vars = sc[i].vars
      /\ \A i \in 1 .. m : /\ r[i].copyOut = sc[i].copyOut /\ r[i].ret = sc[i].ret
                          /\ r[i].states = sc[i].states /\ r[i].exprs = sc[i].exprs
  <2>1. n \in Names /\ val \in Store /\ r = DeclareVar(sc, n, val) /\ Len(sc) > 0
    BY <1>2 DEF Declared, Names
  <2>2. /\ r \in Seq(Scopes) /\ Len(r) = m
        /\ \A i \in 1 .. m :
             /\ r[i].vars = IF i = m THEN With(sc[i].vars, n, val) ELSE sc[i].vars
             /\ r[i].copyOut = sc[i].copyOut /\ r[i].ret = sc[i].ret
             /\ r[i].states = sc[i].states /\ r[i].exprs = sc[i].exprs
    BY <1>1, <2>1, DeclareFacts
  <2> HIDE DEF m
  <2> QED BY <1>2, <2>2
<1>4. DOMAIN r = 1 .. m
  BY <1>3
<1>5. /\ q \in Seq(EnvMaps) /\ Len(q) = m
      /\ q[m] = With(e[m], n, val) /\ \A i \in 1 .. m : i # m => q[i] = e[i]
  <2>1. e[m] \in EnvMaps
    BY <1>1, <1>2
  <2>2. With(e[m], n, val) \in EnvMaps
    <3>1. n \in Names \cup {"result"} /\ val \in Store
      BY DEF Declared, Names
    <3> QED BY <2>1, <3>1, WithEnvType
  <2>3. q = [e EXCEPT ![m] = With(e[m], n, val)]
    BY <1>2 DEF Declared
  <2> QED BY <1>1, <1>2, <2>2, <2>3
<1>6. /\ t \in Seq(SUBSET Locals) /\ Len(t) = l
      /\ t[l] = sn[l] \cup {n} /\ \A d \in 1 .. l : d # l => t[d] = sn[d]
  <2>1. sn[l] \cup {n} \in SUBSET Locals
    <3>1. sn[l] \in SUBSET Locals
      BY <1>1, <1>2
    <3> QED BY <3>1 DEF Declared
  <2>2. t = [sn EXCEPT ![l] = sn[l] \cup {n}]
    BY <1>2 DEF Declared
  <2> DEFINE x == sn[l] \cup {n}
  <2> HIDE DEF x, l
  <2>3. t \in Seq(SUBSET Locals) /\ Len(t) = l
    BY <1>1, <1>2, <2>1, <2>2 DEF x
  <2>4. t[l] = sn[l] \cup {n} /\ \A d \in 1 .. l : d # l => t[d] = sn[d]
    BY <1>2, <2>2
  <2> QED BY <2>3, <2>4
<1>7. /\ DOMAIN r[m].vars = DOMAIN sc[m].vars \cup {n}
      /\ DOMAIN q[m] = DOMAIN e[m] \cup {n}
  BY <1>3, <1>5 DEF With
<1> HIDE DEF l, m
<1>8. Layered(r)
  <2>1. Len(r) > 1 /\ DOMAIN r[1].vars = Globals /\ Globals \subseteq DOMAIN r[2].vars
    <3>1. DOMAIN r[1].vars = DOMAIN sc[1].vars
      BY <1>2, <1>3
    <3>2. DOMAIN sc[2].vars \subseteq DOMAIN r[2].vars
      BY <1>2, <1>3, <1>7
    <3> QED BY <1>2, <1>3, <3>1, <3>2 DEF Layered
  <2>2. r[2].copyOut = [x \in Globals |-> x]
    BY <1>2, <1>3 DEF Layered
  <2>3. \A i \in DOMAIN r : i > 2 => DOMAIN r[i].vars \subseteq Locals
    <3>1. n \in Locals
      BY DEF Declared
    <3>2. \A i \in 1 .. m : i > 2 => DOMAIN sc[i].vars \subseteq Locals
      BY <1>2 DEF Layered
    <3> QED BY <1>2, <1>3, <1>4, <1>7, <3>1, <3>2
  <2> QED BY <2>1, <2>2, <2>3 DEF Layered
<1>9. Shaped(fs, r, q, t)
  <2>1. fs # <<>> /\ fs[1].kind = "call" /\ DOMAIN q[1] = Globals
    BY <1>1, <1>2, <1>5 DEF Shaped
  <2>2. \A i \in DOMAIN r : DOMAIN r[i].vars \subseteq DOMAIN q[i]
    <3>1. \A i \in 1 .. m : DOMAIN sc[i].vars \subseteq DOMAIN e[i]
      BY <1>1, <1>2 DEF Shaped
    <3> QED BY <1>3, <1>4, <1>5, <1>7, <3>1
  <2>3. \A d \in DOMAIN fs : t[d] \subseteq DOMAIN r[ScopeAt(fs, d)].vars
    <3>1. \A d \in 1 .. l : sn[d] \subseteq DOMAIN sc[ScopeAt(fs, d)].vars
      BY <1>1, <1>2 DEF Shaped
    <3>2. \A i \in 1 .. m : DOMAIN sc[i].vars \subseteq DOMAIN r[i].vars
      BY <1>3, <1>7
    <3>3. t[l] \subseteq DOMAIN r[ScopeAt(fs, l)].vars
      BY <1>2, <1>6, <1>7, <3>1
    <3>4. \A d \in 1 .. l : d # l => t[d] \subseteq DOMAIN r[ScopeAt(fs, d)].vars
      BY <1>2, <1>6, <3>1, <3>2
    <3> QED BY <1>2, <3>3, <3>4
  <2>4. ASSUME NEW d \in DOMAIN fs, NEW k \in DOMAIN fs, d < k, ScopeAt(fs, d) = ScopeAt(fs, k)
        PROVE  t[d] \subseteq t[k]
    <3>1. d # l
      BY <1>2, <2>4
    <3>2. sn[d] \subseteq sn[k]
      BY <1>1, <2>4 DEF Shaped
    <3>3. sn[k] \subseteq t[k]
      BY <1>2, <1>6, SMTT(30)
    <3> QED BY <1>2, <1>6, <3>1, <3>2, <3>3
  <2>5. Len(t) = Len(fs) /\ Len(r) = ScopeAt(fs, Len(fs)) /\ Len(q) = Len(r)
    BY <1>2, <1>3, <1>5, <1>6 DEF l
  <2> QED BY <1>8, <2>1, <2>2, <2>3, <2>4, <2>5 DEF Shaped
<1>10. Returns(fs, r, t)
  <2>1. ASSUME NEW d \in DOMAIN fs, d > 1, fs[d].kind = "call"
        PROVE  /\ fs[d].result \in t[d - 1] \cup Globals \cup {"none", "operand"}
               /\ \A x \in DOMAIN r[ScopeAt(fs, d)].copyOut :
                    /\ x \in t[d - 1] \cup Globals
                    /\ r[ScopeAt(fs, d)].copyOut[x] \in t[d]
    <3>1. d \in 1 .. l /\ d - 1 \in 1 .. l
      BY <1>2, <2>1
    <3>2. sn[d - 1] \subseteq t[d - 1]
      BY <1>6, <3>1
    <3>3. sn[d] \subseteq t[d]
      BY <1>6, <3>1
    <3>4. r[ScopeAt(fs, d)].copyOut = sc[ScopeAt(fs, d)].copyOut
      BY <1>2, <1>3, <3>1
    <3>5. /\ fs[d].result \in sn[d - 1] \cup Globals \cup {"none", "operand"}
          /\ \A x \in DOMAIN sc[ScopeAt(fs, d)].copyOut :
               /\ x \in sn[d - 1] \cup Globals
               /\ sc[ScopeAt(fs, d)].copyOut[x] \in sn[d]
      BY <1>1, <2>1 DEF Returns
    <3> QED BY <3>2, <3>3, <3>4, <3>5
  <2> QED BY <2>1 DEF Returns
<1>11. Under(sc, r, m)
  <2>1. \A j \in 1 .. m - 1 : j \in 1 .. m /\ j # m
    BY <1>2
  <2>2. \A j \in 1 .. m : DOMAIN sc[j].vars \subseteq DOMAIN r[j].vars
    BY <1>3, <1>7
  <2>3. \A j \in 1 .. m - 1 : r[j].vars = sc[j].vars
    BY <1>3, <2>1
  <2> QED BY <2>2, <2>3 DEF Under
<1>12. AllFrozen(fs, r)
  <2>1. ASSUME NEW d \in DOMAIN fs
        PROVE  /\ fs[d].kind # "call" => Frozen(r, fs[d].old, ScopeAt(fs, d))
               /\ fs[d].kind = "else" => Frozen(r, fs[d].kept, ScopeAt(fs, d))
    <3>1. m \in Nat /\ ScopeAt(fs, d) \in 1 .. m
      BY <1>2, <2>1
    <3>2. /\ fs[d].kind # "call" => Frozen(sc, fs[d].old, ScopeAt(fs, d))
          /\ fs[d].kind = "else" => Frozen(sc, fs[d].kept, ScopeAt(fs, d))
      BY <1>1, <2>1 DEF AllFrozen
    <3>3. fs[d].kind # "call" => Frozen(r, fs[d].old, ScopeAt(fs, d))
      BY <1>11, <3>1, <3>2, FrozenStays
    <3>4. fs[d].kind = "else" => Frozen(r, fs[d].kept, ScopeAt(fs, d))
      BY <1>11, <3>1, <3>2, FrozenStays
    <3> QED BY <3>3, <3>4
  <2>2. ASSUME NEW i \in DOMAIN r, NEW k \in DOMAIN r[i].states
        PROVE  Frozen(r, r[i].states[k].map, i)
    <3>1. i \in 1 .. m /\ m \in Nat /\ r[i].states = sc[i].states
      BY <1>2, <1>3, <1>4
    <3>2. Frozen(sc, r[i].states[k].map, i)
      BY <1>1, <1>2, <3>1, <2>2 DEF AllFrozen
    <3> QED BY <1>11, <3>1, <3>2, FrozenStays
  <2> QED BY <2>1, <2>2 DEF AllFrozen
<1>13. Listed(r)
  <2>1. ASSUME NEW i \in DOMAIN r
        PROVE  /\ Apart(r[i].states, r[i].ret) /\ Len(r[i].exprs) = Len(r[i].states)
               /\ \A k \in DOMAIN r[i].states : r[i].exprs[k].cond = r[i].states[k].cond
    <3>1. i \in 1 .. m /\ i \in DOMAIN sc
      BY <1>2, <1>4
    <3>2. r[i].ret = sc[i].ret /\ r[i].states = sc[i].states /\ r[i].exprs = sc[i].exprs
      BY <1>3, <3>1
    <3> QED BY <1>1, <3>1, <3>2 DEF Listed
  <2> QED BY <2>1 DEF Listed
<1> QED BY <1>1, <1>3, <1>5, <1>6, <1>9, <1>10, <1>12, <1>13 DEF Framed

LEMMA NestPush ==
  ASSUME NEW fs \in Seq(Frames), NEW cond, Nested(fs, cond), NEW f \in Frames, f.fwd = cond
  PROVE  Nested(Append(fs, f), Inside(f))
<1> DEFINE g == Append(fs, f)
           n == Len(fs)
<1>1. /\ n \in Nat /\ DOMAIN fs = 1 .. n /\ Len(g) = n + 1 /\ DOMAIN g = 1 .. n + 1
      /\ g[n + 1] = f /\ \A d \in 1 .. n : g[d] = fs[d]
  BY AppendFacts
<1>2. /\ cond = Outer(fs, n) /\ \A d \in 1 .. n : fs[d].fwd = Outer(fs, d - 1)
      /\ \A d, k \in 1 .. n : d < k => fs[k].fwd \subseteq Outer(fs, d)
  BY <1>1 DEF Nested
<1> HIDE DEF g, n
<1>3. \A d \in 1 .. n : Outer(g, d) = Outer(fs, d)
  BY <1>1 DEF Outer
<1>4. Outer(g, 0) = Outer(fs, 0)
  BY DEF Outer
<1>5. Outer(g, n + 1) = Inside(f)
  BY <1>1 DEF Outer
<1>6. \A k : Inside(k) \subseteq k.fwd
  BY DEF Inside
<1>7. ASSUME NEW d \in 1 .. n + 1 PROVE g[d].fwd = Outer(g, d - 1)
  <2>1. CASE d \in 1 .. n
    <3>1. d - 1 = 0 \/ d - 1 \in 1 .. n
      BY <1>1, <2>1
    <3> QED BY <1>1, <1>2, <1>3, <1>4, <2>1, <3>1
  <2>2. CASE d = n + 1
    <3>1. d - 1 = n /\ (n = 0 \/ n \in 1 .. n)
      BY <1>1, <2>2
    <3> QED BY <1>1, <1>2, <1>3, <1>4, <2>2, <3>1
  <2> QED BY <1>1, <2>1, <2>2
<1>8. ASSUME NEW d \in 1 .. n + 1, NEW k \in 1 .. n + 1, d < k PROVE g[k].fwd \subseteq Outer(g, d)
  <2>1. d \in 1 .. n
    BY <1>1, <1>8
  <2>2. CASE k \in 1 .. n
    BY <1>1, <1>2, <1>3, <1>8, <2>1, <2>2
  <2>3. CASE k = n + 1
    <3>1. g[k].fwd = Outer(fs, n)
      BY <1>1, <1>2, <2>3
    <3>2. CASE d = n
      BY <1>3, <2>1, <3>1, <3>2
    <3>3. CASE d < n
      <4>1. n \in 1 .. n /\ n # 0
        BY <1>1, <2>1
      <4>2. fs[n].fwd \subseteq Outer(fs, d)
        BY <1>2, <2>1, <3>3, <4>1
      <4>3. Outer(fs, n) = Inside(fs[n])
        BY <4>1 DEF Outer
      <4> QED BY <1>3, <1>6, <2>1, <3>1, <4>2, <4>3
    <3> QED BY <1>1, <2>1, <3>2, <3>3
  <2> QED BY <1>1, <2>2, <2>3
<1> QED BY <1>1, <1>5, <1>7, <1>8 DEF Nested, g

LEMMA NestPop ==
  ASSUME NEW fs \in Seq(Frames), NEW cond, Nested(fs, cond), fs # <<>>
  PROVE  Nested(Front(fs), Last(fs).fwd)
<1> DEFINE g == Front(fs)
           n == Len(fs)
<1>1. /\ n \in Nat \ {0} /\ DOMAIN fs = 1 .. n /\ Len(g) = n - 1 /\ DOMAIN g = 1 .. n - 1
      /\ Last(fs) = fs[n] /\ \A d \in 1 .. n - 1 : g[d] = fs[d]
  BY FrontFacts
<1>2. /\ \A d \in 1 .. n : fs[d].fwd = Outer(fs, d - 1)
      /\ \A d, k \in 1 .. n : d < k => fs[k].fwd \subseteq Outer(fs, d)
  BY <1>1 DEF Nested
<1> HIDE DEF g, n
<1>3. \A d \in 1 .. n - 1 : Outer(g, d) = Outer(fs, d) /\ d \in 1 .. n
  BY <1>1 DEF Outer
<1>4. Outer(g, 0) = Outer(fs, 0)
  BY DEF Outer
<1>5. \A d \in 1 .. n : d - 1 = 0 \/ d - 1 \in 1 .. n - 1
  BY <1>1
<1>6. n \in 1 .. n
  BY <1>1
<1>7. Last(fs).fwd = Outer(g, n - 1)
  BY <1>1, <1>2, <1>3, <1>4, <1>5, <1>6
<1>8. \A d \in 1 .. n - 1 : g[d].fwd = Outer(g, d - 1)
  BY <1>1, <1>2, <1>3, <1>4, <1>5
<1>9. \A d, k \in 1 .. n - 1 : d < k => g[k].fwd \subseteq Outer(g, d)
  BY <1>1, <1>2, <1>3
<1> QED BY <1>1, <1>7, <1>8, <1>9 DEF Nested, g

-----------------------------------------------------------------------------
(* The block, and where its worlds are *)

LEMMA InBlock ==
  ASSUME IInv, frames # <<>>
  PROVE  /\ TypeOK /\ Framed(frames, scopes, env, seen) /\ Nested(frames, fwd)
         /\ Skipping /\ Apart(exits, exitCond)
         /\ \A w \in Worlds : Located(w) /\ Accounted(w)
<1>1. TypeOK /\ Running
  BY DEF IInv
<1>2. Apart(exits, exitCond) /\ Listed(scopes)
  BY <1>1 DEF Running, Recorded, Listed
<1>3. Framed(frames, scopes, env, seen)
  BY <1>1, <1>2 DEF Running, Framed, TypeOK
<1> QED BY <1>1, <1>2, <1>3 DEF Running

LEMMA StillInBlock ==
  ASSUME TypeOK', Framed(frames', scopes', env', seen'), Nested(frames', fwd'), Skipping',
         Apart(exits', exitCond'), \A w \in Worlds : Located(w)' /\ Accounted(w)'
  PROVE  IInv'
<1>1. frames' # <<>> /\ scopes' # <<>>
  BY FramedFacts
<1>2. Recorded'
  BY DEF Framed, Recorded, Listed
<1>3. Running'
  BY <1>2 DEF Running, Framed
<1> QED BY <1>1, <1>3 DEF IInv, OutputsAgree

\* Where a name is that a statement can use.
Used(sc, e, n, i) ==
  /\ n \in Visible(sc) /\ Owner(sc, n) = i /\ Place(e, n) = i
  /\ i \in 2 .. Len(sc) /\ i = (IF n \in Globals THEN 2 ELSE Len(sc))
  /\ n \in DOMAIN sc[i].vars /\ n \in DOMAIN e[i]
  /\ GetVar(sc, n) = sc[i].vars[n] /\ GetVar(sc, n) \in Store
  /\ Value(e, n) = e[i][n] /\ Value(e, n) \in Store

LEMMA UsableFacts ==
  ASSUME NEW fs, NEW sc, NEW e, NEW sn, Framed(fs, sc, e, sn),
         NEW n \in Last(sn) \cup Globals
  PROVE  Used(sc, e, n, IF n \in Globals THEN 2 ELSE Len(sc)) /\ (n \in Globals \/ n \in Locals)
<1> DEFINE m == Len(sc)
<1>1. /\ sc \in Seq(Scopes) /\ e \in Seq(EnvMaps) /\ m \in Nat \ {0} /\ m >= 2 /\ Layered(sc)
      /\ Len(e) = m /\ \A i \in 1 .. m : DOMAIN sc[i].vars \subseteq DOMAIN e[i]
      /\ DOMAIN sc = 1 .. m
      /\ Last(sn) = sn[Len(fs)] /\ Len(fs) \in 1 .. Len(fs) /\ ScopeAt(fs, Len(fs)) = m
  BY FramedFacts DEF Framed
<1>2. Last(sn) \subseteq DOMAIN sc[m].vars /\ Last(sn) \subseteq Locals
  BY <1>1, FramedFacts
<1>3. 2 \in 1 .. m /\ m \in 1 .. m /\ 2 \in 2 .. m /\ m \in 2 .. m
  BY <1>1
<1>4. CASE n \in Globals
  <2>1. n \in Visible(sc) /\ Owner(sc, n) = 2 /\ GetVar(sc, n) = sc[2].vars[n] /\ n \in DOMAIN sc[2].vars
    BY <1>1, <1>4, GlobalOwner
  <2>2. Place(e, n) = 2
    BY <1>1, <1>4 DEF Place
  <2>3. n \in DOMAIN e[2]
    BY <1>1, <1>3, <2>1
  <2>4. e[2][n] \in Store
    BY <1>1, <1>3, <2>3, EnvValue
  <2>5. sc[2].vars[n] \in Store
    BY <1>1, <1>3, <2>1, VarValue
  <2>6. Value(e, n) = e[2][n]
    BY <2>2 DEF Value
  <2> HIDE DEF m
  <2> QED BY <1>3, <1>4, <2>1, <2>2, <2>3, <2>4, <2>5, <2>6 DEF Used, m
<1>5. CASE n \notin Globals
  <2>1. n \in DOMAIN sc[m].vars /\ n \in Locals
    BY <1>2, <1>5
  <2>2. n \in Visible(sc) /\ Owner(sc, n) = m /\ GetVar(sc, n) = sc[m].vars[n]
    BY <1>1, <2>1, LastOwner
  <2>3. Place(e, n) = m
    BY <1>1, <1>5 DEF Place
  <2>4. n \in DOMAIN e[m]
    BY <1>1, <1>3, <2>1
  <2>5. e[m][n] \in Store
    BY <1>1, <1>3, <2>4, EnvValue
  <2>6. sc[m].vars[n] \in Store
    BY <1>1, <1>3, <2>1, VarValue
  <2>7. Value(e, n) = e[m][n]
    BY <2>3 DEF Value
  <2> QED BY <1>3, <1>5, <2>1, <2>2, <2>3, <2>4, <2>5, <2>6, <2>7 DEF Used
<1> QED BY <1>4, <1>5

LEMMA FwdInside ==
  ASSUME NEW fs \in Seq(Frames), NEW cond, Nested(fs, cond), NEW d \in DOMAIN fs
  PROVE  cond \subseteq Inside(fs[d])
<1> DEFINE n == Len(fs)
<1>1. n \in Nat /\ DOMAIN fs = 1 .. n /\ d \in 1 .. n /\ n \in 1 .. n /\ n # 0 /\ d # 0
  OBVIOUS
<1>2. cond = Inside(fs[n])
  BY <1>1 DEF Nested, Outer
<1>3. CASE d = n
  BY <1>2, <1>3
<1>4. CASE d < n
  <2>1. fs[n].fwd \subseteq Outer(fs, d)
    BY <1>1, <1>4 DEF Nested
  <2>2. Outer(fs, d) = Inside(fs[d])
    BY <1>1 DEF Outer
  <2>3. Inside(fs[n]) \subseteq fs[n].fwd
    BY DEF Inside
  <2> QED BY <1>2, <2>1, <2>2, <2>3
<1> QED BY <1>1, <1>3, <1>4

\* The condition of the path is that of the worlds that run the statement.
LEMMA PathLive ==
  ASSUME IInv, frames # <<>>
  PROVE  \A w \in Worlds : status[w] = "live" <=> w \in PathCond /\ w \in exitCond
<1>1. /\ frames \in Seq(Frames) /\ Nested(frames, fwd) /\ DOMAIN scopes = 1 .. Len(scopes)
      /\ fwd \subseteq Worlds
  BY InBlock, FramedFacts DEF Framed, TypeOK
<1> SUFFICES ASSUME NEW w \in Worlds
             PROVE  status[w] = "live" <=> w \in PathCond /\ w \in exitCond
  OBVIOUS
<1>2. Located(w)
  BY InBlock
<1>3. PathCond \subseteq fwd /\ (w \in PathCond <=> w \in fwd /\ \A i \in DOMAIN scopes : w \in scopes[i].ret)
  BY DEF PathCond
<1>4. ASSUME status[w] = "live" PROVE w \in PathCond /\ w \in exitCond
  BY <1>1, <1>2, <1>3, <1>4 DEF Located, HasNotReturned
<1>5. ASSUME w \in PathCond, w \in exitCond PROVE status[w] = "live"
  <2> SUFFICES ASSUME status[w] # "live" PROVE FALSE
    OBVIOUS
  <2>1. at[w] \in DOMAIN frames
    BY <1>2, <1>5 DEF Located, Home
  <2>2. w \in Inside(frames[at[w]])
    BY <1>1, <1>3, <1>5, <2>1, FwdInside
  <2>3. ScopeOf(at[w]) \in DOMAIN scopes
    <3>1. at[w] \in 1 .. Len(frames) /\ ScopeAt(frames, at[w]) \in 2 .. Len(scopes)
      BY <2>1, InBlock, FramedFacts
    <3>2. Len(scopes) \in Nat
      BY InBlock, FramedFacts
    <3> QED BY <1>1, <3>1, <3>2 DEF ScopeOf
  <2>4. w \in scopes[ScopeOf(at[w])].ret
    BY <1>3, <1>5, <2>3
  <2> QED BY <1>2, <1>5, <2>2, <2>4 DEF Located, Home, Inside
<1> QED BY <1>4, <1>5

\* A world that runs the statement finds its variables in the scopes.
LEMMA LiveFacts ==
  ASSUME IInv, frames # <<>>, NEW w \in Worlds, status[w] = "live"
  PROVE  /\ Agree(frames, seen, scopes, env, w, Len(scopes))
         /\ w \in exitCond /\ w \in fwd /\ \A j \in 1 .. Len(scopes) : w \in scopes[j].ret
<1>1. /\ Framed(frames, scopes, env, seen) /\ Located(w) /\ Accounted(w)
      /\ Shaped(frames, scopes, env, seen)
  BY InBlock DEF Framed
<1>2. /\ Len(frames) \in Nat \ {0} /\ DOMAIN frames = 1 .. Len(frames)
      /\ Last(seen) = seen[Len(frames)] /\ Last(scopes) = scopes[Len(scopes)]
      /\ Last(env) = env[Len(scopes)] /\ ScopeAt(frames, Len(frames)) = Len(scopes)
      /\ Len(scopes) \in Nat
      /\ \A d \in 1 .. Len(frames) : ScopeAt(frames, d) \in 2 .. Len(scopes)
  BY <1>1, FramedFacts
<1>3. ASSUME NEW d \in DOMAIN frames, NEW n \in seen[d]
      PROVE  scopes[ScopeAt(frames, d)].vars[n][w] = env[ScopeAt(frames, d)][n][w]
  <2>1. CASE ScopeAt(frames, d) = Len(scopes)
    <3>1. seen[d] \subseteq Last(seen)
      <4>1. d = Len(frames) \/ d < Len(frames)
        BY <1>2
      <4>2. d < Len(frames) => seen[d] \subseteq seen[Len(frames)]
        BY <1>1, <1>2, <2>1 DEF Shaped
      <4> QED BY <1>2, <4>1, <4>2
    <3> QED BY <1>1, <1>2, <1>3, <2>1, <3>1 DEF Accounted
  <2>2. CASE ScopeAt(frames, d) # Len(scopes)
    <3>1. ScopeAt(frames, d) < Len(scopes)
      BY <1>2, <2>2
    <3>2. ScopeOf(d) < ScopeOf(Home(w))
      BY <1>2, <3>1 DEF ScopeOf, Home
    <3> QED BY <1>1, <1>3, <3>2 DEF Accounted, ScopeOf
  <2> QED BY <2>1, <2>2
<1>4. Agree(frames, seen, scopes, env, w, Len(scopes))
  BY <1>1, <1>3 DEF Agree, Accounted
<1>5. w \in exitCond /\ w \in fwd /\ \A j \in 1 .. Len(scopes) : w \in scopes[j].ret
  BY <1>1 DEF Located, HasNotReturned
<1> QED BY <1>4, <1>5

LEMMA LiveBack ==
  ASSUME Framed(frames', scopes', env', seen'), NEW w \in Worlds, status'[w] = "live",
         Agree(frames', seen', scopes', env', w, Len(scopes')),
         w \in exitCond', w \in fwd', \A j \in 1 .. Len(scopes') : w \in scopes'[j].ret
  PROVE  Located(w)' /\ Accounted(w)'
<1>2. /\ Len(frames') \in Nat \ {0} /\ DOMAIN frames' = 1 .. Len(frames')
      /\ Last(seen') = seen'[Len(frames')] /\ Last(scopes') = scopes'[Len(scopes')]
      /\ Last(env') = env'[Len(scopes')] /\ ScopeAt(frames', Len(frames')) = Len(scopes')
      /\ Len(scopes') \in Nat /\ Len(scopes') >= 2 /\ Len(frames') \in DOMAIN frames'
      /\ \A d \in 1 .. Len(frames') : ScopeAt(frames', d) \in 2 .. Len(scopes')
  BY FramedFacts
<1>3. Home(w)' = Len(frames')
  BY DEF Home
<1>4. Located(w)'
  BY <1>2, <1>3 DEF Located, HasNotReturned
<1>5. \A n \in Last(seen') : Last(scopes').vars[n][w] = Last(env')[n][w]
  BY <1>2 DEF Agree
<1>6. \A n \in Globals : scopes'[2].vars[n][w] = env'[2][n][w]
  BY <1>2 DEF Agree
<1>7. \A d \in DOMAIN frames' : \A n \in seen'[d] :
        scopes'[ScopeAt(frames', d)].vars[n][w] = env'[ScopeAt(frames', d)][n][w]
  <2>1. \A d \in DOMAIN frames' : ScopeAt(frames', d) <= Len(scopes')
    BY <1>2
  <2> QED BY <2>1 DEF Agree
<1>8. Accounted(w)'
  BY <1>5, <1>6, <1>7 DEF Accounted, ScopeOf
<1> QED BY <1>4, <1>8

\* What keeps the place and the values of a world that does not run the statement.
StaysIn(w) ==
  /\ at[w] \in DOMAIN frames' /\ w \in exitCond'
  /\ \A d \in 1 .. at[w] : frames'[d] = frames[d]
  /\ \A d \in 1 .. at[w] - 1 : seen'[d] = seen[d]

Stays(w, m) ==
  /\ status[w] # "live" /\ status'[w] = status[w] /\ at'[w] = at[w]
  /\ m \in 2 .. Len(scopes) /\ m <= Len(scopes') /\ Under(scopes, scopes', m)
  /\ status[w] # "exited" => ScopeOf(at[w]) <= m /\ StaysIn(w)
  /\ status[w] = "exited" => w \notin exitCond'
  /\ \A i \in 1 .. m :
       /\ status[w] # "exited" => (w \in scopes'[i].ret <=> w \in scopes[i].ret)
       /\ scopes'[i].copyOut = scopes[i].copyOut
       /\ \A k \in DOMAIN scopes[i].states :
            /\ k \in DOMAIN scopes'[i].states /\ scopes'[i].states[k] = scopes[i].states[k]
            /\ scopes'[i].exprs[k] = scopes[i].exprs[k]
       /\ \A n \in DOMAIN env[i] :
            /\ n \in DOMAIN env'[i]
            /\ env'[i][n][w] = env[i][n][w] \/ (i = Len(scopes) /\ n \in Locals \ Last(seen))
  /\ \A k \in DOMAIN exits : k \in DOMAIN exits' /\ exits'[k] = exits[k]

\* The names of a call that ends are known where it is left.
LEMMA ReturnedNames ==
  ASSUME NEW fs, NEW sc, NEW e, NEW sn, Framed(fs, sc, e, sn), NEW d \in DOMAIN fs,
         fs[d].kind = "call", NEW n \in DOMAIN sc[ScopeAt(fs, d)].copyOut
  PROVE  /\ sc[ScopeAt(fs, d)].copyOut[n] \in sn[d] \cup Globals
         /\ sc[ScopeAt(fs, d)].copyOut[n] \in Globals => ScopeAt(fs, d) = 2
         /\ d > 1 => n \in sn[d - 1] \cup Globals
<1>1. /\ Layered(sc) /\ DOMAIN fs = 1 .. Len(fs) /\ Returns(fs, sc, sn) /\ Len(fs) \in Nat
      /\ Shaped(fs, sc, e, sn) /\ fs \in Seq(Frames)
      /\ \A k \in 1 .. Len(fs) : sn[k] \subseteq Locals
  BY FramedFacts DEF Framed
<1>2. CASE d = 1
  <2>1. ScopeAt(fs, 1) = 2
    BY <1>1, <1>2, ScopeBounds DEF Shaped
  <2>2. n \in Globals /\ sc[2].copyOut[n] = n
    BY <1>1, <1>2, <2>1 DEF Layered
  <2> QED BY <1>1, <1>2, <2>1, <2>2
<1>3. CASE d # 1
  <2>1. d > 1
    BY <1>1, <1>3
  <2>2. sc[ScopeAt(fs, d)].copyOut[n] \in sn[d] /\ n \in sn[d - 1] \cup Globals
    BY <1>1, <2>1 DEF Returns
  <2>3. sn[d] \cap Globals = {}
    BY <1>1, NamesAssumption
  <2> QED BY <2>2, <2>3
<1> QED BY <1>2, <1>3

LEMMA StaysInPlace ==
  ASSUME IInv, frames # <<>>, Framed(frames', scopes', env', seen'),
         NEW w \in Worlds, NEW m, Stays(w, m)
  PROVE  Located(w)' /\ Accounted(w)'
<1>1. /\ Framed(frames, scopes, env, seen) /\ Located(w) /\ Accounted(w)
      /\ Shaped(frames, scopes, env, seen)
  BY InBlock DEF Framed
<1>2. /\ Len(frames) \in Nat \ {0} /\ DOMAIN frames = 1 .. Len(frames)
      /\ Last(seen) = seen[Len(frames)] /\ ScopeAt(frames, Len(frames)) = Len(scopes)
      /\ Len(scopes) \in Nat /\ Layered(scopes)
      /\ \A d \in 1 .. Len(frames) : ScopeAt(frames, d) \in 2 .. Len(scopes)
      /\ \A d \in 1 .. Len(frames) : seen[d] \subseteq Locals
      /\ \A d \in 1 .. Len(frames) : seen[d] \subseteq DOMAIN scopes[ScopeAt(frames, d)].vars
      /\ \A i \in 1 .. Len(scopes) : DOMAIN scopes[i].vars \subseteq DOMAIN env[i]
  BY <1>1, FramedFacts
<1>3. /\ status[w] # "live" /\ status'[w] = status[w] /\ at'[w] = at[w]
      /\ m \in 2 .. Len(scopes) /\ m <= Len(scopes') /\ m \in Nat
      /\ Under(scopes, scopes', m)
  BY <1>2 DEF Stays
<1>4. \A i \in 1 .. m : /\ i \in 1 .. Len(scopes) /\ i \in Nat
                        /\ i < m => i \in 1 .. m - 1 /\ i # Len(scopes)
  BY <1>2, <1>3
<1>5. \A i \in 1 .. m : \A n \in DOMAIN env[i] :
        /\ n \in DOMAIN env'[i]
        /\ env'[i][n][w] = env[i][n][w] \/ (i = Len(scopes) /\ n \in Locals \ Last(seen))
  BY DEF Stays
<1>6. \A n \in Globals : /\ n \in DOMAIN env[1] /\ n \in DOMAIN env[2] /\ n \notin Locals
                         /\ env'[1][n][w] = env[1][n][w] /\ env'[2][n][w] = env[2][n][w]
  <2>1. 1 \in 1 .. m /\ 2 \in 1 .. m
    BY <1>3
  <2>2. \A n \in Globals : n \in DOMAIN scopes[1].vars /\ n \in DOMAIN scopes[2].vars
    BY <1>2 DEF Layered
  <2>3. \A n \in Globals : n \in DOMAIN env[1] /\ n \in DOMAIN env[2]
    BY <1>2, <1>4, <2>1, <2>2
  <2> QED BY <1>5, <2>1, <2>3, NamesAssumption
<1>7. CASE status[w] = "exited"
  <2>1. w \notin exitCond'
    BY <1>7 DEF Stays
  <2>2. Located(w)'
    BY <1>3, <1>7, <2>1 DEF Located
  <2>3. PICK k \in DOMAIN exits : /\ w \in exits[k].cond
                                  /\ \A n \in Globals : Has(exits[k].map, n, w, env[1][n])
    BY <1>1, <1>7 DEF Accounted, HasExited
  <2>4. k \in DOMAIN exits' /\ exits'[k] = exits[k]
    BY DEF Stays
  <2>5. \A n \in Globals : Has(exits'[k].map, n, w, env'[1][n])
    BY <1>6, <2>3, <2>4 DEF Has
  <2>6. HasExited(w)'
    BY <2>3, <2>4, <2>5 DEF HasExited
  <2> QED BY <1>3, <1>7, <2>2, <2>6 DEF Accounted
<1>8. CASE status[w] # "exited"
  <2>0. PICK a : a = at[w]
    OBVIOUS
  <2>1. a \in DOMAIN frames /\ w \in exitCond
    BY <1>1, <1>3, <1>8, <2>0 DEF Located, Home
  <2>2. /\ ScopeAt(frames, a) <= m /\ StaysIn(w)
    BY <1>8, <2>0 DEF Stays, ScopeOf
  <2>3. /\ a \in DOMAIN frames' /\ w \in exitCond' /\ frames'[a] = frames[a]
        /\ \A d \in 1 .. a - 1 : frames'[d] = frames[d] /\ seen'[d] = seen[d]
        /\ a \in Nat \ {0} /\ a \in 1 .. a /\ \A d \in 1 .. a : d \in Nat /\ d \in 1 .. Len(frames)
    <3>1. a \in Nat \ {0} /\ a \in 1 .. a /\ \A d \in 1 .. a : d \in Nat /\ d \in 1 .. Len(frames)
      BY <1>2, <2>1
    <3>2. \A d \in 1 .. a - 1 : d \in 1 .. a
      BY <3>1
    <3> QED BY <2>0, <2>2, <3>1, <3>2 DEF StaysIn
  <2>4. ASSUME NEW d \in 0 .. a PROVE ScopeAt(frames', d) = ScopeAt(frames, d)
    <3>1. d \in Nat /\ \A j \in 1 .. d : frames'[j].kind = frames[j].kind
      BY <2>0, <2>2, <2>3 DEF StaysIn
    <3> QED BY <3>1, ScopeSame
  <2>5. Home(w) = a /\ Home(w)' = a
    BY <1>3, <2>0 DEF Home
  <2>6. /\ ScopeOf(a) = ScopeAt(frames, a) /\ ScopeOf(a)' = ScopeAt(frames, a)
        /\ ScopeAt(frames, a) \in 2 .. m /\ ScopeAt(frames, a) \in 1 .. m
    <3>1. a \in 0 .. a
      BY <2>3
    <3>2. ScopeAt(frames, a) \in 2 .. Len(scopes)
      BY <1>2, <2>1
    <3>3. ScopeAt(frames, a) \in 2 .. m
      BY <1>2, <1>3, <2>2, <3>2
    <3>4. \A i \in 2 .. m : i \in 1 .. m
      OBVIOUS
    <3> QED BY <1>3, <2>4, <3>1, <3>3, <3>4 DEF ScopeOf
  <2>7. \A i \in 1 .. m : w \in scopes'[i].ret <=> w \in scopes[i].ret
    BY <1>8 DEF Stays
  <2>8. /\ HasNotReturned(w, ScopeOf(a)) => HasNotReturned(w, ScopeOf(a))'
        /\ HasNotReturned(w, ScopeOf(a) - 1) => HasNotReturned(w, ScopeOf(a) - 1)'
    <3>1. \A j \in 1 .. ScopeAt(frames, a) : j \in 1 .. m
      BY <1>3, <2>6
    <3>2. \A j \in 1 .. ScopeAt(frames, a) - 1 : j \in 1 .. m
      BY <1>3, <2>6
    <3> QED BY <2>6, <2>7, <3>1, <3>2 DEF HasNotReturned
  <2>9. Located(w)'
    <3>1. w \in scopes'[ScopeAt(frames, a)].ret <=> w \in scopes[ScopeAt(frames, a)].ret
      BY <2>6, <2>7
    <3>2. frames[Home(w)] = frames[a] /\ frames'[Home(w)'] = frames[a]
      BY <2>3, <2>5
    <3> QED BY <1>1, <1>3, <1>8, <2>1, <2>3, <2>5, <2>6, <2>8, <3>1, <3>2 DEF Located
  <2>10. ASSUME NEW d \in DOMAIN frames', ScopeOf(d)' < ScopeOf(Home(w))', NEW n \in seen'[d]
         PROVE  scopes'[ScopeOf(d)'].vars[n][w] = env'[ScopeOf(d)'][n][w]
    <3>1. d \in Nat \ {0}
      BY FramedFacts
    <3>2. ScopeAt(frames', d) < ScopeAt(frames, a)
      BY <2>5, <2>6, <2>10 DEF ScopeOf
    <3>3. d < a
      <4> SUFFICES ASSUME a <= d PROVE FALSE
        BY <2>3, <3>1
      <4>1. ScopeAt(frames', a) <= ScopeAt(frames', d)
        BY <2>3, <3>1, ScopeGrows
      <4>2. ScopeAt(frames', a) = ScopeAt(frames, a) /\ ScopeAt(frames', d) \in Nat
        BY <2>6, <3>1, ScopeType DEF ScopeOf
      <4> QED BY <1>3, <2>6, <3>2, <4>1, <4>2
    <3>4. d \in 1 .. a - 1 /\ d \in 0 .. a /\ d \in DOMAIN frames
      <4>1. d \in 1 .. a - 1 /\ d \in 0 .. a /\ d \in 1 .. a
        BY <2>3, <3>1, <3>3
      <4> QED BY <1>2, <2>3, <4>1
    <3> DEFINE i == ScopeAt(frames, d)
    <3>5. ScopeOf(d) = i /\ ScopeOf(d)' = i /\ seen'[d] = seen[d] /\ i < ScopeAt(frames, a)
      BY <2>3, <2>4, <3>2, <3>4 DEF ScopeOf
    <3>6. i \in 2 .. Len(scopes)
      BY <1>2, <3>4
    <3>7. i \in 1 .. m - 1 /\ i \in 1 .. m /\ i # Len(scopes)
      BY <1>2, <1>3, <2>6, <3>5, <3>6
    <3>8. n \in seen[d] /\ n \in Locals /\ n \in DOMAIN scopes[i].vars
      BY <1>2, <2>10, <3>4, <3>5
    <3>9. scopes[i].vars[n][w] = env[i][n][w]
      BY <1>1, <1>8, <2>5, <2>6, <3>4, <3>5, <3>8 DEF Accounted
    <3>10. scopes'[i].vars[n] = scopes[i].vars[n]
      BY <1>3, <3>7, <3>8 DEF Under
    <3>11. env'[i][n][w] = env[i][n][w]
      BY <1>2, <1>4, <1>5, <3>7, <3>8
    <3> QED BY <3>5, <3>9, <3>10, <3>11
  <2>11. ASSUME NEW map, frames[a].kind # "call", Saved(map, a - 1, w)
         PROVE  \A n \in Known(a - 1)' : Has(map, n, w, Meant(a - 1, n)')
    <3>1. a - 1 \in 1 .. a - 1 /\ a - 1 \in 0 .. a /\ a - 1 \in DOMAIN frames
      <4>1. a # 1
        BY <1>1, <2>11 DEF Shaped
      <4> QED BY <1>2, <2>1, <2>3, <4>1
    <3> DEFINE i == ScopeAt(frames, a - 1)
    <3>2. ScopeOf(a - 1) = i /\ ScopeOf(a - 1)' = i /\ seen'[a - 1] = seen[a - 1]
      BY <2>3, <2>4, <3>1 DEF ScopeOf
    <3>3. i \in 1 .. m
      <4>1. i <= ScopeAt(frames, a)
        BY <2>3, <3>1, ScopeGrows
      <4>2. i \in 2 .. Len(scopes)
        BY <1>2, <3>1
      <4> QED BY <1>3, <2>6, <4>1, <4>2
    <3>4. ASSUME NEW n \in Known(a - 1)
          PROVE  Meant(a - 1, n)'[w] = Meant(a - 1, n)[w]
      <4>1. CASE n \in Globals
        BY <1>6, <4>1 DEF Meant
      <4>2. CASE n \notin Globals
        <5>1. n \in seen[a - 1] /\ n \in DOMAIN env[i]
          BY <1>2, <1>4, <3>1, <3>3, <3>4, <4>2 DEF Known
        <5>2. i = Len(scopes) => n \in Last(seen)
          <6>1. a - 1 < Len(frames)
            BY <1>2, <2>1, <2>3
          <6> QED BY <1>1, <1>2, <3>1, <5>1, <6>1 DEF Shaped
        <5>3. env'[i][n][w] = env[i][n][w]
          BY <1>5, <3>3, <5>1, <5>2
        <5> QED BY <3>2, <4>2, <5>3 DEF Meant
      <4> QED BY <4>1, <4>2
    <3>5. Known(a - 1)' = Known(a - 1)
      BY <3>2 DEF Known
    <3> QED BY <2>11, <3>4, <3>5 DEF Saved, Has
  <2>12. ASSUME status[w] = "returned" PROVE HasLeft(w, ScopeOf(a))'
    <3>00. PICK i : i = ScopeAt(frames, a)
      OBVIOUS
    <3>0. i \in 1 .. m /\ frames[a].kind = "call" /\ ScopeOf(a) = i /\ ScopeOf(a)' = i
      BY <1>1, <2>5, <2>6, <2>12, <3>00 DEF Located
    <3>1. HasLeft(w, i)
      BY <1>1, <2>0, <2>12, <3>0 DEF Accounted
    <3>2. PICK k \in DOMAIN scopes[i].states :
            /\ w \in scopes[i].states[k].cond
            /\ \A n \in Globals : Has(scopes[i].states[k].map, n, w, env[2][n])
            /\ \A n \in Range(scopes[i].copyOut) :
                 Has(scopes[i].states[k].map, n, w, env[i][n])
            /\ "result" \in DOMAIN env[i]
            /\ scopes[i].exprs[k].val[w] = env[i]["result"][w]
      BY <3>1 DEF HasLeft
    <3>3. /\ k \in DOMAIN scopes'[i].states /\ scopes'[i].states[k] = scopes[i].states[k]
          /\ scopes'[i].exprs[k] = scopes[i].exprs[k]
          /\ scopes'[i].copyOut = scopes[i].copyOut
      BY <3>0 DEF Stays
    <3>4. "result" \in DOMAIN env'[i] /\ env'[i]["result"][w] = env[i]["result"][w]
      <4>1. "result" \notin Locals
        BY NamesAssumption
      <4> QED BY <1>5, <3>0, <3>2, <4>1
    <3>5. ASSUME NEW n \in Range(scopes[i].copyOut) PROVE env'[i][n][w] = env[i][n][w]
      <4>1. PICK x \in DOMAIN scopes[i].copyOut : n = scopes[i].copyOut[x]
        BY DEF Range
      <4>2. n \in seen[a] \cup Globals /\ (n \in Globals => i = 2)
        BY <1>1, <2>1, <3>0, <3>00, <4>1, ReturnedNames
      <4>3. CASE n \in Globals
        BY <1>6, <4>2, <4>3
      <4>4. CASE n \notin Globals
        <5>1. n \in seen[a] /\ n \in DOMAIN env[i]
          BY <1>2, <1>4, <2>1, <3>0, <3>00, <4>2, <4>4
        <5>2. i = Len(scopes) => n \in Last(seen)
          <6>1. a = Len(frames) \/ a < Len(frames)
            BY <1>2, <2>1, <2>3
          <6>2. CASE a = Len(frames)
            BY <1>2, <5>1, <6>2
          <6>3. CASE a < Len(frames)
            <7>1. Len(frames) \in DOMAIN frames /\ i = ScopeAt(frames, a)
              BY <1>2, <3>00
            <7>2. ScopeAt(frames, a) = ScopeAt(frames, Len(frames)) =>
                    seen[a] \subseteq seen[Len(frames)]
              BY <1>1, <2>1, <6>3, <7>1 DEF Shaped
            <7> QED BY <1>2, <5>1, <7>1, <7>2
          <6> QED BY <6>1, <6>2, <6>3
        <5> QED BY <1>5, <3>0, <5>1, <5>2
      <4> QED BY <4>3, <4>4
    <3>6. HasLeft(w, i)'
      BY <1>6, <3>2, <3>3, <3>4, <3>5, ZenonT(30) DEF HasLeft, Has
    <3> QED BY <3>0, <3>6
  <2>13. Accounted(w)'
    <3>1. status[w] = "wait" =>
            \A n \in Known(a - 1)' : Has(frames'[a].old, n, w, Meant(a - 1, n)')
      <4> SUFFICES ASSUME status[w] = "wait"
                   PROVE  \A n \in Known(a - 1)' : Has(frames'[a].old, n, w, Meant(a - 1, n)')
        OBVIOUS
      <4>1. Saved(frames[a].old, a - 1, w) /\ frames[a].kind # "call"
        BY <1>1, <2>0, <2>5 DEF Accounted, Located
      <4> QED BY <2>3, <2>11, <4>1
    <3>2. status[w] = "done" =>
            \A n \in Known(a - 1)' : Has(frames'[a].kept, n, w, Meant(a - 1, n)')
      <4> SUFFICES ASSUME status[w] = "done"
                   PROVE  \A n \in Known(a - 1)' : Has(frames'[a].kept, n, w, Meant(a - 1, n)')
        OBVIOUS
      <4>1. Saved(frames[a].kept, a - 1, w) /\ frames[a].kind # "call"
        BY <1>1, <2>0, <2>5 DEF Accounted, Located
      <4> QED BY <2>3, <2>11, <4>1
    <3>3. at'[w] = a
      BY <1>3, <2>0
    <3>4. /\ status'[w] = "wait" => Saved(frames[at[w]].old, at[w] - 1, w)'
          /\ status'[w] = "done" => Saved(frames[at[w]].kept, at[w] - 1, w)'
      BY <1>3, <3>1, <3>2, <3>3 DEF Saved
    <3>5. status'[w] = "returned" => HasLeft(w, ScopeOf(at[w]))'
      BY <1>3, <2>12, <3>3
    <3>6. \A d \in DOMAIN frames' : ScopeOf(d)' < ScopeOf(Home(w))' =>
            \A n \in seen'[d] : scopes'[ScopeOf(d)'].vars[n][w] = env'[ScopeOf(d)'][n][w]
      BY <2>10
    <3> QED BY <1>3, <1>8, <3>4, <3>5, <3>6 DEF Accounted
  <2> QED BY <2>9, <2>13
<1> QED BY <1>7, <1>8

-----------------------------------------------------------------------------
(* Statements *)

AssignedTo(e, i, n, val, W, q) ==
  /\ EnvChanged(e, q)
  /\ \A k \in 1 .. Len(e) : \A x \in DOMAIN e[k] :
       q[k][x] = IF k = i /\ x = n THEN Ite(W, val, e[i][n]) ELSE e[k][x]

LEMMA AssignFacts ==
  ASSUME NEW e \in Seq(EnvMaps), NEW i \in 1 .. Len(e), NEW n \in DOMAIN e[i],
         Place(e, n) = i, NEW val \in Store, NEW W
  PROVE  AssignedTo(e, i, n, val, W, Assign(e, n, val, W))
<1> DEFINE new == Ite(W, val, e[i][n])
           s == [e[i] EXCEPT ![n] = new]
           q == Assign(e, n, val, W)
<1>1. e[i][n] \in Store /\ e[i] \in EnvMaps
  BY EnvFacts
<1>2. new \in Store
  BY <1>1, IteFacts
<1>3. /\ DOMAIN e[i] \subseteq Names \cup {"result"} /\ e[i] = [x \in DOMAIN e[i] |-> e[i][x]]
      /\ \A x \in DOMAIN e[i] : e[i][x] \in Store
  BY EnvFacts
<1> HIDE DEF new
<1>4. /\ s = [x \in DOMAIN e[i] |-> s[x]] /\ \A x \in DOMAIN e[i] : s[x] \in Store
      /\ \A x \in DOMAIN e[i] : s[x] = IF x = n THEN new ELSE e[i][x]
  BY <1>2, <1>3
<1>5. s \in EnvMaps /\ DOMAIN s = DOMAIN e[i]
  <2> HIDE DEF s
  <2>1. DOMAIN e[i] \in SUBSET (Names \cup {"result"})
    BY <1>3
  <2> QED BY <1>4, <2>1, EnvType
<1>6. q = [e EXCEPT ![i] = s]
  BY DEF Assign, new
<1> HIDE DEF s, q
<1>7. q \in Seq(EnvMaps) /\ Len(q) = Len(e) /\ q[i] = s /\ \A k \in 1 .. Len(e) : k # i => q[k] = e[k]
  BY <1>5, <1>6
<1>8. \A k \in 1 .. Len(e) : DOMAIN q[k] = DOMAIN e[k]
  BY <1>5, <1>7
<1>9. ASSUME NEW k \in 1 .. Len(e), NEW x \in DOMAIN e[k]
      PROVE  q[k][x] = IF k = i /\ x = n THEN new ELSE e[k][x]
  <2>1. CASE k = i
    BY <1>4, <1>7, <2>1
  <2>2. CASE k # i
    BY <1>7, <2>2
  <2> QED BY <2>1, <2>2
<1> QED BY <1>7, <1>8, <1>9 DEF AssignedTo, EnvChanged, new, q

Assigns(fs, sc, e, sn, n, val, v) ==
  /\ Framed(fs, sc, e, sn) /\ n \in Last(sn) \cup Globals /\ val \in Store /\ v \in Store

AssignedBy(fs, sc, e, sn, val, v, W, r, q) ==
  /\ Changed(sc, r, e, q) /\ EnvChanged(e, q) /\ SameShape(sc, r)
  /\ \A w \in Worlds : w \in W /\ val[w] = v[w] /\ Agree(fs, sn, sc, e, w, Len(sc)) =>
       Agree(fs, sn, r, q, w, Len(sc))
  /\ \A w \in Worlds : w \notin W =>
       \A k \in 1 .. Len(e) : \A x \in DOMAIN e[k] : q[k][x][w] = e[k][x][w]

LEMMA UpdateAgrees ==
  ASSUME NEW fs, NEW sc, NEW e, NEW sn, NEW n, NEW val, NEW v,
         Assigns(fs, sc, e, sn, n, val, v), NEW W
  PROVE  AssignedBy(fs, sc, e, sn, val, v, W, UpdateVar(sc, n, val), Assign(e, n, v, W))
<1> DEFINE r == UpdateVar(sc, n, val)
           q == Assign(e, n, v, W)
           i == IF n \in Globals THEN 2 ELSE Len(sc)
           m == Len(sc)
<1>1. /\ Framed(fs, sc, e, sn) /\ n \in Last(sn) \cup Globals /\ val \in Store /\ v \in Store
      /\ sc \in Seq(Scopes) /\ e \in Seq(EnvMaps)
  BY DEF Assigns, Framed
<1>2. Used(sc, e, n, i)
  BY <1>1, UsableFacts
<1> HIDE DEF i
<1>3. /\ n \in Visible(sc) /\ Owner(sc, n) = i /\ Place(e, n) = i /\ i \in 2 .. m
      /\ n \in DOMAIN sc[i].vars /\ n \in DOMAIN e[i]
  BY <1>2 DEF Used
<1>4. /\ Len(fs) \in Nat \ {0} /\ DOMAIN fs = 1 .. Len(fs) /\ m \in Nat /\ m >= 2
      /\ Len(e) = m /\ DOMAIN sc = 1 .. m /\ Layered(sc)
      /\ Last(sn) \subseteq DOMAIN sc[m].vars
      /\ \A k \in 1 .. m : DOMAIN sc[k].vars \subseteq DOMAIN e[k]
      /\ \A d \in 1 .. Len(fs) : ScopeAt(fs, d) \in 2 .. m
      /\ \A d \in 1 .. Len(fs) : sn[d] \subseteq DOMAIN sc[ScopeAt(fs, d)].vars
  <2>1. Len(fs) \in 1 .. Len(fs)
    BY <1>1, FramedFacts
  <2> QED BY <1>1, <2>1, FramedFacts
<1>5. i \in 1 .. m /\ i \in 1 .. Len(e) /\ \A k \in 2 .. m : k \in 1 .. m
  BY <1>3, <1>4
<1>6. /\ SameShape(sc, r)
      /\ \A k \in 1 .. m : \A x \in DOMAIN sc[k].vars :
           r[k].vars[x] = IF x = n /\ i = k THEN val ELSE sc[k].vars[x]
  BY <1>1, <1>3, <1>4, UpdateFacts
<1>7. Under(sc, r, m)
  BY <1>1, <1>4, UpdateUnder
<1>8. AssignedTo(e, i, n, v, W, q)
  BY <1>1, <1>3, <1>5, AssignFacts
<1> HIDE DEF r, q
<1>9. EnvChanged(e, q) /\ Changed(sc, r, e, q)
  BY <1>1, <1>6, <1>7, <1>8, SameChanged DEF AssignedTo
<1>10. \A k \in 1 .. m : \A x \in DOMAIN e[k] :
         q[k][x] = IF k = i /\ x = n THEN Ite(W, v, e[i][n]) ELSE e[k][x]
  BY <1>4, <1>8 DEF AssignedTo
<1>11. \A w \in Worlds : Ite(W, v, e[i][n])[w] = IF w \in W THEN v[w] ELSE e[i][n][w]
  BY DEF Ite
<1>12. ASSUME NEW w \in Worlds, w \in W, val[w] = v[w], Agree(fs, sn, sc, e, w, m)
       PROVE  Agree(fs, sn, r, q, w, m)
  <2>1. ASSUME NEW k \in 1 .. m, NEW x \in DOMAIN sc[k].vars, sc[k].vars[x][w] = e[k][x][w]
        PROVE  r[k].vars[x][w] = q[k][x][w]
    <3>1. x \in DOMAIN e[k]
      BY <1>4
    <3>2. CASE x = n /\ k = i
      BY <1>6, <1>10, <1>11, <1>12, <2>1, <3>1, <3>2
    <3>3. CASE ~(x = n /\ k = i)
      BY <1>6, <1>10, <2>1, <3>1, <3>3
    <3> QED BY <3>2, <3>3
  <2>2. \A x \in Globals : r[2].vars[x][w] = q[2][x][w]
    <3>1. 2 \in 1 .. m /\ m >= 2 /\ Globals \subseteq DOMAIN sc[2].vars
      BY <1>4 DEF Layered
    <3>2. \A x \in Globals : sc[2].vars[x][w] = e[2][x][w]
      BY <1>12, <3>1 DEF Agree
    <3> QED BY <2>1, <3>1, <3>2
  <2>3. ASSUME NEW d \in DOMAIN fs, ScopeAt(fs, d) <= m, NEW x \in sn[d]
        PROVE  r[ScopeAt(fs, d)].vars[x][w] = q[ScopeAt(fs, d)][x][w]
    <3>1. sc[ScopeAt(fs, d)].vars[x][w] = e[ScopeAt(fs, d)][x][w]
      BY <1>12, <2>3 DEF Agree
    <3>2. ScopeAt(fs, d) \in 1 .. m /\ x \in DOMAIN sc[ScopeAt(fs, d)].vars
      BY <1>4, <1>5, <2>3
    <3> QED BY <2>1, <3>1, <3>2
  <2> QED BY <2>2, <2>3 DEF Agree
<1>13. ASSUME NEW w \in Worlds, w \notin W, NEW k \in 1 .. Len(e), NEW x \in DOMAIN e[k]
       PROVE  q[k][x][w] = e[k][x][w]
  <2>1. CASE k = i /\ x = n
    BY <1>4, <1>10, <1>11, <1>13, <2>1
  <2>2. CASE ~(k = i /\ x = n)
    BY <1>4, <1>10, <1>13, <2>2
  <2> QED BY <2>1, <2>2
<1> QED BY <1>6, <1>9, <1>12, <1>13 DEF AssignedBy, r, q

LEMMA TypeInBlock ==
  ASSUME TypeOK, Framed(frames', scopes', env', seen'),
         fwd' \in SUBSET Worlds, exitCond' \in SUBSET Worlds, exits' \in Seq(Pair),
         exited' \in BOOLEAN, returned' \in BOOLEAN,
         status' \in [Worlds -> Run!Statuses], at' \in [Worlds -> Nat]
  PROVE  TypeOK'
BY DEF TypeOK, Framed

\* Statements of worlds that stay where they are.
StayTogether ==
  /\ UNCHANGED <<frames, fwd, exitCond, exits, exited, returned, status, at>>
  /\ Framed(frames', scopes', env', seen')
  /\ \A w \in Worlds :
       /\ status[w] = "live" => /\ Agree(frames', seen', scopes', env', w, Len(scopes'))
                                /\ \A j \in 1 .. Len(scopes') : w \in scopes'[j].ret
       /\ status[w] # "live" => Stays(w, Len(scopes))

LEMMA StayTogetherInv ==
  ASSUME IInv, NextStatement, StayTogether
  PROVE  IInv'
<1>1. /\ frames # <<>> /\ ~exited /\ ~returned
      /\ TypeOK /\ Nested(frames, fwd) /\ Skipping /\ Apart(exits, exitCond)
  BY InBlock DEF NextStatement
<1>2. Framed(frames', scopes', env', seen')
  BY DEF StayTogether
<1>3. /\ frames' = frames /\ fwd' = fwd /\ exitCond' = exitCond /\ exits' = exits
      /\ exited' = exited /\ returned' = returned /\ status' = status /\ at' = at
  BY DEF StayTogether
<1>4. TypeOK'
  BY <1>1, <1>2, <1>3, TypeInBlock DEF TypeOK
<1>5. Skipping'
  BY <1>1, <1>3 DEF Skipping, Run!Live, Run!At
<1>6. ASSUME NEW w \in Worlds PROVE Located(w)' /\ Accounted(w)'
  <2>1. CASE status[w] = "live"
    <3>1. /\ Agree(frames', seen', scopes', env', w, Len(scopes'))
          /\ \A j \in 1 .. Len(scopes') : w \in scopes'[j].ret
      BY <2>1 DEF StayTogether
    <3>2. w \in exitCond' /\ w \in fwd' /\ status'[w] = "live"
      BY <1>1, <1>3, <2>1, LiveFacts
    <3> QED BY <1>2, <3>1, <3>2, LiveBack
  <2>2. CASE status[w] # "live"
    BY <1>1, <1>2, <2>2, StaysInPlace DEF StayTogether
  <2> QED BY <2>1, <2>2
<1> QED BY <1>1, <1>2, <1>3, <1>4, <1>5, <1>6, StillInBlock

LEMMA NotLiveFacts ==
  ASSUME IInv, frames # <<>>, NEW w \in Worlds, status[w] # "live"
  PROVE  /\ status[w] = "exited" => w \notin exitCond
         /\ status[w] # "exited" =>
              /\ w \in exitCond /\ at[w] \in 1 .. Len(frames) /\ at[w] \in DOMAIN frames
              /\ ScopeAt(frames, at[w]) \in 2 .. Len(scopes) /\ ScopeOf(at[w]) <= Len(scopes)
              /\ status[w] \in {"wait", "done"} => frames[at[w]].kind # "call"
              /\ status[w] = "returned" => frames[at[w]].kind = "call"
         /\ w \in Inside(frames[Len(frames)]) /\ status[w] # "exited" => status[w] = "returned"
<1>1. /\ Framed(frames, scopes, env, seen) /\ Located(w) /\ Nested(frames, fwd)
      /\ frames \in Seq(Frames)
  BY InBlock DEF Framed
<1>2. /\ DOMAIN frames = 1 .. Len(frames) /\ Len(frames) \in DOMAIN frames /\ Len(scopes) \in Nat
      /\ \A d \in 1 .. Len(frames) : ScopeAt(frames, d) \in 2 .. Len(scopes)
      /\ Len(frames) # 0
  BY <1>1, FramedFacts
<1>3. status[w] = "exited" => w \notin exitCond
  BY <1>1 DEF Located
<1>4. ASSUME status[w] # "exited"
      PROVE  /\ w \in exitCond /\ at[w] \in DOMAIN frames
             /\ status[w] \in {"wait", "done"} => frames[at[w]].kind # "call"
             /\ status[w] = "returned" => frames[at[w]].kind = "call"
  BY <1>1, <1>4 DEF Located, Home
<1>5. ASSUME status[w] # "exited" PROVE ScopeOf(at[w]) <= Len(scopes)
  BY <1>2, <1>4, <1>5 DEF ScopeOf
<1>6. ASSUME w \in Inside(frames[Len(frames)]), status[w] # "exited" PROVE status[w] = "returned"
  <2>1. w \in fwd
    BY <1>1, <1>2, <1>6 DEF Nested, Outer
  <2>2. w \in Inside(frames[at[w]])
    BY <1>1, <1>4, <1>6, <2>1, FwdInside
  <2> QED BY <1>1, <1>6, <2>2 DEF Located, Home, Inside
<1> QED BY <1>2, <1>3, <1>4, <1>5, <1>6

LEMMA StaysHere ==
  ASSUME IInv, frames # <<>>, NEW w \in Worlds, status[w] # "live",
         frames' = frames, status'[w] = status[w], at'[w] = at[w],
         Len(scopes') = Len(scopes), Under(scopes, scopes', Len(scopes)),
         w \in exitCond' <=> w \in exitCond,
         \A d \in 1 .. Len(frames) - 1 : seen'[d] = seen[d],
         \A i \in 1 .. Len(scopes) :
           /\ status[w] # "exited" => (w \in scopes'[i].ret <=> w \in scopes[i].ret)
           /\ scopes'[i].copyOut = scopes[i].copyOut
           /\ \A k \in DOMAIN scopes[i].states :
                /\ k \in DOMAIN scopes'[i].states /\ scopes'[i].states[k] = scopes[i].states[k]
                /\ scopes'[i].exprs[k] = scopes[i].exprs[k],
         \A i \in 1 .. Len(scopes) : \A n \in DOMAIN env[i] :
           /\ n \in DOMAIN env'[i]
           /\ env'[i][n][w] = env[i][n][w] \/ (i = Len(scopes) /\ n \in Locals \ Last(seen)),
         \A k \in DOMAIN exits : k \in DOMAIN exits' /\ exits'[k] = exits[k]
  PROVE  Stays(w, Len(scopes))
<1>1. /\ Len(frames) \in Nat \ {0} /\ Len(scopes) \in Nat /\ Len(scopes) >= 2
      /\ Len(scopes) \in 2 .. Len(scopes) /\ Len(scopes) <= Len(scopes')
  BY InBlock, FramedFacts
<1>2. /\ status[w] = "exited" => w \notin exitCond'
      /\ status[w] # "exited" =>
           w \in exitCond' /\ at[w] \in 1 .. Len(frames) /\ at[w] \in DOMAIN frames'
           /\ ScopeOf(at[w]) <= Len(scopes)
  BY NotLiveFacts
<1>3. status[w] # "exited" => StaysIn(w)
  <2> SUFFICES ASSUME status[w] # "exited" PROVE StaysIn(w)
    OBVIOUS
  <2>1. \A d \in 1 .. at[w] - 1 : d \in 1 .. Len(frames) - 1
    BY <1>1, <1>2
  <2> QED BY <1>2, <2>1 DEF StaysIn
<1> QED BY <1>1, <1>2, <1>3 DEF Stays

\* What a statement reads is what the world has there.
LEMMA UsedAgrees ==
  ASSUME NEW fs, NEW sc, NEW e, NEW sn, Framed(fs, sc, e, sn),
         NEW n \in Last(sn) \cup Globals, NEW w, Agree(fs, sn, sc, e, w, Len(sc))
  PROVE  GetVar(sc, n)[w] = Value(e, n)[w]
<1> DEFINE j == IF n \in Globals THEN 2 ELSE Len(sc)
<1>1. Used(sc, e, n, j)
  BY UsableFacts
<1> HIDE DEF j
<1>2. GetVar(sc, n) = sc[j].vars[n] /\ Value(e, n) = e[j][n]
  BY <1>1 DEF Used
<1>3. /\ Last(sn) = sn[Len(fs)] /\ ScopeAt(fs, Len(fs)) = Len(sc) /\ Len(fs) \in DOMAIN fs
      /\ Len(sc) >= 2 /\ Len(sc) \in Nat
  BY FramedFacts
<1>4. CASE n \in Globals
  BY <1>2, <1>3, <1>4 DEF Agree, j
<1>5. CASE n \notin Globals
  <2>1. n \in sn[Len(fs)] /\ ScopeAt(fs, Len(fs)) <= Len(sc)
    BY <1>3, <1>5
  <2> QED BY <1>2, <1>3, <1>5, <2>1 DEF Agree, j
<1> QED BY <1>4, <1>5

LEMMA AssignmentStep ==
  ASSUME IInv, NextStatement, RefAssignment
  PROVE  IInv'
<1>1. PICK n \in Usable, m \in Usable :
        /\ AssignmentStatement(n, m) /\ env' = Assign(env, n, Value(env, m), Run!Live)
        /\ UNCHANGED <<seen, status, at>>
  BY DEF RefAssignment
<1>2. /\ scopes' = UpdateVar(scopes, n, GetVar(scopes, m)) /\ seen' = seen
      /\ UNCHANGED <<frames, fwd, exitCond, exits, exited, returned, status, at>>
  BY <1>1 DEF AssignmentStatement, scopedFlow
<1>3. /\ frames # <<>> /\ Framed(frames, scopes, env, seen)
      /\ Len(scopes) \in Nat /\ Len(env) = Len(scopes) /\ DOMAIN scopes = 1 .. Len(scopes)
      /\ Len(scopes) >= 2
  BY InBlock, FramedFacts DEF NextStatement
<1>4. n \in Last(seen) \cup Globals /\ m \in Last(seen) \cup Globals
  BY <1>1 DEF Usable
<1> DEFINE j == IF m \in Globals THEN 2 ELSE Len(scopes)
<1>5. Used(scopes, env, m, j)
  BY <1>3, <1>4, UsableFacts
<1> HIDE DEF j
<1>6. /\ GetVar(scopes, m) \in Store /\ Value(env, m) \in Store
  BY <1>5 DEF Used
<1> DEFINE val == GetVar(scopes, m)
           v == Value(env, m)
           W == Run!Live
<1>7. Assigns(frames, scopes, env, seen, n, val, v)
  BY <1>3, <1>4, <1>6 DEF Assigns
<1>8. AssignedBy(frames, scopes, env, seen, val, v, W, UpdateVar(scopes, n, val), Assign(env, n, v, W))
  BY <1>7, UpdateAgrees
<1>9. AssignedBy(frames, scopes, env, seen, val, v, W, scopes', env')
  BY <1>1, <1>2, <1>8
<1> HIDE DEF val, v, W
<1>10. Changed(scopes, scopes', env, env') /\ SameShape(scopes, scopes') /\ EnvChanged(env, env')
  BY <1>9 DEF AssignedBy
<1>11. Framed(frames', scopes', env', seen')
  <2>1. Framed(frames, scopes', env', seen)
    BY <1>3, <1>10, FramedChanged
  <2> QED BY <1>2, <2>1
<1>12. ASSUME NEW w \in Worlds, status[w] = "live"
       PROVE  /\ Agree(frames', seen', scopes', env', w, Len(scopes'))
              /\ \A k \in 1 .. Len(scopes') : w \in scopes'[k].ret
  <2>1. /\ Agree(frames, seen, scopes, env, w, Len(scopes))
        /\ \A k \in 1 .. Len(scopes) : w \in scopes[k].ret
    BY <1>3, <1>12, LiveFacts
  <2>2. w \in W
    BY <1>12 DEF W, Run!Live
  <2>3. val[w] = v[w]
    BY <1>3, <1>4, <2>1, UsedAgrees DEF val, v
  <2>4. Agree(frames, seen, scopes', env', w, Len(scopes))
    BY <1>9, <2>1, <2>2, <2>3 DEF AssignedBy
  <2>5. Len(scopes') = Len(scopes) /\ \A k \in 1 .. Len(scopes) : scopes'[k].ret = scopes[k].ret
    BY <1>3, <1>10 DEF SameShape
  <2> QED BY <1>2, <2>1, <2>4, <2>5
<1>13. ASSUME NEW w \in Worlds, status[w] # "live"
       PROVE  Stays(w, Len(scopes))
  <2>1. /\ Len(scopes') = Len(scopes) /\ Under(scopes, scopes', Len(scopes))
        /\ \A i \in 1 .. Len(scopes) :
             /\ scopes'[i].ret = scopes[i].ret /\ scopes'[i].copyOut = scopes[i].copyOut
             /\ scopes'[i].states = scopes[i].states /\ scopes'[i].exprs = scopes[i].exprs
    BY <1>3, <1>10 DEF SameShape, Changed
  <2>2. w \notin W
    BY <1>13 DEF W, Run!Live
  <2>3. \A i \in 1 .. Len(scopes) : \A x \in DOMAIN env[i] :
          x \in DOMAIN env'[i] /\ env'[i][x][w] = env[i][x][w]
    BY <1>3, <1>9, <1>10, <2>2 DEF AssignedBy, EnvChanged
  <2> QED BY <1>2, <1>3, <1>13, <2>1, <2>3, StaysHere
<1>14. StayTogether
  BY <1>2, <1>11, <1>12, <1>13 DEF StayTogether
<1> QED BY <1>14, StayTogetherInv

LEMMA DeclarationStep ==
  ASSUME IInv, NextStatement, RefDeclaration
  PROVE  IInv'
<1> DEFINE val == Constant(Undef)
           l == Len(frames)
           m == Len(scopes)
<1>1. PICK n \in Locals \ Last(seen) :
        /\ Declaration(n) /\ env' = [env EXCEPT ![Len(env)] = With(env[Len(env)], n, val)]
        /\ seen' = [seen EXCEPT ![Len(seen)] = seen[Len(seen)] \cup {n}]
        /\ UNCHANGED <<status, at>>
  BY DEF RefDeclaration
<1>2. /\ scopes' = DeclareVar(scopes, n, val)
      /\ UNCHANGED <<frames, fwd, exitCond, exits, exited, returned, status, at>>
  BY <1>1 DEF Declaration, scopedFlow
<1>3. val \in Store /\ \A w \in Worlds : val[w] = Undef
  BY NamesAssumption DEF Constant, Store
<1>4. /\ frames # <<>> /\ Framed(frames, scopes, env, seen) /\ scopes \in Seq(Scopes)
      /\ l \in Nat \ {0} /\ Len(seen) = l /\ Last(seen) = seen[l] /\ DOMAIN seen = 1 .. l
      /\ DOMAIN frames = 1 .. l /\ l \in 1 .. l /\ ScopeAt(frames, l) = m
      /\ m \in Nat /\ m >= 2 /\ Len(env) = m /\ DOMAIN scopes = 1 .. m /\ m \in 1 .. m
      /\ DOMAIN env = 1 .. m
      /\ Shaped(frames, scopes, env, seen) /\ Layered(scopes)
      /\ \A d \in 1 .. l : ScopeAt(frames, d) \in 2 .. m /\ ScopeAt(frames, d) \in 1 .. m
      /\ \A d \in 1 .. l : seen[d] \subseteq DOMAIN scopes[ScopeAt(frames, d)].vars
      /\ \A i \in 1 .. m : DOMAIN scopes[i].vars \subseteq DOMAIN env[i]
  <2>1. frames # <<>> /\ Framed(frames, scopes, env, seen)
    BY InBlock DEF NextStatement
  <2> QED BY <2>1, FramedFacts DEF Framed
<1> HIDE DEF val, l, m
<1>5. Declared(scopes, env, seen, n, val, scopes', env', seen')
  BY <1>1, <1>2, <1>3, <1>4 DEF Declared
<1>6. Framed(frames', scopes', env', seen')
  <2>1. Framed(frames, scopes', env', seen')
    BY <1>4, <1>5, FramedDeclare
  <2> QED BY <1>2, <2>1
<1>7. /\ Len(scopes') = m /\ scopes'[m].vars = With(scopes[m].vars, n, val)
      /\ \A i \in 1 .. m : i # m => scopes'[i].vars = scopes[i].vars
      /\ \A i \in 1 .. m : /\ scopes'[i].copyOut = scopes[i].copyOut
                           /\ scopes'[i].ret = scopes[i].ret
                           /\ scopes'[i].states = scopes[i].states
                           /\ scopes'[i].exprs = scopes[i].exprs
  <2>1. n \in Names /\ Len(scopes) > 0
    BY <1>4 DEF Names, m
  <2>2. /\ Len(scopes') = m
        /\ \A i \in 1 .. m :
             /\ scopes'[i].vars = IF i = m THEN With(scopes[i].vars, n, val) ELSE scopes[i].vars
             /\ scopes'[i].copyOut = scopes[i].copyOut /\ scopes'[i].ret = scopes[i].ret
             /\ scopes'[i].states = scopes[i].states /\ scopes'[i].exprs = scopes[i].exprs
    BY <1>2, <1>3, <1>4, <2>1, DeclareFacts DEF m
  <2> QED BY <1>4, <2>2
<1>8. /\ env'[m] = With(env[m], n, val) /\ \A i \in 1 .. m : i # m => env'[i] = env[i]
      /\ seen'[l] = seen[l] \cup {n} /\ \A d \in 1 .. l : d # l => seen'[d] = seen[d]
  BY <1>1, <1>4
<1>9. \A x : /\ x \in DOMAIN scopes[m].vars /\ x # n => scopes'[m].vars[x] = scopes[m].vars[x]
             /\ x \in DOMAIN env[m] /\ x # n => env'[m][x] = env[m][x]
             /\ scopes'[m].vars[n] = val /\ env'[m][n] = val
             /\ x \in DOMAIN scopes[m].vars => x \in DOMAIN scopes'[m].vars
             /\ x \in DOMAIN env[m] => x \in DOMAIN env'[m]
  BY <1>7, <1>8 DEF With
<1>10. ASSUME NEW w \in Worlds, status[w] = "live"
       PROVE  /\ Agree(frames', seen', scopes', env', w, Len(scopes'))
              /\ \A k \in 1 .. Len(scopes') : w \in scopes'[k].ret
  <2>1. Agree(frames, seen, scopes, env, w, m) /\ \A k \in 1 .. m : w \in scopes[k].ret
    BY <1>4, <1>10, LiveFacts DEF m
  <2>2. \A x \in Globals : scopes'[2].vars[x][w] = env'[2][x][w]
    <3>1. \A x \in Globals : scopes[2].vars[x][w] = env[2][x][w]
      BY <1>4, <2>1 DEF Agree
    <3>2. n \notin Globals
      BY <1>1, NamesAssumption
    <3>3. \A x \in Globals : x \in DOMAIN scopes[2].vars /\ x \in DOMAIN env[2]
      <4>1. 2 \in 1 .. m
        BY <1>4
      <4> QED BY <1>4, <4>1 DEF Layered
    <3>4. CASE m = 2
      BY <1>9, <3>1, <3>2, <3>3, <3>4
    <3>5. CASE m # 2
      <4>1. 2 \in 1 .. m
        BY <1>4
      <4> QED BY <1>7, <1>8, <3>1, <3>5, <4>1
    <3> QED BY <3>4, <3>5
  <2>3. ASSUME NEW d \in 1 .. l, NEW x \in seen'[d]
        PROVE  scopes'[ScopeAt(frames, d)].vars[x][w] = env'[ScopeAt(frames, d)][x][w]
    <3>1. CASE d = l /\ x = n
      BY <1>4, <1>9, <3>1
    <3>2. CASE ~(d = l /\ x = n)
      <4>1. x \in seen[d]
        BY <1>8, <2>3, <3>2
      <4>2. /\ scopes[ScopeAt(frames, d)].vars[x][w] = env[ScopeAt(frames, d)][x][w]
            /\ x \in DOMAIN scopes[ScopeAt(frames, d)].vars /\ x \in DOMAIN env[ScopeAt(frames, d)]
        <5>1. ScopeAt(frames, d) <= m
          BY <1>4
        <5> QED BY <1>4, <2>1, <4>1, <5>1 DEF Agree
      <4>3. CASE ScopeAt(frames, d) # m
        BY <1>4, <1>7, <1>8, <4>2, <4>3
      <4>4. CASE ScopeAt(frames, d) = m
        <5>1. x \in Last(seen)
          <6>1. d = l \/ d < l
            BY <1>4
          <6>2. d < l => seen[d] \subseteq seen[l]
            BY <1>4, <4>4 DEF Shaped
          <6> QED BY <1>4, <4>1, <6>1, <6>2
        <5>2. x # n
          BY <1>1, <5>1
        <5> QED BY <1>9, <4>2, <4>4, <5>2
      <4> QED BY <4>3, <4>4
    <3> QED BY <3>1, <3>2
  <2>4. Agree(frames, seen', scopes', env', w, m)
    BY <1>4, <2>2, <2>3 DEF Agree
  <2> QED BY <1>2, <1>7, <2>1, <2>4
<1>11. Under(scopes, scopes', m)
  <2>1. \A j \in 1 .. m - 1 : j \in 1 .. m /\ j # m
    BY <1>4
  <2>2. \A j \in 1 .. m : DOMAIN scopes[j].vars \subseteq DOMAIN scopes'[j].vars
    BY <1>7, <1>9
  <2> QED BY <1>7, <2>1, <2>2 DEF Under
<1>12. ASSUME NEW w \in Worlds, status[w] # "live" PROVE Stays(w, Len(scopes))
  <2>1. \A i \in 1 .. m : \A x \in DOMAIN env[i] :
          /\ x \in DOMAIN env'[i]
          /\ env'[i][x][w] = env[i][x][w] \/ (i = m /\ x \in Locals \ Last(seen))
    BY <1>1, <1>8, <1>9
  <2>2. \A d \in 1 .. l - 1 : seen'[d] = seen[d]
    BY <1>4, <1>8
  <2> QED BY <1>2, <1>4, <1>7, <1>11, <1>12, <2>1, <2>2, StaysHere DEF l, m
<1>13. StayTogether
  <2>1. UNCHANGED <<frames, fwd, exitCond, exits, exited, returned, status, at>>
    BY <1>1, <1>2
  <2> QED BY <1>6, <1>10, <1>12, <2>1 DEF StayTogether
<1> QED BY <1>13, StayTogetherInv

LEMMA LeaveRun ==
  ASSUME TypeOK, NEW S, NEW s \in Run!Statuses, NEW d \in Nat, Run!Leave(S, s, d)
  PROVE  /\ status' \in [Worlds -> Run!Statuses] /\ at' \in [Worlds -> Nat]
         /\ \A w \in Worlds :
              /\ status[w] = "live" /\ w \in S => status'[w] = s /\ at'[w] = d
              /\ ~(status[w] = "live" /\ w \in S) => status'[w] = status[w] /\ at'[w] = at[w]
BY DEF TypeOK, Run!Leave, Run!Live

LEMMA CallDepthFacts ==
  ASSUME IInv, frames # <<>>
  PROVE  /\ CallDepth \in DOMAIN frames /\ CallDepth \in Nat /\ frames[CallDepth].kind = "call"
         /\ ScopeAt(frames, CallDepth) = Len(scopes)
<1> DEFINE l == Len(frames)
           C == {d \in 1 .. l : frames[d].kind = "call"}
<1>1. /\ l \in Nat \ {0} /\ DOMAIN frames = 1 .. l /\ ScopeAt(frames, l) = Len(scopes)
      /\ Len(scopes) \in Nat /\ Len(scopes) >= 2
      /\ \A d \in 1 .. l : ScopeAt(frames, d) \in 2 .. Len(scopes)
  BY InBlock, FramedFacts
<1>2. PICK c \in 1 .. l : frames[c].kind = "call" /\ ScopeAt(frames, c) = Len(scopes)
  <2>1. l \in Nat /\ Len(scopes) \in 2 .. ScopeAt(frames, l)
    BY <1>1
  <2> QED BY <2>1, ScopeOpened
<1>3. C \in SUBSET (1 .. l) /\ C # {} /\ l \in Nat
  BY <1>1, <1>2
<1>4. Max(C) \in C /\ \A k \in C : k <= Max(C)
  <2> HIDE DEF C, l
  <2> QED BY <1>3, MaxIsGreatest
<1>5. \E d \in DOMAIN frames : /\ frames[d].kind = "call"
                               /\ \A j \in DOMAIN frames : frames[j].kind = "call" => j <= d
  BY <1>1, <1>4
<1>6. /\ CallDepth \in DOMAIN frames /\ frames[CallDepth].kind = "call"
      /\ \A j \in DOMAIN frames : frames[j].kind = "call" => j <= CallDepth
  BY <1>5 DEF CallDepth
<1>7. CallDepth \in Nat /\ CallDepth \in 1 .. l /\ c \in Nat /\ c <= CallDepth
  BY <1>1, <1>2, <1>6
<1>8. ScopeAt(frames, c) <= ScopeAt(frames, CallDepth)
  BY <1>7, ScopeGrows
<1>9. ScopeAt(frames, CallDepth) \in 2 .. Len(scopes)
  BY <1>1, <1>7
<1> QED BY <1>1, <1>2, <1>6, <1>7, <1>8, <1>9

LEMMA ApartAppend ==
  ASSUME NEW list \in Seq(Pair), NEW left, Apart(list, left), NEW p \in Pair,
         p.cond \subseteq left, NEW rest, rest \subseteq left, p.cond \cap rest = {}
  PROVE  Apart(Append(list, p), rest)
<1> DEFINE n == Len(list)
           new == Append(list, p)
<1>1. n \in Nat /\ DOMAIN list = 1 .. n /\ DOMAIN new = 1 .. n + 1 /\ new[n + 1] = p
      /\ \A k \in 1 .. n : new[k] = list[k]
  BY AppendFacts
<1>2. \A k \in 1 .. n + 1 : k = n + 1 \/ k \in 1 .. n
  BY <1>1
<1>3. \A j, k \in 1 .. n : /\ list[k].cond \cap left = {}
                           /\ j # k => list[j].cond \cap list[k].cond = {}
  BY <1>1 DEF Apart
<1> HIDE DEF n, new
<1>4. \A k \in 1 .. n + 1 : new[k].cond \cap rest = {}
  BY <1>1, <1>2, <1>3
<1>5. ASSUME NEW j \in 1 .. n + 1, NEW k \in 1 .. n + 1, j # k
      PROVE  new[j].cond \cap new[k].cond = {}
  <2>1. CASE j = n + 1
    <3>1. k \in 1 .. n
      BY <1>2, <1>5, <2>1
    <3> QED BY <1>1, <1>3, <2>1, <3>1
  <2>2. CASE j \in 1 .. n /\ k = n + 1
    BY <1>1, <1>3, <2>2
  <2>3. CASE j \in 1 .. n /\ k \in 1 .. n
    BY <1>1, <1>3, <1>5, <2>3
  <2> QED BY <1>2, <2>1, <2>2, <2>3
<1> QED BY <1>1, <1>4, <1>5 DEF Apart, new

LEMMA ReplaceFacts ==
  ASSUME NEW S, NEW q \in Seq(S), NEW i \in DOMAIN q, NEW x \in S,
         NEW r, r = [q EXCEPT ![i] = x]
  PROVE  /\ r \in Seq(S) /\ Len(r) = Len(q) /\ r[i] = x
         /\ \A k \in DOMAIN q : k # i => r[k] = q[k]
OBVIOUS

\* What a return adds to the scope of the call.
Recording(s, p, x, P, t) ==
  /\ t \in Scopes /\ t.vars = s.vars /\ t.copyOut = s.copyOut /\ t.ret = s.ret \ P
  /\ t.states = Append(s.states, p) /\ t.exprs = Append(s.exprs, x)

LEMMA ReturnScopes ==
  ASSUME NEW val, NextStatement, ReturnStatement(val), IInv, val \in Store
  PROVE  /\ scopes' \in Seq(Scopes) /\ Len(scopes') = Len(scopes)
         /\ \A i \in 1 .. Len(scopes) - 1 : scopes'[i] = scopes[i]
         /\ Recording(scopes[Len(scopes)], [cond |-> Run!Live, map |-> GetVars(scopes)],
                      [cond |-> Run!Live, val |-> val], PathCond, scopes'[Len(scopes)])
<1> DEFINE m == Len(scopes)
           p == [cond |-> Run!Live, map |-> GetVars(scopes)]
           x == [cond |-> Run!Live, val |-> val]
           s == scopes[m]
           t == [s EXCEPT !.states = Append(s.states, p), !.exprs = Append(s.exprs, x),
                          !.ret = s.ret \ PathCond]
<1>1. /\ scopes \in Seq(Scopes) /\ m \in Nat /\ m >= 2 /\ frames # <<>> /\ m \in DOMAIN scopes
      /\ DOMAIN scopes = 1 .. m
  <2>1. frames # <<>>
    BY DEF NextStatement
  <2> QED BY <2>1, InBlock, FramedFacts DEF Framed
<1>2. PathCond \cap exitCond = Run!Live
  BY <1>1, PathLive DEF Run!Live, PathCond
<1>3. scopes' = [scopes EXCEPT ![m].states = Append(@, p), ![m].exprs = Append(@, x),
                              ![m].ret = @ \ PathCond]
  BY <1>2 DEF ReturnStatement
<1>4. scopes' = [scopes EXCEPT ![m] = t]
  BY <1>1, <1>3
<1>5. /\ s \in Scopes /\ s.states \in Seq(Pair)
      /\ s.exprs \in Seq([cond : SUBSET Worlds, val : Store]) /\ s.ret \in SUBSET Worlds
  <2>1. scopes[m] \in Scopes
    BY <1>1
  <2> QED BY <2>1, ScopeFields
<1>6. GetVars(scopes) \in VarMaps
  BY <1>1, GetVarsFacts
<1>7. p \in Pair /\ x \in [cond : SUBSET Worlds, val : Store]
  BY <1>6 DEF Pair, Run!Live
<1> HIDE DEF p, x, s
<1>8. /\ Append(s.states, p) \in Seq(Pair)
      /\ Append(s.exprs, x) \in Seq([cond : SUBSET Worlds, val : Store])
      /\ s.ret \ PathCond \in SUBSET Worlds
  BY <1>5, <1>7
<1>9. t \in Scopes /\ Recording(s, p, x, PathCond, t)
  BY <1>5, <1>8 DEF Scopes, Recording
<1> HIDE DEF t, m
<1>10. /\ scopes' \in Seq(Scopes) /\ Len(scopes') = m /\ scopes'[m] = t
       /\ \A i \in 1 .. m - 1 : scopes'[i] = scopes[i]
  <2>1. \A i \in 1 .. m - 1 : i \in 1 .. m /\ i # m
    BY <1>1
  <2>2. m = Len(scopes) /\ m \in 1 .. Len(scopes) /\ t \in Scopes
    BY <1>1, <1>9 DEF m
  <2>3. /\ scopes' \in Seq(Scopes) /\ Len(scopes') = Len(scopes) /\ scopes'[m] = t
        /\ \A k \in DOMAIN scopes : k # m => scopes'[k] = scopes[k]
    BY <1>1, <1>4, <2>2, ReplaceFacts
  <2> QED BY <1>1, <2>1, <2>2, <2>3
<1> QED BY <1>9, <1>10 DEF m, p, x, s

\* q is e after the worlds of W returned v from the last call.
Kept(e, m, v, W, q) ==
  /\ q \in Seq(EnvMaps) /\ Len(q) = Len(e)
  /\ \A i \in DOMAIN e : i # m => q[i] = e[i]
  /\ "result" \in DOMAIN q[m] /\ \A w \in Worlds : w \in W => q[m]["result"][w] = v[w]
  /\ \A n \in DOMAIN e[m] : n \in DOMAIN q[m] /\ (n # "result" => q[m][n] = e[m][n])
  /\ \A w \in Worlds : w \notin W => \A n \in DOMAIN e[m] : q[m][n][w] = e[m][n][w]

\* The variables of the interpreter after a return.
LEMMA ReturnedEnv ==
  ASSUME NEW e \in Seq(EnvMaps), NEW m \in DOMAIN e, NEW v \in Store, NEW W, NEW q,
         q = [e EXCEPT ![m] = With(e[m], "result",
                Ite(W, v, IF "result" \in DOMAIN e[m] THEN e[m]["result"] ELSE Constant(Undef)))]
  PROVE  Kept(e, m, v, W, q)
<1> DEFINE old == IF "result" \in DOMAIN e[m] THEN e[m]["result"] ELSE Constant(Undef)
           new == Ite(W, v, old)
           t == With(e[m], "result", new)
<1>1. e[m] \in EnvMaps
  OBVIOUS
<1>2. old \in Store
  <2>1. Constant(Undef) \in Store
    BY NamesAssumption DEF Constant, Store
  <2>2. m \in 1 .. Len(e)
    OBVIOUS
  <2>3. \A n \in DOMAIN e[m] : e[m][n] \in Store
    BY <2>2, EnvFacts
  <2> QED BY <2>1, <2>3
<1> HIDE DEF old
<1>3. new \in Store /\ \A w \in Worlds : new[w] = IF w \in W THEN v[w] ELSE old[w]
  BY <1>2, IteFacts
<1> HIDE DEF new
<1>4. t \in EnvMaps
  BY <1>1, <1>3, WithEnvType
<1>5. /\ DOMAIN t = DOMAIN e[m] \cup {"result"} /\ t["result"] = new
      /\ \A n \in DOMAIN e[m] : n # "result" => t[n] = e[m][n]
  BY DEF With
<1>6. q = [e EXCEPT ![m] = t]
  BY DEF old, new
<1> HIDE DEF t
<1>7. /\ q \in Seq(EnvMaps) /\ Len(q) = Len(e) /\ q[m] = t
      /\ \A i \in DOMAIN e : i # m => q[i] = e[i]
  BY <1>4, <1>6, ReplaceFacts
<1>8. ASSUME NEW w \in Worlds, w \notin W, NEW n \in DOMAIN e[m] PROVE t[n][w] = e[m][n][w]
  <2>1. CASE n = "result"
    BY <1>3, <1>5, <1>8, <2>1 DEF old
  <2>2. CASE n # "result"
    BY <1>5, <1>8, <2>2
  <2> QED BY <2>1, <2>2
<1>9. \A n \in DOMAIN e[m] : n \in DOMAIN t
  BY <1>5
<1> QED BY <1>3, <1>5, <1>7, <1>8, <1>9 DEF Kept

LEMMA ReturnStep ==
  ASSUME IInv, NextStatement, RefReturn
  PROVE  IInv'
<1> DEFINE l == Len(frames)
           m == Len(scopes)
<1>0. PICK c : c = CallDepth
  OBVIOUS
<1>1. PICK n \in Usable :
        /\ ReturnStatement(GetVar(scopes, n))
        /\ env' = [env EXCEPT ![Len(env)] =
                     With(env[Len(env)], "result", Ite(Run!Live, Value(env, n),
                       IF "result" \in DOMAIN env[Len(env)] THEN env[Len(env)]["result"]
                       ELSE Constant(Undef)))]
        /\ Run!Leave(Worlds, "returned", CallDepth) /\ seen' = seen
  BY DEF RefReturn
<1>2. /\ returned' = TRUE
      /\ UNCHANGED <<frames, fwd, exitCond, exits, exited, seen>>
  BY <1>1 DEF ReturnStatement
<1>3. /\ frames # <<>> /\ ~exited /\ ~returned /\ frames[l].kind # "operand"
      /\ TypeOK /\ Framed(frames, scopes, env, seen) /\ Nested(frames, fwd)
      /\ Skipping /\ Apart(exits, exitCond)
      /\ \A w \in Worlds : Accounted(w)
  BY InBlock, FramedFacts DEF NextStatement, frame
<1>4. /\ scopes \in Seq(Scopes) /\ env \in Seq(EnvMaps) /\ frames \in Seq(Frames)
      /\ l \in Nat \ {0} /\ Last(seen) = seen[l] /\ l \in 1 .. l
      /\ DOMAIN frames = 1 .. l /\ ScopeAt(frames, l) = m
      /\ m \in Nat /\ m >= 2 /\ Len(env) = m /\ DOMAIN scopes = 1 .. m /\ m \in 1 .. m
      /\ DOMAIN env = 1 .. m /\ Last(scopes) = scopes[m]
      /\ Shaped(frames, scopes, env, seen) /\ Layered(scopes)
      /\ \A d \in 1 .. l : ScopeAt(frames, d) \in 2 .. m /\ ScopeAt(frames, d) \in 1 .. m
      /\ \A d \in 1 .. l : seen[d] \subseteq DOMAIN scopes[ScopeAt(frames, d)].vars
      /\ \A d \in 1 .. l : seen[d] \subseteq Locals
      /\ \A i \in 1 .. m : DOMAIN scopes[i].vars \subseteq DOMAIN env[i]
      /\ \A i \in 1 .. m - 1 : i \in 1 .. m /\ i # m
  <2>1. Framed(frames, scopes, env, seen)
    BY <1>3
  <2> QED BY <2>1, FramedFacts DEF Framed
<1>5. c \in 1 .. l /\ c \in Nat /\ frames[c].kind = "call" /\ ScopeAt(frames, c) = m
  BY <1>0, <1>3, <1>4, CallDepthFacts
<1> DEFINE val == GetVar(scopes, n)
           v == Value(env, n)
           W == Run!Live
           P == PathCond
<1>6. n \in Last(seen) \cup Globals /\ val \in Store /\ v \in Store
  <2>1. n \in Last(seen) \cup Globals
    BY <1>1 DEF Usable
  <2>2. Used(scopes, env, n, IF n \in Globals THEN 2 ELSE Len(scopes))
    BY <1>3, <2>1, UsableFacts
  <2> QED BY <2>1, <2>2 DEF Used
<1> DEFINE p == [cond |-> W, map |-> GetVars(scopes)]
           x == [cond |-> W, val |-> val]
           k == Len(scopes[m].states) + 1
<1>7. /\ scopes' \in Seq(Scopes) /\ Len(scopes') = m
      /\ \A i \in 1 .. m - 1 : scopes'[i] = scopes[i]
      /\ Recording(scopes[m], p, x, P, scopes'[m])
  BY <1>1, <1>6, ReturnScopes DEF NextStatement
<1>8. /\ scopes[m] \in Scopes /\ scopes[m].states \in Seq(Pair)
      /\ scopes[m].exprs \in Seq([cond : SUBSET Worlds, val : Store])
      /\ Len(scopes[m].exprs) = Len(scopes[m].states)
      /\ Apart(scopes[m].states, scopes[m].ret)
      /\ \A j \in DOMAIN scopes[m].states : scopes[m].exprs[j].cond = scopes[m].states[j].cond
      /\ scopes[m].ret \in SUBSET Worlds
  <2>1. scopes[m] \in Scopes
    BY <1>4
  <2> QED BY <1>3, <1>4, <2>1, ScopeFields DEF Framed, Listed
<1>9. /\ env' \in Seq(EnvMaps) /\ Len(env') = m
      /\ \A i \in 1 .. m : i # m => env'[i] = env[i]
      /\ "result" \in DOMAIN env'[m]
      /\ \A w \in Worlds : w \in W => env'[m]["result"][w] = v[w]
      /\ \A y \in DOMAIN env[m] : y \in DOMAIN env'[m] /\ (y # "result" => env'[m][y] = env[m][y])
      /\ \A w \in Worlds : w \notin W => \A y \in DOMAIN env[m] : env'[m][y][w] = env[m][y][w]
  <2>1. env' = [env EXCEPT ![m] = With(env[m], "result", Ite(W, v,
                  IF "result" \in DOMAIN env[m] THEN env[m]["result"] ELSE Constant(Undef)))]
    BY <1>1, <1>4
  <2>2. m \in DOMAIN env /\ v \in Store
    BY <1>4, <1>6
  <2> HIDE DEF v, W, m
  <2>3. Kept(env, m, v, W, env')
    BY <1>4, <2>1, <2>2, ReturnedEnv
  <2> QED BY <1>4, <2>3 DEF Kept
<1>10. /\ status' \in [Worlds -> Run!Statuses] /\ at' \in [Worlds -> Nat]
       /\ \A w \in Worlds :
            IF status[w] = "live" THEN status'[w] = "returned" /\ at'[w] = c
            ELSE status'[w] = status[w] /\ at'[w] = at[w]
  <2>1. "returned" \in Run!Statuses /\ c \in Nat
    BY <1>5 DEF Run!Statuses
  <2>2. Run!Leave(Worlds, "returned", c)
    BY <1>0, <1>1
  <2> QED BY <1>3, <2>1, <2>2, LeaveRun
<1>11. \A w \in Worlds : w \in W <=> status[w] = "live"
  BY DEF Run!Live
<1>12. \A w \in Worlds : w \in W <=> w \in P /\ w \in exitCond
  BY <1>3, <1>11, PathLive
<1>13. GetVars(scopes) \in VarMaps /\ Frozen(scopes, GetVars(scopes), m)
       /\ DOMAIN GetVars(scopes) = Visible(scopes)
       /\ \A y \in Visible(scopes) : GetVars(scopes)[y] = GetVar(scopes, y)
  BY <1>4, GetVarsFacts
<1>14. W \in SUBSET Worlds /\ P \subseteq scopes[m].ret /\ W \subseteq P
  <2>1. P \subseteq scopes[m].ret
    BY <1>4 DEF PathCond
  <2>2. W \in SUBSET Worlds
    BY DEF Run!Live
  <2> QED BY <1>12, <2>1, <2>2
<1> HIDE DEF val, v, W, P, l, m
<1>15. /\ scopes'[m].vars = scopes[m].vars /\ scopes'[m].copyOut = scopes[m].copyOut
       /\ scopes'[m].ret = scopes[m].ret \ P
       /\ scopes'[m].states = Append(scopes[m].states, p)
       /\ scopes'[m].exprs = Append(scopes[m].exprs, x)
  BY <1>7 DEF Recording
<1>16. \A i \in 1 .. m : i = m \/ i \in 1 .. m - 1
  BY <1>4
<1>17. \A i \in 1 .. m : scopes'[i].vars = scopes[i].vars /\ scopes'[i].copyOut = scopes[i].copyOut
  BY <1>7, <1>15, <1>16
<1>18. Under(scopes, scopes', m)
  BY <1>4, <1>17 DEF Under
<1>19. p \in Pair /\ x \in [cond : SUBSET Worlds, val : Store]
  BY <1>6, <1>13, <1>14 DEF Pair
<1>20. /\ k \in DOMAIN scopes'[m].states /\ scopes'[m].states[k] = p
       /\ scopes'[m].exprs[k] = x /\ Len(scopes'[m].exprs) = Len(scopes'[m].states)
       /\ DOMAIN scopes'[m].states = 1 .. k /\ k \in Nat
       /\ \A j \in 1 .. k : j # k => j \in DOMAIN scopes[m].states
       /\ \A j \in DOMAIN scopes[m].states :
            /\ j \in 1 .. k /\ scopes'[m].states[j] = scopes[m].states[j]
            /\ scopes'[m].exprs[j] = scopes[m].exprs[j]
  <2> HIDE DEF p, x
  <2>1. /\ DOMAIN scopes[m].states = 1 .. Len(scopes[m].states)
        /\ DOMAIN scopes[m].exprs = 1 .. Len(scopes[m].exprs)
        /\ Len(scopes[m].states) \in Nat
    BY <1>8
  <2> QED BY <1>8, <1>15, <1>19, <2>1, AppendFacts
<1>21. Listed(scopes')
  <2>1. ASSUME NEW i \in 1 .. m
        PROVE  /\ Apart(scopes'[i].states, scopes'[i].ret)
               /\ Len(scopes'[i].exprs) = Len(scopes'[i].states)
               /\ \A j \in DOMAIN scopes'[i].states :
                    scopes'[i].exprs[j].cond = scopes'[i].states[j].cond
    <3>1. CASE i # m
      <4>1. scopes'[i] = scopes[i]
        BY <1>7, <1>16, <3>1
      <4> QED BY <1>3, <1>4, <4>1 DEF Framed, Listed
    <3>2. Apart(scopes'[m].states, scopes'[m].ret)
      <4>1. p.cond = W
        OBVIOUS
      <4>2. p.cond \subseteq scopes[m].ret /\ scopes[m].ret \ P \subseteq scopes[m].ret
            /\ p.cond \cap (scopes[m].ret \ P) = {}
        BY <1>14, <4>1
      <4> HIDE DEF p
      <4> QED BY <1>8, <1>15, <1>19, <4>2, ApartAppend, SMTT(30)
    <3>3. \A j \in 1 .. k : scopes'[m].exprs[j].cond = scopes'[m].states[j].cond
      <4>1. p.cond = W /\ x.cond = W
        OBVIOUS
      <4> HIDE DEF p, x
      <4>2. scopes'[m].exprs[k].cond = scopes'[m].states[k].cond
        BY <1>20, <4>1
      <4>3. \A j \in DOMAIN scopes[m].states :
              scopes'[m].exprs[j].cond = scopes'[m].states[j].cond
        BY <1>8, <1>20
      <4> HIDE DEF k
      <4> QED BY <1>20, <4>2, <4>3
    <3> HIDE DEF k
    <3> QED BY <1>20, <3>1, <3>2, <3>3
  <2> QED BY <1>7, <2>1 DEF Listed
<1>22. Changed(scopes, scopes', env, env')
  <2>1. Frozen(scopes', GetVars(scopes), m)
    BY <1>4, <1>13, <1>18, FrozenStays
  <2>2. ASSUME NEW i \in 1 .. m, NEW j \in DOMAIN scopes'[i].states
        PROVE  \/ j \in DOMAIN scopes[i].states /\ scopes'[i].states[j] = scopes[i].states[j]
               \/ Frozen(scopes', scopes'[i].states[j].map, i)
    <3>1. CASE i # m
      BY <1>7, <1>16, <2>2, <3>1
    <3>2. p.map = GetVars(scopes)
      OBVIOUS
    <3> HIDE DEF p, k
    <3>3. CASE i = m
      BY <1>20, <2>1, <2>2, <3>2, <3>3
    <3> QED BY <3>1, <3>3
  <2>3. \A i \in 1 .. m : DOMAIN env[i] \subseteq DOMAIN env'[i]
    BY <1>9
  <2>4. DOMAIN env'[1] = DOMAIN env[1]
    <3>1. 1 \in 1 .. m /\ 1 # m
      BY <1>4
    <3> QED BY <1>9, <3>1
  <2> QED BY <1>4, <1>7, <1>9, <1>17, <1>18, <1>21, <2>2, <2>3, <2>4 DEF Changed, m
<1>23. Framed(frames', scopes', env', seen')
  <2>1. Framed(frames, scopes', env', seen)
    BY <1>3, <1>22, FramedChanged
  <2> QED BY <1>2, <2>1
<1>24. TypeOK'
  BY <1>2, <1>3, <1>10, <1>23, TypeInBlock DEF TypeOK
<1>25. Skipping'
  <2>1. Run!Live' = {}
    BY <1>10 DEF Run!Live
  <2>2. Last(scopes').states # <<>>
    <3>1. Last(scopes') = scopes'[m]
      BY <1>7 DEF Last
    <3>2. DOMAIN scopes'[m].states # {}
      <4> HIDE DEF k
      <4> QED BY <1>20
    <3> QED BY <3>1, <3>2
  <2>3. \A d \in DOMAIN frames : frames[d].kind = "operand" =>
          ~exited' /\ d # l /\ (d < l => frames[d + 1].kind = "call" /\ frames[d + 1].result = "operand")
    BY <1>2, <1>3 DEF Skipping, l
  <2>4. ASSUME NEW d \in DOMAIN frames, frames[d].kind = "else",
               frames[d].exitAll \/ frames[d].returnAll
        PROVE  Run!At("done", d)' = {}
    <3>1. Run!At("done", d) = {}
      BY <1>3, <2>4 DEF Skipping
    <3> QED BY <1>10, <3>1 DEF Run!At
  <2> QED BY <1>2, <2>1, <2>2, <2>3, <2>4 DEF Skipping, l
<1>26. ASSUME NEW w \in Worlds, status[w] = "live"
       PROVE  Located(w)' /\ Accounted(w)'
  <2>1. /\ Agree(frames, seen, scopes, env, w, m) /\ w \in exitCond /\ w \in fwd
        /\ \A j \in 1 .. m : w \in scopes[j].ret
    BY <1>3, <1>26, LiveFacts DEF m
  <2>2. w \in W /\ w \in P /\ status'[w] = "returned" /\ at'[w] = c
    BY <1>10, <1>11, <1>12, <1>26
  <2>3. Home(w)' = c /\ ScopeAt(frames', c) = m
    BY <1>2, <1>5, <2>2 DEF Home
  <2>4. Located(w)'
    <3>1. w \in frames[c].fwd
      <4>1. w \in Inside(frames[c])
        BY <1>3, <1>4, <1>5, <2>1, FwdInside
      <4> QED BY <1>5, <4>1 DEF Inside
    <3>2. \A j \in 1 .. m - 1 : w \in scopes'[j].ret
      BY <1>4, <1>7, <2>1
    <3>3. w \notin scopes'[m].ret
      BY <1>15, <2>2
    <3> QED BY <1>2, <1>4, <1>5, <2>1, <2>2, <2>3, <3>1, <3>2, <3>3
            DEF Located, HasNotReturned, ScopeOf
  <2>5. PICK z : z = m
    OBVIOUS
  <2>8. HasLeft(w, z)'
    <3>1. /\ p.cond = W /\ p.map = GetVars(scopes) /\ x.val = val
      OBVIOUS
    <3> HIDE DEF p, x, k
    <3>2. ASSUME NEW y \in Last(seen) \cup Globals, NEW i \in 1 .. m,
                 i = (IF y \in Globals THEN 2 ELSE m)
          PROVE  Has(p.map, y, w, env'[i][y])
      <4>1. Used(scopes, env, y, i)
        BY <1>3, <3>2, UsableFacts DEF m
      <4>2. y \in Visible(scopes) /\ Value(env, y) = env[i][y] /\ y \in DOMAIN env[i]
        BY <4>1 DEF Used
      <4>3. GetVar(scopes, y)[w] = Value(env, y)[w]
        BY <1>3, <2>1, <3>2, UsedAgrees DEF m
      <4>4. y # "result"
        <5>1. y \in Globals \cup Locals
          BY <1>4, <3>2
        <5> QED BY <5>1, NamesAssumption
      <4>5. env'[i][y] = env[i][y]
        BY <1>9, <3>2, <4>2, <4>4
      <4> QED BY <1>13, <3>1, <4>2, <4>3, <4>5 DEF Has
    <3>3. \A y \in Globals : Has(p.map, y, w, env'[2][y])
      <4>1. 2 \in 1 .. m
        BY <1>4
      <4> QED BY <3>2, <4>1
    <3>4. ASSUME NEW y \in Range(scopes[m].copyOut) PROVE Has(p.map, y, w, env'[m][y])
      <4>1. PICK o \in DOMAIN scopes[m].copyOut : y = scopes[m].copyOut[o]
        BY DEF Range
      <4>2. y \in seen[c] \cup Globals /\ (y \in Globals => m = 2)
        <5>1. /\ Framed(frames, scopes, env, seen) /\ c \in DOMAIN frames
              /\ frames[c].kind = "call" /\ o \in DOMAIN scopes[ScopeAt(frames, c)].copyOut
              /\ scopes[ScopeAt(frames, c)].copyOut[o] = y
          BY <1>3, <1>4, <1>5, <4>1
        <5> QED BY <1>5, <5>1, ReturnedNames
      <4>3. seen[c] \subseteq Last(seen)
        <5>1. c = l \/ c < l
          BY <1>4, <1>5
        <5>2. c < l => seen[c] \subseteq seen[l]
          BY <1>4, <1>5 DEF Shaped
        <5> QED BY <1>4, <5>1, <5>2
      <4>4. y \in Last(seen) \cup Globals /\ m = (IF y \in Globals THEN 2 ELSE m)
        BY <4>2, <4>3
      <4> QED BY <1>4, <3>2, <4>4
    <3>5. x.val[w] = env'[m]["result"][w]
      <4>1. val[w] = v[w]
        BY <1>3, <1>6, <2>1, UsedAgrees DEF val, v, m
      <4> QED BY <1>9, <2>2, <3>1, <4>1
    <3>6. /\ k \in DOMAIN scopes'[z].states /\ w \in scopes'[z].states[k].cond
          /\ \A y \in Globals : Has(scopes'[z].states[k].map, y, w, env'[2][y])
          /\ \A y \in Range(scopes'[z].copyOut) : Has(scopes'[z].states[k].map, y, w, env'[z][y])
          /\ "result" \in DOMAIN env'[z]
          /\ scopes'[z].exprs[k].val[w] = env'[z]["result"][w]
      BY <1>9, <1>15, <1>20, <2>2, <2>5, <3>1, <3>3, <3>4, <3>5
    <3>7. HasLeft(w, z)'
      BY <3>6 DEF HasLeft
    <3> QED BY <3>7
  <2>6. ASSUME NEW d \in DOMAIN frames', ScopeOf(d)' < m, NEW y \in seen'[d]
        PROVE  scopes'[ScopeOf(d)'].vars[y][w] = env'[ScopeOf(d)'][y][w]
    <3>1. d \in 1 .. l /\ ScopeOf(d)' = ScopeAt(frames, d) /\ y \in seen[d]
      BY <1>2, <1>4, <2>6 DEF ScopeOf
    <3>2. ScopeAt(frames, d) \in 1 .. m /\ ScopeAt(frames, d) # m /\ ScopeAt(frames, d) <= m
      BY <1>4, <2>6, <3>1
    <3>3. scopes[ScopeAt(frames, d)].vars[y][w] = env[ScopeAt(frames, d)][y][w]
      BY <1>4, <2>1, <3>1, <3>2 DEF Agree
    <3> QED BY <1>9, <1>17, <3>1, <3>2, <3>3
  <2>7. Accounted(w)'
    <3>1. HasLeft(w, ScopeOf(at[w]))'
      <4>1. ScopeOf(at[w])' = z
        BY <2>2, <2>3, <2>5 DEF ScopeOf
      <4> QED BY <2>8, <4>1
    <3>2. ScopeOf(Home(w))' = m
      BY <2>3 DEF ScopeOf
    <3> QED BY <3>2, <2>2, <2>3, <2>6, <3>1 DEF Accounted
  <2> QED BY <2>4, <2>7
<1>27. ASSUME NEW w \in Worlds, status[w] # "live"
       PROVE  Located(w)' /\ Accounted(w)'
  <2>1. w \notin W /\ status'[w] = status[w] /\ at'[w] = at[w]
    BY <1>10, <1>11, <1>27
  <2>2. status[w] # "exited" => w \notin P
    BY <1>3, <1>12, <1>27, <2>1, NotLiveFacts
  <2>3. \A i \in 1 .. m :
          /\ status[w] # "exited" => (w \in scopes'[i].ret <=> w \in scopes[i].ret)
          /\ scopes'[i].copyOut = scopes[i].copyOut
          /\ \A j \in DOMAIN scopes[i].states :
               /\ j \in DOMAIN scopes'[i].states /\ scopes'[i].states[j] = scopes[i].states[j]
               /\ scopes'[i].exprs[j] = scopes[i].exprs[j]
    <3> HIDE DEF p, x, k
    <3> QED BY <1>7, <1>15, <1>16, <1>20, <2>2, ZenonT(30)
  <2>4. \A i \in 1 .. m : \A y \in DOMAIN env[i] :
          y \in DOMAIN env'[i] /\ env'[i][y][w] = env[i][y][w]
    BY <1>9, <2>1
  <2>5. Stays(w, Len(scopes))
    BY <1>2, <1>3, <1>7, <1>18, <1>27, <2>1, <2>3, <2>4, StaysHere DEF m
  <2> QED BY <1>3, <1>23, <2>5, StaysInPlace
<1> QED BY <1>2, <1>3, <1>23, <1>24, <1>25, <1>26, <1>27, StillInBlock

LEMMA ExitStep ==
  ASSUME IInv, NextStatement, RefExit
  PROVE  IInv'
<1> DEFINE l == Len(frames)
           m == Len(scopes)
           P == PathCond
           W == Run!Live
           u == Unwind(scopes)
           p == [cond |-> exitCond \cap P, map |-> GetVars(u)]
           t == [n \in DOMAIN env[1] |-> Ite(W, Exit(env)[n], env[1][n])]
<1>1. /\ \A d \in DOMAIN frames : frames[d].result = "none"
      /\ exits' = Append(exits, p) /\ exitCond' = exitCond \ P /\ exited' = TRUE
      /\ UNCHANGED <<scopes, frames, fwd, returned, seen>>
      /\ env' = [env EXCEPT ![1] = t]
      /\ Run!Leave(Worlds, "exited", 0)
  BY DEF RefExit, ExitStatement
<1>2. /\ frames # <<>> /\ ~exited /\ ~returned /\ frames[l].kind # "operand"
      /\ TypeOK /\ Framed(frames, scopes, env, seen) /\ Nested(frames, fwd)
      /\ Skipping /\ Apart(exits, exitCond)
  BY InBlock, FramedFacts DEF NextStatement, frame
<1>3. /\ scopes \in Seq(Scopes) /\ env \in Seq(EnvMaps) /\ frames \in Seq(Frames)
      /\ seen \in Seq(SUBSET Locals) /\ Returns(frames, scopes, seen)
      /\ l \in Nat \ {0} /\ DOMAIN frames = 1 .. l
      /\ m \in Nat /\ m >= 2 /\ Len(env) = m /\ DOMAIN scopes = 1 .. m
      /\ DOMAIN env = 1 .. m /\ 1 \in 1 .. m
      /\ Shaped(frames, scopes, env, seen) /\ DOMAIN env[1] = Globals
      /\ exits \in Seq(Pair) /\ exitCond \in SUBSET Worlds /\ fwd \in SUBSET Worlds
  <2>1. Framed(frames, scopes, env, seen) /\ TypeOK
    BY <1>2
  <2>2. DOMAIN env[1] = Globals
    BY <2>1 DEF Framed, Shaped
  <2> QED BY <2>1, <2>2, FramedFacts DEF Framed, TypeOK
<1>4. /\ u \in Seq(Scopes) /\ Len(u) = 1 /\ DOMAIN u[1].vars = Globals
      /\ Exit(env) \in EnvMaps /\ DOMAIN Exit(env) = Globals
      /\ \A w \in Worlds : Agree(frames, seen, scopes, env, w, m) =>
           \A n \in Globals : u[1].vars[n][w] = Exit(env)[n][w]
  BY <1>3, UnwindFacts
<1> HIDE DEF u
<1>5. /\ GetVars(u) \in VarMaps
      /\ \A n \in Globals : n \in DOMAIN GetVars(u) /\ GetVars(u)[n] = u[1].vars[n]
  <2>1. ASSUME NEW n \in Globals PROVE n \in Visible(u) /\ GetVar(u, n) = u[1].vars[n]
    <3>1. Len(u) > 0 /\ n \in DOMAIN u[Len(u)].vars
      BY <1>4
    <3> QED BY <1>4, <3>1, TopOwner
  <2> QED BY <1>4, <2>1, GetVarsFacts
<1>6. /\ \A w \in Worlds : w \in W <=> status[w] = "live"
      /\ \A w \in Worlds : w \in W <=> w \in P /\ w \in exitCond
  BY <1>2, PathLive DEF Run!Live
<1>7. /\ \A n \in Globals : Exit(env)[n] \in Store /\ env[1][n] \in Store
  <2>1. \A n \in Globals : env[1][n] \in Store
    BY <1>3, EnvFacts
  <2>2. \A n \in Globals : Exit(env)[n] \in Store
    BY <1>4 DEF EnvMaps
  <2> QED BY <2>1, <2>2
<1>8. /\ t = [n \in Globals |-> t[n]] /\ DOMAIN t = Globals
      /\ \A n \in Globals : t[n] = Ite(W, Exit(env)[n], env[1][n])
  BY <1>3
<1> HIDE DEF W, t
<1>9. \A n \in Globals : /\ t[n] \in Store
        /\ \A w \in Worlds : t[n][w] = IF w \in W THEN Exit(env)[n][w] ELSE env[1][n][w]
  BY <1>7, <1>8, IteFacts
<1>10. t \in EnvMaps
  BY <1>8, <1>9, EnvType DEF Names
<1>11. /\ env' \in Seq(EnvMaps) /\ Len(env') = m /\ env'[1] = t
       /\ \A i \in 1 .. m : i # 1 => env'[i] = env[i]
  BY <1>1, <1>3, <1>10, ReplaceFacts
<1> HIDE DEF m, P
<1>12. EnvChanged(env, env')
  <2>1. \A i \in 1 .. m : DOMAIN env'[i] = DOMAIN env[i]
    BY <1>3, <1>8, <1>11
  <2> QED BY <1>3, <1>11, <2>1 DEF EnvChanged
<1>13. Framed(frames', scopes', env', seen')
  <2>1. SameShape(scopes, scopes) /\ Under(scopes, scopes, Len(scopes))
    BY <1>3 DEF SameShape, Under
  <2>2. Changed(scopes, scopes, env, env')
    BY <1>2, <1>12, <2>1, SameChanged
  <2>3. Framed(frames, scopes, env', seen)
    BY <1>2, <2>2, FramedChanged
  <2> QED BY <1>1, <2>3
<1>14. p \in Pair /\ p.cond = exitCond \cap P /\ p.map = GetVars(u)
  BY <1>3, <1>5 DEF Pair
<1> HIDE DEF p
<1>15. /\ exits' \in Seq(Pair) /\ Last(exits') = p
       /\ Len(exits) + 1 \in DOMAIN exits' /\ exits'[Len(exits) + 1] = p
       /\ \A k \in DOMAIN exits : k \in DOMAIN exits' /\ exits'[k] = exits[k]
  <2>1. Len(exits) \in Nat /\ DOMAIN exits = 1 .. Len(exits)
    BY <1>3
  <2> QED BY <1>1, <1>3, <1>14, <2>1, AppendFacts
<1>16. Apart(exits', exitCond')
  <2>1. p.cond \subseteq exitCond /\ exitCond \ P \subseteq exitCond
        /\ p.cond \cap (exitCond \ P) = {}
    BY <1>14
  <2> QED BY <1>1, <1>2, <1>3, <1>14, <2>1, ApartAppend
<1>17. /\ status' \in [Worlds -> Run!Statuses] /\ at' \in [Worlds -> Nat]
       /\ \A w \in Worlds :
            IF status[w] = "live" THEN status'[w] = "exited" /\ at'[w] = 0
            ELSE status'[w] = status[w] /\ at'[w] = at[w]
  <2>1. "exited" \in Run!Statuses /\ 0 \in Nat
    BY DEF Run!Statuses
  <2> QED BY <1>1, <1>2, <2>1, LeaveRun
<1>18. TypeOK'
  <2>1. exitCond' \in SUBSET Worlds /\ exited' \in BOOLEAN /\ returned' \in BOOLEAN
        /\ fwd' \in SUBSET Worlds
    BY <1>1, <1>2, <1>3 DEF TypeOK
  <2> QED BY <1>2, <1>13, <1>15, <1>17, <2>1, TypeInBlock
<1>19. Skipping'
  <2>1. Run!Live' = {}
    BY <1>17 DEF Run!Live
  <2>2. ASSUME NEW d \in DOMAIN frames, frames[d].kind = "operand" PROVE FALSE
    <3>1. d \in 1 .. l /\ d # l
      BY <1>2, <1>3, <2>2
    <3>2. d < l /\ d + 1 \in DOMAIN frames
      BY <1>3, <3>1
    <3>3. frames[d + 1].result = "operand"
      BY <1>2, <2>2, <3>2 DEF Skipping
    <3> QED BY <1>1, <3>2, <3>3
  <2>3. ASSUME NEW d \in DOMAIN frames, frames[d].kind = "else",
               frames[d].exitAll \/ frames[d].returnAll
        PROVE  Run!At("done", d)' = {}
    <3>1. Run!At("done", d) = {}
      BY <1>2, <2>3 DEF Skipping
    <3> QED BY <1>17, <3>1 DEF Run!At
  <2> QED BY <1>1, <1>2, <2>1, <2>2, <2>3 DEF Skipping
<1>20. ASSUME NEW w \in Worlds, status[w] = "live"
       PROVE  Located(w)' /\ Accounted(w)'
  <2>1. Agree(frames, seen, scopes, env, w, m) /\ w \in W /\ w \in P /\ w \in exitCond
    BY <1>2, <1>6, <1>20, LiveFacts DEF m
  <2>2. status'[w] = "exited" /\ w \notin exitCond'
    BY <1>1, <1>17, <1>20, <2>1
  <2>3. \A n \in Globals : Has(p.map, n, w, env'[1][n])
    BY <1>4, <1>5, <1>9, <1>11, <1>14, <2>1 DEF Has
  <2>4. w \in p.cond
    BY <1>14, <2>1
  <2>5. HasExited(w)'
    BY <1>15, <2>3, <2>4 DEF HasExited
  <2>6. Located(w)'
    BY <2>2 DEF Located
  <2> QED BY <2>2, <2>5, <2>6 DEF Accounted
<1>21. ASSUME NEW w \in Worlds, status[w] # "live"
       PROVE  Located(w)' /\ Accounted(w)'
  <2>1. status'[w] = status[w] /\ at'[w] = at[w] /\ w \notin W
    BY <1>6, <1>17, <1>21
  <2>2. w \in exitCond' <=> w \in exitCond
    BY <1>1, <1>6, <2>1
  <2>3. \A i \in 1 .. m : \A n \in DOMAIN env[i] :
          n \in DOMAIN env'[i] /\ env'[i][n][w] = env[i][n][w]
    BY <1>3, <1>8, <1>9, <1>11, <2>1, SMTT(30)
  <2>4. Under(scopes, scopes', Len(scopes)) /\ Len(scopes') = m
    BY <1>1 DEF Under, m
  <2>5. Stays(w, Len(scopes))
    BY <1>1, <1>2, <1>15, <1>21, <2>1, <2>2, <2>3, <2>4, StaysHere DEF m
  <2> QED BY <1>2, <1>13, <2>5, StaysInPlace
<1> QED BY <1>1, <1>2, <1>13, <1>16, <1>18, <1>19, <1>20, <1>21, StillInBlock

ParamNames(params) == {params[k].name : k \in DOMAIN params}

\* The scope that copy-in adds.
Callee(sc, params, args) ==
  Scope([n \in ParamNames(params) |->
           LET k == CHOOSE i \in DOMAIN params : params[i].name = n
           IN Argument(sc, params[k], args[k])],
        CopyOutArgs(params, args))

LEMMA NoVarsType == NoVars \in VarMaps
BY DEF NoVars, VarMaps

\* What is copied back goes to arguments, and comes from parameters.
LEMMA CopyOutArgsFacts ==
  ASSUME NEW params \in Signatures, NEW S \in SUBSET Names, NEW args \in [DOMAIN params -> S],
         NEW co, co = CopyOutArgs(params, args)
  PROVE  /\ co \in UNION {[T -> Names] : T \in SUBSET Names} /\ DOMAIN co \subseteq S
         /\ \A n \in DOMAIN co : co[n] \in ParamNames(params)
         /\ ParamNames(params) \subseteq Locals
<1> DEFINE outs(n) == {k \in DOMAIN args : args[k] = n /\ params[k].dir # "in"}
           T == {n \in Range(args) : outs(n) # {}}
<1> DEFINE R == [name : Locals, dir : {"in", "out", "inout"}]
<1>0. params \in Seq(R)
  BY SignaturesAssumption
<1>1. /\ DOMAIN params = 1 .. Len(params) /\ Len(params) \in Nat
      /\ DOMAIN args = DOMAIN params /\ \A k \in DOMAIN params : params[k] \in R
  <2> HIDE DEF R
  <2>1. DOMAIN params = 1 .. Len(params) /\ Len(params) \in Nat
    BY <1>0
  <2> QED BY <1>0, <2>1
<1>2. \A k \in DOMAIN params : params[k].name \in Locals
  BY <1>1
<1>3. ParamNames(params) \subseteq Locals
  BY <1>2 DEF ParamNames
<1>4. co = [n \in T |-> params[Max(outs(n))].name]
  BY DEF CopyOutArgs
<1>5. \A n \in T : params[Max(outs(n))].name \in ParamNames(params)
  <2> SUFFICES ASSUME NEW n \in T PROVE params[Max(outs(n))].name \in ParamNames(params)
    OBVIOUS
  <2>1. outs(n) \in SUBSET (1 .. Len(params)) /\ outs(n) # {}
    BY <1>1
  <2> HIDE DEF outs, T
  <2>2. Max(outs(n)) \in outs(n)
    BY <1>1, <2>1, MaxIsGreatest
  <2>3. Max(outs(n)) \in DOMAIN params
    BY <1>1, <2>1, <2>2
  <2> QED BY <2>3 DEF ParamNames
<1>6. T \subseteq S
  <2>1. \A n \in Range(args) : n \in S
    BY DEF Range
  <2> QED BY <2>1
<1>7. T \in SUBSET Names
  BY <1>6
<1> HIDE DEF T, outs
<1>8. /\ DOMAIN co = T /\ \A n \in T : co[n] \in ParamNames(params)
  BY <1>4, <1>5
<1>9. co \in [T -> Names]
  <2>1. \A n \in T : params[Max(outs(n))].name \in Names
    BY <1>3, <1>5 DEF Names
  <2> QED BY <1>4, <2>1
<1> QED BY <1>3, <1>6, <1>7, <1>8, <1>9

\* A scope s of the code and variables v of the interpreter that a call starts with.
Enters(fs, sc, e, sn, params, s, v) ==
  /\ s \in Scopes /\ v \in EnvMaps /\ ParamNames(params) \subseteq Locals
  /\ DOMAIN s.vars = ParamNames(params) /\ DOMAIN v = ParamNames(params)
  /\ s.ret = Worlds /\ s.states = <<>> /\ s.exprs = <<>>
  /\ \A n \in DOMAIN s.copyOut :
       n \in Last(sn) \cup Globals /\ s.copyOut[n] \in ParamNames(params)
  /\ \A w \in Worlds : Agree(fs, sn, sc, e, w, Len(sc)) =>
       \A n \in ParamNames(params) : s.vars[n][w] = v[n][w]

\* Copy-in gives the parameters the values that the arguments have.
LEMMA CalleeFacts ==
  ASSUME NEW fs, NEW sc, NEW sn, Framed(fs, sc, env, sn),
         NEW params \in Signatures, NEW args \in [DOMAIN params -> Last(sn) \cup Globals]
  PROVE  /\ CopyIn(sc, params, args) = Append(sc, Callee(sc, params, args))
         /\ Enters(fs, sc, env, sn, params, Callee(sc, params, args), ParamValues(params, args))
<1> DEFINE names == ParamNames(params)
           S == Last(sn) \cup Globals
           at0(n) == CHOOSE i \in DOMAIN params : params[i].name = n
           a(n) == Argument(sc, params[at0(n)], args[at0(n)])
           b(n) == IF params[at0(n)].dir = "out" THEN Constant(Undef)
                   ELSE Value(env, args[at0(n)])
           s == Callee(sc, params, args)
           v == ParamValues(params, args)
           co == CopyOutArgs(params, args)
<1>1. CopyIn(sc, params, args) = Append(sc, s)
  BY DEF CopyIn, Callee, ParamNames
<1>2. S \in SUBSET Names
  BY FramedFacts DEF Framed, Names
<1>3. /\ co \in UNION {[T -> Names] : T \in SUBSET Names} /\ DOMAIN co \subseteq S
      /\ \A n \in DOMAIN co : co[n] \in names
      /\ names \subseteq Locals
  <2> HIDE DEF S, co
  <2>1. args \in [DOMAIN params -> S]
    BY DEF S
  <2> QED BY <1>2, <2>1, CopyOutArgsFacts DEF co
<1>4. \A n \in names : at0(n) \in DOMAIN params /\ args[at0(n)] \in S
  BY DEF ParamNames
<1>5. Constant(Undef) \in Store
  BY NamesAssumption DEF Constant, Store
<1>6. ASSUME NEW n \in names
      PROVE  /\ a(n) \in Store /\ b(n) \in Store
             /\ \A w \in Worlds : Agree(fs, sn, sc, env, w, Len(sc)) => a(n)[w] = b(n)[w]
  <2>1. PICK k : k = at0(n)
    OBVIOUS
  <2>2. PICK x : x = args[k]
    OBVIOUS
  <2>3. x \in Last(sn) \cup Globals
    BY <1>4, <2>1, <2>2
  <2>4. Used(sc, env, x, IF x \in Globals THEN 2 ELSE Len(sc))
    BY <2>3, UsableFacts
  <2>5. GetVar(sc, x) \in Store /\ Value(env, x) \in Store
    BY <2>4 DEF Used
  <2>6. a(n) = IF params[k].dir = "out" THEN Constant(Undef) ELSE GetVar(sc, x)
    BY <2>1, <2>2 DEF Argument
  <2>7. b(n) = IF params[k].dir = "out" THEN Constant(Undef) ELSE Value(env, x)
    BY <2>1, <2>2
  <2>8. ASSUME NEW w \in Worlds, Agree(fs, sn, sc, env, w, Len(sc))
        PROVE  GetVar(sc, x)[w] = Value(env, x)[w]
    BY <2>3, <2>8, UsedAgrees
  <2> HIDE DEF a, b, at0, s, v, co, S
  <2>9. a(n) \in Store /\ b(n) \in Store
    BY <1>5, <2>5, <2>6, <2>7
  <2>10. ASSUME NEW w \in Worlds, Agree(fs, sn, sc, env, w, Len(sc))
         PROVE  a(n)[w] = b(n)[w]
    BY <2>6, <2>7, <2>8, <2>10
  <2> QED BY <2>9, <2>10
<1>7. s.vars = [n \in names |-> a(n)] /\ s.copyOut = co /\ s.ret = Worlds
      /\ s.states = <<>> /\ s.exprs = <<>>
      /\ s = [vars |-> s.vars, copyOut |-> co, ret |-> Worlds, states |-> <<>>, exprs |-> <<>>]
  BY DEF Callee, Scope
<1>8. v = [n \in names |-> b(n)]
  BY DEF ParamValues, ParamNames
<1> HIDE DEF a, b, s, v, co, S, names, at0
<1>9. s.vars \in VarMaps /\ DOMAIN s.vars = names /\ \A n \in names : s.vars[n] = a(n)
  <2>1. names \in SUBSET Names
    BY <1>3 DEF Names
  <2>2. /\ \A n \in names : s.vars[n] = a(n) /\ s.vars[n] \in Store
        /\ s.vars = [n \in names |-> s.vars[n]]
    BY <1>6, <1>7
  <2>3. s.vars \in VarMaps /\ DOMAIN s.vars = names
    BY <2>1, <2>2, MapType
  <2> QED BY <2>2, <2>3
<1>10. v \in EnvMaps /\ DOMAIN v = names /\ \A n \in names : v[n] = b(n)
  <2>1. names \in SUBSET (Names \cup {"result"})
    BY <1>3 DEF Names
  <2>2. /\ \A n \in names : v[n] = b(n) /\ v[n] \in Store
        /\ v = [n \in names |-> v[n]]
    BY <1>6, <1>8
  <2>3. v \in EnvMaps /\ DOMAIN v = names
    BY <2>1, <2>2, EnvType
  <2> QED BY <2>2, <2>3
<1>11. s \in Scopes
  <2>1. <<>> \in Seq(Pair) /\ <<>> \in Seq([cond : SUBSET Worlds, val : Store])
    OBVIOUS
  <2> QED BY <1>3, <1>7, <1>9, <2>1 DEF Scopes
<1>12. ASSUME NEW w \in Worlds, Agree(fs, sn, sc, env, w, Len(sc)), NEW n \in names
       PROVE  s.vars[n][w] = v[n][w]
  BY <1>6, <1>9, <1>10, <1>12
<1>13. \A n \in DOMAIN s.copyOut : n \in Last(sn) \cup Globals /\ s.copyOut[n] \in names
  BY <1>3, <1>7 DEF S
<1>14. Enters(fs, sc, env, sn, params, s, v)
  BY <1>3, <1>7, <1>9, <1>10, <1>11, <1>12, <1>13 DEF Enters, names
<1> QED BY <1>1, <1>14 DEF s, v

\* A branch starts with the variables of its block.
LEMMA AgreePush ==
  ASSUME NEW fs, NEW sc, NEW e, NEW sn, Framed(fs, sc, e, sn), NEW f \in Frames,
         f.kind # "call", NEW w, Agree(fs, sn, sc, e, w, Len(sc))
  PROVE  Agree(Append(fs, f), Append(sn, Last(sn)), sc, e, w, Len(sc))
<1> DEFINE n == Len(fs)
           m == Len(sc)
           g == Append(fs, f)
           t == Append(sn, Last(sn))
<1>1. /\ n \in Nat \ {0} /\ DOMAIN fs = 1 .. n /\ Len(sn) = n /\ Last(sn) = sn[n]
      /\ ScopeAt(fs, n) = m /\ fs \in Seq(Frames) /\ sn \in Seq(SUBSET Locals)
      /\ m \in Nat /\ n \in 1 .. n
  BY FramedFacts DEF Framed
<1>2. /\ DOMAIN g = 1 .. n + 1 /\ \A d \in 1 .. n : g[d] = fs[d] /\ t[d] = sn[d]
      /\ t[n + 1] = sn[n]
  BY <1>1, AppendFacts
<1>3. /\ \A d \in 1 .. n : ScopeAt(g, d) = ScopeAt(fs, d)
      /\ ScopeAt(g, n + 1) = m
  BY <1>1, ScopePush
<1>4. \A d \in 1 .. n + 1 : d \in 1 .. n \/ d = n + 1
  BY <1>1
<1> HIDE DEF n, g, t
<1>5. ASSUME NEW d \in DOMAIN g, ScopeAt(g, d) <= m, NEW x \in t[d]
      PROVE  sc[ScopeAt(g, d)].vars[x][w] = e[ScopeAt(g, d)][x][w]
  <2>1. CASE d \in 1 .. n
    BY <1>1, <1>2, <1>3, <1>5, <2>1 DEF Agree
  <2>2. CASE d = n + 1
    BY <1>1, <1>2, <1>3, <1>5, <2>2 DEF Agree
  <2> QED BY <1>2, <1>4, <2>1, <2>2
<1> QED BY <1>5 DEF Agree, g, t

\* A call starts with values of its own.
LEMMA AgreeCall ==
  ASSUME NEW fs, NEW sc, NEW e, NEW sn, Framed(fs, sc, e, sn), NEW f \in Frames,
         f.kind = "call", NEW s \in Scopes, NEW v \in EnvMaps, NEW names \in SUBSET Locals,
         NEW w, Agree(fs, sn, sc, e, w, Len(sc)), \A x \in names : s.vars[x][w] = v[x][w]
  PROVE  Agree(Append(fs, f), Append(sn, names), Append(sc, s), Append(e, v), w, Len(sc) + 1)
<1> DEFINE n == Len(fs)
           m == Len(sc)
           g == Append(fs, f)
           t == Append(sn, names)
           r == Append(sc, s)
           q == Append(e, v)
<1>1. /\ n \in Nat \ {0} /\ DOMAIN fs = 1 .. n /\ Len(sn) = n
      /\ ScopeAt(fs, n) = m /\ fs \in Seq(Frames) /\ sn \in Seq(SUBSET Locals)
      /\ sc \in Seq(Scopes) /\ e \in Seq(EnvMaps) /\ Len(e) = m
      /\ m \in Nat /\ m >= 2 /\ \A d \in 1 .. n : ScopeAt(fs, d) \in 2 .. m
  BY FramedFacts DEF Framed
<1>2. /\ DOMAIN g = 1 .. n + 1 /\ \A d \in 1 .. n : g[d] = fs[d] /\ t[d] = sn[d]
      /\ t[n + 1] = names
      /\ \A i \in 1 .. m : r[i] = sc[i] /\ q[i] = e[i]
      /\ r[m + 1] = s /\ q[m + 1] = v
  BY <1>1, AppendFacts
<1>3. /\ \A d \in 1 .. n : ScopeAt(g, d) = ScopeAt(fs, d)
      /\ ScopeAt(g, n + 1) = m + 1
  BY <1>1, ScopePush
<1>4. /\ \A d \in 1 .. n + 1 : d \in 1 .. n \/ d = n + 1
      /\ \A d \in 1 .. n : ScopeAt(fs, d) \in 1 .. m /\ ScopeAt(fs, d) <= m
      /\ 2 \in 1 .. m
  BY <1>1
<1> HIDE DEF n, g, t, r, q
<1>5. ASSUME NEW d \in DOMAIN g, NEW x \in t[d]
      PROVE  r[ScopeAt(g, d)].vars[x][w] = q[ScopeAt(g, d)][x][w]
  <2>1. CASE d \in 1 .. n
    <3>1. x \in sn[d] /\ ScopeAt(g, d) = ScopeAt(fs, d)
      BY <1>2, <1>3, <1>5, <2>1
    <3>2. sc[ScopeAt(fs, d)].vars[x][w] = e[ScopeAt(fs, d)][x][w]
      BY <1>1, <1>4, <2>1, <3>1 DEF Agree
    <3> QED BY <1>2, <1>4, <2>1, <3>1, <3>2
  <2>2. CASE d = n + 1
    BY <1>2, <1>3, <1>5, <2>2
  <2> QED BY <1>2, <1>4, <2>1, <2>2
<1>6. \A x \in Globals : r[2].vars[x][w] = q[2][x][w]
  BY <1>1, <1>2, <1>4 DEF Agree
<1> QED BY <1>5, <1>6 DEF Agree, g, t, r, q

\* A world that waits until the other branch, or the operand, has come to its end.
Waits(w) ==
  LET f == frames'[Len(frames) + 1] IN
  /\ status'[w] = "wait" /\ at'[w] = Len(frames) + 1
  /\ f.kind \in {"then", "operand"} /\ f.fwd = fwd /\ w \notin f.cond
  /\ f.old = GetVars(scopes)

\* Steps that open frames.
Opens ==
  /\ UNCHANGED <<exitCond, exits, exited, returned>>
  /\ Framed(frames', scopes', env', seen') /\ Nested(frames', fwd') /\ fwd' \in SUBSET Worlds
  /\ status' \in [Worlds -> Run!Statuses] /\ at' \in [Worlds -> Nat]
  /\ Len(frames) < Len(frames') /\ Len(scopes) <= Len(scopes')
  /\ \A d \in 1 .. Len(frames) : frames'[d] = frames[d] /\ seen'[d] = seen[d]
  /\ \A i \in 1 .. Len(scopes) : scopes'[i] = scopes[i] /\ env'[i] = env[i]
  /\ \A d \in Len(frames) + 1 .. Len(frames') :
       /\ frames'[d].kind # "else"
       /\ frames'[d].kind = "operand" =>
            /\ d < Len(frames')
            /\ frames'[d + 1].kind = "call" /\ frames'[d + 1].result = "operand"
  /\ \A w \in Worlds : status[w] = "live" =>
       \/ /\ status'[w] = "live" /\ Agree(frames', seen', scopes', env', w, Len(scopes'))
          /\ w \in fwd' /\ \A j \in 1 .. Len(scopes') : w \in scopes'[j].ret
       \/ Waits(w)
  /\ \A w \in Worlds : status[w] # "live" => status'[w] = status[w] /\ at'[w] = at[w]

\* Its values are in the map that has been put aside for it.
LEMMA WaitsOutside ==
  ASSUME IInv, NextStatement, Opens, NEW w \in Worlds, status[w] = "live", Waits(w)
  PROVE  Located(w)' /\ Accounted(w)'
<1>0. PICK l, m, h : l = Len(frames) /\ m = Len(scopes) /\ h = Len(frames) + 1
  OBVIOUS
<1>1. frames # <<>> /\ Framed(frames, scopes, env, seen)
  BY InBlock DEF NextStatement
<1>2. /\ frames \in Seq(Frames) /\ scopes \in Seq(Scopes)
      /\ l \in Nat \ {0} /\ h = l + 1 /\ h \in Nat \ {0} /\ h - 1 = l /\ DOMAIN frames = 1 .. l
      /\ l \in 1 .. l /\ m \in Nat /\ m >= 2 /\ ScopeAt(frames, l) = m /\ Last(seen) = seen[l]
      /\ \A d \in 1 .. l : ScopeAt(frames, d) \in 1 .. m /\ ScopeAt(frames, d) <= m
      /\ Layered(scopes)
  BY <1>0, <1>1, FramedFacts DEF Framed
<1>3. /\ Agree(frames, seen, scopes, env, w, m) /\ w \in exitCond /\ w \in fwd
      /\ \A j \in 1 .. m : w \in scopes[j].ret
  BY <1>0, <1>1, LiveFacts
<1>4. /\ exitCond' = exitCond
      /\ \A d \in 1 .. l : frames'[d] = frames[d] /\ seen'[d] = seen[d]
      /\ \A i \in 1 .. m : scopes'[i] = scopes[i] /\ env'[i] = env[i]
      /\ Len(frames') > l /\ Len(scopes') >= m
  BY <1>0 DEF Opens
<1>5. /\ status'[w] = "wait" /\ at'[w] = h /\ frames'[h].kind \in {"then", "operand"}
      /\ frames'[h].fwd = fwd /\ w \notin frames'[h].cond /\ frames'[h].old = GetVars(scopes)
  BY <1>0 DEF Waits
<1>6. /\ Len(frames') \in Nat /\ DOMAIN frames' = 1 .. Len(frames') /\ h \in DOMAIN frames'
  <2>1. Framed(frames', scopes', env', seen')
    BY DEF Opens
  <2>2. Len(frames') \in Nat /\ DOMAIN frames' = 1 .. Len(frames')
    BY <2>1, FramedFacts
  <2> QED BY <1>2, <1>4, <2>2
<1>7. /\ \A d \in 1 .. l : ScopeAt(frames', d) = ScopeAt(frames, d)
      /\ ScopeAt(frames', h) = m
      /\ \A d \in 1 .. Len(frames') : d \notin 1 .. l => ~(ScopeAt(frames', d) < m)
  <2>1. ASSUME NEW d \in 1 .. l PROVE ScopeAt(frames', d) = ScopeAt(frames, d)
    <3>1. d \in Nat /\ \A j \in 1 .. d : frames'[j].kind = frames[j].kind
      BY <1>2, <1>4
    <3> QED BY <3>1, ScopeSame
  <2>2. ScopeAt(frames', l) = m
    BY <1>2, <2>1
  <2>3. ScopeAt(frames', h) = m
    BY <1>2, <1>5, <2>2, ScopeNext
  <2>4. ASSUME NEW d \in 1 .. Len(frames'), d \notin 1 .. l PROVE ~(ScopeAt(frames', d) < m)
    <3>1. d \in Nat /\ h <= d
      BY <1>2, <1>6, <2>4
    <3>2. ScopeAt(frames', h) <= ScopeAt(frames', d)
      BY <1>2, <3>1, ScopeGrows
    <3>3. ScopeAt(frames', d) \in Nat
      BY <3>1, ScopeType
    <3> QED BY <1>2, <2>3, <3>2, <3>3
  <2> QED BY <2>1, <2>3, <2>4
<1>8. Located(w)'
  <2>1. Home(w)' = h
    BY <1>5 DEF Home
  <2>2. \A j \in 1 .. m : w \in scopes'[j].ret
    BY <1>3, <1>4
  <2> QED BY <1>3, <1>4, <1>5, <1>6, <1>7, <2>1, <2>2 DEF Located, HasNotReturned, ScopeOf
<1>9. ASSUME NEW n \in seen[l] \cup Globals
      PROVE  Has(GetVars(scopes), n, w, env'[IF n \in Globals THEN 2 ELSE m][n])
  <2>1. PICK i : i = IF n \in Globals THEN 2 ELSE m
    OBVIOUS
  <2>2. n \in Last(seen) \cup Globals
    BY <1>2, <1>9
  <2>3. Used(scopes, env, n, i)
    BY <1>0, <1>1, <2>1, <2>2, UsableFacts
  <2>4. GetVar(scopes, n)[w] = Value(env, n)[w]
    BY <1>0, <1>1, <1>3, <2>2, UsedAgrees
  <2>5. n \in Visible(scopes) /\ Value(env, n) = env[i][n]
    BY <2>3 DEF Used
  <2>6. env'[i] = env[i]
    <3>1. i \in 1 .. m
      BY <1>2, <2>1
    <3> QED BY <1>4, <3>1
  <2>7. n \in DOMAIN GetVars(scopes) /\ GetVars(scopes)[n] = GetVar(scopes, n)
    BY <1>2, <2>5, GetVarsFacts
  <2> QED BY <2>1, <2>4, <2>5, <2>6, <2>7 DEF Has
<1>10. Saved(frames[at[w]].old, at[w] - 1, w)'
  <2>1. ASSUME NEW n \in seen'[l] \cup Globals
        PROVE  Has(frames'[h].old, n, w, env'[IF n \in Globals THEN 2 ELSE ScopeAt(frames', l)][n])
    BY <1>2, <1>4, <1>5, <1>7, <1>9, <2>1
  <2> QED BY <1>2, <1>5, <2>1 DEF Saved, Known, Meant, ScopeOf
<1>11. ASSUME NEW d \in DOMAIN frames', ScopeAt(frames', d) < m, NEW n \in seen'[d]
       PROVE  scopes'[ScopeAt(frames', d)].vars[n][w] = env'[ScopeAt(frames', d)][n][w]
  <2>1. d \in 1 .. l
    BY <1>6, <1>7, <1>11
  <2>2. ScopeAt(frames', d) = ScopeAt(frames, d) /\ n \in seen[d]
    BY <1>4, <1>7, <1>11, <2>1
  <2>3. scopes[ScopeAt(frames, d)].vars[n][w] = env[ScopeAt(frames, d)][n][w]
    BY <1>2, <1>3, <2>1, <2>2 DEF Agree
  <2> QED BY <1>2, <1>4, <2>1, <2>2, <2>3
<1>12. Accounted(w)'
  <2>1. ScopeOf(Home(w))' = m
    BY <1>5, <1>7 DEF Home, ScopeOf
  <2>2. \A d \in DOMAIN frames' : ScopeOf(d)' = ScopeAt(frames', d)
    BY DEF ScopeOf
  <2>3. \A d \in DOMAIN frames' : ScopeOf(d)' < ScopeOf(Home(w))' =>
          \A n \in seen'[d] : scopes'[ScopeOf(d)'].vars[n][w] = env'[ScopeOf(d)'][n][w]
    BY <1>11, <2>1, <2>2
  <2> QED BY <1>5, <1>10, <2>3 DEF Accounted
<1> QED BY <1>8, <1>12

LEMMA OpenStep ==
  ASSUME IInv, NextStatement, Opens
  PROVE  IInv'
<1> DEFINE l == Len(frames)
           m == Len(scopes)
<1>1. /\ frames # <<>> /\ TypeOK /\ Framed(frames, scopes, env, seen) /\ Skipping
      /\ Apart(exits, exitCond) /\ ~exited /\ ~returned /\ frames[l].kind # "operand"
  BY InBlock, FramedFacts DEF NextStatement, frame
<1>2. /\ l \in Nat \ {0} /\ DOMAIN frames = 1 .. l /\ m \in Nat /\ m >= 2
      /\ \A d \in 1 .. l : ScopeAt(frames, d) \in 2 .. m /\ ScopeAt(frames, d) <= m
  BY <1>1, FramedFacts
<1>3. /\ UNCHANGED <<exitCond, exits, exited, returned>>
      /\ Framed(frames', scopes', env', seen') /\ Nested(frames', fwd') /\ fwd' \in SUBSET Worlds
      /\ status' \in [Worlds -> Run!Statuses] /\ at' \in [Worlds -> Nat]
      /\ l < Len(frames') /\ m <= Len(scopes')
      /\ \A d \in 1 .. l : frames'[d] = frames[d] /\ seen'[d] = seen[d]
      /\ \A i \in 1 .. m : scopes'[i] = scopes[i] /\ env'[i] = env[i]
  BY DEF Opens
<1>4. Len(frames') \in Nat /\ DOMAIN frames' = 1 .. Len(frames')
  BY <1>3, FramedFacts
<1>5. \A d \in l + 1 .. Len(frames') :
        /\ frames'[d].kind # "else"
        /\ frames'[d].kind = "operand" =>
             /\ d < Len(frames')
             /\ frames'[d + 1].kind = "call" /\ frames'[d + 1].result = "operand"
  BY DEF Opens
<1>6. \A w \in Worlds : status[w] # "live" => status'[w] = status[w] /\ at'[w] = at[w]
  BY DEF Opens
<1>7. \A w \in Worlds : status[w] = "live" => status'[w] \in {"live", "wait"}
  BY DEF Opens, Waits
<1>8. TypeOK'
  <2>1. /\ exitCond' \in SUBSET Worlds /\ exits' \in Seq(Pair)
        /\ exited' \in BOOLEAN /\ returned' \in BOOLEAN
    BY <1>1, <1>3 DEF TypeOK
  <2> QED BY <1>1, <1>3, <2>1, TypeInBlock
<1> HIDE DEF l, m
<1>9. Skipping'
  <2>1. \A d \in 1 .. Len(frames') : d \in 1 .. l \/ d \in l + 1 .. Len(frames')
    BY <1>2, <1>4
  <2>2. ASSUME NEW d \in DOMAIN frames', frames'[d].kind = "operand"
        PROVE  /\ d < Len(frames')
               /\ frames'[d + 1].kind = "call" /\ frames'[d + 1].result = "operand"
    <3>1. CASE d \in 1 .. l
      <4>1. frames[d].kind = "operand" /\ d # l
        BY <1>1, <1>3, <2>2, <3>1 DEF l
      <4>2. d < l /\ d + 1 \in 1 .. l
        BY <1>2, <3>1, <4>1
      <4>3. frames[d + 1].kind = "call" /\ frames[d + 1].result = "operand"
        BY <1>1, <1>2, <3>1, <4>1, <4>2 DEF Skipping, l
      <4> QED BY <1>3, <1>4, <1>2, <4>2, <4>3
    <3> QED BY <1>4, <1>5, <2>1, <2>2, <3>1
  <2>3. ASSUME NEW d \in DOMAIN frames', frames'[d].kind = "else",
               frames'[d].exitAll \/ frames'[d].returnAll
        PROVE  Run!At("done", d)' = {}
    <3>1. d \in 1 .. l
      BY <1>4, <1>5, <2>1, <2>3
    <3>2. Run!At("done", d) = {}
      BY <1>1, <1>2, <1>3, <2>3, <3>1 DEF Skipping
    <3> QED BY <1>6, <1>7, <3>2 DEF Run!At
  <2>4. ~exited' /\ ~returned'
    BY <1>1, <1>3
  <2>5. \A d \in DOMAIN frames' : d = Len(frames') => ~(d < Len(frames'))
    BY <1>4
  <2> QED BY <2>2, <2>3, <2>4, <2>5 DEF Skipping
<1>10. ASSUME NEW w \in Worlds, status[w] = "live"
       PROVE  Located(w)' /\ Accounted(w)'
  <2>1. CASE Waits(w)
    BY <1>10, <2>1, WaitsOutside
  <2>2. CASE ~Waits(w)
    <3>1. /\ status'[w] = "live" /\ Agree(frames', seen', scopes', env', w, Len(scopes'))
          /\ w \in fwd' /\ \A j \in 1 .. Len(scopes') : w \in scopes'[j].ret
      BY <1>10, <2>2 DEF Opens
    <3>2. w \in exitCond'
      BY <1>1, <1>3, <1>10, LiveFacts
    <3> QED BY <1>3, <3>1, <3>2, LiveBack
  <2> QED BY <2>1, <2>2
<1>11. ASSUME NEW w \in Worlds, status[w] # "live"
       PROVE  Located(w)' /\ Accounted(w)'
  <2>1. /\ status[w] = "exited" => w \notin exitCond
        /\ status[w] # "exited" =>
             /\ w \in exitCond /\ at[w] \in 1 .. l /\ ScopeOf(at[w]) <= m
    BY <1>1, <1>11, NotLiveFacts DEF l, m
  <2>2. status[w] # "exited" => StaysIn(w)
    <3>1. at[w] \in 1 .. l =>
            /\ at[w] \in 1 .. Len(frames')
            /\ \A d \in 1 .. at[w] : d \in 1 .. l
            /\ \A d \in 1 .. at[w] - 1 : d \in 1 .. l
      BY <1>2, <1>3, <1>4
    <3> QED BY <1>3, <1>4, <2>1, <3>1 DEF StaysIn
  <2>3. Under(scopes, scopes', m)
    <3>1. \A i \in 1 .. m - 1 : i \in 1 .. m
      BY <1>2
    <3> QED BY <1>3, <3>1 DEF Under
  <2>4. m \in 2 .. Len(scopes)
    BY <1>2 DEF m
  <2>5. Stays(w, m)
    BY <1>3, <1>6, <1>11, <2>1, <2>2, <2>3, <2>4 DEF Stays
  <2> QED BY <1>1, <1>3, <2>5, StaysInPlace
<1>12. Apart(exits', exitCond')
  BY <1>1, <1>3
<1> QED BY <1>3, <1>8, <1>9, <1>10, <1>11, <1>12, StillInBlock

\* The frame that a call opens.
LEMMA CallFrame ==
  ASSUME fwd \in SUBSET Worlds, NEW r \in Names \cup {"none", "operand"}
  PROVE  /\ [NoFrame EXCEPT !.result = r] \in Frames
         /\ [NoFrame EXCEPT !.result = r].kind = "call"
         /\ [NoFrame EXCEPT !.result = r].fwd = fwd
         /\ [NoFrame EXCEPT !.result = r].result = r
BY NoVarsType DEF NoFrame, Frames

\* What statements that open frames find.
LEMMA OpenFacts ==
  ASSUME IInv, NextStatement
  PROVE  /\ frames # <<>> /\ TypeOK /\ Framed(frames, scopes, env, seen) /\ Nested(frames, fwd)
         /\ frames \in Seq(Frames) /\ scopes \in Seq(Scopes) /\ env \in Seq(EnvMaps)
         /\ seen \in Seq(SUBSET Locals) /\ fwd \in SUBSET Worlds
         /\ Len(frames) \in Nat \ {0} /\ Len(seen) = Len(frames)
         /\ Len(scopes) \in Nat /\ Len(env) = Len(scopes)
         /\ status \in [Worlds -> Run!Statuses] /\ at \in [Worlds -> Nat]
         /\ Last(seen) \subseteq Locals
         /\ \A w \in Worlds : status[w] = "live" =>
              /\ Agree(frames, seen, scopes, env, w, Len(scopes)) /\ w \in fwd
              /\ \A j \in 1 .. Len(scopes) : w \in scopes[j].ret
<1>1. /\ frames # <<>> /\ TypeOK /\ Framed(frames, scopes, env, seen) /\ Nested(frames, fwd)
  BY InBlock DEF NextStatement
<1>2. Last(seen) \subseteq Locals
  BY <1>1, FramedFacts
<1> QED BY <1>1, <1>2, FramedFacts, LiveFacts DEF Framed, TypeOK

LEMMA CallStep ==
  ASSUME IInv, NextStatement, RefCall
  PROVE  IInv'
<1> DEFINE l == Len(frames)
           m == Len(scopes)
<1>0. PICK params \in Signatures :
        \E args \in [DOMAIN params -> Usable], result \in (Results \cap Usable) \cup {"none"} :
          /\ Call(params, args, result)
          /\ env' = Append(env, ParamValues(params, args))
          /\ seen' = Append(seen, {params[k].name : k \in DOMAIN params})
          /\ UNCHANGED <<status, at>>
  BY DEF RefCall
<1>1. PICK args \in [DOMAIN params -> Usable], result \in (Results \cap Usable) \cup {"none"} :
        /\ Call(params, args, result)
        /\ env' = Append(env, ParamValues(params, args))
        /\ seen' = Append(seen, {params[k].name : k \in DOMAIN params})
        /\ UNCHANGED <<status, at>>
  BY <1>0
<1> DEFINE f == [NoFrame EXCEPT !.result = result]
           s == Callee(scopes, params, args)
           v == ParamValues(params, args)
           names == ParamNames(params)
<1>2. /\ frames # <<>> /\ TypeOK /\ Framed(frames, scopes, env, seen) /\ Nested(frames, fwd)
      /\ frames \in Seq(Frames) /\ scopes \in Seq(Scopes) /\ env \in Seq(EnvMaps)
      /\ seen \in Seq(SUBSET Locals) /\ fwd \in SUBSET Worlds
      /\ l \in Nat \ {0} /\ Len(seen) = l /\ m \in Nat /\ Len(env) = m
      /\ status \in [Worlds -> Run!Statuses] /\ at \in [Worlds -> Nat]
      /\ Last(seen) \subseteq Locals
      /\ \A w \in Worlds : status[w] = "live" =>
           /\ Agree(frames, seen, scopes, env, w, m) /\ w \in fwd
           /\ \A j \in 1 .. m : w \in scopes[j].ret
  BY OpenFacts
<1>3. /\ CopyIn(scopes, params, args) = Append(scopes, s)
      /\ Enters(frames, scopes, env, seen, params, s, v)
  <2>1. args \in [DOMAIN params -> Last(seen) \cup Globals]
    BY DEF Usable
  <2> QED BY <1>2, <2>1, CalleeFacts
<1>4. /\ scopes' = Append(scopes, s) /\ frames' = Append(frames, f)
      /\ env' = Append(env, v) /\ seen' = Append(seen, names)
      /\ UNCHANGED <<fwd, exitCond, exits, exited, returned, status, at>>
  BY <1>1, <1>3 DEF Call, ParamNames, scopedFlow
<1>5. f \in Frames /\ f.kind = "call" /\ f.fwd = fwd /\ f.result = result
  <2>1. result \in Names \cup {"none", "operand"}
    BY <1>2 DEF Usable, Names
  <2> QED BY <1>2, <2>1, CallFrame
<1>6. /\ s \in Scopes /\ v \in EnvMaps /\ names \subseteq Locals
      /\ DOMAIN s.vars = names /\ DOMAIN v = names
      /\ s.ret = Worlds /\ s.states = <<>> /\ s.exprs = <<>>
      /\ \A n \in DOMAIN s.copyOut : n \in Last(seen) \cup Globals /\ s.copyOut[n] \in names
      /\ \A w \in Worlds : Agree(frames, seen, scopes, env, w, m) =>
           \A n \in names : s.vars[n][w] = v[n][w]
  BY <1>3 DEF Enters
<1>7. result \in Last(seen) \cup Globals \cup {"none", "operand"}
  BY DEF Usable
<1> HIDE DEF f, s, v, names, l, m
<1>8. Framed(frames', scopes', env', seen')
  <2>1. Calls(seen, f, s, v, names)
    BY <1>5, <1>6, <1>7 DEF Calls
  <2>2. Framed(Append(frames, f), Append(scopes, s), Append(env, v), Append(seen, names))
    BY <1>2, <2>1, FramedCall
  <2> QED BY <1>4, <2>2
<1>9. Nested(frames', fwd')
  <2>1. Nested(Append(frames, f), Inside(f))
    BY <1>2, <1>5, NestPush
  <2> QED BY <1>4, <1>5, <2>1 DEF Inside
<1>10. /\ Len(frames') = l + 1 /\ frames'[l + 1] = f /\ Len(scopes') = m + 1 /\ scopes'[m + 1] = s
       /\ \A d \in 1 .. l : frames'[d] = frames[d] /\ seen'[d] = seen[d]
       /\ \A i \in 1 .. m : scopes'[i] = scopes[i] /\ env'[i] = env[i]
  BY <1>2, <1>4, <1>6, <1>5, AppendFacts DEF l, m
<1>11. ASSUME NEW w \in Worlds, status[w] = "live"
       PROVE  /\ status'[w] = "live" /\ Agree(frames', seen', scopes', env', w, Len(scopes'))
              /\ w \in fwd' /\ \A j \in 1 .. Len(scopes') : w \in scopes'[j].ret
  <2>1. Agree(frames, seen, scopes, env, w, Len(scopes)) /\ \A n \in names : s.vars[n][w] = v[n][w]
    BY <1>2, <1>6, <1>11 DEF m
  <2>2. Agree(frames', seen', scopes', env', w, Len(scopes) + 1)
    <3>1. names \in SUBSET Locals
      BY <1>6
    <3>2. Agree(Append(frames, f), Append(seen, names), Append(scopes, s), Append(env, v), w,
                Len(scopes) + 1)
      BY <1>2, <1>5, <1>6, <2>1, <3>1, AgreeCall
    <3> QED BY <1>4, <3>2
  <2>3. \A j \in 1 .. m + 1 : j \in 1 .. m \/ j = m + 1
    BY <1>2
  <2>4. \A j \in 1 .. m + 1 : w \in scopes'[j].ret
    BY <1>2, <1>6, <1>10, <1>11, <2>3
  <2> QED BY <1>2, <1>4, <1>10, <1>11, <2>2, <2>4 DEF m
<1>12. Opens
  <2>1. \A d \in l + 1 .. Len(frames') : frames'[d].kind = "call"
    <3>1. \A d \in l + 1 .. l + 1 : d = l + 1
      BY <1>2
    <3> QED BY <1>5, <1>10, <3>1
  <2>2. l < Len(frames') /\ m <= Len(scopes')
    BY <1>2, <1>10
  <2> QED BY <1>2, <1>4, <1>8, <1>9, <1>10, <1>11, <2>1, <2>2 DEF Opens, l, m
<1> QED BY <1>12, OpenStep

LEMMA IfThenStep ==
  ASSUME IInv, NextStatement, RefIfThen
  PROVE  IInv'
<1> DEFINE l == Len(frames)
           m == Len(scopes)
<1>1. PICK c \in SUBSET Worlds \ {{}, Worlds} :
        /\ IfThen(c) /\ seen' = Append(seen, Last(seen))
        /\ Run!Leave(Worlds \ c, "wait", Len(frames) + 1) /\ env' = env
  BY DEF RefIfThen
<1> DEFINE f == [NoFrame EXCEPT !.kind = "then", !.cond = c, !.old = GetVars(scopes)]
<1>2. /\ frames # <<>> /\ TypeOK /\ Framed(frames, scopes, env, seen) /\ Nested(frames, fwd)
      /\ frames \in Seq(Frames) /\ scopes \in Seq(Scopes)
      /\ seen \in Seq(SUBSET Locals) /\ fwd \in SUBSET Worlds
      /\ l \in Nat \ {0} /\ Len(seen) = l /\ m \in Nat
      /\ Last(seen) \subseteq Locals
      /\ \A w \in Worlds : status[w] = "live" =>
           /\ Agree(frames, seen, scopes, env, w, m) /\ w \in fwd
           /\ \A j \in 1 .. m : w \in scopes[j].ret
  BY OpenFacts
<1>3. /\ frames' = Append(frames, f) /\ fwd' = fwd \cap c
      /\ UNCHANGED <<scopes, exitCond, exits, exited, returned, env>>
  BY <1>1 DEF IfThen
<1>4. GetVars(scopes) \in VarMaps /\ Frozen(scopes, GetVars(scopes), Len(scopes))
  BY <1>2, GetVarsFacts
<1>5. /\ f \in Frames /\ f.kind = "then" /\ f.fwd = fwd /\ f.cond = c
      /\ f.old = GetVars(scopes)
  BY <1>2, <1>4, NoVarsType DEF NoFrame, Frames
<1> HIDE DEF f, l, m
<1>6. Framed(frames', scopes', env', seen')
  <2>1. Pushes(scopes, f)
    BY <1>4, <1>5 DEF Pushes
  <2>2. Framed(Append(frames, f), scopes, env, Append(seen, Last(seen)))
    BY <1>2, <2>1, FramedPush
  <2> QED BY <1>1, <1>3, <2>2
<1>7. Nested(frames', fwd')
  <2>1. Nested(Append(frames, f), Inside(f))
    BY <1>2, <1>5, NestPush
  <2> QED BY <1>3, <1>5, <2>1 DEF Inside
<1>8. /\ Len(frames') = l + 1 /\ frames'[l + 1] = f
      /\ \A d \in 1 .. l : frames'[d] = frames[d] /\ seen'[d] = seen[d]
  <2>1. Last(seen) \in SUBSET Locals
    BY <1>2
  <2> QED BY <1>1, <1>2, <1>3, <1>5, <2>1, AppendFacts DEF l
<1>9. /\ status' \in [Worlds -> Run!Statuses] /\ at' \in [Worlds -> Nat]
      /\ \A w \in Worlds :
           /\ status[w] = "live" /\ w \in Worlds \ c => status'[w] = "wait" /\ at'[w] = l + 1
           /\ ~(status[w] = "live" /\ w \in Worlds \ c) =>
                status'[w] = status[w] /\ at'[w] = at[w]
  <2>1. "wait" \in Run!Statuses /\ Len(frames) + 1 \in Nat
    BY <1>2 DEF Run!Statuses, l
  <2> QED BY <1>1, <1>2, <2>1, LeaveRun, ZenonT(30) DEF l
<1>10. ASSUME NEW w \in Worlds, status[w] = "live"
       PROVE  \/ /\ status'[w] = "live" /\ Agree(frames', seen', scopes', env', w, Len(scopes'))
                 /\ w \in fwd' /\ \A j \in 1 .. Len(scopes') : w \in scopes'[j].ret
              \/ Waits(w)
  <2>1. CASE w \in c
    <3>1. Agree(frames, seen, scopes, env, w, Len(scopes))
      BY <1>2, <1>10 DEF m
    <3>2. Agree(Append(frames, f), Append(seen, Last(seen)), scopes, env, w, Len(scopes))
      BY <1>2, <1>5, <3>1, AgreePush
    <3>3. Agree(frames', seen', scopes', env', w, Len(scopes'))
      BY <1>1, <1>3, <3>2
    <3> QED BY <1>2, <1>3, <1>9, <1>10, <2>1, <3>3 DEF m
  <2>2. CASE w \notin c
    <3>1. status'[w] = "wait" /\ at'[w] = l + 1
      BY <1>9, <1>10, <2>2
    <3> QED BY <1>5, <1>8, <2>2, <3>1 DEF Waits, l
  <2> QED BY <2>1, <2>2
<1>11. Opens
  <2>1. \A d \in l + 1 .. Len(frames') : frames'[d].kind = "then"
    <3>1. \A d \in l + 1 .. l + 1 : d = l + 1
      BY <1>2
    <3> QED BY <1>5, <1>8, <3>1
  <2>2. l < Len(frames') /\ m <= Len(scopes') /\ fwd' \in SUBSET Worlds
    BY <1>2, <1>3, <1>8 DEF m
  <2>3. \A i \in 1 .. Len(scopes) : scopes'[i] = scopes[i] /\ env'[i] = env[i]
    BY <1>3
  <2>4. \A w \in Worlds : status[w] # "live" => status'[w] = status[w] /\ at'[w] = at[w]
    BY <1>9
  <2> QED BY <1>3, <1>6, <1>7, <1>8, <1>9, <1>10, <2>1, <2>2, <2>3, <2>4 DEF Opens, l, m
<1> QED BY <1>11, OpenStep

LEMMA AppendTwo ==
  ASSUME NEW S, NEW q \in Seq(S), NEW a \in S, NEW b \in S
  PROVE  q \o <<a, b>> = Append(Append(q, a), b)
OBVIOUS

LEMMA ShortCircuitStep ==
  ASSUME IInv, NextStatement, RefShortCircuit
  PROVE  IInv'
<1> DEFINE l == Len(frames)
           m == Len(scopes)
<1>0. PICK params \in Signatures, c \in SUBSET Worlds \ {{}, Worlds} :
        \E args \in [DOMAIN params -> Usable] :
          /\ ShortCircuit(c, params, args)
          /\ env' = Append(env, ParamValues(params, args))
          /\ seen' = seen \o <<Last(seen), {params[k].name : k \in DOMAIN params}>>
          /\ Run!Leave(Worlds \ c, "wait", Len(frames) + 1)
  BY DEF RefShortCircuit
<1>1. PICK args \in [DOMAIN params -> Usable] :
        /\ ShortCircuit(c, params, args)
        /\ env' = Append(env, ParamValues(params, args))
        /\ seen' = seen \o <<Last(seen), {params[k].name : k \in DOMAIN params}>>
        /\ Run!Leave(Worlds \ c, "wait", Len(frames) + 1)
  BY <1>0
<1> DEFINE g == [NoFrame EXCEPT !.kind = "operand", !.cond = c, !.old = GetVars(scopes)]
           f == [NoFrame EXCEPT !.result = "operand", !.fwd = fwd \cap c]
           s == Callee(scopes, params, args)
           v == ParamValues(params, args)
           names == ParamNames(params)
           fs == Append(frames, g)
           sn == Append(seen, Last(seen))
<1>2. /\ frames # <<>> /\ TypeOK /\ Framed(frames, scopes, env, seen) /\ Nested(frames, fwd)
      /\ frames \in Seq(Frames) /\ scopes \in Seq(Scopes) /\ env \in Seq(EnvMaps)
      /\ seen \in Seq(SUBSET Locals) /\ fwd \in SUBSET Worlds
      /\ l \in Nat \ {0} /\ Len(seen) = l /\ m \in Nat /\ Len(env) = m
      /\ Last(seen) \subseteq Locals
      /\ \A w \in Worlds : status[w] = "live" =>
           /\ Agree(frames, seen, scopes, env, w, m) /\ w \in fwd
           /\ \A j \in 1 .. m : w \in scopes[j].ret
  BY OpenFacts
<1>3. GetVars(scopes) \in VarMaps /\ Frozen(scopes, GetVars(scopes), Len(scopes))
  BY <1>2, GetVarsFacts
<1>4. /\ g \in Frames /\ g.kind = "operand" /\ g.fwd = fwd /\ g.cond = c
      /\ g.old = GetVars(scopes)
  BY <1>2, <1>3, NoVarsType DEF NoFrame, Frames
<1>5. f \in Frames /\ f.kind = "call" /\ f.fwd = fwd \cap c /\ f.result = "operand"
  BY <1>2, NoVarsType DEF NoFrame, Frames
<1>6. /\ scopes' = CopyIn(scopes, params, args) /\ frames' = frames \o <<g, f>>
      /\ fwd' = fwd \cap c /\ env' = Append(env, v) /\ seen' = seen \o <<Last(seen), names>>
      /\ UNCHANGED <<exitCond, exits, exited, returned>>
  BY <1>1 DEF ShortCircuit, ParamNames
<1>7. Framed(fs, scopes, env, sn) /\ Last(sn) = Last(seen)
  <2> HIDE DEF g
  <2>1. Pushes(scopes, g)
    BY <1>3, <1>4 DEF Pushes
  <2>2. Last(seen) \in SUBSET Locals
    BY <1>2
  <2>3. Last(sn) = Last(seen)
    BY <1>2, <2>2, AppendFacts
  <2> QED BY <1>2, <2>1, <2>3, FramedPush
<1>8. /\ CopyIn(scopes, params, args) = Append(scopes, s)
      /\ Enters(fs, scopes, env, sn, params, s, v)
  <2>1. args \in [DOMAIN params -> Last(sn) \cup Globals]
    BY <1>7 DEF Usable
  <2> HIDE DEF fs, sn
  <2> QED BY <1>7, <2>1, CalleeFacts
<1> HIDE DEF f, g, s, v, names
<1>9. /\ s \in Scopes /\ v \in EnvMaps /\ names \subseteq Locals /\ names \in SUBSET Locals
      /\ DOMAIN s.vars = names /\ DOMAIN v = names
      /\ s.ret = Worlds /\ s.states = <<>> /\ s.exprs = <<>>
      /\ \A n \in DOMAIN s.copyOut : n \in Last(sn) \cup Globals /\ s.copyOut[n] \in names
      /\ \A w \in Worlds : Agree(fs, sn, scopes, env, w, m) =>
           \A n \in names : s.vars[n][w] = v[n][w]
  BY <1>8 DEF Enters, names
<1>10. /\ fs \in Seq(Frames) /\ sn \in Seq(SUBSET Locals) /\ Len(fs) = l + 1 /\ Len(sn) = l + 1
       /\ \A d \in 1 .. l : fs[d] = frames[d] /\ sn[d] = seen[d]
       /\ fs[l + 1] = g
  <2>1. Last(seen) \in SUBSET Locals
    BY <1>2
  <2> QED BY <1>2, <1>4, <2>1, AppendFacts
<1>11. /\ scopes' = Append(scopes, s) /\ frames' = Append(fs, f)
       /\ env' = Append(env, v) /\ seen' = Append(sn, names)
  <2>1. Last(seen) \in SUBSET Locals
    BY <1>2
  <2>2. frames' = Append(fs, f)
    BY <1>2, <1>4, <1>5, <1>6, AppendTwo
  <2>3. seen' = Append(sn, names)
    BY <1>2, <1>6, <1>9, <2>1, AppendTwo
  <2> QED BY <1>6, <1>8, <2>2, <2>3
<1>12. /\ Len(frames') = l + 2 /\ frames'[l + 1] = g /\ frames'[l + 2] = f
       /\ Len(scopes') = m + 1 /\ scopes'[m + 1] = s
       /\ \A d \in 1 .. l : frames'[d] = frames[d] /\ seen'[d] = seen[d]
       /\ \A i \in 1 .. m : scopes'[i] = scopes[i] /\ env'[i] = env[i]
  <2>1. /\ Len(frames') = Len(fs) + 1 /\ frames'[Len(fs) + 1] = f
        /\ \A d \in 1 .. Len(fs) : frames'[d] = fs[d] /\ seen'[d] = sn[d]
    BY <1>5, <1>9, <1>10, <1>11, AppendFacts
  <2>2. /\ Len(scopes') = m + 1 /\ scopes'[m + 1] = s
        /\ \A i \in 1 .. m : scopes'[i] = scopes[i] /\ env'[i] = env[i]
    BY <1>2, <1>9, <1>11, AppendFacts
  <2>3. /\ \A d \in 1 .. l : d \in 1 .. Len(fs)
        /\ l + 1 \in 1 .. Len(fs) /\ Len(fs) + 1 = l + 2
    BY <1>2, <1>10
  <2> HIDE DEF fs, sn, l, m
  <2> QED BY <1>10, <2>1, <2>2, <2>3
<1> HIDE DEF l, m
<1>13. Framed(frames', scopes', env', seen')
  <2> HIDE DEF fs, sn
  <2>1. f.result \in Last(sn) \cup Globals \cup {"none", "operand"}
    BY <1>5
  <2>2. Calls(sn, f, s, v, names)
    BY <1>5, <1>9, <2>1 DEF Calls
  <2>3. Framed(Append(fs, f), Append(scopes, s), Append(env, v), Append(sn, names))
    BY <1>7, <2>2, FramedCall
  <2> QED BY <1>11, <2>3
<1>14. Nested(frames', fwd')
  <2>1. Nested(fs, Inside(g))
    BY <1>2, <1>4, NestPush
  <2>2. Inside(g) = fwd \cap c /\ Inside(f) = fwd \cap c
    BY <1>4, <1>5 DEF Inside
  <2> HIDE DEF fs
  <2>3. Nested(fs, fwd \cap c)
    BY <2>1, <2>2
  <2>4. Nested(Append(fs, f), Inside(f))
    BY <1>5, <1>10, <2>3, NestPush
  <2> QED BY <1>6, <1>11, <2>2, <2>4
<1>15. /\ status' \in [Worlds -> Run!Statuses] /\ at' \in [Worlds -> Nat]
       /\ \A w \in Worlds :
            /\ status[w] = "live" /\ w \in Worlds \ c => status'[w] = "wait" /\ at'[w] = l + 1
            /\ ~(status[w] = "live" /\ w \in Worlds \ c) =>
                 status'[w] = status[w] /\ at'[w] = at[w]
  <2>1. "wait" \in Run!Statuses /\ Len(frames) + 1 \in Nat
    BY <1>2 DEF Run!Statuses, l
  <2> QED BY <1>1, <1>2, <2>1, LeaveRun DEF l
<1>16. ASSUME NEW w \in Worlds, status[w] = "live"
       PROVE  \/ /\ status'[w] = "live" /\ Agree(frames', seen', scopes', env', w, Len(scopes'))
                 /\ w \in fwd' /\ \A j \in 1 .. Len(scopes') : w \in scopes'[j].ret
              \/ Waits(w)
  <2>1. CASE w \in c
    <3>1. Agree(frames, seen, scopes, env, w, Len(scopes))
      BY <1>2, <1>16 DEF m
    <3>2. Agree(fs, sn, scopes, env, w, Len(scopes))
      BY <1>2, <1>4, <3>1, AgreePush
    <3>3. \A n \in names : s.vars[n][w] = v[n][w]
      BY <1>9, <3>2 DEF m
    <3> HIDE DEF fs, sn
    <3>4. Agree(Append(fs, f), Append(sn, names), Append(scopes, s), Append(env, v), w,
                Len(scopes) + 1)
      BY <1>5, <1>7, <1>9, <3>2, <3>3, AgreeCall
    <3>5. Agree(frames', seen', scopes', env', w, Len(scopes'))
      BY <1>11, <1>12, <3>4 DEF m
    <3>6. \A j \in 1 .. m + 1 : j \in 1 .. m \/ j = m + 1
      BY <1>2
    <3>7. \A j \in 1 .. m + 1 : w \in scopes'[j].ret
      BY <1>2, <1>9, <1>12, <1>16, <3>6
    <3> QED BY <1>2, <1>6, <1>12, <1>15, <1>16, <2>1, <3>5, <3>7
  <2>2. CASE w \notin c
    <3>1. status'[w] = "wait" /\ at'[w] = l + 1
      BY <1>15, <1>16, <2>2
    <3> QED BY <1>4, <1>12, <2>2, <3>1 DEF Waits, l
  <2> QED BY <2>1, <2>2
<1>17. Opens
  <2>1. ASSUME NEW d \in l + 1 .. Len(frames')
        PROVE  /\ frames'[d].kind # "else"
               /\ frames'[d].kind = "operand" =>
                    /\ d < Len(frames')
                    /\ frames'[d + 1].kind = "call" /\ frames'[d + 1].result = "operand"
    <3>1. d = l + 1 \/ d = l + 2
      BY <1>2, <1>12, <2>1
    <3>2. CASE d = l + 1
      <4>1. d < Len(frames') /\ d + 1 = l + 2
        BY <1>2, <1>12, <3>2
      <4> QED BY <1>4, <1>5, <1>12, <3>2, <4>1
    <3>3. CASE d = l + 2
      BY <1>5, <1>12, <3>3
    <3> QED BY <3>1, <3>2, <3>3
  <2>2. l < Len(frames') /\ m <= Len(scopes') /\ fwd' \in SUBSET Worlds
    BY <1>2, <1>6, <1>12
  <2>3. \A w \in Worlds : status[w] # "live" => status'[w] = status[w] /\ at'[w] = at[w]
    BY <1>15
  <2> QED BY <1>6, <1>12, <1>13, <1>14, <1>15, <1>16, <2>1, <2>2, <2>3 DEF Opens, l, m
<1> QED BY <1>17, OpenStep

\* What a world that enters or leaves a branch finds there.
Closed(fs, sc, e, sn, gs, tn, r, w) ==
  /\ Framed(fs, sc, e, sn) /\ fs[Len(fs)].kind # "call" /\ gs # <<>>
  /\ gs \in Seq(Frames) /\ Len(gs) \in {Len(fs) - 1, Len(fs)}
  /\ Len(gs) = Len(fs) => gs[Len(fs)].kind # "call" /\ tn[Len(fs)] = sn[Len(fs) - 1]
  /\ \A d \in 1 .. Len(fs) - 1 : gs[d] = fs[d] /\ tn[d] = sn[d]
  /\ Under(sc, r, Len(sc))
  /\ \A x \in sn[Len(fs) - 1] \cup Globals :
       r[IF x \in Globals THEN 2 ELSE Len(sc)].vars[x][w]
         = e[IF x \in Globals THEN 2 ELSE Len(sc)][x][w]
  /\ \A d \in 1 .. Len(fs) - 1 : ScopeAt(fs, d) < Len(sc) =>
       \A x \in sn[d] : sc[ScopeAt(fs, d)].vars[x][w] = e[ScopeAt(fs, d)][x][w]

\* A branch is in the scope of its block, and has the names of it.
LEMMA BranchScope ==
  ASSUME NEW fs, NEW sc, NEW e, NEW sn, Framed(fs, sc, e, sn), fs[Len(fs)].kind # "call"
  PROVE  /\ Len(fs) > 1 /\ Len(fs) - 1 \in 1 .. Len(fs) /\ ScopeAt(fs, Len(fs) - 1) = Len(sc)
         /\ sn[Len(fs) - 1] \subseteq Last(sn) /\ sn[Len(fs) - 1] \subseteq Locals
         /\ \A d \in 1 .. Len(fs) - 1 :
              /\ d \in 1 .. Len(fs)
              /\ ScopeAt(fs, d) = Len(sc) => sn[d] \subseteq sn[Len(fs) - 1]
<1> DEFINE n == Len(fs)
           m == Len(sc)
<1>1. /\ n \in Nat \ {0} /\ DOMAIN fs = 1 .. n /\ ScopeAt(fs, n) = m /\ Last(sn) = sn[n]
      /\ fs[1].kind = "call" /\ \A d \in 1 .. n : sn[d] \subseteq Locals
      /\ \A d, f \in 1 .. n : d < f /\ ScopeAt(fs, d) = ScopeAt(fs, f) => sn[d] \subseteq sn[f]
  <2>1. Shaped(fs, sc, e, sn)
    BY DEF Framed
  <2>2. DOMAIN fs = 1 .. n
    BY FramedFacts
  <2>3. /\ fs[1].kind = "call"
        /\ \A d, f \in 1 .. n : d < f /\ ScopeAt(fs, d) = ScopeAt(fs, f) => sn[d] \subseteq sn[f]
    BY <2>1, <2>2 DEF Shaped
  <2> QED BY <2>3, FramedFacts
<1>2. n > 1 /\ n - 1 \in 1 .. n /\ n \in 1 .. n
      /\ \A d \in 1 .. n - 1 : d \in 1 .. n /\ (d = n - 1 \/ d < n - 1)
  <2>1. n \in Nat /\ n # 0 /\ n # 1
    BY <1>1 DEF n
  <2> HIDE DEF n
  <2> QED BY <2>1
<1>3. ScopeAt(fs, n - 1) = m
  BY <1>1, ScopeNext
<1>4. sn[n - 1] \subseteq sn[n]
  <2>1. n - 1 < n
    BY <1>1
  <2> HIDE DEF n
  <2> QED BY <1>1, <1>2, <1>3, <2>1
<1>5. ASSUME NEW d \in 1 .. n - 1, ScopeAt(fs, d) = m PROVE sn[d] \subseteq sn[n - 1]
  <2>1. d = n - 1 \/ d < n - 1
    BY <1>2, <1>5
  <2>2. CASE d = n - 1
    BY <2>2
  <2>3. CASE d < n - 1
    <3> HIDE DEF n, m
    <3> QED BY <1>1, <1>2, <1>3, <1>5, <2>3
  <2> QED BY <2>1, <2>2, <2>3
<1> QED BY <1>1, <1>2, <1>3, <1>4, <1>5, Zenon

LEMMA AgreeClosed ==
  ASSUME NEW fs, NEW sc, NEW e, NEW sn, NEW gs, NEW tn, NEW r, NEW w,
         Closed(fs, sc, e, sn, gs, tn, r, w)
  PROVE  Agree(gs, tn, r, e, w, Len(sc))
<1> DEFINE n == Len(fs)
           m == Len(sc)
<1>1. /\ Framed(fs, sc, e, sn) /\ fs[n].kind # "call" /\ gs \in Seq(Frames)
      /\ Len(gs) \in {n - 1, n}
      /\ Len(gs) = n => gs[n].kind # "call" /\ tn[n] = sn[n - 1]
      /\ \A d \in 1 .. n - 1 : gs[d] = fs[d] /\ tn[d] = sn[d]
      /\ Under(sc, r, m)
      /\ \A x \in sn[n - 1] \cup Globals :
           r[IF x \in Globals THEN 2 ELSE m].vars[x][w] = e[IF x \in Globals THEN 2 ELSE m][x][w]
      /\ \A d \in 1 .. n - 1 : ScopeAt(fs, d) < m =>
           \A x \in sn[d] : sc[ScopeAt(fs, d)].vars[x][w] = e[ScopeAt(fs, d)][x][w]
  BY DEF Closed
<1>2. /\ n \in Nat \ {0} /\ m \in Nat /\ m >= 2
      /\ \A d \in 1 .. n : ScopeAt(fs, d) \in 2 .. m /\ sn[d] \subseteq Locals
      /\ \A d \in 1 .. n : sn[d] \subseteq DOMAIN sc[ScopeAt(fs, d)].vars
  BY <1>1, FramedFacts
<1>3. /\ n > 1 /\ n - 1 \in 1 .. n /\ ScopeAt(fs, n - 1) = m /\ sn[n - 1] \subseteq Locals
      /\ \A d \in 1 .. n - 1 : d \in 1 .. n /\ (ScopeAt(fs, d) = m => sn[d] \subseteq sn[n - 1])
  BY <1>1, BranchScope
<1>4. DOMAIN gs = 1 .. Len(gs) /\ \A d \in DOMAIN gs : d \in 1 .. n - 1 \/ (d = n /\ Len(gs) = n)
  <2>1. DOMAIN gs = 1 .. Len(gs) /\ Len(gs) \in Nat
    BY <1>1
  <2> QED BY <1>1, <1>2, <2>1
<1>5. \A d \in 1 .. n - 1 : ScopeAt(gs, d) = ScopeAt(fs, d)
  <2> SUFFICES ASSUME NEW d \in 1 .. n - 1 PROVE ScopeAt(gs, d) = ScopeAt(fs, d)
    OBVIOUS
  <2>1. d \in Nat /\ \A j \in 1 .. d : j \in 1 .. n - 1
    BY <1>2
  <2>2. \A j \in 1 .. d : gs[j].kind = fs[j].kind
    BY <1>1, <2>1
  <2> QED BY <2>1, <2>2, ScopeSame
<1>6. Len(gs) = n => ScopeAt(gs, n) = m
  <2>1. n - 1 \in 1 .. n - 1
    BY <1>2, <1>3
  <2>2. ScopeAt(gs, n - 1) = m
    BY <1>3, <1>5, <2>1
  <2> QED BY <1>1, <1>2, <2>2, ScopeNext
<1> HIDE DEF n, m
<1>7. \A x \in sn[n - 1] : r[m].vars[x][w] = e[m][x][w]
  BY <1>1, <1>3, NamesAssumption
<1>8. ASSUME NEW d \in DOMAIN gs, NEW x \in tn[d]
      PROVE  r[ScopeAt(gs, d)].vars[x][w] = e[ScopeAt(gs, d)][x][w]
  <2>1. CASE d = n /\ Len(gs) = n
    BY <1>1, <1>6, <1>7, <1>8, <2>1
  <2>2. CASE d \in 1 .. n - 1
    <3>1. /\ x \in sn[d] /\ ScopeAt(gs, d) = ScopeAt(fs, d) /\ d \in 1 .. n
          /\ ScopeAt(fs, d) \in 2 .. m
      BY <1>1, <1>2, <1>3, <1>5, <1>8, <2>2
    <3>2. CASE ScopeAt(fs, d) = m
      BY <1>3, <1>7, <2>2, <3>1, <3>2
    <3>3. CASE ScopeAt(fs, d) # m
      <4>1. ScopeAt(fs, d) < m /\ ScopeAt(fs, d) \in 1 .. m - 1
        BY <1>2, <3>1, <3>3
      <4>2. x \in DOMAIN sc[ScopeAt(fs, d)].vars \cap Locals
        BY <1>2, <3>1
      <4>3. r[ScopeAt(fs, d)].vars[x] = sc[ScopeAt(fs, d)].vars[x]
        BY <1>1, <4>1, <4>2 DEF Under
      <4> QED BY <1>1, <2>2, <3>1, <4>1, <4>3
    <3> QED BY <3>2, <3>3
  <2> QED BY <1>4, <2>1, <2>2
<1>9. \A x \in Globals : r[2].vars[x][w] = e[2][x][w]
  BY <1>1
<1> QED BY <1>8, <1>9 DEF Agree, m

\* What restoring and merging give a world.
LEMMA RestoredValue ==
  ASSUME NEW sc \in Seq(Scopes), NEW map \in VarMaps, NEW i \in DOMAIN sc,
         NEW n \in DOMAIN sc[i].vars, Owner(sc, n) = i, n \in DOMAIN map
  PROVE  RestoreVars(sc, map)[i].vars[n] = map[n]
BY RestoreFacts

LEMMA MergedValue ==
  ASSUME NEW sc \in Seq(Scopes), NEW map \in VarMaps, NEW cond, NEW i \in DOMAIN sc,
         NEW n \in DOMAIN sc[i].vars, NEW w \in Worlds
  PROVE  /\ w \notin cond => MergeVars(sc, cond, map)[i].vars[n][w] = sc[i].vars[n][w]
         /\ w \in cond /\ Owner(sc, n) = i /\ n \in DOMAIN map =>
              MergeVars(sc, cond, map)[i].vars[n][w] = map[n][w]
<1>1. PICK r : r = MergeVars(sc, cond, map)
  OBVIOUS
<1>2. r[i].vars[n] = IF n \in DOMAIN map /\ Owner(sc, n) = i
                     THEN Ite(cond, map[n], sc[i].vars[n]) ELSE sc[i].vars[n]
  BY <1>1, MergeFacts
<1>3. sc[i].vars[n] \in Store
  <2>1. i \in 1 .. Len(sc)
    OBVIOUS
  <2> QED BY <2>1, VarValue
<1>4. n \in DOMAIN map => map[n] \in Store
  BY MapFacts
<1>5. n \in DOMAIN map =>
        Ite(cond, map[n], sc[i].vars[n])[w] = IF w \in cond THEN map[n][w] ELSE sc[i].vars[n][w]
  BY <1>3, <1>4, IteFacts
<1> QED BY <1>1, <1>2, <1>5

\* Steps that end a branch or an operand: the worlds of S are still in frames below.
Closes(S) ==
  /\ UNCHANGED <<exitCond, exits, env>>
  /\ Framed(frames', scopes', env', seen') /\ Nested(frames', fwd') /\ fwd' \in SUBSET Worlds
  /\ exited' \in BOOLEAN /\ returned' \in BOOLEAN
  /\ status' \in [Worlds -> Run!Statuses] /\ at' \in [Worlds -> Nat]
  /\ SameShape(scopes, scopes') /\ Under(scopes, scopes', Len(scopes))
  /\ Len(frames') >= Len(frames) - 1
  /\ \A d \in 1 .. Len(frames) - 1 : frames'[d] = frames[d] /\ seen'[d] = seen[d]
  /\ Skipping'
  /\ \A w \in Worlds :
       IF w \in S THEN /\ status[w] # "live" /\ status'[w] = status[w] /\ at'[w] = at[w]
                       /\ status[w] = "exited" \/ at[w] # Len(frames)
       ELSE Located(w)' /\ Accounted(w)'

LEMMA CloseStep ==
  ASSUME IInv, frames # <<>>, NEW S, Closes(S)
  PROVE  IInv'
<1> DEFINE l == Len(frames)
           m == Len(scopes)
<1>1. TypeOK /\ Framed(frames, scopes, env, seen) /\ Apart(exits, exitCond)
  BY InBlock
<1>2. /\ l \in Nat \ {0} /\ m \in Nat /\ m >= 2 /\ DOMAIN scopes = 1 .. m
      /\ scopes \in Seq(Scopes)
  BY <1>1, FramedFacts DEF Framed
<1>3. /\ UNCHANGED <<exitCond, exits, env>>
      /\ Framed(frames', scopes', env', seen') /\ Nested(frames', fwd') /\ fwd' \in SUBSET Worlds
      /\ exited' \in BOOLEAN /\ returned' \in BOOLEAN
      /\ status' \in [Worlds -> Run!Statuses] /\ at' \in [Worlds -> Nat]
      /\ SameShape(scopes, scopes') /\ Under(scopes, scopes', m)
      /\ Len(frames') >= l - 1
      /\ \A d \in 1 .. l - 1 : frames'[d] = frames[d] /\ seen'[d] = seen[d]
      /\ Skipping'
  BY DEF Closes
<1>4. Len(frames') \in Nat /\ DOMAIN frames' = 1 .. Len(frames')
  BY <1>3, FramedFacts
<1>5. TypeOK'
  <2>1. exitCond' \in SUBSET Worlds /\ exits' \in Seq(Pair)
    BY <1>1, <1>3 DEF TypeOK
  <2> QED BY <1>1, <1>3, <2>1, TypeInBlock
<1>6. ASSUME NEW w \in Worlds, w \in S PROVE Located(w)' /\ Accounted(w)'
  <2>1. /\ status[w] # "live" /\ status'[w] = status[w] /\ at'[w] = at[w]
        /\ status[w] = "exited" \/ at[w] # l
    BY <1>6 DEF Closes
  <2>2. /\ status[w] = "exited" => w \notin exitCond
        /\ status[w] # "exited" => w \in exitCond /\ at[w] \in 1 .. l /\ ScopeOf(at[w]) <= m
    BY <1>1, <2>1, NotLiveFacts
  <2> HIDE DEF l, m
  <2>3. status[w] # "exited" =>
          /\ at[w] \in 1 .. l - 1 /\ at[w] \in 1 .. Len(frames')
          /\ \A d \in 1 .. at[w] : d \in 1 .. l - 1
          /\ \A d \in 1 .. at[w] - 1 : d \in 1 .. l - 1
    BY <1>2, <1>3, <1>4, <2>1, <2>2
  <2>4. status[w] # "exited" => StaysIn(w)
    BY <1>3, <1>4, <2>2, <2>3 DEF StaysIn
  <2>5. m \in 2 .. Len(scopes) /\ m <= Len(scopes')
    BY <1>2, <1>3 DEF m, SameShape
  <2>6. \A i \in 1 .. m : /\ scopes'[i].ret = scopes[i].ret
                          /\ scopes'[i].copyOut = scopes[i].copyOut
                          /\ scopes'[i].states = scopes[i].states
                          /\ scopes'[i].exprs = scopes[i].exprs
    BY <1>2, <1>3 DEF SameShape
  <2>7. Stays(w, m)
    BY <1>3, <2>1, <2>2, <2>4, <2>5, <2>6 DEF Stays
  <2> QED BY <1>3, <2>7, StaysInPlace
<1>7. \A w \in Worlds : w \notin S => Located(w)' /\ Accounted(w)'
  BY DEF Closes
<1>8. Apart(exits', exitCond')
  BY <1>1, <1>3
<1> QED BY <1>3, <1>5, <1>6, <1>7, <1>8, StillInBlock

\* How the statuses change where a call, a branch or an operand ends.
LEMMA EnterRun ==
  ASSUME TypeOK, NEW s, NEW d, Run!Enter(s, d)
  PROVE  /\ status' \in [Worlds -> Run!Statuses] /\ at' \in [Worlds -> Nat]
         /\ \A w \in Worlds :
              /\ status[w] = s /\ at[w] = d => status'[w] = "live"
              /\ ~(status[w] = s /\ at[w] = d) => status'[w] = status[w] /\ at'[w] = at[w]
<1>1. "live" \in Run!Statuses
  BY DEF Run!Statuses
<1> QED BY <1>1 DEF TypeOK, Run!Enter, Run!At

LEMMA ResumeRun ==
  ASSUME TypeOK, NEW d, Run!Resume(d)
  PROVE  /\ status' \in [Worlds -> Run!Statuses] /\ at' \in [Worlds -> Nat]
         /\ \A w \in Worlds :
              /\ status[w] \in {"wait", "done"} /\ at[w] = d => status'[w] = "live"
              /\ ~(status[w] \in {"wait", "done"} /\ at[w] = d) =>
                   status'[w] = status[w] /\ at'[w] = at[w]
<1>1. "live" \in Run!Statuses
  BY DEF Run!Statuses
<1> QED BY <1>1 DEF TypeOK, Run!Resume, Run!At

LEMMA TurnRun ==
  ASSUME TypeOK, NEW d \in Nat, Run!Turn(Worlds, d)
  PROVE  /\ status' \in [Worlds -> Run!Statuses] /\ at' \in [Worlds -> Nat]
         /\ \A w \in Worlds :
              /\ status[w] = "live" => status'[w] = "done" /\ at'[w] = d
              /\ status[w] = "wait" /\ at[w] = d => status'[w] = "live"
              /\ status[w] # "live" /\ ~(status[w] = "wait" /\ at[w] = d) =>
                   status'[w] = status[w] /\ at'[w] = at[w]
<1>1. "live" \in Run!Statuses /\ "done" \in Run!Statuses
  BY DEF Run!Statuses
<1> QED BY <1>1 DEF TypeOK, Run!Turn, Run!At, Run!Live

\* The names of the block are those of its variables.
LEMMA BranchNames ==
  ASSUME NEW fs, NEW sc, NEW e, NEW sn, Framed(fs, sc, e, sn), fs[Len(fs)].kind # "call",
         NEW n \in sn[Len(fs) - 1] \cup Globals
  PROVE  /\ n \in Last(sn) \cup Globals
         /\ Used(sc, e, n, IF n \in Globals THEN 2 ELSE Len(sc))
         /\ (IF n \in Globals THEN 2 ELSE Len(sc)) \in DOMAIN sc
<1>1. n \in Last(sn) \cup Globals
  BY BranchScope
<1>2. Len(sc) \in Nat /\ Len(sc) >= 2 /\ DOMAIN sc = 1 .. Len(sc)
  BY FramedFacts
<1>3. (IF n \in Globals THEN 2 ELSE Len(sc)) \in DOMAIN sc
  BY <1>2
<1> QED BY <1>1, <1>3, UsableFacts

\* Where the values of a world are that is outside of the branch, or in it.
Holds(w, map) ==
  /\ \A n \in seen[Len(frames) - 1] \cup Globals :
       Has(map, n, w, env[IF n \in Globals THEN 2 ELSE Len(scopes)][n])
HoldsBelow(w) ==
  \A d \in 1 .. Len(frames) - 1 : ScopeAt(frames, d) < Len(scopes) =>
    \A x \in seen[d] :
      scopes[ScopeAt(frames, d)].vars[x][w] = env[ScopeAt(frames, d)][x][w]

LEMMA WaitingFacts ==
  ASSUME IInv, frames # <<>>, frames[Len(frames)].kind # "call", NEW w \in Worlds,
         status[w] \in {"wait", "done"}, at[w] = Len(frames)
  PROVE  /\ w \in exitCond /\ \A j \in 1 .. Len(scopes) : w \in scopes[j].ret
         /\ status[w] = "wait" =>
              /\ frames[Len(frames)].kind \in {"then", "operand"}
              /\ w \in frames[Len(frames)].fwd \ frames[Len(frames)].cond
              /\ Holds(w, frames[Len(frames)].old)
         /\ status[w] = "done" =>
              /\ frames[Len(frames)].kind = "else"
              /\ w \in frames[Len(frames)].fwd \cap frames[Len(frames)].cond
              /\ Holds(w, frames[Len(frames)].kept)
         /\ HoldsBelow(w)
<1>0. PICK l : l = Len(frames)
  OBVIOUS
<1>1. Framed(frames, scopes, env, seen) /\ Located(w) /\ Accounted(w)
  BY InBlock
<1>2. /\ l \in Nat \ {0} /\ DOMAIN frames = 1 .. l /\ ScopeAt(frames, l) = Len(scopes)
      /\ l - 1 \in 1 .. l /\ ScopeAt(frames, l - 1) = Len(scopes)
      /\ \A d \in 1 .. l - 1 : d \in 1 .. l
  BY <1>0, <1>1, FramedFacts, BranchScope
<1>3. Home(w) = l /\ ScopeOf(l) = Len(scopes)
  BY <1>0, <1>2 DEF Home, ScopeOf
<1>4. /\ w \in exitCond /\ \A j \in 1 .. Len(scopes) : w \in scopes[j].ret
      /\ status[w] = "wait" =>
           frames[l].kind \in {"then", "operand"} /\ w \in frames[l].fwd \ frames[l].cond
      /\ status[w] = "done" => frames[l].kind = "else" /\ w \in frames[l].fwd \cap frames[l].cond
  BY <1>1, <1>3 DEF Located, HasNotReturned
<1>5. ASSUME NEW map, Saved(map, at[w] - 1, w) PROVE Holds(w, map)
  BY <1>0, <1>2, <1>5 DEF Saved, Known, Meant, ScopeOf, Holds
<1>6. HoldsBelow(w)
  BY <1>0, <1>1, <1>2, <1>3 DEF Accounted, HoldsBelow, ScopeOf
<1>7. /\ status[w] = "wait" => Holds(w, frames[l].old)
      /\ status[w] = "done" => Holds(w, frames[l].kept)
  BY <1>0, <1>1, <1>5 DEF Accounted
<1> QED BY <1>0, <1>4, <1>6, <1>7

LEMMA LiveBranch ==
  ASSUME IInv, frames # <<>>, frames[Len(frames)].kind # "call", NEW w \in Worlds,
         status[w] = "live"
  PROVE  /\ w \in exitCond /\ w \in fwd /\ \A j \in 1 .. Len(scopes) : w \in scopes[j].ret
         /\ Holds(w, GetVars(scopes)) /\ HoldsBelow(w)
         /\ w \in Inside(frames[Len(frames)])
         /\ \A n \in seen[Len(frames) - 1] \cup Globals :
              scopes[IF n \in Globals THEN 2 ELSE Len(scopes)].vars[n][w]
                = env[IF n \in Globals THEN 2 ELSE Len(scopes)][n][w]
<1>0. PICK l : l = Len(frames)
  OBVIOUS
<1>1. Framed(frames, scopes, env, seen) /\ Nested(frames, fwd)
  BY InBlock
<1>2. /\ l \in Nat \ {0} /\ DOMAIN frames = 1 .. l /\ l \in 1 .. l
      /\ \A d \in 1 .. l - 1 : d \in 1 .. l
      /\ frames \in Seq(Frames) /\ scopes \in Seq(Scopes)
      /\ \A d \in 1 .. l : ScopeAt(frames, d) <= Len(scopes)
  BY <1>0, <1>1, FramedFacts, BranchScope DEF Framed
<1>3. /\ Agree(frames, seen, scopes, env, w, Len(scopes)) /\ w \in exitCond /\ w \in fwd
      /\ \A j \in 1 .. Len(scopes) : w \in scopes[j].ret
  BY LiveFacts
<1>4. ASSUME NEW n \in seen[l - 1] \cup Globals, NEW i,
             i = (IF n \in Globals THEN 2 ELSE Len(scopes))
      PROVE  Has(GetVars(scopes), n, w, env[i][n]) /\ scopes[i].vars[n][w] = env[i][n][w]
  <2>1. n \in Last(seen) \cup Globals /\ Used(scopes, env, n, i)
    BY <1>0, <1>1, <1>4, BranchNames
  <2>2. /\ n \in Visible(scopes) /\ Value(env, n) = env[i][n]
        /\ GetVar(scopes, n) = scopes[i].vars[n]
    BY <2>1 DEF Used
  <2>3. GetVar(scopes, n)[w] = Value(env, n)[w]
    BY <1>1, <1>3, <2>1, UsedAgrees
  <2>4. n \in DOMAIN GetVars(scopes) /\ GetVars(scopes)[n] = GetVar(scopes, n)
    BY <1>2, <2>2, GetVarsFacts
  <2> QED BY <2>2, <2>3, <2>4 DEF Has
<1>5. Holds(w, GetVars(scopes))
  BY <1>0, <1>4 DEF Holds
<1>6. HoldsBelow(w)
  BY <1>0, <1>2, <1>3 DEF HoldsBelow, Agree
<1>7. w \in Inside(frames[l])
  BY <1>0, <1>1, <1>2, <1>3, FwdInside
<1> QED BY <1>0, <1>3, <1>4, <1>5, <1>6, <1>7

\* A world goes on with the statements after or beside a branch.
GoesOn(w) ==
  /\ status'[w] = "live" /\ w \in exitCond /\ w \in fwd' /\ HoldsBelow(w)
  /\ \A j \in 1 .. Len(scopes) : w \in scopes[j].ret
  /\ \A x \in seen[Len(frames) - 1] \cup Globals :
       scopes'[IF x \in Globals THEN 2 ELSE Len(scopes)].vars[x][w]
         = env[IF x \in Globals THEN 2 ELSE Len(scopes)][x][w]

\* Steps that end a branch, or one of two.
EndsBranch ==
  /\ frames # <<>> /\ frames[Len(frames)].kind # "call"
  /\ UNCHANGED <<exitCond, env>> /\ Framed(frames', scopes', env', seen')
  /\ SameShape(scopes, scopes') /\ Under(scopes, scopes', Len(scopes))
  /\ Len(frames') \in {Len(frames) - 1, Len(frames)}
  /\ Len(frames') = Len(frames) =>
       frames'[Len(frames)].kind # "call" /\ seen'[Len(frames)] = seen[Len(frames) - 1]
  /\ \A d \in 1 .. Len(frames) - 1 : frames'[d] = frames[d] /\ seen'[d] = seen[d]

LEMMA GoesOnInPlace ==
  ASSUME IInv, EndsBranch, NEW w \in Worlds, GoesOn(w)
  PROVE  Located(w)' /\ Accounted(w)'
<1>0. /\ frames # <<>> /\ frames[Len(frames)].kind # "call"
      /\ UNCHANGED <<exitCond, env>> /\ Framed(frames', scopes', env', seen')
      /\ SameShape(scopes, scopes') /\ Under(scopes, scopes', Len(scopes))
      /\ Len(frames') \in {Len(frames) - 1, Len(frames)}
      /\ Len(frames') = Len(frames) =>
           frames'[Len(frames)].kind # "call" /\ seen'[Len(frames)] = seen[Len(frames) - 1]
      /\ \A d \in 1 .. Len(frames) - 1 : frames'[d] = frames[d] /\ seen'[d] = seen[d]
  BY DEF EndsBranch
<1>1. Framed(frames, scopes, env, seen)
  BY <1>0, InBlock
<1>2. frames' # <<>> /\ frames' \in Seq(Frames)
  BY <1>0, FramedFacts DEF Framed
<1>3. /\ status'[w] = "live" /\ w \in exitCond /\ w \in fwd' /\ HoldsBelow(w)
      /\ \A j \in 1 .. Len(scopes) : w \in scopes[j].ret
      /\ \A x \in seen[Len(frames) - 1] \cup Globals :
           scopes'[IF x \in Globals THEN 2 ELSE Len(scopes)].vars[x][w]
             = env[IF x \in Globals THEN 2 ELSE Len(scopes)][x][w]
  BY DEF GoesOn
<1>4. Closed(frames, scopes, env, seen, frames', seen', scopes', w)
  BY <1>0, <1>1, <1>2, <1>3 DEF Closed, HoldsBelow
<1>5. Agree(frames', seen', scopes', env, w, Len(scopes))
  BY <1>4, AgreeClosed
<1>6. Len(scopes') = Len(scopes) /\ \A j \in 1 .. Len(scopes) : w \in scopes'[j].ret
  <2>1. DOMAIN scopes = 1 .. Len(scopes)
    BY <1>1, FramedFacts
  <2> QED BY <1>0, <1>3, <2>1 DEF SameShape
<1>7. Agree(frames', seen', scopes', env', w, Len(scopes'))
  BY <1>0, <1>5, <1>6
<1> QED BY <1>0, <1>3, <1>6, <1>7, LiveBack

\* Other values of the same variables.
LEMMA FramedSame ==
  ASSUME NEW fs, NEW sc, NEW e, NEW sn, Framed(fs, sc, e, sn), NEW r, SameShape(sc, r),
         Under(sc, r, Len(sc))
  PROVE  Framed(fs, r, e, sn)
<1>1. EnvChanged(e, e)
  BY DEF EnvChanged, Framed
<1>2. Changed(sc, r, e, e)
  BY <1>1, SameChanged
<1> QED BY <1>2, FramedChanged

\* What an end of a branch or an operand finds.
LEMMA EndFacts ==
  ASSUME IInv, frames # <<>>, frame.kind # "call"
  PROVE  /\ TypeOK /\ Framed(frames, scopes, env, seen) /\ Nested(frames, fwd) /\ Skipping
         /\ frames \in Seq(Frames) /\ scopes \in Seq(Scopes) /\ seen \in Seq(SUBSET Locals)
         /\ Len(frames) \in Nat /\ Len(frames) > 1 /\ DOMAIN frames = 1 .. Len(frames)
         /\ Len(scopes) \in Nat /\ frame = frames[Len(frames)] /\ frame \in Frames
         /\ frame.old \in VarMaps /\ frame.kept \in VarMaps /\ frame.fwd \in SUBSET Worlds
         /\ Frozen(scopes, frame.old, Len(scopes))
         /\ frame.kind = "else" => Frozen(scopes, frame.kept, Len(scopes))
         /\ Len(seen) = Len(frames)
<1> DEFINE l == Len(frames)
<1>1. TypeOK /\ Framed(frames, scopes, env, seen) /\ Nested(frames, fwd) /\ Skipping
  BY InBlock
<1>2. /\ frame = frames[l] /\ frame \in Frames /\ l \in Nat /\ l \in DOMAIN frames
      /\ DOMAIN frames = 1 .. l /\ ScopeAt(frames, l) = Len(scopes)
      /\ Len(scopes) \in Nat /\ Len(seen) = l
  <2>1. /\ frame = frames[l] /\ l \in Nat \ {0} /\ DOMAIN frames = 1 .. l
        /\ ScopeAt(frames, l) = Len(scopes) /\ Len(scopes) \in Nat /\ Len(seen) = l
        /\ \A d \in 1 .. l : frames[d] \in Frames
    BY <1>1, FramedFacts DEF frame
  <2> QED BY <2>1
<1>3. l > 1
  BY <1>1, <1>2, BranchScope
<1>4. /\ frame.old \in VarMaps /\ frame.kept \in VarMaps /\ frame.fwd \in SUBSET Worlds
  BY <1>2 DEF Frames
<1>5. AllFrozen(frames, scopes)
  BY <1>1 DEF Framed
<1>6. /\ Frozen(scopes, frame.old, Len(scopes))
      /\ frame.kind = "else" => Frozen(scopes, frame.kept, Len(scopes))
  BY <1>2, <1>5 DEF AllFrozen
<1> QED BY <1>1, <1>2, <1>3, <1>4, <1>6 DEF Framed

\* Worlds that have left the frames above, or wait below.
LEMMA ElsewhereFacts ==
  ASSUME IInv, frames # <<>>, frames[Len(frames)].kind # "call", NEW w \in Worlds,
         status[w] # "live", ~(status[w] \in {"wait", "done"} /\ at[w] = Len(frames))
  PROVE  status[w] = "exited" \/ at[w] # Len(frames)
<1>1. status[w] \in Run!Statuses
  BY InBlock DEF TypeOK
<1>2. status[w] = "returned" => frames[at[w]].kind = "call"
  BY NotLiveFacts
<1> QED BY <1>1, <1>2 DEF Run!Statuses

LEMMA ShortCircuitEndStep ==
  ASSUME IInv, RefShortCircuitEnd
  PROVE  IInv'
<1> DEFINE l == Len(frames)
           m == Len(scopes)
           f == frame
           c == Worlds \ f.cond
           S == {w \in Worlds : status[w] # "live" /\ ~(status[w] = "wait" /\ at[w] = l)}
<1>1. /\ frames # <<>> /\ f.kind = "operand" /\ scopes' = MergeVars(scopes, c, f.old)
      /\ frames' = Front(frames) /\ fwd' = f.fwd /\ seen' = Front(seen)
      /\ UNCHANGED <<exitCond, exits, exited, returned, env>>
      /\ Run!Resume(l)
  BY DEF RefShortCircuitEnd, ShortCircuitEnd, WithoutOperand
<1>2. /\ TypeOK /\ Framed(frames, scopes, env, seen) /\ Nested(frames, fwd) /\ Skipping
      /\ frames \in Seq(Frames) /\ scopes \in Seq(Scopes) /\ seen \in Seq(SUBSET Locals)
      /\ l \in Nat /\ l > 1 /\ DOMAIN frames = 1 .. l
      /\ m \in Nat /\ f = frames[l] /\ f \in Frames
      /\ f.old \in VarMaps /\ f.fwd \in SUBSET Worlds
      /\ Frozen(scopes, f.old, m) /\ Len(seen) = l
  <2>1. frame.kind # "call"
    BY <1>1
  <2> QED BY <1>1, <2>1, EndFacts
<1> HIDE DEF f
<1>3. SameShape(scopes, scopes') /\ Under(scopes, scopes', Len(scopes))
  BY <1>1, <1>2, MergeFacts, MergeUnder
<1>4. Framed(frames', scopes', env', seen')
  <2>1. Framed(frames, scopes', env, seen)
    BY <1>2, <1>3, FramedSame
  <2>2. Last(frames).kind # "call"
    BY <1>1 DEF f, frame
  <2>3. Framed(Front(frames), scopes', env, Front(seen))
    BY <2>1, <2>2, FramedPop
  <2> QED BY <1>1, <2>3
<1>5. /\ Len(frames') = l - 1 /\ DOMAIN frames' = 1 .. l - 1
      /\ \A d \in 1 .. l - 1 : frames'[d] = frames[d] /\ seen'[d] = seen[d]
  <2>1. seen # <<>>
    BY <1>2
  <2> QED BY <1>1, <1>2, <2>1, FrontFacts, Zenon
<1>6. Nested(frames', fwd')
  <2>1. Last(frames) = f
    BY DEF f, frame
  <2> QED BY <1>1, <1>2, <2>1, NestPop
<1>7. /\ status' \in [Worlds -> Run!Statuses] /\ at' \in [Worlds -> Nat]
      /\ \A w \in Worlds :
           /\ status[w] \in {"wait", "done"} /\ at[w] = l => status'[w] = "live"
           /\ ~(status[w] \in {"wait", "done"} /\ at[w] = l) =>
                status'[w] = status[w] /\ at'[w] = at[w]
  BY <1>1, <1>2, ResumeRun
<1>8. ~exited /\ ~returned /\ ~exited' /\ ~returned'
  <2>1. l \in DOMAIN frames
    BY <1>2
  <2> QED BY <1>1, <1>2, <2>1 DEF Skipping
<1> HIDE DEF l, m, S
<1>9. Skipping'
  <2>1. ASSUME NEW d \in DOMAIN frames', frames'[d].kind = "operand", d < Len(frames')
        PROVE  frames'[d + 1].kind = "call" /\ frames'[d + 1].result = "operand"
    <3>1. d \in 1 .. l /\ d + 1 \in 1 .. l - 1 /\ d < l /\ frames[d].kind = "operand"
      BY <1>2, <1>5, <2>1
    <3>2. frames[d + 1].kind = "call" /\ frames[d + 1].result = "operand"
      BY <1>2, <3>1 DEF Skipping, l
    <3> QED BY <1>5, <3>1, <3>2
  <2>2. ASSUME NEW d \in DOMAIN frames', frames'[d].kind = "else",
               frames'[d].exitAll \/ frames'[d].returnAll
        PROVE  Run!At("done", d)' = {}
    <3>1. d \in DOMAIN frames /\ frames'[d] = frames[d]
      BY <1>2, <1>5
    <3>2. Run!At("done", d) = {}
      BY <1>2, <2>2, <3>1 DEF Skipping
    <3> QED BY <1>7, <3>2 DEF Run!At
  <2> QED BY <1>8, <2>1, <2>2 DEF Skipping
<1>10. EndsBranch
  <2>1. Len(frames') \in {l - 1, l} /\ Len(frames') # l
    BY <1>2, <1>5
  <2> QED BY <1>1, <1>2, <1>3, <1>4, <1>5, <2>1, Zenon DEF EndsBranch, l
<1>11. ASSUME NEW w \in Worlds, w \notin S PROVE Located(w)' /\ Accounted(w)'
  <2>1. status[w] = "live" \/ (status[w] = "wait" /\ at[w] = l)
    BY <1>11 DEF S
  <2>2. status'[w] = "live"
    BY <1>7, <2>1
  <2>3. /\ w \in exitCond /\ w \in f.fwd /\ HoldsBelow(w)
        /\ \A j \in 1 .. Len(scopes) : w \in scopes[j].ret
        /\ status[w] = "live" => w \notin c
        /\ status[w] # "live" => w \in c /\ Holds(w, f.old)
    <3>1. CASE status[w] = "live"
      <4>1. /\ w \in exitCond /\ \A j \in 1 .. Len(scopes) : w \in scopes[j].ret
            /\ HoldsBelow(w) /\ w \in Inside(f)
        BY <1>1, <1>2, <3>1, LiveBranch DEF l
      <4> QED BY <1>1, <3>1, <4>1 DEF Inside
    <3>2. CASE status[w] = "wait" /\ at[w] = l
      BY <1>1, <1>2, <3>2, WaitingFacts DEF l
    <3> QED BY <2>1, <3>1, <3>2
  <2>4. ASSUME NEW x \in seen[l - 1] \cup Globals, NEW i,
               i = (IF x \in Globals THEN 2 ELSE Len(scopes))
        PROVE  scopes'[i].vars[x][w] = env[i][x][w]
    <3>1. /\ i \in DOMAIN scopes /\ x \in DOMAIN scopes[i].vars /\ Owner(scopes, x) = i
      <4>1. Used(scopes, env, x, i) /\ i \in DOMAIN scopes
        BY <1>1, <1>2, <2>4, BranchNames DEF l
      <4> QED BY <4>1 DEF Used
    <3>4. /\ w \notin c => scopes'[i].vars[x][w] = scopes[i].vars[x][w]
          /\ w \in c /\ x \in DOMAIN f.old => scopes'[i].vars[x][w] = f.old[x][w]
      <4> HIDE DEF c
      <4> QED BY <1>1, <1>2, <3>1, MergedValue
    <3>2. CASE status[w] = "live"
      <4>1. scopes[i].vars[x][w] = env[i][x][w]
        BY <1>1, <1>2, <2>4, <3>2, LiveBranch DEF l
      <4> QED BY <2>3, <3>2, <3>4, <4>1
    <3>3. CASE status[w] # "live"
      <4>1. x \in DOMAIN f.old /\ f.old[x][w] = env[i][x][w]
        BY <2>3, <2>4, <3>3 DEF Holds, Has, l
      <4> QED BY <2>3, <3>3, <3>4, <4>1
    <3> QED BY <3>2, <3>3
  <2>5. GoesOn(w)
    BY <1>1, <2>2, <2>3, <2>4 DEF GoesOn, l
  <2> QED BY <1>10, <2>5, GoesOnInPlace
<1>12. Closes(S)
  <2>1. ASSUME NEW w \in Worlds, w \in S
        PROVE  /\ status[w] # "live" /\ status'[w] = status[w] /\ at'[w] = at[w]
               /\ status[w] = "exited" \/ at[w] # Len(frames)
    <3>1. status[w] # "live" /\ ~(status[w] = "wait" /\ at[w] = l)
      BY <2>1 DEF S
    <3>2. ~(status[w] = "done" /\ at[w] = l)
      BY <1>1, <1>2, WaitingFacts DEF l
    <3>3. ~(status[w] \in {"wait", "done"} /\ at[w] = l)
      BY <3>1, <3>2
    <3> QED BY <1>1, <1>2, <1>7, <3>1, <3>3, ElsewhereFacts DEF l
  <2>2. exited' \in BOOLEAN /\ returned' \in BOOLEAN
    BY <1>1, <1>2 DEF TypeOK
  <2> QED BY <1>1, <1>2, <1>3, <1>4, <1>5, <1>6, <1>7, <1>9, <1>11, <2>1, <2>2 DEF Closes, l
<1> QED BY <1>1, <1>12, CloseStep

LEMMA IfEndStep ==
  ASSUME IInv, RefIfEnd
  PROVE  IInv'
<1> DEFINE l == Len(frames)
           m == Len(scopes)
           f == frame
           S == {w \in Worlds : status[w] # "live" /\ ~(status[w] = "done" /\ at[w] = l)}
<1>1. /\ frames # <<>> /\ f.kind = "else"
      /\ scopes' = MergeVars(IF exited \/ returned THEN RestoreVars(scopes, f.old) ELSE scopes,
                             f.cond, f.kept)
      /\ frames' = Front(frames) /\ fwd' = f.fwd /\ seen' = Front(seen)
      /\ exited' = (f.exitAll /\ exited) /\ returned' = (f.returnAll /\ returned)
      /\ UNCHANGED <<exitCond, exits, env>>
      /\ Run!Enter("done", l)
  BY DEF RefIfEnd, IfEnd
<1>2. /\ TypeOK /\ Framed(frames, scopes, env, seen) /\ Nested(frames, fwd) /\ Skipping
      /\ frames \in Seq(Frames) /\ scopes \in Seq(Scopes) /\ seen \in Seq(SUBSET Locals)
      /\ l \in Nat /\ l > 1 /\ DOMAIN frames = 1 .. l
      /\ m \in Nat /\ f = frames[l] /\ f \in Frames
      /\ f.old \in VarMaps /\ f.kept \in VarMaps /\ f.fwd \in SUBSET Worlds
      /\ Frozen(scopes, f.old, m) /\ Frozen(scopes, f.kept, m) /\ Len(seen) = l
  <2>1. frame.kind # "call" /\ frame.kind = "else"
    BY <1>1
  <2> QED BY <1>1, <2>1, EndFacts
<1> HIDE DEF f
<1>3. PICK sc : sc = IF exited \/ returned THEN RestoreVars(scopes, f.old) ELSE scopes
  OBVIOUS
<1>4. /\ sc \in Seq(Scopes) /\ SameShape(scopes, sc) /\ Under(scopes, sc, m) /\ Len(sc) = m
      /\ ~exited /\ ~returned => sc = scopes
  <2>1. SameShape(scopes, RestoreVars(scopes, f.old))
    BY <1>2, RestoreFacts
  <2>2. Under(scopes, RestoreVars(scopes, f.old), m)
    BY <1>2, RestoreUnder
  <2>3. SameShape(scopes, scopes) /\ Under(scopes, scopes, m)
    BY <1>2 DEF SameShape, Under
  <2>4. SameShape(scopes, sc) /\ Under(scopes, sc, m)
    BY <1>3, <2>1, <2>2, <2>3
  <2> QED BY <1>3, <2>4 DEF SameShape
<1>5. SameShape(scopes, scopes') /\ Under(scopes, scopes', Len(scopes))
  <2>1. scopes' = MergeVars(sc, f.cond, f.kept)
    BY <1>1, <1>3
  <2>2. Frozen(sc, f.kept, Len(sc))
    <3>1. m \in 1 .. m
      <4>1. m >= 2
        BY <1>2, FramedFacts
      <4> QED BY <1>2, <4>1
    <3>2. Frozen(sc, f.kept, m)
      BY <1>2, <1>4, <3>1, FrozenStays
    <3> QED BY <1>4, <3>2
  <2>3. SameShape(sc, scopes') /\ Under(sc, scopes', m)
    BY <1>2, <1>4, <2>1, <2>2, MergeFacts, MergeUnder
  <2>4. SameShape(scopes, scopes')
    BY <1>4, <2>3, SameTwice
  <2>5. Under(scopes, scopes', m)
    BY <1>2, <1>4, <2>3, UnderTwice
  <2> QED BY <2>4, <2>5
<1>6. Framed(frames', scopes', env', seen')
  <2>1. Framed(frames, scopes', env, seen)
    BY <1>2, <1>5, FramedSame
  <2>2. Last(frames).kind # "call"
    BY <1>1 DEF f, frame
  <2>3. Framed(Front(frames), scopes', env, Front(seen))
    BY <2>1, <2>2, FramedPop
  <2> QED BY <1>1, <2>3
<1>7. /\ Len(frames') = l - 1 /\ DOMAIN frames' = 1 .. l - 1
      /\ \A d \in 1 .. l - 1 : frames'[d] = frames[d] /\ seen'[d] = seen[d]
      /\ Last(scopes').states = Last(scopes).states
  <2>1. seen # <<>>
    BY <1>2
  <2>2. Last(scopes').states = Last(scopes).states
    <3>1. Len(scopes') = m /\ m \in DOMAIN scopes
      BY <1>2, <1>5, FramedFacts DEF SameShape
    <3> QED BY <1>5, <3>1 DEF SameShape, Last
  <2> QED BY <1>1, <1>2, <2>1, <2>2, FrontFacts, ZenonT(30)
<1>8. Nested(frames', fwd')
  <2>1. Last(frames) = f
    BY DEF f, frame
  <2> QED BY <1>1, <1>2, <2>1, NestPop
<1>9. /\ status' \in [Worlds -> Run!Statuses] /\ at' \in [Worlds -> Nat]
      /\ \A w \in Worlds :
           /\ status[w] = "done" /\ at[w] = l => status'[w] = "live"
           /\ ~(status[w] = "done" /\ at[w] = l) =>
                status'[w] = status[w] /\ at'[w] = at[w]
  BY <1>1, <1>2, EnterRun
<1>10. /\ exited \in BOOLEAN /\ returned \in BOOLEAN
       /\ f.exitAll \in BOOLEAN /\ f.returnAll \in BOOLEAN
       /\ exited' \in BOOLEAN /\ returned' \in BOOLEAN
  <2>1. f.exitAll \in BOOLEAN /\ f.returnAll \in BOOLEAN
    BY <1>2 DEF Frames
  <2>2. exited \in BOOLEAN /\ returned \in BOOLEAN
    BY <1>2 DEF TypeOK
  <2> QED BY <1>1, <2>1, <2>2
<1>11. exited \/ returned => \A w \in Worlds : status[w] # "live"
  BY <1>2 DEF Skipping, Run!Live
<1> HIDE DEF l, m, S
<1>12. Skipping'
  <2>1. exited' \/ returned' => Run!Live' = {}
    <3>1. exited' \/ returned' => Run!At("done", l) = {}
      <4>1. l \in DOMAIN frames
        BY <1>2
      <4> QED BY <1>1, <1>2, <1>10, <4>1 DEF Skipping
    <3> QED BY <1>1, <1>9, <1>10, <1>11, <3>1 DEF Run!Live, Run!At
  <2>2. returned' => Last(scopes').states # <<>>
    BY <1>1, <1>2, <1>7, <1>10 DEF Skipping
  <2>3. ASSUME NEW d \in DOMAIN frames', frames'[d].kind = "operand"
        PROVE  /\ ~exited' /\ d # Len(frames')
               /\ d < Len(frames') =>
                    frames'[d + 1].kind = "call" /\ frames'[d + 1].result = "operand"
    <3>1. d \in 1 .. l - 1 /\ d \in DOMAIN frames /\ d < l /\ frames[d].kind = "operand"
      BY <1>2, <1>7, <2>3
    <3>2. ~exited /\ frames[d + 1].kind = "call" /\ frames[d + 1].result = "operand"
      BY <1>2, <3>1 DEF Skipping, l
    <3>3. d # l - 1
      BY <1>1, <1>2, <3>1, <3>2
    <3>4. d + 1 \in 1 .. l - 1
      BY <1>2, <3>1, <3>3
    <3> QED BY <1>1, <1>7, <1>10, <3>2, <3>3, <3>4
  <2>4. ASSUME NEW d \in DOMAIN frames', frames'[d].kind = "else",
               frames'[d].exitAll \/ frames'[d].returnAll
        PROVE  Run!At("done", d)' = {}
    <3>1. d \in DOMAIN frames /\ frames'[d] = frames[d]
      BY <1>2, <1>7
    <3>2. Run!At("done", d) = {}
      BY <1>2, <2>4, <3>1 DEF Skipping
    <3> QED BY <1>9, <3>2 DEF Run!At
  <2> QED BY <2>1, <2>2, <2>3, <2>4 DEF Skipping
<1>13. EndsBranch
  <2>1. Len(frames') \in {l - 1, l} /\ Len(frames') # l
    BY <1>2, <1>7
  <2> QED BY <1>1, <1>2, <1>5, <1>6, <1>7, <2>1, Zenon DEF EndsBranch, l
<1>14. ASSUME NEW w \in Worlds, w \notin S PROVE Located(w)' /\ Accounted(w)'
  <2>1. status[w] = "live" \/ (status[w] = "done" /\ at[w] = l)
    BY <1>14 DEF S
  <2>2. status'[w] = "live"
    BY <1>9, <2>1
  <2>3. /\ w \in exitCond /\ w \in f.fwd /\ HoldsBelow(w)
        /\ \A j \in 1 .. Len(scopes) : w \in scopes[j].ret
        /\ status[w] = "live" => w \notin f.cond
        /\ status[w] # "live" => w \in f.cond /\ Holds(w, f.kept)
    <3>1. CASE status[w] = "live"
      <4>1. /\ w \in exitCond /\ \A j \in 1 .. Len(scopes) : w \in scopes[j].ret
            /\ HoldsBelow(w) /\ w \in Inside(f)
        BY <1>1, <1>2, <3>1, LiveBranch DEF l
      <4> QED BY <1>1, <3>1, <4>1 DEF Inside
    <3>2. CASE status[w] = "done" /\ at[w] = l
      BY <1>1, <1>2, <3>2, WaitingFacts DEF l
    <3> QED BY <2>1, <3>1, <3>2
  <2>4. ASSUME NEW x \in seen[l - 1] \cup Globals, NEW i,
               i = (IF x \in Globals THEN 2 ELSE Len(scopes))
        PROVE  scopes'[i].vars[x][w] = env[i][x][w]
    <3>1. /\ i \in DOMAIN scopes /\ x \in DOMAIN scopes[i].vars /\ Owner(scopes, x) = i
      <4>1. Used(scopes, env, x, i) /\ i \in DOMAIN scopes
        BY <1>1, <1>2, <2>4, BranchNames DEF l
      <4> QED BY <4>1 DEF Used
    <3>2. /\ i \in DOMAIN sc /\ x \in DOMAIN sc[i].vars /\ Owner(sc, x) = i
      <4>1. Owner(sc, x) = Owner(scopes, x)
        BY <1>4, SameOwner
      <4> QED BY <1>4, <3>1, <4>1 DEF SameShape
    <3>3. /\ w \notin f.cond => scopes'[i].vars[x][w] = sc[i].vars[x][w]
          /\ w \in f.cond /\ x \in DOMAIN f.kept => scopes'[i].vars[x][w] = f.kept[x][w]
      <4>1. scopes' = MergeVars(sc, f.cond, f.kept)
        BY <1>1, <1>3
      <4> QED BY <1>2, <1>4, <3>2, <4>1, MergedValue, SMTT(30)
    <3>4. CASE status[w] = "live"
      <4>1. scopes[i].vars[x][w] = env[i][x][w]
        BY <1>1, <1>2, <2>4, <3>4, LiveBranch DEF l
      <4>2. sc = scopes
        BY <1>4, <1>11, <3>4
      <4> QED BY <2>3, <3>3, <3>4, <4>1, <4>2
    <3>5. CASE status[w] # "live"
      <4>1. x \in DOMAIN f.kept /\ f.kept[x][w] = env[i][x][w]
        BY <2>3, <2>4, <3>5 DEF Holds, Has, l
      <4> QED BY <2>3, <3>3, <3>5, <4>1
    <3> QED BY <3>4, <3>5
  <2>5. GoesOn(w)
    BY <1>1, <2>2, <2>3, <2>4 DEF GoesOn, l
  <2> QED BY <1>13, <2>5, GoesOnInPlace
<1>15. Closes(S)
  <2>1. ASSUME NEW w \in Worlds, w \in S
        PROVE  /\ status[w] # "live" /\ status'[w] = status[w] /\ at'[w] = at[w]
               /\ status[w] = "exited" \/ at[w] # Len(frames)
    <3>1. status[w] # "live" /\ ~(status[w] = "done" /\ at[w] = l)
      BY <2>1 DEF S
    <3>2. ~(status[w] = "wait" /\ at[w] = l)
      BY <1>1, <1>2, WaitingFacts DEF l
    <3>3. ~(status[w] \in {"wait", "done"} /\ at[w] = l)
      BY <3>1, <3>2
    <3> QED BY <1>1, <1>2, <1>9, <3>1, <3>3, ElsewhereFacts DEF l
  <2> QED BY <1>1, <1>2, <1>5, <1>6, <1>7, <1>8, <1>9, <1>10, <1>12, <1>14, <2>1
          DEF Closes, l
<1> QED BY <1>1, <1>15, CloseStep

\* A sequence with another last element.
TopReplaced(S, q, x, r) ==
  q \in Seq(S) /\ q # <<>> /\ x \in S /\ r = [q EXCEPT ![Len(q)] = x]

LEMMA ReplaceTop ==
  ASSUME NEW S, NEW q, NEW x, NEW r, TopReplaced(S, q, x, r)
  PROVE  /\ r = Append(Front(q), x) /\ r \in Seq(S) /\ Len(r) = Len(q) /\ r[Len(q)] = x
         /\ \A d \in 1 .. Len(q) - 1 : r[d] = q[d]
<1>a. q \in Seq(S) /\ q # <<>> /\ x \in S /\ r = [q EXCEPT ![Len(q)] = x]
  BY DEF TopReplaced
<1>1. Len(q) \in DOMAIN q /\ Len(q) \in Nat \ {0} /\ DOMAIN q = 1 .. Len(q)
  BY <1>a
<1>2. /\ r \in Seq(S) /\ Len(r) = Len(q) /\ r[Len(q)] = x
      /\ \A k \in DOMAIN q : k # Len(q) => r[k] = q[k]
  <2>1. PICK i : i = Len(q)
    OBVIOUS
  <2>2. r = [q EXCEPT ![i] = x] /\ i \in DOMAIN q
    BY <1>a, <1>1, <2>1
  <2>3. /\ r \in Seq(S) /\ Len(r) = Len(q) /\ r[i] = x
        /\ \A k \in DOMAIN q : k # i => r[k] = q[k]
    BY <1>a, <2>2, ReplaceFacts
  <2> QED BY <2>1, <2>3
<1>3. \A d \in 1 .. Len(q) - 1 : r[d] = q[d]
  <2>1. \A n \in Nat \ {0} : \A d \in 1 .. n - 1 : d \in 1 .. n /\ d # n
    OBVIOUS
  <2>2. \A d \in 1 .. Len(q) - 1 : d \in DOMAIN q /\ d # Len(q)
    BY <1>1, <2>1, Zenon
  <2> QED BY <1>2, <2>2
<1>4. /\ Front(q) \in Seq(S) /\ Len(Front(q)) = Len(q) - 1
      /\ \A d \in 1 .. Len(q) - 1 : Front(q)[d] = q[d]
  BY <1>a, FrontFacts
<1>5. /\ Append(Front(q), x) \in Seq(S) /\ Len(Append(Front(q), x)) = Len(q)
      /\ Append(Front(q), x)[Len(q)] = x
      /\ \A d \in 1 .. Len(q) - 1 : Append(Front(q), x)[d] = q[d]
  <2>1. Len(Front(q)) + 1 = Len(q)
    BY <1>1, <1>4
  <2> QED BY <1>a, <1>4, <2>1, AppendFacts
<1>6. \A d \in 1 .. Len(r) : r[d] = Append(Front(q), x)[d]
  <2>1. \A n \in Nat \ {0} : \A d \in 1 .. n : d = n \/ d \in 1 .. n - 1
    OBVIOUS
  <2>2. ASSUME NEW d \in 1 .. Len(r) PROVE r[d] = Append(Front(q), x)[d]
    <3>1. d \in 1 .. Len(q)
      BY <1>2
    <3>2. d = Len(q) \/ d \in 1 .. Len(q) - 1
      BY <1>1, <2>1, <3>1, Zenon
    <3> QED BY <1>2, <1>3, <1>5, <3>2
  <2> QED BY <2>2
<1>7. r = Append(Front(q), x)
  BY <1>2, <1>5, <1>6, SeqEqual
<1> QED BY <1>2, <1>3, <1>7

LEMMA IfElseStep ==
  ASSUME IInv, RefIfElse
  PROVE  IInv'
<1> DEFINE l == Len(frames)
           m == Len(scopes)
           f == frame
           h == [f EXCEPT !.kind = "else",
                   !.kept = IF exited \/ returned THEN f.old ELSE GetVars(scopes),
                   !.old = GetVars(scopes'), !.exitAll = exited, !.returnAll = returned]
           S == {w \in Worlds : status[w] # "live" /\ ~(status[w] = "wait" /\ at[w] = l)}
<1>1. /\ frames # <<>> /\ f.kind = "then" /\ scopes' = RestoreVars(scopes, f.old)
      /\ fwd' = f.fwd \ f.cond /\ seen' = Append(Front(seen), seen[Len(seen) - 1])
      /\ exited' = FALSE /\ returned' = FALSE
      /\ UNCHANGED <<exitCond, exits, env>>
      /\ Run!Turn(Worlds, l)
  BY DEF RefIfElse, IfElse
<1>2. /\ TypeOK /\ Framed(frames, scopes, env, seen) /\ Nested(frames, fwd) /\ Skipping
      /\ frames \in Seq(Frames) /\ scopes \in Seq(Scopes) /\ seen \in Seq(SUBSET Locals)
      /\ l \in Nat /\ l > 1 /\ DOMAIN frames = 1 .. l
      /\ m \in Nat /\ f = frames[l] /\ f \in Frames
      /\ f.old \in VarMaps /\ f.fwd \in SUBSET Worlds
      /\ Frozen(scopes, f.old, m) /\ Len(seen) = l
  <2>1. frame.kind # "call"
    BY <1>1
  <2> QED BY <1>1, <2>1, EndFacts
<1>3. frames' = [frames EXCEPT ![l] = h]
  BY <1>2 DEF RefIfElse, IfElse
<1> HIDE DEF f
<1>4. /\ SameShape(scopes, scopes') /\ Under(scopes, scopes', Len(scopes))
      /\ scopes' \in Seq(Scopes) /\ Len(scopes') = m
  <2>1. SameShape(scopes, scopes')
    BY <1>1, <1>2, RestoreFacts
  <2> QED BY <1>1, <1>2, <2>1, RestoreUnder DEF SameShape
<1>5. /\ GetVars(scopes) \in VarMaps /\ Frozen(scopes, GetVars(scopes), m)
      /\ GetVars(scopes') \in VarMaps /\ Frozen(scopes', GetVars(scopes'), m)
  BY <1>2, <1>4, GetVarsFacts
<1>6. exited \in BOOLEAN /\ returned \in BOOLEAN
  BY <1>2 DEF TypeOK
<1>7. /\ h \in Frames /\ h.kind = "else" /\ h.fwd = f.fwd /\ h.cond = f.cond
      /\ h.kept = (IF exited \/ returned THEN f.old ELSE GetVars(scopes))
      /\ h.old = GetVars(scopes') /\ h.exitAll = exited /\ h.returnAll = returned
  <2>1. PICK k : k = (IF exited \/ returned THEN f.old ELSE GetVars(scopes))
    OBVIOUS
  <2>2. PICK o : o = GetVars(scopes')
    OBVIOUS
  <2>3. k \in VarMaps /\ o \in VarMaps
    BY <1>2, <1>5, <2>1, <2>2
  <2>4. h = [f EXCEPT !.kind = "else", !.kept = k, !.old = o, !.exitAll = exited,
                      !.returnAll = returned]
    BY <2>1, <2>2
  <2> HIDE DEF h
  <2>5. h \in Frames
    BY <1>2, <1>6, <2>3, <2>4 DEF Frames
  <2>6. /\ h.kind = "else" /\ h.fwd = f.fwd /\ h.cond = f.cond
        /\ h.kept = k /\ h.old = o /\ h.exitAll = exited /\ h.returnAll = returned
    BY <1>2, <2>4 DEF Frames
  <2> QED BY <2>1, <2>2, <2>5, <2>6
<1> HIDE DEF h
<1>8. /\ frames' = Append(Front(frames), h) /\ Len(frames') = l /\ frames'[l] = h
      /\ DOMAIN frames' = 1 .. l /\ \A d \in 1 .. l - 1 : frames'[d] = frames[d]
  <2>1. PICK r : r = frames'
    OBVIOUS
  <2>2. PICK q : q = frames
    OBVIOUS
  <2>3. PICK y : y = h
    OBVIOUS
  <2>4. q \in Seq(Frames) /\ q # <<>> /\ y \in Frames
    BY <1>1, <1>2, <1>7, <2>2, <2>3
  <2>5. TopReplaced(Frames, q, y, r)
    BY <1>3, <2>1, <2>2, <2>3, <2>4 DEF TopReplaced
  <2> HIDE DEF h
  <2>6. /\ r = Append(Front(q), y) /\ r \in Seq(Frames) /\ Len(r) = Len(q)
        /\ r[Len(q)] = y /\ \A d \in 1 .. Len(q) - 1 : r[d] = q[d]
    BY <2>5, ReplaceTop
  <2>7. DOMAIN r = 1 .. Len(r)
    BY <2>6
  <2> QED BY <2>1, <2>2, <2>3, <2>6, <2>7
<1>9. /\ Len(seen) - 1 \in 1 .. l /\ seen[l - 1] \in SUBSET Locals /\ seen # <<>>
      /\ Last(Front(seen)) = seen[l - 1]
      /\ seen'[l] = seen[l - 1] /\ \A d \in 1 .. l - 1 : seen'[d] = seen[d]
  <2>1. Len(seen) - 1 \in 1 .. l /\ seen # <<>> /\ DOMAIN seen = 1 .. l
    BY <1>2
  <2>2. seen[l - 1] \in SUBSET Locals
    BY <1>2, <2>1
  <2>3. /\ Front(seen) \in Seq(SUBSET Locals) /\ Len(Front(seen)) = l - 1
        /\ \A d \in 1 .. l - 1 : Front(seen)[d] = seen[d]
    BY <1>2, <2>1, FrontFacts, Zenon
  <2>4. l - 1 \in 1 .. l - 1 /\ (l - 1) + 1 = l
    BY <1>2
  <2>5. Last(Front(seen)) = seen[l - 1]
    BY <2>3, <2>4 DEF Last
  <2>6. /\ Append(Front(seen), seen[l - 1])[(l - 1) + 1] = seen[l - 1]
        /\ \A d \in 1 .. l - 1 : Append(Front(seen), seen[l - 1])[d] = Front(seen)[d]
    BY <2>2, <2>3, AppendFacts
  <2>7. seen' = Append(Front(seen), seen[l - 1])
    BY <1>1, <1>2
  <2> HIDE DEF l
  <2> QED BY <2>1, <2>2, <2>3, <2>4, <2>5, <2>6, <2>7
<1> HIDE DEF l, m, S
<1>10. Framed(frames', scopes', env', seen')
  <2>1. Framed(frames, scopes', env, seen)
    BY <1>2, <1>4, FramedSame
  <2>2. Last(frames).kind # "call"
    BY <1>1 DEF f, frame
  <2>3. Framed(Front(frames), scopes', env, Front(seen))
    BY <2>1, <2>2, FramedPop
  <2>4. m \in 1 .. m
    <3>1. m >= 2
      BY <1>2, FramedFacts DEF m
    <3> QED BY <1>2, <3>1
  <2>5. Frozen(scopes', f.old, m) /\ Frozen(scopes', GetVars(scopes), m)
    BY <1>2, <1>4, <1>5, <2>4, FrozenStays DEF m
  <2>6. Pushes(scopes', h)
    BY <1>4, <1>5, <1>7, <2>5 DEF Pushes
  <2>7. Framed(Append(Front(frames), h), scopes', env, Append(Front(seen), Last(Front(seen))))
    BY <2>3, <2>6, FramedPush
  <2>8. seen' = Append(Front(seen), Last(Front(seen)))
    BY <1>1, <1>2, <1>9, Zenon DEF l
  <2> QED BY <1>1, <1>8, <2>7, <2>8
<1>11. Nested(frames', fwd')
  <2>1. Last(frames) = f
    BY DEF f, frame
  <2>2. Nested(Front(frames), f.fwd)
    BY <1>1, <1>2, <2>1, NestPop
  <2>3. Front(frames) \in Seq(Frames)
    BY <1>1, <1>2, FrontFacts
  <2>4. Nested(Append(Front(frames), h), Inside(h))
    BY <1>7, <2>2, <2>3, NestPush
  <2> QED BY <1>1, <1>7, <1>8, <2>4 DEF Inside
<1>12. /\ status' \in [Worlds -> Run!Statuses] /\ at' \in [Worlds -> Nat]
       /\ \A w \in Worlds :
            /\ status[w] = "live" => status'[w] = "done" /\ at'[w] = l
            /\ status[w] = "wait" /\ at[w] = l => status'[w] = "live"
            /\ status[w] # "live" /\ ~(status[w] = "wait" /\ at[w] = l) =>
                 status'[w] = status[w] /\ at'[w] = at[w]
  BY <1>1, <1>2, TurnRun
<1>13. exited \/ returned => \A w \in Worlds : status[w] # "live"
  BY <1>2 DEF Skipping, Run!Live
<1>14. \A w \in Worlds : ~(status[w] = "done" /\ at[w] = l)
  BY <1>1, <1>2, WaitingFacts DEF l
<1>15. \A d \in 1 .. l : d = l \/ (d \in 1 .. l - 1 /\ d \in 1 .. l)
  BY <1>2
<1>16. Skipping'
  <2>1. ASSUME NEW d \in DOMAIN frames', frames'[d].kind = "operand"
        PROVE  /\ d # Len(frames')
               /\ frames'[d + 1].kind = "call" /\ frames'[d + 1].result = "operand"
    <3>1. d \in 1 .. l - 1 /\ d \in DOMAIN frames /\ d < l /\ frames[d].kind = "operand"
      BY <1>2, <1>7, <1>8, <1>15, <2>1
    <3>2. frames[d + 1].kind = "call" /\ frames[d + 1].result = "operand"
      BY <1>2, <3>1 DEF Skipping, l
    <3>3. d # l - 1
      BY <1>1, <1>2, <3>1, <3>2
    <3>4. d + 1 \in 1 .. l - 1 /\ d # l
      BY <1>2, <3>1, <3>3
    <3> QED BY <1>8, <3>2, <3>4
  <2>2. ASSUME NEW d \in DOMAIN frames', frames'[d].kind = "else",
               frames'[d].exitAll \/ frames'[d].returnAll
        PROVE  Run!At("done", d)' = {}
    <3>1. CASE d = l
      <4>1. exited \/ returned
        BY <1>7, <1>8, <2>2, <3>1
      <4> QED BY <1>12, <1>13, <1>14, <3>1, <4>1 DEF Run!At
    <3>2. CASE d # l
      <4>1. d \in DOMAIN frames /\ frames'[d] = frames[d]
        BY <1>2, <1>8, <1>15, <3>2
      <4>2. Run!At("done", d) = {}
        BY <1>2, <2>2, <4>1 DEF Skipping
      <4> QED BY <1>12, <3>2, <4>2 DEF Run!At
    <3> QED BY <3>1, <3>2
  <2> QED BY <1>1, <2>1, <2>2 DEF Skipping
<1>17. EndsBranch
  <2>1. Len(frames') \in {l - 1, l}
    BY <1>8
  <2>2. frames'[l].kind # "call" /\ frames[l].kind # "call"
    BY <1>1, <1>2, <1>7, <1>8
  <2> QED BY <1>1, <1>4, <1>8, <1>9, <1>10, <2>1, <2>2 DEF EndsBranch, l
<1>18. ASSUME NEW w \in Worlds, status[w] = "wait", at[w] = l
       PROVE  Located(w)' /\ Accounted(w)'
  <2>1. status'[w] = "live"
    BY <1>12, <1>18
  <2>2. /\ w \in exitCond /\ w \in fwd' /\ HoldsBelow(w) /\ Holds(w, f.old)
        /\ \A j \in 1 .. Len(scopes) : w \in scopes[j].ret
    BY <1>1, <1>2, <1>18, WaitingFacts DEF l
  <2>3. ASSUME NEW x \in seen[l - 1] \cup Globals, NEW i,
               i = (IF x \in Globals THEN 2 ELSE Len(scopes))
        PROVE  scopes'[i].vars[x][w] = env[i][x][w]
    <3>1. /\ i \in DOMAIN scopes /\ x \in DOMAIN scopes[i].vars /\ Owner(scopes, x) = i
      <4>1. Used(scopes, env, x, i) /\ i \in DOMAIN scopes
        BY <1>1, <1>2, <2>3, BranchNames DEF l
      <4> QED BY <4>1 DEF Used
    <3>2. x \in DOMAIN f.old /\ f.old[x][w] = env[i][x][w]
      BY <2>2, <2>3 DEF Holds, Has, l
    <3> QED BY <1>1, <1>2, <3>1, <3>2, RestoredValue
  <2>4. GoesOn(w)
    BY <2>1, <2>2, <2>3 DEF GoesOn, l
  <2> QED BY <1>17, <2>4, GoesOnInPlace
<1>19. /\ \A d \in 1 .. l - 1 : ScopeAt(frames', d) = ScopeAt(frames, d)
       /\ ScopeAt(frames', l) = m /\ ScopeAt(frames', l - 1) = m
       /\ \A d \in 1 .. l - 1 : ScopeAt(frames, d) \in Nat /\ ScopeAt(frames, d) >= 2
                                /\ ScopeAt(frames, d) <= m
                                /\ seen[d] \subseteq Locals
                                /\ seen[d] \subseteq DOMAIN scopes[ScopeAt(frames, d)].vars
  <2>1. ASSUME NEW d \in 1 .. l - 1 PROVE ScopeAt(frames', d) = ScopeAt(frames, d)
    <3>1. d \in Nat /\ \A j \in 1 .. d : j \in 1 .. l - 1
      BY <1>2
    <3>2. \A j \in 1 .. d : frames'[j].kind = frames[j].kind
      BY <1>8, <3>1
    <3> QED BY <3>1, <3>2, ScopeSame
  <2>2. l - 1 \in 1 .. l - 1 /\ l \in Nat \ {0}
    BY <1>2
  <2>3. ScopeAt(frames, l - 1) = m
    BY <1>1, <1>2, BranchScope DEF l, m
  <2>4. ScopeAt(frames', l) = ScopeAt(frames', l - 1)
    BY <1>7, <1>8, <2>2, ScopeNext
  <2>5. \A d \in 1 .. l : /\ ScopeAt(frames, d) \in 2 .. m /\ seen[d] \subseteq Locals
                          /\ seen[d] \subseteq DOMAIN scopes[ScopeAt(frames, d)].vars
    BY <1>2, FramedFacts DEF l, m
  <2>6. \A d \in 1 .. l - 1 : d \in 1 .. l
    BY <1>2
  <2> QED BY <1>2, <2>1, <2>2, <2>3, <2>4, <2>5, <2>6
<1>20. ASSUME NEW w \in Worlds, status[w] = "live"
       PROVE  Located(w)' /\ Accounted(w)'
  <2>1. /\ w \in exitCond /\ \A j \in 1 .. m : w \in scopes[j].ret
        /\ HoldsBelow(w) /\ w \in Inside(f) /\ Holds(w, GetVars(scopes))
    BY <1>1, <1>2, <1>20, LiveBranch DEF l, m
  <2>2. status'[w] = "done" /\ at'[w] = l
    BY <1>12, <1>20
  <2>3. PICK a : a = l
    OBVIOUS
  <2>4. PICK z : z = m
    OBVIOUS
  <2>5. h.kept = GetVars(scopes)
    BY <1>7, <1>13, <1>20
  <2>6. Home(w)' = a /\ ScopeOf(a)' = z
    BY <1>19, <2>2, <2>3, <2>4 DEF Home, ScopeOf
  <2>7. Located(w)'
    <3>1. \A j \in 1 .. z : w \in scopes'[j].ret
      <4>1. DOMAIN scopes = 1 .. m
        BY <1>2 DEF m
      <4> QED BY <1>4, <2>1, <2>4, <4>1 DEF SameShape
    <3>2. w \in h.fwd \cap h.cond /\ h.kind = "else"
      BY <1>1, <1>7, <2>1 DEF Inside
    <3>3. a \in DOMAIN frames' /\ frames'[a] = h
      BY <1>2, <1>8, <2>3
    <3>4. ScopeOf(Home(w))' = z
      BY <2>6 DEF ScopeOf
    <3> QED BY <1>1, <2>1, <2>2, <2>6, <3>1, <3>2, <3>3, <3>4 DEF Located, HasNotReturned
  <2>8. Saved(frames[at[w]].kept, at[w] - 1, w)'
    <3>1. ASSUME NEW n \in seen'[l - 1] \cup Globals
          PROVE  Has(h.kept, n, w, env'[IF n \in Globals THEN 2 ELSE ScopeAt(frames', l - 1)][n])
      <4>1. n \in seen[l - 1] \cup Globals
        <5>1. l - 1 \in 1 .. l - 1
          BY <1>2
        <5> QED BY <1>9, <3>1, <5>1
      <4> QED BY <1>1, <1>19, <2>1, <2>5, <4>1 DEF Holds, l, m
    <3> QED BY <1>8, <2>2, <3>1 DEF Saved, Known, Meant, ScopeOf
  <2>9. ASSUME NEW d \in DOMAIN frames', ScopeAt(frames', d) < m, NEW n \in seen'[d]
        PROVE  scopes'[ScopeAt(frames', d)].vars[n][w] = env'[ScopeAt(frames', d)][n][w]
    <3>1. d \in 1 .. l - 1
      BY <1>2, <1>8, <1>15, <1>19, <2>9
    <3>2. /\ ScopeAt(frames', d) = ScopeAt(frames, d) /\ n \in seen[d]
          /\ ScopeAt(frames, d) \in 1 .. m - 1
      BY <1>2, <1>9, <1>19, <2>9, <3>1
    <3>3. scopes[ScopeAt(frames, d)].vars[n][w] = env[ScopeAt(frames, d)][n][w]
      BY <2>1, <2>9, <3>1, <3>2 DEF HoldsBelow, l, m
    <3>4. n \in DOMAIN scopes[ScopeAt(frames, d)].vars \cap Locals
      BY <1>19, <3>1, <3>2
    <3>5. scopes'[ScopeAt(frames, d)].vars[n] = scopes[ScopeAt(frames, d)].vars[n]
      BY <1>4, <3>2, <3>4 DEF Under, m
    <3> QED BY <1>1, <3>2, <3>3, <3>5
  <2>10. Accounted(w)'
    <3>1. ScopeOf(Home(w))' = m
      BY <2>4, <2>6 DEF ScopeOf
    <3>2. \A d \in DOMAIN frames' : ScopeOf(d)' = ScopeAt(frames', d)
      BY DEF ScopeOf
    <3>3. \A d \in DOMAIN frames' : ScopeOf(d)' < ScopeOf(Home(w))' =>
            \A n \in seen'[d] : scopes'[ScopeOf(d)'].vars[n][w] = env'[ScopeOf(d)'][n][w]
      BY <2>9, <3>1, <3>2
    <3> QED BY <2>2, <2>8, <3>3 DEF Accounted
  <2> QED BY <2>7, <2>10
<1>21. Closes(S)
  <2>1. ASSUME NEW w \in Worlds, w \in S
        PROVE  /\ status[w] # "live" /\ status'[w] = status[w] /\ at'[w] = at[w]
               /\ status[w] = "exited" \/ at[w] # Len(frames)
    <3>1. status[w] # "live" /\ ~(status[w] = "wait" /\ at[w] = l)
      BY <2>1 DEF S
    <3>2. ~(status[w] \in {"wait", "done"} /\ at[w] = l)
      BY <1>14, <3>1
    <3> QED BY <1>1, <1>2, <1>12, <3>1, <3>2, ElsewhereFacts DEF l
  <2>2. ASSUME NEW w \in Worlds, w \notin S PROVE Located(w)' /\ Accounted(w)'
    <3>1. status[w] = "live" \/ (status[w] = "wait" /\ at[w] = l)
      BY <2>2 DEF S
    <3> QED BY <1>18, <1>20, <3>1
  <2>3. /\ exited' \in BOOLEAN /\ returned' \in BOOLEAN /\ fwd' \in SUBSET Worlds
        /\ Len(frames') >= l - 1
    <3>1. exited' \in BOOLEAN /\ returned' \in BOOLEAN
      BY <1>1
    <3>2. fwd' \in SUBSET Worlds
      BY <1>1, <1>2
    <3>3. l >= l - 1
      BY <1>2
    <3> QED BY <1>8, <3>1, <3>2, <3>3
  <2> QED BY <1>1, <1>4, <1>8, <1>9, <1>10, <1>11, <1>12, <1>16, <2>1, <2>2, <2>3
          DEF Closes, l
<1> QED BY <1>1, <1>21, CloseStep

\* Where a call or the block ends, with the return states merged in reverse order.
Merged == MergeAll(scopes, Reverse(Last(scopes).states))

MergedAs(sc, q, r) ==
  /\ SameShape(sc, r) /\ Under(sc, r, Len(sc))
  /\ \A i \in DOMAIN sc : \A n \in DOMAIN sc[i].vars : \A w \in Worlds :
       /\ (\A k \in DOMAIN q : w \notin q[k].cond) => r[i].vars[n][w] = sc[i].vars[n][w]
       /\ \A k \in DOMAIN q :
            w \in q[k].cond /\ n \in DOMAIN q[k].map /\ Owner(sc, n) = i =>
              r[i].vars[n][w] = q[k].map[n][w]

LEMMA ReverseMerge ==
  ASSUME NEW sc \in Seq(Scopes), NEW q \in Seq(Pair), NEW left, Apart(q, left),
         \A k \in DOMAIN q : Frozen(sc, q[k].map, Len(sc))
  PROVE  MergedAs(sc, q, MergeAll(sc, Reverse(q)))
<1>1. PICK p : p = Reverse(q)
  OBVIOUS
<1>2. /\ p \in Seq(Pair) /\ DOMAIN p = DOMAIN q
      /\ \A k \in DOMAIN q : /\ Len(q) - k + 1 \in DOMAIN q /\ p[k] = q[Len(q) - k + 1]
                             /\ p[Len(q) - k + 1] = q[k]
  BY <1>1, ReverseFacts
<1>3. PICK r : r = MergeAll(sc, p)
  OBVIOUS
<1>4. /\ SameShape(sc, r)
      /\ \A i \in DOMAIN sc : \A n \in DOMAIN sc[i].vars : \A w \in Worlds :
           /\ (\A k \in DOMAIN p : w \notin p[k].cond) => r[i].vars[n][w] = sc[i].vars[n][w]
           /\ \A k \in DOMAIN p :
                /\ w \in p[k].cond /\ n \in DOMAIN p[k].map
                /\ \A j \in DOMAIN p : j # k => w \notin p[j].cond
                /\ Owner(sc, n) = i
                => r[i].vars[n][w] = p[k].map[n][w]
  BY <1>2, <1>3, MergeAllFacts
<1>5. \A k \in DOMAIN p : Frozen(sc, p[k].map, Len(sc))
  BY <1>2
<1>6. Under(sc, r, Len(sc))
  BY <1>2, <1>3, <1>5, MergeAllUnder
<1>7. ASSUME NEW i \in DOMAIN sc, NEW n \in DOMAIN sc[i].vars, NEW w \in Worlds
      PROVE  /\ (\A k \in DOMAIN q : w \notin q[k].cond) => r[i].vars[n][w] = sc[i].vars[n][w]
             /\ \A k \in DOMAIN q :
                  w \in q[k].cond /\ n \in DOMAIN q[k].map /\ Owner(sc, n) = i =>
                    r[i].vars[n][w] = q[k].map[n][w]
  <2>1. (\A k \in DOMAIN q : w \notin q[k].cond) => r[i].vars[n][w] = sc[i].vars[n][w]
    <3>1. (\A k \in DOMAIN q : w \notin q[k].cond) => \A k \in DOMAIN p : w \notin p[k].cond
      BY <1>2
    <3> QED BY <1>4, <3>1
  <2>2. ASSUME NEW k \in DOMAIN q, w \in q[k].cond, n \in DOMAIN q[k].map, Owner(sc, n) = i
        PROVE  r[i].vars[n][w] = q[k].map[n][w]
    <3>1. PICK h : h = Len(q) - k + 1
      OBVIOUS
    <3>2. h \in DOMAIN p /\ p[h] = q[k]
      BY <1>2, <3>1
    <3>3. ASSUME NEW j \in DOMAIN p, j # h PROVE w \notin p[j].cond
      <4>1. j \in DOMAIN q /\ Len(q) - j + 1 \in DOMAIN q /\ p[j] = q[Len(q) - j + 1]
        BY <1>2
      <4>2. Len(q) - j + 1 # k
        <5>1. PICK z : z = Len(q)
          OBVIOUS
        <5>2. z \in Nat /\ DOMAIN q = 1 .. z
          BY <5>1
        <5>3. j \in Nat /\ k \in Nat
          BY <4>1, <5>2
        <5>4. h = z - k + 1
          BY <3>1, <5>1
        <5>5. z - j + 1 # k
          BY <3>3, <5>2, <5>3, <5>4
        <5> QED BY <5>1, <5>5
      <4>3. q[Len(q) - j + 1].cond \cap q[k].cond = {}
        BY <4>1, <4>2 DEF Apart
      <4> QED BY <2>2, <4>1, <4>3
    <3> QED BY <1>4, <2>2, <3>2, <3>3
  <2> QED BY <2>1, <2>2
<1>8. r = MergeAll(sc, Reverse(q))
  BY <1>1, <1>3
<1> QED BY <1>4, <1>6, <1>7, <1>8 DEF MergedAs

LEMMA CallFacts ==
  ASSUME IInv, frames # <<>>, frame.kind = "call"
  PROVE  /\ TypeOK /\ Framed(frames, scopes, env, seen) /\ Nested(frames, fwd) /\ Skipping
         /\ frames \in Seq(Frames) /\ scopes \in Seq(Scopes) /\ env \in Seq(EnvMaps)
         /\ seen \in Seq(SUBSET Locals)
         /\ Len(frames) \in Nat \ {0} /\ DOMAIN frames = 1 .. Len(frames)
         /\ Len(scopes) \in Nat /\ Len(scopes) >= 2 /\ DOMAIN scopes = 1 .. Len(scopes)
         /\ Len(seen) = Len(frames) /\ Len(env) = Len(scopes)
         /\ frame = frames[Len(frames)] /\ frames[Len(frames)].kind = "call" /\ frame \in Frames
         /\ Last(scopes) = scopes[Len(scopes)] /\ Last(env) = env[Len(scopes)]
         /\ ScopeAt(frames, Len(frames)) = Len(scopes) /\ scopes[Len(scopes)] \in Scopes
         /\ fwd = frame.fwd /\ fwd \in SUBSET Worlds
<1>1. TypeOK /\ Framed(frames, scopes, env, seen) /\ Nested(frames, fwd) /\ Skipping
  BY InBlock
<1>2. /\ frames \in Seq(Frames) /\ scopes \in Seq(Scopes) /\ env \in Seq(EnvMaps)
      /\ seen \in Seq(SUBSET Locals) /\ fwd \in SUBSET Worlds
  BY <1>1 DEF TypeOK
<1>3. /\ Len(frames) \in Nat \ {0} /\ DOMAIN frames = 1 .. Len(frames) /\ Len(seen) = Len(frames)
      /\ Last(frames) = frames[Len(frames)]
      /\ Len(scopes) \in Nat /\ Len(scopes) >= 2 /\ Len(env) = Len(scopes)
      /\ DOMAIN scopes = 1 .. Len(scopes) /\ Last(scopes) = scopes[Len(scopes)]
      /\ Last(env) = env[Len(scopes)] /\ ScopeAt(frames, Len(frames)) = Len(scopes)
  BY <1>1, FramedFacts
<1>4. Len(frames) \in 1 .. Len(frames) /\ Len(scopes) \in 1 .. Len(scopes)
  BY <1>3
<1>5. frames[Len(frames)] \in Frames /\ scopes[Len(scopes)] \in Scopes
  BY <1>1, <1>4, FramedFacts
<1>6. fwd = Inside(frames[Len(frames)])
  BY <1>1, <1>3 DEF Nested, Outer
<1> QED BY <1>1, <1>2, <1>3, <1>5, <1>6 DEF frame, Inside

\* The return states of the innermost call are for different worlds.
LEMMA MergedFacts ==
  ASSUME IInv, frames # <<>>, frame.kind = "call"
  PROVE  /\ MergedAs(scopes, Last(scopes).states, Merged)
         /\ Last(scopes).states \in Seq(Pair) /\ Apart(Last(scopes).states, Last(scopes).ret)
         /\ Framed(frames, Merged, env, seen) /\ Len(Merged) = Len(scopes)
<1>1. /\ Framed(frames, scopes, env, seen) /\ scopes \in Seq(Scopes)
      /\ Len(scopes) \in DOMAIN scopes /\ Last(scopes) = scopes[Len(scopes)]
      /\ scopes[Len(scopes)] \in Scopes
  BY CallFacts
<1>2. /\ Apart(Last(scopes).states, Last(scopes).ret)
      /\ \A k \in DOMAIN Last(scopes).states : Frozen(scopes, Last(scopes).states[k].map, Len(scopes))
  BY <1>1 DEF Framed, Listed, AllFrozen
<1>3. Last(scopes).states \in Seq(Pair)
  BY <1>1, ScopeFields
<1>4. MergedAs(scopes, Last(scopes).states, Merged)
  BY <1>1, <1>2, <1>3, ReverseMerge DEF Merged
<1>5. SameShape(scopes, Merged) /\ Under(scopes, Merged, Len(scopes))
  BY <1>4 DEF MergedAs
<1>6. Framed(frames, Merged, env, seen)
  BY <1>1, <1>5, FramedSame
<1> QED BY <1>2, <1>3, <1>4, <1>5, <1>6 DEF SameShape

\* A world that comes to the end of a call, or has returned from it.
ComesBack(w) == status[w] = "live" \/ (status[w] = "returned" /\ at[w] = Len(frames))

LEMMA ReturnedFacts ==
  ASSUME IInv, frames # <<>>, frame.kind = "call", NEW w \in Worlds,
         status[w] = "returned", at[w] = Len(frames)
  PROVE  /\ w \in exitCond /\ w \in fwd /\ \A j \in 1 .. Len(scopes) - 1 : w \in scopes[j].ret
         /\ HasLeft(w, Len(scopes))
         /\ \A d \in DOMAIN frames : ScopeAt(frames, d) <= Len(scopes) - 1 =>
              \A n \in seen[d] :
                scopes[ScopeAt(frames, d)].vars[n][w] = env[ScopeAt(frames, d)][n][w]
<1>1. /\ ScopeAt(frames, Len(frames)) = Len(scopes) /\ Len(frames) \in Nat \ {0}
      /\ fwd = frame.fwd /\ frame = frames[Len(frames)] /\ Framed(frames, scopes, env, seen)
      /\ DOMAIN frames = 1 .. Len(frames) /\ Len(scopes) \in Nat
  BY CallFacts
<1>2. Located(w) /\ Accounted(w)
  BY InBlock
<1>3. Home(w) = Len(frames) /\ ScopeOf(Home(w)) = Len(scopes) /\ ScopeOf(at[w]) = Len(scopes)
  BY <1>1 DEF Home, ScopeOf
<1>4. w \in exitCond /\ w \in fwd /\ HasNotReturned(w, Len(scopes) - 1)
  BY <1>1, <1>2, <1>3 DEF Located
<1>5. HasLeft(w, Len(scopes))
  BY <1>2, <1>3 DEF Accounted
<1>6. \A d \in DOMAIN frames : ScopeOf(d) < Len(scopes) =>
        \A n \in seen[d] : scopes[ScopeOf(d)].vars[n][w] = env[ScopeOf(d)][n][w]
  BY <1>2, <1>3 DEF Accounted
<1>7. ASSUME NEW d \in DOMAIN frames, ScopeAt(frames, d) <= Len(scopes) - 1, NEW n \in seen[d]
      PROVE  scopes[ScopeAt(frames, d)].vars[n][w] = env[ScopeAt(frames, d)][n][w]
  <2>1. ScopeAt(frames, d) \in 2 .. Len(scopes)
    BY <1>1, FramedFacts
  <2>2. ScopeOf(d) < Len(scopes) /\ ScopeOf(d) = ScopeAt(frames, d)
    BY <1>1, <1>7, <2>1 DEF ScopeOf
  <2> QED BY <1>6, <1>7, <2>2
<1> QED BY <1>4, <1>5, <1>7 DEF HasNotReturned

LEMMA CallMerged ==
  ASSUME IInv, frames # <<>>, frame.kind = "call", NEW w \in Worlds, ComesBack(w)
  PROVE  /\ Agree(frames, seen, Merged, env, w, Len(scopes) - 1)
         /\ \A n \in DOMAIN Last(scopes).copyOut :
              Merged[Len(scopes)].vars[Last(scopes).copyOut[n]][w]
                = env[Len(scopes)][Last(scopes).copyOut[n]][w]
<1> DEFINE m == Len(scopes)
           l == Len(frames)
           top == scopes[m]
<1>1. /\ Framed(frames, scopes, env, seen) /\ scopes \in Seq(Scopes) /\ Layered(scopes)
      /\ m \in Nat /\ m >= 2 /\ DOMAIN scopes = 1 .. m /\ m \in DOMAIN scopes
      /\ l \in DOMAIN frames /\ frames[l].kind = "call" /\ ScopeAt(frames, l) = m
      /\ Last(scopes) = top /\ DOMAIN frames = 1 .. l
  BY CallFacts, FramedFacts
<1>2. MergedAs(scopes, top.states, Merged) /\ Apart(top.states, top.ret)
  BY <1>1, MergedFacts
<1>3. ASSUME NEW n \in DOMAIN top.copyOut
      PROVE  /\ top.copyOut[n] \in DOMAIN top.vars /\ Owner(scopes, top.copyOut[n]) = m
             /\ top.copyOut[n] \in Range(top.copyOut)
             /\ top.copyOut[n] \in seen[l] \/ (top.copyOut[n] \in Globals /\ m = 2)
  <2>1. /\ top.copyOut[n] \in seen[l] \cup Globals
        /\ top.copyOut[n] \in Globals => m = 2
    BY <1>1, <1>3, ReturnedNames
  <2>2. /\ seen[l] \subseteq DOMAIN top.vars
    BY <1>1, FramedFacts
  <2>3. m = 2 => Globals \subseteq DOMAIN top.vars
    BY <1>1 DEF Layered
  <2>4. top.copyOut[n] \in DOMAIN top.vars
    BY <2>1, <2>2, <2>3
  <2>5. Owner(scopes, top.copyOut[n]) = m
    BY <1>1, <2>4, LastOwner
  <2> QED BY <2>1, <2>4, <2>5 DEF Range
<1>4. \A n \in Globals : Owner(scopes, n) = 2 /\ n \in DOMAIN scopes[2].vars /\ 2 \in DOMAIN scopes
  BY <1>1, GlobalOwner
<1>5. \A d \in DOMAIN frames :
        /\ seen[d] \subseteq Locals /\ seen[d] \subseteq DOMAIN scopes[ScopeAt(frames, d)].vars
        /\ ScopeAt(frames, d) \in 1 .. m
  BY <1>1, FramedFacts
<1> HIDE DEF m, l, top
<1>6. CASE status[w] = "live"
  <2>1. Agree(frames, seen, scopes, env, w, m) /\ w \in top.ret
    BY <1>1, <1>6, LiveFacts DEF m, top
  <2>2. \A k \in DOMAIN top.states : w \notin top.states[k].cond
    BY <1>2, <2>1 DEF Apart
  <2>3. \A i \in DOMAIN scopes : \A n \in DOMAIN scopes[i].vars :
          Merged[i].vars[n][w] = scopes[i].vars[n][w]
    BY <1>2, <2>2 DEF MergedAs
  <2>4. \A n \in Globals : Merged[2].vars[n][w] = env[2][n][w]
    BY <1>1, <1>4, <2>1, <2>3 DEF Agree
  <2>5. \A d \in DOMAIN frames : \A n \in seen[d] :
          Merged[ScopeAt(frames, d)].vars[n][w] = env[ScopeAt(frames, d)][n][w]
    <3>1. ASSUME NEW d \in DOMAIN frames, NEW n \in seen[d]
          PROVE  Merged[ScopeAt(frames, d)].vars[n][w] = env[ScopeAt(frames, d)][n][w]
      <4>1. ScopeAt(frames, d) \in DOMAIN scopes /\ ScopeAt(frames, d) <= m
        BY <1>1, <1>5
      <4>2. scopes[ScopeAt(frames, d)].vars[n][w] = env[ScopeAt(frames, d)][n][w]
        BY <2>1, <4>1 DEF Agree
      <4>3. n \in DOMAIN scopes[ScopeAt(frames, d)].vars
        BY <1>5
      <4> QED BY <2>3, <4>1, <4>2, <4>3
    <3> QED BY <3>1
  <2>6. Agree(frames, seen, Merged, env, w, m - 1)
    BY <2>4, <2>5 DEF Agree
  <2>7. ASSUME NEW n \in DOMAIN top.copyOut
        PROVE  Merged[m].vars[top.copyOut[n]][w] = env[m][top.copyOut[n]][w]
    BY <1>1, <1>3, <2>4, <2>5
  <2> QED BY <1>1, <2>6, <2>7 DEF m
<1>7. CASE status[w] = "returned" /\ at[w] = Len(frames)
  <2>1. HasLeft(w, m) /\ \A d \in DOMAIN frames : ScopeAt(frames, d) <= m - 1 =>
              \A n \in seen[d] :
                scopes[ScopeAt(frames, d)].vars[n][w] = env[ScopeAt(frames, d)][n][w]
    BY <1>7, ReturnedFacts DEF m
  <2>2. PICK k \in DOMAIN top.states :
          /\ w \in top.states[k].cond
          /\ \A n \in Globals : Has(top.states[k].map, n, w, env[2][n])
          /\ \A n \in Range(top.copyOut) : Has(top.states[k].map, n, w, env[m][n])
    BY <2>1 DEF HasLeft, top
  <2>3. \A i \in DOMAIN scopes : \A n \in DOMAIN scopes[i].vars :
          n \in DOMAIN top.states[k].map /\ Owner(scopes, n) = i =>
            Merged[i].vars[n][w] = top.states[k].map[n][w]
    BY <1>2, <2>2 DEF MergedAs
  <2>4. ASSUME NEW n \in Globals PROVE Merged[2].vars[n][w] = env[2][n][w]
    BY <1>4, <2>2, <2>3 DEF Has
  <2>5. ASSUME NEW d \in DOMAIN frames, ScopeAt(frames, d) <= m - 1, NEW n \in seen[d]
        PROVE  Merged[ScopeAt(frames, d)].vars[n][w] = env[ScopeAt(frames, d)][n][w]
    <3>1. scopes[ScopeAt(frames, d)].vars[n][w] = env[ScopeAt(frames, d)][n][w]
      BY <2>1, <2>5
    <3>2. ScopeAt(frames, d) \in 1 .. m - 1
      BY <1>1, <1>5, <2>5
    <3>3. n \in DOMAIN scopes[ScopeAt(frames, d)].vars \cap Locals
      BY <1>5
    <3>4. Merged[ScopeAt(frames, d)].vars[n] = scopes[ScopeAt(frames, d)].vars[n]
      BY <1>2, <3>2, <3>3 DEF MergedAs, Under, m
    <3> QED BY <3>1, <3>4
  <2>6. Agree(frames, seen, Merged, env, w, m - 1)
    BY <2>4, <2>5 DEF Agree
  <2>7. ASSUME NEW n \in DOMAIN top.copyOut
        PROVE  Merged[m].vars[top.copyOut[n]][w] = env[m][top.copyOut[n]][w]
    <3>1. /\ top.copyOut[n] \in DOMAIN scopes[m].vars /\ Owner(scopes, top.copyOut[n]) = m
          /\ top.copyOut[n] \in Range(top.copyOut)
      BY <1>3 DEF top
    <3> QED BY <1>1, <2>2, <2>3, <3>1 DEF Has
  <2> QED BY <1>1, <2>6, <2>7 DEF m
<1> QED BY <1>6, <1>7 DEF ComesBack

LEMMA MinIsLeast ==
  ASSUME NEW n \in Nat, NEW S \in SUBSET (1 .. n), S # {}
  PROVE  Min(S) \in S /\ \A k \in S : Min(S) <= k
<1> DEFINE T == {m \in 1 .. n : \A k \in S : m <= k}
<1>1. PICK e : e \in S
  OBVIOUS
<1>2. T \in SUBSET (1 .. n) /\ 1 \in T
  BY <1>1
<1>3. PICK m : m = Max(T)
  OBVIOUS
<1>4. m \in T /\ \A k \in T : k <= m
  <2> HIDE DEF T
  <2>1. T # {}
    BY <1>2
  <2> QED BY <1>2, <1>3, <2>1, MaxIsGreatest
<1>5. m \in 1 .. n /\ \A k \in S : m <= k
  BY <1>4
<1>6. m + 1 \notin T
  <2>1. ~(m + 1 <= m)
    BY <1>5
  <2> QED BY <1>4, <2>1
<1>7. PICK k \in S : ~(m + 1 <= k)
  <2> SUFFICES ASSUME \A k \in S : m + 1 <= k PROVE FALSE
    OBVIOUS
  <2>1. e \in 1 .. n /\ m + 1 <= e
    BY <1>1
  <2>2. m + 1 \in 1 .. n
    BY <1>5, <2>1
  <2> QED BY <1>6, <2>2
<1>8. k = m
  <2>1. k \in 1 .. n /\ m <= k
    BY <1>5
  <2> QED BY <1>5, <1>7, <2>1
<1> QED BY <1>5, <1>8 DEF Min

\* The return expression that a world has come by.
LEMMA MergedReturnFacts ==
  ASSUME NEW xs \in Seq([cond : SUBSET Worlds, val : Store]), xs # <<>>
  PROVE  /\ MergedReturn(xs) \in Store
         /\ \A k \in DOMAIN xs, w \in Worlds :
              w \in xs[k].cond /\ (\A j \in DOMAIN xs : j # k => w \notin xs[j].cond) =>
                MergedReturn(xs)[w] = xs[k].val[w]
<1> DEFINE R == [cond : SUBSET Worlds, val : Store]
           applies(w) == {k \in DOMAIN xs : w \in xs[k].cond}
<1>1. /\ \A x \in R : x.val \in Store
      /\ \A x \in Store : \A w \in Worlds : x[w] \in Values
  BY DEF Store
<1> HIDE DEF R
<1>2. /\ \A k \in DOMAIN xs : xs[k] \in R
      /\ Last(xs) \in R /\ DOMAIN xs \in SUBSET Nat
  <2>1. xs \in Seq(R)
    BY DEF R
  <2>2. Len(xs) \in DOMAIN xs
    BY <2>1
  <2> QED BY <2>1, <2>2 DEF Last
<1>3. ASSUME NEW w \in Worlds, applies(w) # {} PROVE Min(applies(w)) \in applies(w)
  <2>1. applies(w) \in SUBSET (1 .. Len(xs)) /\ Len(xs) \in Nat
    OBVIOUS
  <2> HIDE DEF applies
  <2> QED BY <1>3, <2>1, MinIsLeast
<1>4. \A w \in Worlds :
        (IF applies(w) = {} THEN Last(xs).val[w] ELSE xs[Min(applies(w))].val[w]) \in Values
  <2>1. ASSUME NEW w \in Worlds, applies(w) = {} PROVE Last(xs).val[w] \in Values
    BY <1>1, <1>2
  <2>2. ASSUME NEW w \in Worlds, applies(w) # {} PROVE xs[Min(applies(w))].val[w] \in Values
    <3>1. Min(applies(w)) \in DOMAIN xs
      BY <1>3, <2>2
    <3> QED BY <1>1, <1>2, <3>1
  <2> QED BY <2>1, <2>2
<1>5. MergedReturn(xs) = [w \in Worlds |-> IF applies(w) = {} THEN Last(xs).val[w]
                                           ELSE xs[Min(applies(w))].val[w]]
  BY DEF MergedReturn
<1>6. MergedReturn(xs) \in Store
  BY <1>4, <1>5 DEF Store
<1>7. ASSUME NEW k \in DOMAIN xs, NEW w \in Worlds, w \in xs[k].cond,
             \A j \in DOMAIN xs : j # k => w \notin xs[j].cond
      PROVE  MergedReturn(xs)[w] = xs[k].val[w]
  <2>1. applies(w) = {k}
    BY <1>7
  <2>2. Min(applies(w)) = k
    BY <1>3, <2>1
  <2> QED BY <1>5, <2>1, <2>2
<1> QED BY <1>6, <1>7

\* The variables of the interpreter where the innermost call is left.
LeftEnv == LeaveCall(env, Last(scopes).copyOut, Back)

LEMMA CallLeaves ==
  ASSUME IInv, frames # <<>>, frame.kind = "call"
  PROVE  LeftBy(frames, seen, Merged, Len(scopes) - 1, Merged, env, Back, CopyOut(scopes), LeftEnv)
<1> DEFINE m == Len(scopes)
<1>1. /\ Framed(frames, scopes, env, seen) /\ m \in Nat /\ m >= 2 /\ DOMAIN scopes = 1 .. m
      /\ Last(scopes) = scopes[m] /\ Len(env) = m
  BY CallFacts
<1>2. Framed(frames, Merged, env, seen) /\ Len(Merged) = m /\ SameShape(scopes, Merged)
  BY MergedFacts DEF MergedAs
<1>3. /\ frames \in Seq(Frames) /\ seen \in Seq(SUBSET Locals) /\ Merged \in Seq(Scopes)
      /\ env \in Seq(EnvMaps) /\ Shaped(frames, Merged, env, seen) /\ Returns(frames, Merged, seen)
  BY <1>2 DEF Framed
<1>4. Merged[m].copyOut = Last(scopes).copyOut
  <2>1. m \in DOMAIN scopes
    BY <1>1
  <2> QED BY <1>1, <1>2, <2>1 DEF SameShape
<1>5. m - 1 \in 1 .. m - 1 /\ (m - 1) + 1 = m /\ m <= m /\ DOMAIN Merged = 1 .. m /\ m \in Nat
  BY <1>1, <1>2, <1>3
<1> HIDE DEF m
<1>6. Like(Merged, Merged)
  BY <1>2, <1>3, <1>5 DEF Like
<1>7. EnvLike(Merged, env)
  BY <1>1, <1>2, <1>3, <1>5 DEF EnvLike, Shaped
<1>8. Leaving(frames, seen, Merged, env, m - 1, Merged, env)
  BY <1>1, <1>2, <1>3, <1>5, <1>6, <1>7 DEF Leaving
<1>9. LeftBy(frames, seen, Merged, m - 1, Merged, env, Back, LeaveScope(Merged),
             LeaveCall(env, Merged[(m - 1) + 1].copyOut, Back))
  BY <1>8, LeaveAgrees
<1>10. CopyOut(scopes) = LeaveScope(Merged)
  BY DEF CopyOut, Merged
<1> QED BY <1>4, <1>5, <1>9, <1>10 DEF LeftEnv, m

LEMMA AgreeFront ==
  ASSUME NEW fs \in Seq(Frames), fs # <<>>, NEW sn \in Seq(SUBSET Locals), Len(sn) = Len(fs),
         NEW r, NEW q, NEW w, NEW m, Agree(fs, sn, r, q, w, m)
  PROVE  Agree(Front(fs), Front(sn), r, q, w, m)
<1>1. /\ DOMAIN Front(fs) = 1 .. Len(fs) - 1 /\ DOMAIN fs = 1 .. Len(fs)
      /\ \A d \in 1 .. Len(fs) - 1 : Front(fs)[d] = fs[d]
      /\ Len(fs) \in Nat \ {0}
  BY FrontFacts
<1>2. \A d \in 1 .. Len(fs) - 1 : Front(sn)[d] = sn[d]
  <2>1. sn # <<>>
    BY <1>1
  <2> QED BY <2>1, FrontFacts
<1>3. \A d \in 0 .. Len(fs) - 1 : ScopeAt(Front(fs), d) = ScopeAt(fs, d)
  BY ScopePop
<1>4. \A d \in 1 .. Len(fs) - 1 : d \in 1 .. Len(fs) /\ d \in 0 .. Len(fs) - 1
  BY <1>1
<1>5. ASSUME NEW d \in DOMAIN Front(fs), ScopeAt(Front(fs), d) <= m, NEW n \in Front(sn)[d]
      PROVE  r[ScopeAt(Front(fs), d)].vars[n][w] = q[ScopeAt(Front(fs), d)][n][w]
  <2>1. ScopeAt(Front(fs), d) = ScopeAt(fs, d) /\ Front(sn)[d] = sn[d] /\ d \in DOMAIN fs
    BY <1>1, <1>2, <1>3, <1>4
  <2> QED BY <1>5, <2>1 DEF Agree
<1> QED BY <1>5 DEF Agree

\* The scopes and the variables of the interpreter after a call.
ReturnsTo(r, q) ==
  /\ Framed(Front(frames), r, q, Front(seen)) /\ Len(r) = Len(scopes) - 1 /\ Len(scopes) > 2
  /\ Under(scopes, r, Len(scopes) - 1)
  /\ \A i \in 1 .. Len(scopes) - 1 :
       /\ r[i].ret = scopes[i].ret /\ r[i].copyOut = scopes[i].copyOut
       /\ r[i].states = scopes[i].states /\ r[i].exprs = scopes[i].exprs
  /\ \A w \in Back : Agree(Front(frames), Front(seen), r, q, w, Len(scopes) - 1)
  /\ \A w \in Worlds \ Back : \A i \in 1 .. Len(scopes) - 1 : \A n \in DOMAIN env[i] :
       n \in DOMAIN q[i] /\ q[i][n][w] = env[i][n][w]

LEMMA CallReturns ==
  ASSUME IInv, Len(frames) > 1, frame.kind = "call"
  PROVE  ReturnsTo(CopyOut(scopes), LeftEnv)
<1> DEFINE m == Len(scopes)
<1>1. PICK r : r = CopyOut(scopes)
  OBVIOUS
<1>2. PICK q : q = LeftEnv
  OBVIOUS
<1>3. frames # <<>>
  OBVIOUS
<1>4. /\ Framed(frames, scopes, env, seen) /\ m \in Nat /\ m >= 2 /\ DOMAIN scopes = 1 .. m
      /\ frames \in Seq(Frames) /\ seen \in Seq(SUBSET Locals) /\ Len(seen) = Len(frames)
      /\ Last(scopes) = scopes[m] /\ Len(env) = m /\ frame = Last(frames)
  BY <1>3, CallFacts DEF frame
<1>5. /\ Framed(frames, Merged, env, seen) /\ Len(Merged) = m /\ SameShape(scopes, Merged)
      /\ Under(scopes, Merged, m)
  BY <1>3, MergedFacts DEF MergedAs
<1>6. LeftBy(frames, seen, Merged, m - 1, Merged, env, Back, r, q)
  BY <1>1, <1>2, <1>3, CallLeaves
<1>7. m - 1 \in Nat /\ m - 1 <= m /\ (m - 1) + 1 = m /\ m \in DOMAIN scopes
      /\ \A i \in 1 .. m - 1 : i \in DOMAIN scopes
  BY <1>4
<1> HIDE DEF m
<1>8. /\ r \in Seq(Scopes) /\ Len(r) = m - 1 /\ q \in Seq(EnvMaps) /\ Len(q) = m - 1
      /\ Under(Merged, r, m - 1)
      /\ \A i \in 1 .. m - 1 :
           /\ DOMAIN r[i].vars = DOMAIN Merged[i].vars /\ r[i].ret = Merged[i].ret
           /\ r[i].copyOut = Merged[i].copyOut /\ r[i].states = Merged[i].states
           /\ r[i].exprs = Merged[i].exprs /\ DOMAIN q[i] = DOMAIN env[i]
  BY <1>6 DEF LeftBy, Like, EnvLike
<1>9. Leaves(Merged, env, r, q)
  BY <1>5, <1>8 DEF Leaves
<1>10. Framed(Front(frames), r, q, Front(seen)) /\ m > 2
  <2>1. Last(frames).kind = "call"
    BY <1>4
  <2> QED BY <1>5, <1>9, <2>1, FramedReturn
<1>11. Under(scopes, r, m - 1)
  BY <1>4, <1>5, <1>7, <1>8, UnderTwice
<1>12. \A i \in 1 .. m - 1 :
         /\ r[i].ret = scopes[i].ret /\ r[i].copyOut = scopes[i].copyOut
         /\ r[i].states = scopes[i].states /\ r[i].exprs = scopes[i].exprs
  BY <1>5, <1>7, <1>8, ZenonT(30) DEF SameShape
<1>13. ASSUME NEW w \in Back PROVE Agree(Front(frames), Front(seen), r, q, w, m - 1)
  <2>1. w \in Worlds /\ ComesBack(w)
    BY <1>13 DEF Back, ComesBack, Run!Live, Run!At
  <2>2. /\ Agree(frames, seen, Merged, env, w, m - 1)
        /\ \A n \in DOMAIN Last(scopes).copyOut :
             Merged[m].vars[Last(scopes).copyOut[n]][w] = env[m][Last(scopes).copyOut[n]][w]
    BY <1>3, <2>1, CallMerged DEF m
  <2>3. Last(scopes).copyOut = Merged[(m - 1) + 1].copyOut
    BY <1>4, <1>5, <1>7 DEF SameShape
  <2>4. /\ Agree(frames, seen, Merged, env, w, m - 1)
        /\ \A n \in DOMAIN Merged[(m - 1) + 1].copyOut :
             Merged[(m - 1) + 1].vars[Merged[(m - 1) + 1].copyOut[n]][w]
               = env[(m - 1) + 1][Merged[(m - 1) + 1].copyOut[n]][w]
    BY <1>7, <2>2, <2>3
  <2>5. Agree(frames, seen, r, q, w, m - 1)
    BY <1>6, <1>13, <2>1, <2>4 DEF LeftBy
  <2> QED BY <1>3, <1>4, <2>5, AgreeFront
<1>14. \A w \in Worlds \ Back : \A i \in 1 .. m - 1 : \A n \in DOMAIN env[i] :
         n \in DOMAIN q[i] /\ q[i][n][w] = env[i][n][w]
  BY <1>6, <1>8 DEF LeftBy
<1>15. ReturnsTo(r, q)
  BY <1>8, <1>10, <1>11, <1>12, <1>13, <1>14 DEF ReturnsTo, m
<1> QED BY <1>1, <1>2, <1>15

\* The worlds that come back from a function have returned with its result.
LEMMA ResultFacts ==
  ASSUME IInv, Len(frames) > 1, frame.kind = "call", returned
  PROVE  /\ MergedReturn(Last(scopes).exprs) \in Store
         /\ \A w \in Back : /\ "result" \in DOMAIN Last(env) /\ Last(env)["result"] \in Store
                            /\ MergedReturn(Last(scopes).exprs)[w] = Last(env)["result"][w]
<1> DEFINE m == Len(scopes)
           top == scopes[m]
<1>1. frames # <<>>
  OBVIOUS
<1>2. /\ Framed(frames, scopes, env, seen) /\ Skipping /\ m \in DOMAIN scopes /\ top \in Scopes
      /\ Last(scopes) = top /\ Last(env) = env[m] /\ m \in 1 .. Len(env) /\ env \in Seq(EnvMaps)
  BY <1>1, CallFacts
<1>3. /\ Apart(top.states, top.ret) /\ Len(top.exprs) = Len(top.states)
      /\ \A k \in DOMAIN top.states : top.exprs[k].cond = top.states[k].cond
  BY <1>2 DEF Framed, Listed
<1>4. /\ top.states \in Seq(Pair) /\ top.exprs \in Seq([cond : SUBSET Worlds, val : Store])
  BY <1>2, ScopeFields
<1> HIDE DEF top, m
<1>5. DOMAIN top.exprs = DOMAIN top.states
  BY <1>3, <1>4
<1>6. top.exprs # <<>> /\ Run!Live = {}
  <2>1. top.states # <<>> /\ Run!Live = {}
    BY <1>2 DEF Skipping
  <2> QED BY <1>3, <1>4, <2>1
<1>7. /\ MergedReturn(top.exprs) \in Store
      /\ \A k \in DOMAIN top.exprs, w \in Worlds :
           w \in top.exprs[k].cond /\ (\A j \in DOMAIN top.exprs : j # k => w \notin top.exprs[j].cond) =>
             MergedReturn(top.exprs)[w] = top.exprs[k].val[w]
  BY <1>4, <1>6, MergedReturnFacts
<1>8. ASSUME NEW w \in Back
      PROVE  /\ "result" \in DOMAIN env[m] /\ env[m]["result"] \in Store
             /\ MergedReturn(top.exprs)[w] = env[m]["result"][w]
  <2>1. w \in Worlds /\ status[w] = "returned" /\ at[w] = Len(frames)
    BY <1>6, <1>8 DEF Back, Run!At
  <2>2. HasLeft(w, m)
    BY <1>1, <2>1, ReturnedFacts DEF m
  <2>3. PICK k \in DOMAIN top.states :
          /\ w \in top.states[k].cond /\ "result" \in DOMAIN env[m]
          /\ top.exprs[k].val[w] = env[m]["result"][w]
    BY <2>2 DEF HasLeft, top
  <2>4. w \in top.exprs[k].cond
    BY <1>3, <2>3
  <2>5. \A j \in DOMAIN top.exprs : j # k => w \notin top.exprs[j].cond
    BY <1>3, <1>5, <2>3 DEF Apart
  <2>6. MergedReturn(top.exprs)[w] = top.exprs[k].val[w]
    BY <1>5, <1>7, <2>1, <2>4, <2>5
  <2>7. env[m]["result"] \in Store
    BY <1>2, <2>3, EnvValue
  <2> QED BY <2>3, <2>6, <2>7
<1> QED BY <1>2, <1>7, <1>8

LEMMA ResultReturns ==
  ASSUME IInv, Len(frames) > 1, frame.kind = "call", returned,
         frame.result \notin {"none", "operand"}
  PROVE  ReturnsTo(UpdateVar(CopyOut(scopes), frame.result, MergedReturn(Last(scopes).exprs)),
                   Assign(LeftEnv, frame.result, Last(env)["result"], Back))
<1> DEFINE m == Len(scopes)
<1>1. PICK r : r = CopyOut(scopes)
  OBVIOUS
<1>2. PICK q : q = LeftEnv
  OBVIOUS
<1>3. PICK n : n = frame.result
  OBVIOUS
<1>4. PICK val : val = MergedReturn(Last(scopes).exprs)
  OBVIOUS
<1>5. PICK v : v = IF Back = {} THEN Constant(Undef) ELSE Last(env)["result"]
  OBVIOUS
<1>6. frames # <<>>
  OBVIOUS
<1>7. ReturnsTo(r, q)
  BY <1>1, <1>2, CallReturns
<1>8. /\ Framed(Front(frames), r, q, Front(seen)) /\ Len(r) = m - 1 /\ Under(scopes, r, m - 1)
      /\ m > 2 /\ m \in Nat
  BY <1>6, <1>7, CallFacts DEF ReturnsTo
<1>9. val \in Store /\ v \in Store /\ \A w \in Back : val[w] = v[w]
  <2>1. Constant(Undef) \in Store
    BY NamesAssumption DEF Constant, Store
  <2> QED BY <1>4, <1>5, <2>1, ResultFacts
<1>10. n \in Last(Front(seen)) \cup Globals
  <2>1. /\ Framed(frames, scopes, env, seen) /\ Len(frames) \in DOMAIN frames /\ Len(frames) \in Nat
        /\ frame = frames[Len(frames)] /\ frames[Len(frames)].kind = "call"
        /\ seen \in Seq(SUBSET Locals) /\ Len(seen) = Len(frames)
    BY <1>6, CallFacts
  <2>2. n \in seen[Len(frames) - 1] \cup Globals
    BY <1>3, <2>1 DEF Framed, Returns
  <2>3. Last(Front(seen)) = seen[Len(frames) - 1]
    <3>1. seen # <<>>
      BY <2>1
    <3>2. /\ Len(Front(seen)) = Len(frames) - 1
          /\ \A d \in 1 .. Len(frames) - 1 : Front(seen)[d] = seen[d]
      BY <2>1, <3>1, FrontFacts
    <3>3. Len(frames) - 1 \in 1 .. Len(frames) - 1
      BY <2>1
    <3> QED BY <3>2, <3>3 DEF Last
  <2> QED BY <2>2, <2>3
<1>11. Assigns(Front(frames), r, q, Front(seen), n, val, v)
  BY <1>8, <1>9, <1>10 DEF Assigns
<1>12. PICK x : x = UpdateVar(r, n, val)
  OBVIOUS
<1>13. PICK y : y = Assign(q, n, v, Back)
  OBVIOUS
<1>14. AssignedBy(Front(frames), r, q, Front(seen), val, v, Back, x, y)
  BY <1>11, <1>12, <1>13, UpdateAgrees
<1> HIDE DEF m
<1>15. /\ Changed(r, x, q, y) /\ EnvChanged(q, y) /\ SameShape(r, x)
       /\ \A w \in Worlds : w \in Back /\ val[w] = v[w] /\ Agree(Front(frames), Front(seen), r, q, w, Len(r)) =>
            Agree(Front(frames), Front(seen), x, y, w, Len(r))
       /\ \A w \in Worlds : w \notin Back =>
            \A k \in 1 .. Len(q) : \A z \in DOMAIN q[k] : y[k][z][w] = q[k][z][w]
  BY <1>14 DEF AssignedBy
<1>16. Framed(Front(frames), x, y, Front(seen))
  BY <1>8, <1>15, FramedChanged
<1>17. Len(x) = m - 1 /\ Under(r, x, m - 1) /\ m - 1 \in Nat /\ Len(q) = m - 1
  BY <1>8, <1>15, FramedFacts DEF Changed
<1>18. Under(scopes, x, m - 1)
  BY <1>8, <1>17, UnderTwice
<1>19. \A i \in 1 .. m - 1 :
         /\ x[i].ret = scopes[i].ret /\ x[i].copyOut = scopes[i].copyOut
         /\ x[i].states = scopes[i].states /\ x[i].exprs = scopes[i].exprs
  <2>1. \A i \in 1 .. m - 1 : i \in DOMAIN r
    BY <1>8, FramedFacts
  <2> QED BY <1>7, <1>15, <2>1 DEF ReturnsTo, SameShape, m
<1>20. \A w \in Back : Agree(Front(frames), Front(seen), x, y, w, m - 1)
  <2>1. \A w \in Back : w \in Worlds
    BY DEF Back, Run!Live, Run!At
  <2> QED BY <1>7, <1>8, <1>9, <1>15, <2>1 DEF ReturnsTo, m
<1>21. \A w \in Worlds \ Back : \A i \in 1 .. m - 1 : \A z \in DOMAIN env[i] :
         z \in DOMAIN y[i] /\ y[i][z][w] = env[i][z][w]
  BY <1>7, <1>15, <1>17 DEF ReturnsTo, EnvChanged, m
<1>22. ReturnsTo(x, y)
  BY <1>8, <1>16, <1>17, <1>18, <1>19, <1>20, <1>21 DEF ReturnsTo, m
<1>23. y = Assign(LeftEnv, frame.result, Last(env)["result"], Back)
  <2>1. CASE Back = {}
    <3>1. \A a, b, c : Ite({}, a, c) = Ite({}, b, c)
      BY DEF Ite
    <3>2. \A e, k, a, b : Assign(e, k, a, {}) = Assign(e, k, b, {})
      BY <3>1 DEF Assign
    <3> QED BY <1>2, <1>3, <1>13, <2>1, <3>2
  <2>2. CASE Back # {}
    BY <1>2, <1>3, <1>5, <1>13, <2>2
  <2> QED BY <2>1, <2>2
<1> QED BY <1>1, <1>3, <1>4, <1>12, <1>22, <1>23

\* The end of a call or of a function.
LEMMA CallEndScopes ==
  ASSUME IInv, RefCallEnd
  PROVE  ReturnsTo(scopes', env')
<1>1. /\ Len(frames) > 1 /\ frame.kind = "call"
      /\ frame.result # "none" => returned
      /\ scopes' = IF frame.result \in {"none", "operand"} THEN CopyOut(scopes)
                   ELSE UpdateVar(CopyOut(scopes), frame.result,
                                  MergedReturn(Last(scopes).exprs))
      /\ env' = IF frame.result \in {"none", "operand"} THEN LeftEnv
                ELSE Assign(LeftEnv, frame.result, Last(env)["result"], Back)
  BY DEF RefCallEnd, CallEnd, LeftEnv
<1>2. CASE frame.result \in {"none", "operand"}
  BY <1>1, <1>2, CallReturns
<1>3. CASE frame.result \notin {"none", "operand"}
  <2>1. returned
    BY <1>1, <1>3
  <2> QED BY <1>1, <1>3, <2>1, ResultReturns
<1> QED BY <1>2, <1>3

LEMMA CallEndStep ==
  ASSUME IInv, RefCallEnd
  PROVE  IInv'
<1> DEFINE m == Len(scopes)
           l == Len(frames)
<1>1. /\ l > 1 /\ frames # <<>> /\ frame.kind = "call"
      /\ exited => Last(scopes).states = <<>>
      /\ frames' = Front(frames) /\ seen' = Front(seen) /\ returned' = FALSE
      /\ UNCHANGED <<fwd, exitCond, exits, exited>>
      /\ Run!Enter("returned", l)
  BY DEF RefCallEnd, CallEnd
<1>2. /\ TypeOK /\ Framed(frames, scopes, env, seen) /\ Nested(frames, fwd) /\ Skipping
      /\ frames \in Seq(Frames) /\ seen \in Seq(SUBSET Locals) /\ Len(seen) = l
      /\ l \in Nat \ {0} /\ DOMAIN frames = 1 .. l /\ m \in Nat /\ Last(scopes) = scopes[m]
      /\ frame = Last(frames) /\ frame = frames[l] /\ ScopeAt(frames, l) = m /\ fwd = frame.fwd
  BY <1>1, CallFacts DEF frame
<1>3. /\ Framed(frames', scopes', env', seen') /\ Len(scopes') = m - 1 /\ m > 2
      /\ Under(scopes, scopes', m - 1)
      /\ \A i \in 1 .. m - 1 :
           /\ scopes'[i].ret = scopes[i].ret /\ scopes'[i].copyOut = scopes[i].copyOut
           /\ scopes'[i].states = scopes[i].states /\ scopes'[i].exprs = scopes[i].exprs
      /\ \A w \in Back : Agree(frames', seen', scopes', env', w, m - 1)
      /\ \A w \in Worlds \ Back : \A i \in 1 .. m - 1 : \A n \in DOMAIN env[i] :
           n \in DOMAIN env'[i] /\ env'[i][n][w] = env[i][n][w]
  BY <1>1, CallEndScopes DEF ReturnsTo
<1>4. /\ status' \in [Worlds -> Run!Statuses] /\ at' \in [Worlds -> Nat]
      /\ \A w \in Worlds :
           /\ status[w] = "returned" /\ at[w] = l => status'[w] = "live"
           /\ ~(status[w] = "returned" /\ at[w] = l) => status'[w] = status[w] /\ at'[w] = at[w]
  BY <1>1, <1>2, EnterRun
<1>5. /\ DOMAIN frames' = 1 .. l - 1 /\ Len(frames') = l - 1
      /\ \A d \in 1 .. l - 1 : frames'[d] = frames[d] /\ d \in 1 .. l
  <2>1. /\ DOMAIN Front(frames) = 1 .. l - 1 /\ Len(Front(frames)) = l - 1
        /\ \A d \in 1 .. l - 1 : Front(frames)[d] = frames[d]
    BY <1>1, <1>2, FrontFacts
  <2>2. \A d \in 1 .. l - 1 : d \in 1 .. l
    BY <1>2
  <2> QED BY <1>1, <2>1, <2>2
<1>6. \A d \in 1 .. l - 1 : seen'[d] = seen[d]
  <2>1. seen # <<>>
    BY <1>2
  <2> QED BY <1>1, <1>2, <2>1, FrontFacts
<1> HIDE DEF l, m
<1>7. Nested(frames', fwd')
  BY <1>1, <1>2, NestPop
<1>8. \A w \in Worlds : status[w] = "returned" /\ at[w] = l => ~exited
  <2>1. ASSUME NEW w \in Worlds, status[w] = "returned", at[w] = l, exited PROVE FALSE
    <3>1. HasLeft(w, m)
      BY <1>1, <2>1, ReturnedFacts DEF l, m
    <3>2. scopes[m].states # <<>>
      BY <3>1 DEF HasLeft
    <3> QED BY <1>1, <1>2, <2>1, <3>2
  <2> QED BY <2>1
<1>9. Skipping'
  <2>1. exited => Run!Live' = {}
    <3>1. ASSUME exited, NEW w \in Worlds PROVE status'[w] # "live"
      <4>1. status[w] # "live"
        BY <1>2, <3>1 DEF Skipping, Run!Live
      <4> QED BY <1>4, <1>8, <3>1, <4>1
    <3> QED BY <3>1 DEF Run!Live
  <2>2. ASSUME NEW d \in DOMAIN frames', frames'[d].kind = "operand"
        PROVE  /\ ~exited
               /\ d < Len(frames') => /\ frames'[d + 1].kind = "call"
                                      /\ frames'[d + 1].result = "operand"
    <3>1. d \in DOMAIN frames /\ frames[d].kind = "operand" /\ d < l
      BY <1>2, <1>5, <2>2
    <3>2. ~exited /\ frames[d + 1].kind = "call" /\ frames[d + 1].result = "operand"
      BY <1>2, <3>1 DEF Skipping, l
    <3>3. d < l - 1 => d + 1 \in 1 .. l - 1
      BY <1>2, <1>5, <2>2
    <3> QED BY <1>5, <3>2, <3>3
  <2>3. ASSUME NEW d \in DOMAIN frames', frames'[d].kind = "else",
               frames'[d].exitAll \/ frames'[d].returnAll
        PROVE  Run!At("done", d)' = {}
    <3>1. d \in DOMAIN frames /\ frames'[d] = frames[d]
      BY <1>2, <1>5
    <3>2. Run!At("done", d) = {}
      BY <1>2, <2>3, <3>1 DEF Skipping
    <3> QED BY <1>4, <3>2 DEF Run!At
  <2> QED BY <1>1, <2>1, <2>2, <2>3 DEF Skipping
<1>10. ASSUME NEW w \in Worlds, ComesBack(w)
       PROVE  Located(w)' /\ Accounted(w)'
  <2>1. /\ w \in exitCond /\ w \in fwd /\ \A j \in 1 .. m - 1 : w \in scopes[j].ret
    <3>1. CASE status[w] = "live"
      <4>1. \A j \in 1 .. m : w \in scopes[j].ret
        BY <1>1, <3>1, LiveFacts DEF m
      <4>2. \A j \in 1 .. m - 1 : j \in 1 .. m
        BY <1>2
      <4> QED BY <1>1, <3>1, <4>1, <4>2, LiveFacts
    <3>2. CASE status[w] = "returned" /\ at[w] = l
      BY <1>1, <3>2, ReturnedFacts DEF l, m
    <3> QED BY <1>10, <3>1, <3>2 DEF ComesBack, l
  <2>2. w \in Back
    BY <1>10 DEF Back, ComesBack, Run!Live, Run!At
  <2>3. status'[w] = "live"
    BY <1>4, <1>10 DEF ComesBack, l
  <2>4. Agree(frames', seen', scopes', env', w, Len(scopes'))
    BY <1>3, <2>2
  <2>5. w \in exitCond' /\ w \in fwd' /\ \A j \in 1 .. Len(scopes') : w \in scopes'[j].ret
    BY <1>1, <1>3, <2>1
  <2> QED BY <1>3, <2>3, <2>4, <2>5, LiveBack
<1>11. ASSUME NEW w \in Worlds, ~ComesBack(w)
       PROVE  Located(w)' /\ Accounted(w)'
  <2>1. /\ status[w] # "live" /\ ~(status[w] = "returned" /\ at[w] = l)
        /\ status'[w] = status[w] /\ at'[w] = at[w] /\ w \notin Back
    BY <1>4, <1>11 DEF ComesBack, Back, Run!Live, Run!At, l
  <2>2. /\ status[w] = "exited" => w \notin exitCond
        /\ status[w] # "exited" => /\ w \in exitCond /\ at[w] \in 1 .. l
                                   /\ status[w] \in {"wait", "done"} => frames[at[w]].kind # "call"
    BY <1>1, <2>1, NotLiveFacts DEF l
  <2>3. status[w] # "exited" => at[w] \in 1 .. l - 1
    <3>1. status[w] \in Run!Statuses
      BY <1>2 DEF TypeOK
    <3>2. status[w] # "exited" => at[w] # l
      BY <1>1, <1>2, <2>1, <2>2, <3>1 DEF Run!Statuses
    <3> QED BY <1>2, <2>2, <3>2
  <2>4. status[w] # "exited" => ScopeOf(at[w]) <= m - 1
    <3>1. ASSUME status[w] # "exited" PROVE ScopeOf(at[w]) <= m - 1
      <4>1. at[w] \in Nat /\ at[w] < l /\ at[w] \in 1 .. l
        BY <1>2, <2>3, <3>1
      <4>2. ScopeAt(frames, at[w]) < ScopeAt(frames, l)
        BY <1>1, <1>2, <4>1, ScopeKept
      <4>3. ScopeAt(frames, at[w]) \in Nat
        BY <4>1, ScopeType
      <4> QED BY <1>2, <4>2, <4>3 DEF ScopeOf
    <3> QED BY <3>1
  <2>5. status[w] # "exited" => StaysIn(w)
    <3>1. ASSUME status[w] # "exited" PROVE StaysIn(w)
      <4>1. \A d \in 1 .. at[w] : d \in 1 .. l - 1
        BY <1>2, <2>3, <3>1
      <4>2. \A d \in 1 .. at[w] - 1 : d \in 1 .. l - 1
        BY <1>2, <2>3, <3>1
      <4> QED BY <1>1, <1>5, <1>6, <2>2, <2>3, <3>1, <4>1, <4>2 DEF StaysIn
    <3> QED BY <3>1
  <2>6. m - 1 \in 2 .. Len(scopes) /\ m - 1 <= Len(scopes')
    BY <1>2, <1>3 DEF m
  <2>7. Stays(w, m - 1)
    BY <1>1, <1>3, <2>1, <2>2, <2>4, <2>5, <2>6 DEF Stays
  <2> QED BY <1>1, <1>3, <2>7, StaysInPlace
<1>12. TypeOK'
  BY <1>1, <1>2, <1>3, <1>4, TypeInBlock DEF TypeOK
<1>13. Apart(exits', exitCond')
  BY <1>1, InBlock
<1> QED BY <1>3, <1>7, <1>9, <1>10, <1>11, <1>12, <1>13, StillInBlock

LEMMA SetToSeqFacts ==
  ASSUME NEW S, IsFiniteSet(S), NEW p, p = SetToSeq(S)
  PROVE  p \in Seq(S) /\ \A x \in S : \E k \in DOMAIN p : p[k] = x
<1> DEFINE n == Cardinality(S)
           D == 1 .. n
<1>1. n \in Nat /\ ExistsBijection(D, S)
  BY FS_CardinalityType
<1>2. IsFiniteSet(D) /\ Cardinality(D) = n
  BY <1>1, FS_Interval
<1> HIDE DEF n
<1>3. \E f \in [D -> S] : IsInjective(f)
  BY <1>1 DEF ExistsBijection, Bijection, Injection
<1>4. p = CHOOSE f \in [D -> S] : IsInjective(f)
  BY DEF SetToSeq, n
<1>5. p \in [D -> S] /\ IsInjective(p)
  BY <1>3, <1>4
<1>6. p \in Surjection(D, S)
  <2>1. p \in Injection(D, S)
    BY <1>5 DEF Injection
  <2> HIDE DEF D
  <2> QED BY <1>2, <2>1, FS_Injection DEF n
<1>7. p \in Seq(S)
  BY <1>1, <1>5, FunctionIsSeq
<1> QED BY <1>5, <1>6, <1>7 DEF Surjection

\* The scopes of run_arch_block and of the control, when it starts.
Inputs == [n \in Globals |-> Input[n]]
Same == [n \in Globals |-> n]
Outside == Scope(Inputs, <<>>)
Block == Scope(Inputs, Same)

LEMMA BlockTypes ==
  /\ Inputs \in VarMaps /\ Inputs \in EnvMaps /\ DOMAIN Inputs = Globals
  /\ Outside \in Scopes /\ Block \in Scopes
  /\ \A s \in {Outside, Block} : /\ s.vars = Inputs /\ s.ret = Worlds
                                 /\ s.states = <<>> /\ s.exprs = <<>>
  /\ Block.copyOut = Same
<1>1. \A n \in Globals : Input[n] \in Store
  BY NamesAssumption DEF Store
<1>2. Inputs \in [Globals -> Store] /\ DOMAIN Inputs = Globals
  BY <1>1 DEF Inputs
<1>3. Globals \in SUBSET Names /\ Globals \in SUBSET (Names \cup {"result"})
  BY DEF Names
<1>4. Inputs \in VarMaps /\ Inputs \in EnvMaps
  BY <1>2, <1>3 DEF VarMaps, EnvMaps
<1>5. Same \in [Globals -> Names]
  BY <1>3 DEF Same
<1> DEFINE Targets == UNION {[S -> Names] : S \in SUBSET Names}
<1>6. Same \in Targets
  BY <1>3, <1>5
<1>7. <<>> \in Targets
  <2>1. <<>> \in [{} -> Names]
    OBVIOUS
  <2>2. {} \in SUBSET Names
    OBVIOUS
  <2> QED BY <2>1, <2>2
<1>8. <<>> \in Seq(Pair) /\ <<>> \in Seq([cond : SUBSET Worlds, val : Store])
  OBVIOUS
<1>9. Scopes = [vars : VarMaps, copyOut : Targets, ret : SUBSET Worlds, states : Seq(Pair),
                exprs : Seq([cond : SUBSET Worlds, val : Store])]
  BY DEF Scopes
<1> HIDE DEF Targets
<1>10. Outside \in Scopes
  BY <1>4, <1>7, <1>8, <1>9 DEF Outside, Scope
<1>11. Block \in Scopes
  BY <1>4, <1>6, <1>8, <1>9 DEF Block, Scope
<1> QED BY <1>2, <1>4, <1>10, <1>11 DEF Outside, Block, Scope

LEMMA BlockCopyIn ==
  ASSUME NEW p, p = SetToSeq(Globals), NEW params,
         params = [k \in DOMAIN p |-> [name |-> p[k], dir |-> "inout"]]
  PROVE  CopyIn(<<Outside>>, params, p) = <<Outside, Block>>
<1>1. IsFiniteSet(Globals)
  BY NamesAssumption
<1>2. p \in Seq(Globals) /\ \A x \in Globals : \E k \in DOMAIN p : p[k] = x
  BY <1>1, SetToSeqFacts
<1>3. /\ DOMAIN params = DOMAIN p
      /\ \A k \in DOMAIN p : params[k].name = p[k] /\ params[k].dir = "inout" /\ p[k] \in Globals
  BY <1>2
<1>4. {params[k].name : k \in DOMAIN params} = Globals
  BY <1>2, <1>3
<1>5. ASSUME NEW n \in Globals PROVE GetVar(<<Outside>>, n) = Input[n]
  <2>1. /\ <<Outside>> \in Seq(Scopes) /\ 1 \in DOMAIN <<Outside>> /\ Len(<<Outside>>) = 1
        /\ <<Outside>>[1] = Outside
    BY BlockTypes
  <2>2. n \in DOMAIN <<Outside>>[1].vars /\ <<Outside>>[1].vars[n] = Input[n]
    BY <2>1, BlockTypes DEF Inputs
  <2>3. 1 \in Nat \ {0}
    OBVIOUS
  <2> HIDE DEF Outside
  <2> QED BY <2>1, <2>2, <2>3, LastOwner
<1>6. [n \in Globals |-> LET k == CHOOSE i \in DOMAIN params : params[i].name = n
                         IN Argument(<<Outside>>, params[k], p[k])] = Inputs
  <2>1. ASSUME NEW n \in Globals, NEW k, k = CHOOSE i \in DOMAIN params : params[i].name = n
        PROVE  Argument(<<Outside>>, params[k], p[k]) = Input[n]
    <3>1. \E i \in DOMAIN params : params[i].name = n
      BY <1>2, <1>3
    <3>2. k \in DOMAIN params /\ params[k].name = n
      BY <2>1, <3>1
    <3>3. p[k] = n /\ params[k].dir # "out"
      BY <1>3, <3>2
    <3> QED BY <1>5, <3>3 DEF Argument
  <2> QED BY <2>1 DEF Inputs
<1>7. CopyOutArgs(params, p) = Same
  <2> DEFINE outs(n) == {k \in DOMAIN p : p[k] = n /\ params[k].dir # "in"}
  <2>1. ASSUME NEW n \in Globals
        PROVE  outs(n) # {} /\ params[Max(outs(n))].name = n
    <3>1. outs(n) # {} /\ \A k \in outs(n) : params[k].name = n
      BY <1>2, <1>3
    <3>2. outs(n) \in SUBSET (1 .. Len(p)) /\ Len(p) \in Nat
      BY <1>2
    <3> HIDE DEF outs
    <3>3. Max(outs(n)) \in outs(n)
      BY <3>1, <3>2, MaxIsGreatest
    <3> QED BY <3>1, <3>3
  <2>2. Range(p) = Globals
    BY <1>2 DEF Range
  <2>3. {m \in Range(p) : outs(m) # {}} = Globals
    BY <2>1, <2>2
  <2>4. CopyOutArgs(params, p)
          = [n \in {m \in Range(p) : outs(m) # {}} |-> params[Max(outs(n))].name]
    BY DEF CopyOutArgs
  <2>5. [n \in {m \in Range(p) : outs(m) # {}} |-> params[Max(outs(n))].name]
          = [n \in Globals |-> params[Max(outs(n))].name]
    BY <2>3
  <2>6. \A n \in Globals : params[Max(outs(n))].name = n
    BY <2>1
  <2> HIDE DEF outs
  <2>7. [n \in Globals |-> params[Max(outs(n))].name] = Same
    BY ONLY <2>6 DEF Same
  <2> QED BY <2>4, <2>5, <2>7
<1>8. CopyIn(<<Outside>>, params, p)
        = Append(<<Outside>>,
                 Scope([n \in Globals |-> LET k == CHOOSE i \in DOMAIN params : params[i].name = n
                                          IN Argument(<<Outside>>, params[k], p[k])],
                       CopyOutArgs(params, p)))
  BY <1>4 DEF CopyIn
<1>9. CopyIn(<<Outside>>, params, p) = Append(<<Outside>>, Scope(Inputs, Same))
  BY <1>6, <1>7, <1>8
<1>10. CopyIn(<<Outside>>, params, p) = Append(<<Outside>>, Block)
  BY <1>9 DEF Block
<1> QED BY <1>10

LEMMA BlockFramed ==
  ASSUME NEW f \in Frames, f.kind = "call"
  PROVE  Framed(<<f>>, <<Outside, Block>>, <<Inputs, Inputs>>, <<{}>>)
<1> DEFINE fs == <<f>>
           sc == <<Outside, Block>>
           e == <<Inputs, Inputs>>
           sn == <<{}>>
<1>1. /\ fs \in Seq(Frames) /\ Len(fs) = 1 /\ DOMAIN fs = {1} /\ fs[1] = f /\ fs # <<>>
  <2>1. fs \in Seq(Frames)
    OBVIOUS
  <2> QED BY <2>1
<1>2. /\ sc \in Seq(Scopes) /\ Len(sc) = 2 /\ DOMAIN sc = {1, 2} /\ sc[1] = Outside /\ sc[2] = Block
      /\ e \in Seq(EnvMaps) /\ Len(e) = 2 /\ e[1] = Inputs /\ e[2] = Inputs
  <2>1. Outside \in Scopes /\ Block \in Scopes /\ Inputs \in EnvMaps
    BY BlockTypes
  <2>2. sc \in Seq(Scopes) /\ e \in Seq(EnvMaps)
    BY <2>1
  <2> HIDE DEF Outside, Block, Inputs
  <2>3. DOMAIN sc = {1, 2}
    OBVIOUS
  <2>4. /\ Len(sc) = 2 /\ sc[1] = Outside /\ sc[2] = Block
        /\ Len(e) = 2 /\ e[1] = Inputs /\ e[2] = Inputs
    OBVIOUS
  <2> QED BY <2>2, <2>3, <2>4
<1>3. sn \in Seq(SUBSET Locals) /\ Len(sn) = 1 /\ sn[1] = {}
  OBVIOUS
<1> HIDE DEF fs, sc, e, sn
<1>4. ScopeAt(fs, 1) = 2
  <2>1. 1 \in Nat \ {0} /\ 1 - 1 = 0
    OBVIOUS
  <2> QED BY <1>1, <2>1, ScopeNone, ScopeNext
<1>5. /\ \A i \in {1, 2} : /\ sc[i].vars = Inputs /\ sc[i].ret = Worlds
                           /\ sc[i].states = <<>> /\ sc[i].exprs = <<>>
      /\ sc[2].copyOut = Same /\ DOMAIN Inputs = Globals
  BY <1>2, BlockTypes
<1>6. Shaped(fs, sc, e, sn)
  <2>1. Layered(sc)
    BY <1>2, <1>5 DEF Layered, Same
  <2>2. \A d, g \in DOMAIN fs : d < g => FALSE
    BY <1>1
  <2>3. \A d \in DOMAIN fs : sn[d] \subseteq DOMAIN sc[ScopeAt(fs, d)].vars
    BY <1>1, <1>3
  <2> QED BY <1>1, <1>2, <1>3, <1>4, <1>5, <2>1, <2>2, <2>3 DEF Shaped
<1>7. Returns(fs, sc, sn)
  BY <1>1 DEF Returns
<1>8. AllFrozen(fs, sc)
  <2>1. \A i \in DOMAIN sc : DOMAIN sc[i].states = {}
    BY <1>2, <1>5
  <2> QED BY <1>1, <2>1 DEF AllFrozen
<1>9. Listed(sc)
  <2>1. \A i \in DOMAIN sc : DOMAIN sc[i].states = {} /\ Len(sc[i].exprs) = Len(sc[i].states)
    BY <1>2, <1>5
  <2> QED BY <2>1 DEF Listed, Apart
<1>10. Framed(fs, sc, e, sn)
  BY <1>1, <1>2, <1>3, <1>6, <1>7, <1>8, <1>9 DEF Framed
<1> QED BY <1>10 DEF fs, sc, e, sn

LEMMA BlockBeginStep ==
  ASSUME IInv, RefBlockBegin
  PROVE  IInv'
<1>1. /\ TypeOK /\ exitCond = Worlds /\ fwd = Worlds /\ exits = <<>> /\ ~exited /\ ~returned
      /\ status = [w \in Worlds |-> "live"]
  BY DEF IInv, RefBlockBegin, BlockBegin, RefInit, Init
<1>2. /\ frames' = <<NoFrame>> /\ seen' = <<{}>> /\ env' = <<Inputs, Inputs>>
      /\ UNCHANGED <<scopedFlow, status, at>>
  BY DEF RefBlockBegin, BlockBegin, Inputs
<1>3. scopes' = <<Outside, Block>>
  <2>1. PICK p : p = SetToSeq(Globals)
    OBVIOUS
  <2>2. PICK params : params = [k \in DOMAIN p |-> [name |-> p[k], dir |-> "inout"]]
    OBVIOUS
  <2>3. scopes' = CopyIn(<<Outside>>, params, p)
    BY <2>1, <2>2 DEF RefBlockBegin, BlockBegin, Outside, Inputs
  <2> QED BY <2>1, <2>2, <2>3, BlockCopyIn
<1>4. NoFrame \in Frames /\ NoFrame.kind = "call" /\ NoFrame.fwd = fwd
  <2>1. fwd \in SUBSET Worlds
    BY <1>1
  <2>2. {} \in SUBSET Worlds
    OBVIOUS
  <2> QED BY <2>1, <2>2, NoVarsType DEF NoFrame, Frames
<1>5. Framed(frames', scopes', env', seen')
  BY <1>2, <1>3, <1>4, BlockFramed
<1>6. /\ Len(frames') = 1 /\ DOMAIN frames' = {1} /\ frames'[1].kind = "call"
      /\ frames'[1].fwd = fwd /\ seen'[1] = {}
      /\ Len(scopes') = 2 /\ scopes'[1] = Outside /\ scopes'[2] = Block /\ env'[2] = Inputs
  BY <1>2, <1>3, <1>4
<1>7. Nested(frames', fwd')
  <2>1. Outer(frames', 0) = Worlds /\ Outer(frames', 1) = fwd
    BY <1>6 DEF Outer, Inside
  <2>2. \A d \in DOMAIN frames' : d - 1 = 0
    BY <1>6
  <2>3. \A d, e \in DOMAIN frames' : ~(d < e)
    BY <1>6
  <2>4. fwd' = fwd
    BY <1>2 DEF scopedFlow
  <2> QED BY <1>1, <1>6, <2>1, <2>2, <2>3, <2>4 DEF Nested
<1>8. /\ fwd' = Worlds /\ exitCond' = Worlds /\ exits' = <<>> /\ ~exited' /\ ~returned'
      /\ status' = status /\ at' = at
  BY <1>1, <1>2 DEF scopedFlow
<1>9. Skipping'
  BY <1>6, <1>8 DEF Skipping
<1>10. ASSUME NEW w \in Worlds PROVE Located(w)' /\ Accounted(w)'
  <2>1. status'[w] = "live"
    BY <1>1, <1>8
  <2>2. Agree(frames', seen', scopes', env', w, Len(scopes'))
    <3>1. Block.vars = Inputs
      BY BlockTypes
    <3> QED BY <1>6, <3>1 DEF Agree
  <2>3. \A j \in 1 .. Len(scopes') : w \in scopes'[j].ret
    <3>1. \A j \in 1 .. 2 : j = 1 \/ j = 2
      OBVIOUS
    <3> QED BY <1>6, <3>1, BlockTypes
  <2> QED BY <1>5, <1>8, <2>1, <2>2, <2>3, LiveBack
<1>11. TypeOK'
  <2>1. <<>> \in Seq(Pair)
    OBVIOUS
  <2>2. status \in [Worlds -> Run!Statuses] /\ at \in [Worlds -> Nat]
    BY <1>1 DEF TypeOK
  <2>3. exited' \in BOOLEAN /\ returned' \in BOOLEAN
    BY <1>1, <1>2 DEF scopedFlow, TypeOK
  <2> QED BY <1>1, <1>5, <1>8, <2>1, <2>2, <2>3, TypeInBlock
<1>12. Apart(exits', exitCond')
  BY <1>8 DEF Apart
<1> QED BY <1>5, <1>7, <1>9, <1>10, <1>11, <1>12, StillInBlock

LEMMA InitStep ==
  ASSUME RefInit
  PROVE  IInv
<1>1. /\ scopes = <<>> /\ frames = <<>> /\ exits = <<>> /\ env = <<>> /\ seen = <<>>
      /\ fwd = Worlds /\ exitCond = Worlds /\ exited = FALSE /\ returned = FALSE
      /\ status = [w \in Worlds |-> "live"] /\ at = [w \in Worlds |-> 0]
  BY DEF RefInit, Init
<1>2. TypeOK
  <2>1. \A S : <<>> \in Seq(S)
    OBVIOUS
  <2>2. status \in [Worlds -> Run!Statuses]
    BY <1>1 DEF Run!Statuses
  <2>3. at \in [Worlds -> Nat]
    BY <1>1
  <2> QED BY <1>1, <2>1, <2>2, <2>3 DEF TypeOK
<1>3. OutputsAgree
  BY <1>1 DEF OutputsAgree
<1> QED BY <1>1, <1>2, <1>3 DEF IInv

LEMMA StutterStep ==
  ASSUME IInv, UNCHANGED allVars
  PROVE  IInv'
<1>1. /\ UNCHANGED <<scopes, frames, fwd, exitCond, exits, exited, returned>>
      /\ UNCHANGED <<env, seen, status, at>>
  BY DEF allVars, scopedVars, refVars
<1>2. TypeOK'
  BY <1>1 DEF IInv, TypeOK
<1>3. scopes' = <<>> => RefInit'
  BY <1>1 DEF IInv, RefInit, Init
<1>4. OutputsAgree'
  BY <1>1 DEF IInv, OutputsAgree
<1>5. frames # <<>> => Running'
  <2> SUFFICES ASSUME frames # <<>> PROVE Running'
    OBVIOUS
  <2>1. /\ Framed(frames, scopes, env, seen) /\ Nested(frames, fwd) /\ Skipping
        /\ Apart(exits, exitCond) /\ \A w \in Worlds : Located(w) /\ Accounted(w)
    BY InBlock
  <2>2. Running
    BY DEF IInv
  <2>3. Skipping' /\ Recorded'
    <3>1. Skipping'
      BY <1>1, <2>1 DEF Skipping, Run!Live, Run!At
    <3>2. Recorded'
      BY <1>1, <2>2 DEF Running, Recorded
    <3> QED BY <3>1, <3>2
  <2>4. ASSUME NEW w \in Worlds PROVE Located(w)' /\ Accounted(w)'
    <3>1. Home(w)' = Home(w) /\ \A d : ScopeOf(d)' = ScopeOf(d)
      BY <1>1 DEF Home, ScopeOf
    <3>2. Located(w)'
      BY <1>1, <2>1, <3>1 DEF Located, HasNotReturned
    <3>3. \A map, d : Saved(map, d, w)' = Saved(map, d, w)
      BY <1>1 DEF Saved, Known, Meant, ScopeOf
    <3>4. \A i : HasLeft(w, i)' = HasLeft(w, i)
      BY <1>1 DEF HasLeft
    <3>5. HasExited(w)' = HasExited(w)
      BY <1>1 DEF HasExited
    <3>6. Accounted(w)'
      BY <1>1, <2>1, <3>1, <3>3, <3>4, <3>5 DEF Accounted
    <3> QED BY <3>2, <3>6
  <2> QED BY <1>1, <2>2, <2>3, <2>4 DEF Running
<1> QED BY <1>1, <1>2, <1>3, <1>4, <1>5 DEF IInv

\* The end of the block: every world has come back from it, or has exited it.
LEMMA BlockEndStep ==
  ASSUME IInv, RefBlockEnd
  PROVE  IInv'
<1>1. /\ Len(frames) = 1 /\ frames # <<>> /\ frame.kind = "call"
      /\ scopes' = MergeAll(CopyOut(scopes), exits) /\ env' = LeftEnv
      /\ frames' = <<>> /\ seen' = <<>> /\ exits' = <<>> /\ exitCond' = Worlds
      /\ exited' = FALSE /\ returned' = FALSE /\ UNCHANGED <<fwd, status, at>>
  BY DEF RefBlockEnd, BlockEnd, LeftEnv
<1>2. /\ TypeOK /\ Framed(frames, scopes, env, seen) /\ ScopeAt(frames, Len(frames)) = Len(scopes)
      /\ frame = frames[Len(frames)] /\ DOMAIN frames = 1 .. Len(frames)
      /\ Last(scopes) = scopes[Len(scopes)]
      /\ exits \in Seq(Pair) /\ status \in [Worlds -> Run!Statuses] /\ at \in [Worlds -> Nat]
      /\ fwd \in SUBSET Worlds
  BY <1>1, CallFacts DEF TypeOK
<1>3. Len(scopes) = 2
  <2>1. 1 \in Nat \ {0} /\ 1 - 1 = 0
    OBVIOUS
  <2> QED BY <1>1, <1>2, <2>1, ScopeNone, ScopeNext
<1>4. PICK r : r = CopyOut(scopes)
  OBVIOUS
<1>5. LeftBy(frames, seen, Merged, 1, Merged, env, Back, r, env')
  <2>1. Len(scopes) - 1 = 1
    BY <1>3
  <2> QED BY <1>1, <1>4, <2>1, CallLeaves
<1>6. SameShape(scopes, Merged) /\ DOMAIN scopes[1].vars = Globals /\ DOMAIN env[1] = Globals
      /\ DOMAIN scopes = 1 .. 2
  BY <1>1, <1>2, <1>3, MergedFacts, FramedFacts DEF MergedAs, Framed, Shaped, Layered
<1>7. /\ r \in Seq(Scopes) /\ Len(r) = 1 /\ env' \in Seq(EnvMaps) /\ Len(env') = 1
      /\ DOMAIN r[1].vars = Globals
  <2>1. 1 \in 1 .. 1 /\ 1 \in DOMAIN scopes
    BY <1>6
  <2>2. /\ r \in Seq(Scopes) /\ Len(r) = 1 /\ env' \in Seq(EnvMaps) /\ Len(env') = 1
        /\ DOMAIN r[1].vars = DOMAIN Merged[1].vars
    BY <1>5, <2>1 DEF LeftBy, Like, EnvLike
  <2> QED BY <1>6, <2>1, <2>2 DEF SameShape
<1>8. scopes' = MergeAll(r, exits)
  BY <1>1, <1>4
<1>9. 1 \in DOMAIN r /\ \A n \in Globals : Owner(r, n) = 1
  <2>1. 1 \in Nat \ {0}
    OBVIOUS
  <2>2. 1 \in DOMAIN r
    BY <1>7
  <2>3. ASSUME NEW n \in Globals PROVE Owner(r, n) = 1
    <3>1. n \in DOMAIN r[1].vars
      BY <1>7
    <3>2. r \in Seq(Scopes) /\ Len(r) = 1
      BY <1>7
    <3> QED BY <2>1, <3>1, <3>2, LastOwner, ZenonT(30)
  <2> QED BY <2>2, <2>3
<1>10. PICK x : x = scopes'
  OBVIOUS
<1>11. /\ SameShape(r, x)
       /\ \A n \in Globals : \A w \in Worlds :
            /\ (\A k \in DOMAIN exits : w \notin exits[k].cond) =>
                 x[1].vars[n][w] = r[1].vars[n][w]
            /\ \A k \in DOMAIN exits :
                 /\ w \in exits[k].cond /\ n \in DOMAIN exits[k].map
                 /\ \A j \in DOMAIN exits : j # k => w \notin exits[j].cond
                 => x[1].vars[n][w] = exits[k].map[n][w]
  <2>1. PICK list : list = exits
    OBVIOUS
  <2>2. list \in Seq(Pair) /\ x = MergeAll(r, list)
    BY <1>2, <1>8, <1>10, <2>1
  <2>3. /\ SameShape(r, x)
        /\ \A i \in DOMAIN r : \A n \in DOMAIN r[i].vars : \A w \in Worlds :
             /\ (\A k \in DOMAIN list : w \notin list[k].cond)
                => x[i].vars[n][w] = r[i].vars[n][w]
             /\ \A k \in DOMAIN list :
                  /\ w \in list[k].cond /\ n \in DOMAIN list[k].map
                  /\ \A j \in DOMAIN list : j # k => w \notin list[j].cond
                  /\ Owner(r, n) = i
                  => x[i].vars[n][w] = list[k].map[n][w]
    BY <1>7, <2>2, MergeAllFacts, SMTT(30)
  <2> QED BY <1>7, <1>9, <2>1, <2>3
<1>12. scopes' \in Seq(Scopes) /\ Len(scopes') = 1
  BY <1>7, <1>10, <1>11 DEF SameShape
<1>13. TypeOK'
  <2>1. \A S : <<>> \in Seq(S)
    OBVIOUS
  <2> QED BY <1>1, <1>2, <1>7, <1>12, <2>1 DEF TypeOK
<1>14. Apart(exits, exitCond)
  BY <1>1, InBlock
<1>15. ASSUME NEW w \in Worlds, NEW n \in Globals
       PROVE  scopes'[1].vars[n][w] = env'[1][n][w]
  <2>1. CASE status[w] = "exited"
    <3>1. HasExited(w)
      BY <1>1, <2>1, InBlock DEF Accounted
    <3>2. PICK k \in DOMAIN exits :
            /\ w \in exits[k].cond
            /\ n \in DOMAIN exits[k].map /\ exits[k].map[n][w] = env[1][n][w]
      BY <3>1 DEF HasExited, Has
    <3>3. \A j \in DOMAIN exits : j # k => w \notin exits[j].cond
      BY <1>14, <3>2 DEF Apart
    <3>4. x[1].vars[n][w] = env[1][n][w]
      BY <1>11, <3>2, <3>3
    <3>5. w \notin Back
      BY <2>1 DEF Back, Run!Live, Run!At
    <3>6. env'[1][n][w] = env[1][n][w]
      <4>1. 1 \in 1 .. 1
        OBVIOUS
      <4> QED BY <1>5, <1>6, <3>5, <4>1 DEF LeftBy
    <3> QED BY <1>10, <3>4, <3>6
  <2>2. CASE status[w] # "exited"
    <3>1. ComesBack(w) /\ w \in exitCond
      <4>1. CASE status[w] = "live"
        BY <1>1, <4>1, LiveFacts DEF ComesBack
      <4>2. CASE status[w] # "live"
        <5>1. /\ w \in exitCond /\ at[w] \in 1 .. Len(frames)
              /\ status[w] \in {"wait", "done"} => frames[at[w]].kind # "call"
          BY <1>1, <2>2, <4>2, NotLiveFacts
        <5>2. at[w] = 1
          BY <1>1, <5>1
        <5>3. status[w] \in Run!Statuses
          BY <1>2
        <5>4. status[w] = "returned"
          BY <1>1, <1>2, <2>2, <4>2, <5>1, <5>2, <5>3 DEF Run!Statuses
        <5> QED BY <1>1, <5>1, <5>2, <5>4 DEF ComesBack
      <4> QED BY <4>1, <4>2
    <3>2. \A k \in DOMAIN exits : w \notin exits[k].cond
      BY <1>14, <3>1 DEF Apart
    <3>3. x[1].vars[n][w] = r[1].vars[n][w]
      BY <1>11, <3>2
    <3>4. w \in Back
      BY <3>1 DEF Back, ComesBack, Run!Live, Run!At
    <3>5. /\ Agree(frames, seen, Merged, env, w, 1)
          /\ \A z \in DOMAIN Last(scopes).copyOut :
               Merged[2].vars[Last(scopes).copyOut[z]][w] = env[2][Last(scopes).copyOut[z]][w]
      <4>1. Len(scopes) - 1 = 1
        BY <1>3
      <4> QED BY <1>1, <1>3, <3>1, <4>1, CallMerged
    <3>6. Last(scopes).copyOut = Merged[2].copyOut
      <4>1. 2 \in DOMAIN scopes
        BY <1>6
      <4> QED BY <1>2, <1>3, <1>6, <4>1 DEF SameShape
    <3>7. 1 + 1 = 2
      OBVIOUS
    <3>8. r[1].vars[n][w] = env'[1][n][w]
      BY <1>5, <3>4, <3>5, <3>6, <3>7 DEF LeftBy
    <3> QED BY <1>10, <3>3, <3>8
  <2> QED BY <2>1, <2>2
<1>16. OutputsAgree'
  BY <1>15 DEF OutputsAgree
<1>17. scopes' # <<>>
  BY <1>12
<1> QED BY <1>1, <1>13, <1>16, <1>17 DEF IInv

LEMMA IInvStep ==
  ASSUME IInv, [RefBlockBegin \/ RefStatement \/ RefEnd]_allVars
  PROVE  IInv'
<1>1. CASE RefBlockBegin
  BY <1>1, BlockBeginStep
<1>2. CASE RefStatement
  <2>1. NextStatement
    BY <1>2 DEF RefStatement
  <2>2. CASE RefAssignment
    BY <2>1, <2>2, AssignmentStep
  <2>3. CASE RefDeclaration
    BY <2>1, <2>3, DeclarationStep
  <2>4. CASE RefCall
    BY <2>1, <2>4, CallStep
  <2>5. CASE RefReturn
    BY <2>1, <2>5, ReturnStep
  <2>6. CASE RefExit
    BY <2>1, <2>6, ExitStep
  <2>7. CASE RefIfThen
    BY <2>1, <2>7, IfThenStep
  <2>8. CASE RefShortCircuit
    BY <2>1, <2>8, ShortCircuitStep
  <2> QED BY <1>2, <2>2, <2>3, <2>4, <2>5, <2>6, <2>7, <2>8 DEF RefStatement
<1>3. CASE RefEnd
  <2>1. CASE RefIfElse
    BY <2>1, IfElseStep
  <2>2. CASE RefIfEnd
    BY <2>2, IfEndStep
  <2>3. CASE RefCallEnd
    BY <2>3, CallEndStep
  <2>4. CASE RefShortCircuitEnd
    BY <2>4, ShortCircuitEndStep
  <2>5. CASE RefBlockEnd
    BY <2>5, BlockEndStep
  <2> QED BY <1>3, <2>1, <2>2, <2>3, <2>4, <2>5 DEF RefEnd
<1>4. CASE UNCHANGED allVars
  BY <1>4, StutterStep
<1> QED BY <1>1, <1>2, <1>3, <1>4

\* Where the values of every world are, whatever calls, branches, operands, returns
\* and exits there have been: in the variables of their scope, in the map that an
\* open branch has put aside, or in exactly one list of return or exit states
\* (state.cpp:434, visitor_interpret.cpp:402).
THEOREM ScopesKnow == RefSpec => []IInv
<1>1. RefInit => IInv
  BY InitStep
<1>2. IInv /\ [RefBlockBegin \/ RefStatement \/ RefEnd]_allVars => IInv'
  BY IInvStep
<1> QED BY <1>1, <1>2, PTL DEF RefSpec

\* Every name that a statement looks up is the variable that is meant, with the
\* value the program has given it (state.cpp:644).
THEOREM ScopesResolve == RefSpec => []NamesAgree
<1>1. IInv => NamesAgree
  <2> SUFFICES ASSUME IInv, frames # <<>>, NEW n \in Usable, NEW w \in Run!Live
               PROVE  GetVar(scopes, n)[w] = Value(env, n)[w]
    BY DEF NamesAgree
  <2>1. w \in Worlds /\ status[w] = "live"
    BY DEF Run!Live
  <2>2. Agree(frames, seen, scopes, env, w, Len(scopes))
    BY <2>1, LiveFacts
  <2>3. Framed(frames, scopes, env, seen) /\ n \in Last(seen) \cup Globals
    BY InBlock DEF Usable
  <2> QED BY <2>2, <2>3, UsedAgrees
<1> QED BY <1>1, ScopesKnow, PTL

\* The variables of the callers are unharmed by what a call, a branch, a return or an
\* exit inside of them does (state.cpp:470, visitor_interpret.cpp:402).
THEOREM ScopesProtect == RefSpec => []CallersAgree
<1>1. IInv => CallersAgree
  <2> SUFFICES ASSUME IInv, NEW d \in DOMAIN frames,
                      NEW n \in seen[d] \cup (IF ScopeOf(d) = 2 THEN Globals ELSE {}),
                      NEW w \in Run!Live
               PROVE  scopes[ScopeOf(d)].vars[n][w] = env[ScopeOf(d)][n][w]
    BY DEF CallersAgree
  <2>1. w \in Worlds /\ status[w] = "live"
    BY DEF Run!Live
  <2>2. frames # <<>>
    OBVIOUS
  <2>3. Agree(frames, seen, scopes, env, w, Len(scopes))
    BY <2>1, <2>2, LiveFacts
  <2>4. Framed(frames, scopes, env, seen)
    BY <2>2, InBlock
  <2>5. ScopeOf(d) = ScopeAt(frames, d) /\ ScopeOf(d) <= Len(scopes) /\ Len(scopes) >= 2
    BY <2>4, FramedFacts DEF ScopeOf
  <2> QED BY <2>3, <2>5 DEF Agree
<1> QED BY <1>1, ScopesKnow, PTL

\* The parameters of the block end with the values that the program leaves in them,
\* for the inputs that come to its end, return, or exit from within calls whose out
\* parameters are still to be copied back (visitor_interpret.cpp:408, create_z3.cpp:150).
THEOREM ScopesDeliver == RefSpec => []OutputsAgree
<1>1. IInv => OutputsAgree
  BY DEF IInv
<1> QED BY <1>1, ScopesKnow, PTL
================================================================================
