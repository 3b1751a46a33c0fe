-------------------------- MODULE HeaderStack_proofs --------------------------
(***************************************************************************)
(* Proofs about HeaderStackRef, for every size of the stack, every set of  *)
(* worlds, values and indices, every depth, and every program.             *)
(***************************************************************************)
EXTENDS HeaderStackRef, SequenceTheorems, TLAPS

USE StackAssumption, IndexAssumption

-----------------------------------------------------------------------------
(* The operators *)

\* The elements of the stack.
LEMMA ElementsFacts ==
  /\ 0 \in Elements /\ Elements \subseteq Int
  /\ \A k \in Int : k \in Elements <=> 0 <= k /\ k < Size
BY DEF Elements

\* A constant is a symbolic value.
LEMMA ConstantType ==
  ASSUME NEW x \in Vals \cup {Undef}
  PROVE  Constant(x) \in Symbolic /\ \A w \in Worlds : Constant(x)[w] = x
BY DEF Constant, Symbolic

\* A header that is not there, on both sides.
LEMMA AbsentType ==
  /\ Absent \in Header /\ Absent.valid = {}
  /\ None \in ConcHeader /\ None.valid = FALSE /\ None.f = Undef
  /\ \A w \in Worlds : Agrees(Absent, None, w)
BY ConstantType DEF Absent, Header, None, ConcHeader, Agrees

\* Merging takes each world's header from its branch.
LEMMA MergeType ==
  ASSUME NEW a \in Header, NEW b \in Header, NEW c
  PROVE  /\ MergeHeader(c, a, b) \in Header
         /\ \A w \in Worlds :
              /\ w \in MergeHeader(c, a, b).valid
                   <=> IF w \in c THEN w \in a.valid ELSE w \in b.valid
              /\ MergeHeader(c, a, b).f[w] = IF w \in c THEN a.f[w] ELSE b.f[w]
<1>1. a.valid \subseteq Worlds /\ b.valid \subseteq Worlds
      /\ a.f \in Symbolic /\ b.f \in Symbolic
  BY DEF Header
<1>2. Merge(c, a.f, b.f) \in Symbolic
      /\ \A w \in Worlds : Merge(c, a.f, b.f)[w] = IF w \in c THEN a.f[w] ELSE b.f[w]
  BY <1>1 DEF Merge, Symbolic
<1> QED BY <1>1, <1>2 DEF MergeHeader, Header

\* So it agrees with the program where the branches do.
LEMMA MergeAgrees ==
  ASSUME NEW a \in Header, NEW b \in Header, NEW c, NEW x, NEW w \in Worlds,
         w \in c => Agrees(a, x, w), w \notin c => Agrees(b, x, w)
  PROVE  Agrees(MergeHeader(c, a, b), x, w)
BY MergeType DEF Agrees

-----------------------------------------------------------------------------
(* Indices *)

\* The elements an index reaches are those of the stack that it stands for in
\* some world, and perhaps others.
LEMMA ReachedFacts ==
  ASSUME NEW i \in Indices
  PROVE  /\ Reached(i) \subseteq Elements
         /\ \A w \in Worlds : i.at[w] \in Int /\ (i.at[w] \in Reached(i) <=> i.at[w] \in Elements)
<1>1. CASE i.numeral
  <2>1. PICK k \in Elements : i.at = Constant(k)
    BY <1>1
  <2>2. \A w \in Worlds : i.at[w] = k
    BY <2>1 DEF Constant
  <2> QED BY <1>1, <2>2, ElementsFacts DEF Reached
<1>2. CASE ~i.numeral
  <2>1. i.at \in [Worlds -> 0 .. i.range - 1] /\ i.range \in Nat
    BY <1>2
  <2>2. MaxIdx(i) \in Nat /\ MaxIdx(i) <= Size
        /\ \A k \in Int : 0 <= k /\ k < i.range => (k < MaxIdx(i) <=> k < Size)
    BY <2>1 DEF MaxIdx
  <2>3. Reached(i) = 0 .. MaxIdx(i) - 1
    BY <1>2 DEF Reached
  <2> QED BY <2>1, <2>2, <2>3, ElementsFacts
<1> QED BY <1>1, <1>2

\* Writing to the element an index stands for, in every world.
LEMMA UpdatedFacts ==
  ASSUME stack \in Stack, NEW i \in Indices, NEW new \in [Elements -> Header]
  PROVE  /\ Updated(i, new) \in Stack
         /\ \A k \in Elements, w \in Worlds :
              LET h == Updated(i, new)[k]
              IN  IF i.at[w] = k
                    THEN /\ w \in h.valid <=> w \in new[k].valid
                         /\ h.f[w] = new[k].f[w]
                    ELSE /\ w \in h.valid <=> w \in stack[k].valid
                         /\ h.f[w] = stack[k].f[w]
<1>1. ASSUME NEW k \in Elements
      PROVE  /\ Updated(i, new)[k] \in Header
             /\ \A w \in Worlds :
                  LET h == Updated(i, new)[k]
                  IN  IF i.at[w] = k
                        THEN /\ w \in h.valid <=> w \in new[k].valid
                             /\ h.f[w] = new[k].f[w]
                        ELSE /\ w \in h.valid <=> w \in stack[k].valid
                             /\ h.f[w] = stack[k].f[w]
  <2>1. stack[k] \in Header /\ new[k] \in Header
    BY DEF Stack
  <2>2. CASE k \in Reached(i)
    <3> DEFINE c == Worlds \ Cond(i, k)
               m == MergeHeader(c, stack[k], new[k])
    <3>1. Updated(i, new)[k] = m
      BY <2>2 DEF Updated
    <3>2. \A w \in Worlds : w \in c <=> i.at[w] # k
      BY DEF Cond
    <3> HIDE DEF c
    <3>3. /\ m \in Header
          /\ \A w \in Worlds :
               /\ w \in m.valid <=> IF w \in c THEN w \in stack[k].valid ELSE w \in new[k].valid
               /\ m.f[w] = IF w \in c THEN stack[k].f[w] ELSE new[k].f[w]
      BY <2>1, MergeType
    <3> HIDE DEF m
    <3> QED BY <3>1, <3>2, <3>3
  <2>3. CASE k \notin Reached(i)
    <3>1. Updated(i, new)[k] = stack[k]
      BY <2>3 DEF Updated
    <3>2. \A w \in Worlds : i.at[w] # k
      BY <2>3, ReachedFacts
    <3> QED BY <2>1, <3>1, <3>2
  <2> QED BY <2>2, <2>3
<1>2. Updated(i, new) \in Stack
  BY <1>1 DEF Updated, Stack
<1> QED BY <1>1, <1>2

\* Reading the element an index stands for, in every world.
LEMMA ReadFacts ==
  ASSUME stack \in Stack, NEW i \in Indices
  PROVE  /\ ReadAt(i) \in Header
         /\ \A w \in Worlds :
              IF i.at[w] \in Elements
                THEN /\ w \in ReadAt(i).valid <=> w \in stack[i.at[w]].valid
                     /\ ReadAt(i).f[w] = stack[i.at[w]].f[w]
                ELSE w \notin ReadAt(i).valid
<1> DEFINE v == ReadAt(i).valid
           f == ReadAt(i).f
<1>1. \A w \in Worlds : i.at[w] \in Reached(i) <=> i.at[w] \in Elements
  BY ReachedFacts
<1>2. \A k \in Elements : stack[k].valid \subseteq Worlds /\ stack[k].f \in Symbolic
  BY DEF Stack, Header
<1>3. \A w \in Worlds :
        f[w] = IF i.at[w] \in Elements THEN stack[i.at[w]].f[w] ELSE Undef
  BY <1>1 DEF ReadAt
<1>4. v \subseteq Worlds
      /\ \A w \in Worlds : w \in v <=> i.at[w] \in Elements /\ w \in stack[i.at[w]].valid
  BY <1>1 DEF ReadAt
<1>5. f \in Symbolic
  <2>1. \A w \in Worlds : f[w] \in Vals \cup {Undef}
    BY <1>2, <1>3 DEF Symbolic
  <2>2. f = [w \in Worlds |-> f[w]]
    BY DEF ReadAt
  <2> QED BY <2>1, <2>2 DEF Symbolic
<1>6. ReadAt(i) = [valid |-> v, f |-> f]
  BY DEF ReadAt
<1> HIDE DEF v, f
<1>7. ReadAt(i) \in Header
  BY <1>4, <1>5, <1>6 DEF Header
<1> QED BY <1>3, <1>4, <1>6, <1>7

-----------------------------------------------------------------------------
(* The program's side *)

LEMMA NestedKept ==
  ASSUME Nested, UNCHANGED <<path, frames>>
  PROVE  Nested'
BY ZenonT(30) DEF Nested, Inside

\* What IInv says of the worlds.
LEMMA ConcFacts ==
  ASSUME IInv, NEW w \in Worlds
  PROVE  /\ conc[w] \in [stack : [Elements -> ConcHeader], hdr : ConcHeader]
         /\ \A k \in Elements : /\ conc[w].stack[k] \in ConcHeader
                                /\ ~conc[w].stack[k].valid => conc[w].stack[k].f = Undef
         /\ conc[w].hdr \in ConcHeader
         /\ ~conc[w].hdr.valid => conc[w].hdr.f = Undef
         /\ w \in path => /\ \A k \in Elements : Agrees(stack[k], conc[w].stack[k], w)
                          /\ Agrees(hdr, conc[w].hdr, w)
         /\ path \subseteq Worlds
BY DEF IInv, TypeOK, InvalidUndefined, AgreeIn

\* The header at an index.
LEMMA AtFacts ==
  ASSUME IInv, NEW i \in Indices, NEW w \in Worlds
  PROVE  /\ At(conc[w], i, w) \in ConcHeader
         /\ ~At(conc[w], i, w).valid => At(conc[w], i, w).f = Undef
         /\ w \in path => Agrees(ReadAt(i), At(conc[w], i, w), w)
<1>1. stack \in Stack
  BY DEF IInv, TypeOK
<1>2. CASE i.at[w] \in Elements
  <2> DEFINE k == i.at[w]
  <2>1. At(conc[w], i, w) = conc[w].stack[k]
    BY <1>2 DEF At
  <2>2. /\ w \in ReadAt(i).valid <=> w \in stack[k].valid
        /\ ReadAt(i).f[w] = stack[k].f[w]
    BY <1>1, <1>2, ReadFacts
  <2>3. /\ conc[w].stack[k] \in ConcHeader
        /\ ~conc[w].stack[k].valid => conc[w].stack[k].f = Undef
        /\ w \in path => Agrees(stack[k], conc[w].stack[k], w)
    BY <1>2, ConcFacts
  <2> HIDE DEF k
  <2> QED BY <2>1, <2>2, <2>3 DEF Agrees
<1>3. CASE i.at[w] \notin Elements
  BY <1>1, <1>3, AbsentType, ReadFacts DEF At, Agrees
<1> QED BY <1>2, <1>3

\* What is put at an index.
LEMMA PutFacts ==
  ASSUME IInv, NEW i \in Indices, NEW w \in Worlds, NEW h \in ConcHeader
  PROVE  /\ Put(conc[w], i, w, h) \in [stack : [Elements -> ConcHeader], hdr : ConcHeader]
         /\ Put(conc[w], i, w, h).hdr = conc[w].hdr
         /\ \A k \in Elements :
              Put(conc[w], i, w, h).stack[k] = IF i.at[w] = k THEN h ELSE conc[w].stack[k]
<1> DEFINE c == conc[w]
<1>1. c \in [stack : [Elements -> ConcHeader], hdr : ConcHeader]
  BY ConcFacts
<1> HIDE DEF c
<1>2. CASE i.at[w] \in Elements
  <2> DEFINE j == i.at[w]
             t == [c.stack EXCEPT ![j] = h]
  <2>1. Put(c, i, w, h) = [c EXCEPT !.stack[j] = h]
    BY <1>2 DEF Put
  <2>2. Put(c, i, w, h) = [c EXCEPT !.stack = t]
    BY <2>1
  <2>3. /\ t \in [Elements -> ConcHeader]
        /\ \A k \in Elements : t[k] = IF j = k THEN h ELSE c.stack[k]
    BY <1>1
  <2> HIDE DEF t
  <2> QED BY <1>1, <2>2, <2>3 DEF c
<1>3. CASE i.at[w] \notin Elements
  BY <1>1, <1>3 DEF Put, c
<1> QED BY <1>2, <1>3

-----------------------------------------------------------------------------
(* Statements *)

\* What an open if statement has put aside is for worlds outside of path.
LEMMA OutsidePath ==
  ASSUME TypeOK, Nested, NEW d \in 1 .. Len(frames)
  PROVE  /\ frames[d] \in Frame /\ Outside(frames[d]) \subseteq Worlds \ path
<1> DEFINE n == Len(frames)
<1>1. frames[d] \in Frame /\ n \in Nat /\ d \in 1 .. n /\ n \in 1 .. n
  BY DEF TypeOK
<1>2. frames[d].path \subseteq Worlds
  BY <1>1 DEF Frame
<1>3. path \subseteq Inside(frames[d])
  <2>1. path = Inside(frames[n])
    BY <1>1 DEF Nested
  <2>2. CASE d = n
    BY <2>1, <2>2
  <2>3. CASE d # n
    <3>1. frames[n].path \subseteq Inside(frames[d])
      BY <2>3, <1>1 DEF Nested
    <3> QED BY <2>1, <3>1 DEF Inside
  <2> QED BY <2>2, <2>3
<1> QED BY <1>1, <1>2, <1>3 DEF Outside, Inside

\* A statement changes the stack and h to s and x, and the program's variables to
\* c, both in agreement, and leaves the other worlds alone.
LEMMA Statement ==
  ASSUME IInv, UNCHANGED <<path, frames>>,
         NEW s \in Stack, stack' = s, NEW x \in Header, hdr' = x,
         NEW c \in [Worlds -> [stack : [Elements -> ConcHeader], hdr : ConcHeader]],
         Step(c),
         \A w \in path : /\ \A k \in Elements :
                              /\ Agrees(s[k], c[w].stack[k], w)
                              /\ ~c[w].stack[k].valid => c[w].stack[k].f = Undef
                         /\ Agrees(x, c[w].hdr, w)
                         /\ ~c[w].hdr.valid => c[w].hdr.f = Undef
  PROVE  IInv'
<1>1. /\ path \subseteq Worlds
      /\ conc' \in [Worlds -> [stack : [Elements -> ConcHeader], hdr : ConcHeader]]
      /\ \A w \in Worlds : conc'[w] = IF w \in path THEN c[w] ELSE conc[w]
  BY DEF Step, IInv, TypeOK
<1>2. TypeOK'
  BY <1>1 DEF IInv, TypeOK
<1>3. InvalidUndefined'
  <2>1. ASSUME NEW w \in Worlds
        PROVE  /\ \A k \in Elements : ~conc'[w].stack[k].valid => conc'[w].stack[k].f = Undef
               /\ ~conc'[w].hdr.valid => conc'[w].hdr.f = Undef
    <3>1. CASE w \in path
      BY <3>1, <1>1
    <3>2. CASE w \notin path
      <4>1. conc'[w] = conc[w]
        BY <3>2, <1>1
      <4> QED BY <4>1, ConcFacts
    <3> QED BY <3>1, <3>2
  <2> QED BY <2>1 DEF InvalidUndefined
<1>4. AgreeIn(stack, hdr, path)'
  <2>1. \A w \in path : /\ \A k \in Elements : Agrees(s[k], conc'[w].stack[k], w)
                        /\ Agrees(x, conc'[w].hdr, w)
    BY <1>1
  <2> QED BY <2>1 DEF AgreeIn, Agrees
<1>5. Nested'
  BY NestedKept DEF IInv
<1>6. ASSUME NEW d \in 1 .. Len(frames)
      PROVE  AgreeIn(frames[d].stack, frames[d].hdr, Outside(frames[d]))'
  <2> DEFINE S == Outside(frames[d])
             t == frames[d].stack
             y == frames[d].hdr
  <2>1. S \subseteq Worlds \ path /\ AgreeIn(t, y, S)
    BY OutsidePath DEF IInv
  <2>2. \A w \in S : conc'[w] = conc[w]
    BY <1>1, <2>1
  <2>3. S' = S /\ t' = t /\ y' = y
    BY DEF Outside, Inside
  <2> HIDE DEF S, t, y
  <2>4. \A w \in S : /\ \A k \in Elements : Agrees(t[k], conc'[w].stack[k], w)
                     /\ Agrees(y, conc'[w].hdr, w)
    BY <2>1, <2>2 DEF AgreeIn
  <2>5. AgreeIn(t, y, S)'
    BY <2>3, <2>4 DEF AgreeIn, Agrees
  <2> QED BY <2>5 DEF S, t, y
<1> QED BY <1>2, <1>3, <1>4, <1>5, <1>6 DEF IInv

\* A write to the element an index stands for: new by the interpreter, put by
\* the program.
LEMMA Write ==
  ASSUME IInv, UNCHANGED <<hdr, path, frames>>,
         NEW i \in Indices, NEW new \in [Elements -> Header], stack' = Updated(i, new),
         NEW put \in [Worlds -> ConcHeader], Step(PutAll(i, put)),
         \A w \in path :
           /\ i.at[w] \in Elements => Agrees(new[i.at[w]], put[w], w)
           /\ ~put[w].valid => put[w].f = Undef
  PROVE  IInv'
<1> DEFINE s == Updated(i, new)
           c == PutAll(i, put)
<1>1. stack \in Stack /\ hdr \in Header
  BY DEF IInv, TypeOK
<1>2. /\ s \in Stack
      /\ \A k \in Elements, w \in Worlds :
           IF i.at[w] = k
             THEN /\ w \in s[k].valid <=> w \in new[k].valid
                  /\ s[k].f[w] = new[k].f[w]
             ELSE /\ w \in s[k].valid <=> w \in stack[k].valid
                  /\ s[k].f[w] = stack[k].f[w]
  BY <1>1, UpdatedFacts
<1>3. ASSUME NEW w \in Worlds
      PROVE  /\ c[w] \in [stack : [Elements -> ConcHeader], hdr : ConcHeader]
             /\ c[w].hdr = conc[w].hdr
             /\ \A k \in Elements :
                  c[w].stack[k] = IF i.at[w] = k THEN put[w] ELSE conc[w].stack[k]
  <2>1. put[w] \in ConcHeader /\ c[w] = Put(conc[w], i, w, put[w])
    BY DEF PutAll
  <2> QED BY <2>1, PutFacts
<1>4. c \in [Worlds -> [stack : [Elements -> ConcHeader], hdr : ConcHeader]]
  BY <1>3 DEF PutAll
<1> HIDE DEF s, c
<1>5. ASSUME NEW w \in path
      PROVE  /\ \A k \in Elements :
                  /\ Agrees(s[k], c[w].stack[k], w)
                  /\ ~c[w].stack[k].valid => c[w].stack[k].f = Undef
             /\ Agrees(hdr, c[w].hdr, w)
             /\ ~c[w].hdr.valid => c[w].hdr.f = Undef
  <2>1. w \in Worlds
    BY DEF IInv, TypeOK
  <2>2. ASSUME NEW k \in Elements
        PROVE  /\ Agrees(s[k], c[w].stack[k], w)
               /\ ~c[w].stack[k].valid => c[w].stack[k].f = Undef
    <3>1. CASE i.at[w] = k
      <4>1. /\ w \in s[k].valid <=> w \in new[k].valid
            /\ s[k].f[w] = new[k].f[w]
            /\ c[w].stack[k] = put[w]
        BY <3>1, <2>1, <1>2, <1>3
      <4>2. /\ Agrees(new[k], put[w], w)
            /\ ~put[w].valid => put[w].f = Undef
        BY <3>1
      <4> QED BY <4>1, <4>2 DEF Agrees
    <3>2. CASE i.at[w] # k
      <4>1. /\ w \in s[k].valid <=> w \in stack[k].valid
            /\ s[k].f[w] = stack[k].f[w]
            /\ c[w].stack[k] = conc[w].stack[k]
        BY <3>2, <2>1, <1>2, <1>3
      <4>2. /\ Agrees(stack[k], conc[w].stack[k], w)
            /\ ~conc[w].stack[k].valid => conc[w].stack[k].f = Undef
        BY <2>1, ConcFacts
      <4> QED BY <4>1, <4>2 DEF Agrees
    <3> QED BY <3>1, <3>2
  <2> QED BY <2>1, <2>2, <1>3, ConcFacts
<1>6. stack' = s /\ hdr' = hdr /\ Step(c)
  BY DEF s, c
<1> QED BY <1>1, <1>2, <1>4, <1>5, <1>6, Statement

LEMMA AssignElementInv ==
  ASSUME IInv, NEW i \in Indices, NEW r \in Header, AssignElement(i, r),
         NEW put \in [Worlds -> ConcHeader], Step(PutAll(i, put)),
         \A w \in path : Agrees(r, put[w], w) /\ (~put[w].valid => put[w].f = Undef)
  PROVE  IInv'
<1> DEFINE new == [k \in Elements |-> r]
<1>1. new \in [Elements -> Header] /\ \A k \in Elements : new[k] = r
  OBVIOUS
<1>2. stack' = Updated(i, new) /\ UNCHANGED <<hdr, path, frames>>
  BY DEF AssignElement
<1> HIDE DEF new
<1> QED BY <1>1, <1>2, Write

\* hs[i] = h
LEMMA FromHeaderInv ==
  ASSUME IInv, NEW i \in Indices, AssignElement(i, hdr),
         Step(PutAll(i, [w \in Worlds |-> conc[w].hdr]))
  PROVE  IInv'
<1> DEFINE put == [w \in Worlds |-> conc[w].hdr]
<1>1. put \in [Worlds -> ConcHeader] /\ \A w \in Worlds : put[w] = conc[w].hdr
  BY ConcFacts
<1>2. Step(PutAll(i, put)) /\ hdr \in Header /\ path \subseteq Worlds
  BY DEF IInv, TypeOK
<1> HIDE DEF put
<1>3. \A w \in path : Agrees(hdr, put[w], w) /\ (~put[w].valid => put[w].f = Undef)
  BY <1>1, <1>2, ConcFacts
<1> QED BY <1>1, <1>2, <1>3, AssignElementInv

\* hs[i] = hs[j]
LEMMA FromElementInv ==
  ASSUME IInv, NEW i \in Indices, NEW j \in Indices, AssignElement(i, ReadAt(j)),
         Step(PutAll(i, [w \in Worlds |-> At(conc[w], j, w)]))
  PROVE  IInv'
<1> DEFINE put == [w \in Worlds |-> At(conc[w], j, w)]
<1>1. put \in [Worlds -> ConcHeader] /\ \A w \in Worlds : put[w] = At(conc[w], j, w)
  BY AtFacts
<1>2. Step(PutAll(i, put)) /\ ReadAt(j) \in Header /\ path \subseteq Worlds
  BY ReadFacts DEF IInv, TypeOK
<1> HIDE DEF put
<1>3. \A w \in path : Agrees(ReadAt(j), put[w], w) /\ (~put[w].valid => put[w].f = Undef)
  BY <1>1, <1>2, AtFacts
<1> QED BY <1>1, <1>2, <1>3, AssignElementInv

\* hs[i].f = r, where r is the program's val wherever that is defined: a write that
\* is dropped is one to an element that is invalid in every world.
LEMMA AssignFieldInv ==
  ASSUME IInv, NEW i \in Indices, NEW r \in Symbolic, NEW seen, AssignField(i, r, seen),
         NEW val \in [Worlds -> Vals \cup {Undef}],
         Step(PutAll(i, [w \in Worlds |-> WithField(At(conc[w], i, w), val[w])])),
         \A w \in path : val[w] # Undef => r[w] = val[w]
  PROVE  IInv'
<1> DEFINE new == [k \in Elements |->
                     IF k \in seen /\ stack[k].valid = {} THEN stack[k]
                     ELSE [stack[k] EXCEPT !.f = r]]
           put == [w \in Worlds |-> WithField(At(conc[w], i, w), val[w])]
<1>1. stack \in Stack /\ path \subseteq Worlds
  BY DEF IInv, TypeOK
<1>2. ASSUME NEW k \in Elements
      PROVE  /\ new[k] \in Header /\ new[k].valid = stack[k].valid
             /\ new[k].valid # {} => new[k].f = r
  <2>1. stack[k] \in Header
    BY <1>1 DEF Stack
  <2>2. [stack[k] EXCEPT !.f = r] \in Header /\ [stack[k] EXCEPT !.f = r].valid = stack[k].valid
        /\ [stack[k] EXCEPT !.f = r].f = r
    BY <2>1 DEF Header
  <2> QED BY <2>1, <2>2
<1>3. new \in [Elements -> Header]
  BY <1>2
<1>4. ASSUME NEW w \in Worlds
      PROVE  /\ put[w] \in ConcHeader
             /\ put[w].valid = At(conc[w], i, w).valid
             /\ ~put[w].valid => put[w].f = Undef
             /\ put[w].valid => put[w].f = val[w]
  <2> DEFINE a == At(conc[w], i, w)
  <2>1. a \in ConcHeader /\ (~a.valid => a.f = Undef) /\ put[w] = WithField(a, val[w])
    BY AtFacts
  <2> HIDE DEF a
  <2>2. /\ WithField(a, val[w]) \in ConcHeader
        /\ WithField(a, val[w]).valid = a.valid
        /\ WithField(a, val[w]).f = IF a.valid THEN val[w] ELSE a.f
    BY <2>1 DEF WithField, ConcHeader
  <2>3. /\ put[w] \in ConcHeader
        /\ put[w].valid = a.valid
        /\ ~put[w].valid => put[w].f = Undef
        /\ put[w].valid => put[w].f = val[w]
    BY <2>1, <2>2
  <2> QED BY <2>3 DEF a
<1>5. put \in [Worlds -> ConcHeader]
  BY <1>4
<1>6. stack' = Updated(i, new) /\ UNCHANGED <<hdr, path, frames>> /\ Step(PutAll(i, put))
  BY DEF AssignField
<1> HIDE DEF new, put
<1>7. ASSUME NEW w \in path
      PROVE  /\ i.at[w] \in Elements => Agrees(new[i.at[w]], put[w], w)
             /\ ~put[w].valid => put[w].f = Undef
  <2>1. CASE i.at[w] \in Elements
    <3>1. At(conc[w], i, w) = conc[w].stack[i.at[w]]
          /\ Agrees(stack[i.at[w]], conc[w].stack[i.at[w]], w)
      BY <2>1, <1>1, ConcFacts DEF At
    <3> QED BY <2>1, <3>1, <1>1, <1>2, <1>4 DEF Agrees
  <2>2. CASE i.at[w] \notin Elements
    BY <2>2, <1>1, <1>4
  <2> QED BY <2>1, <2>2
<1> QED BY <1>3, <1>5, <1>6, <1>7, Write

\* hs[i].f = val
LEMMA FieldConstantInv ==
  ASSUME IInv, NEW i \in Indices, NEW v \in Vals, NEW seen, AssignField(i, Constant(v), seen),
         Step(PutAll(i, [w \in Worlds |-> WithField(At(conc[w], i, w), v)]))
  PROVE  IInv'
<1> DEFINE val == [w \in Worlds |-> v]
<1>1. val \in [Worlds -> Vals \cup {Undef}] /\ \A w \in Worlds : val[w] = v
  OBVIOUS
<1>2. [w \in Worlds |-> WithField(At(conc[w], i, w), v)]
        = [w \in Worlds |-> WithField(At(conc[w], i, w), val[w])]
  BY <1>1
<1>3. /\ Constant(v) \in Symbolic /\ \A w \in path : Constant(v)[w] = v
      /\ path \subseteq Worlds
  BY ConstantType DEF IInv, TypeOK
<1>4. Step(PutAll(i, [w \in Worlds |-> WithField(At(conc[w], i, w), val[w])]))
  BY <1>2
<1> DEFINE r == Constant(v)
<1>5. r \in Symbolic /\ AssignField(i, r, seen)
      /\ \A w \in path : val[w] # Undef => r[w] = val[w]
  BY <1>1, <1>3
<1>6. val \in [Worlds -> Vals \cup {Undef}]
  BY <1>1
<1> HIDE DEF val, r
<1> QED BY <1>4, <1>5, <1>6, AssignFieldInv

\* hs[i].f = hs[j].f
LEMMA FieldElementInv ==
  ASSUME IInv, NEW i \in Indices, NEW j \in Indices, NEW seen,
         AssignField(i, ReadAt(j).f, seen),
         Step(PutAll(i, [w \in Worlds |->
           WithField(At(conc[w], i, w), At(conc[w], j, w).f)]))
  PROVE  IInv'
<1> DEFINE val == [w \in Worlds |-> At(conc[w], j, w).f]
<1>1. /\ val \in [Worlds -> Vals \cup {Undef}]
      /\ \A w \in Worlds : val[w] = At(conc[w], j, w).f
  BY AtFacts DEF ConcHeader
<1>2. [w \in Worlds |-> WithField(At(conc[w], i, w), At(conc[w], j, w).f)]
        = [w \in Worlds |-> WithField(At(conc[w], i, w), val[w])]
  BY <1>1
<1>3. path \subseteq Worlds /\ ReadAt(j) \in Header
  BY ReadFacts DEF IInv, TypeOK
<1>4. ReadAt(j).f \in Symbolic
  BY <1>3 DEF Header
<1>5. Step(PutAll(i, [w \in Worlds |-> WithField(At(conc[w], i, w), val[w])]))
  BY <1>2
<1> HIDE DEF val
<1>6. \A w \in path : val[w] # Undef => ReadAt(j).f[w] = val[w]
  BY <1>1, <1>3, AtFacts DEF Agrees
<1> QED BY <1>1, <1>4, <1>5, <1>6, AssignFieldInv

\* h becomes x by the interpreter, and the program's h becomes new.
LEMMA HeaderStatement ==
  ASSUME IInv, UNCHANGED <<stack, path, frames>>,
         NEW x \in Header, hdr' = x, NEW new \in [Worlds -> ConcHeader],
         Step([w \in Worlds |-> [conc[w] EXCEPT !.hdr = new[w]]]),
         \A w \in path : Agrees(x, new[w], w) /\ (~new[w].valid => new[w].f = Undef)
  PROVE  IInv'
<1> DEFINE c == [w \in Worlds |-> [conc[w] EXCEPT !.hdr = new[w]]]
<1>1. ASSUME NEW w \in Worlds
      PROVE  /\ c[w] \in [stack : [Elements -> ConcHeader], hdr : ConcHeader]
             /\ c[w].stack = conc[w].stack /\ c[w].hdr = new[w]
  BY ConcFacts
<1>2. c \in [Worlds -> [stack : [Elements -> ConcHeader], hdr : ConcHeader]]
  BY <1>1
<1>3. Step(c) /\ stack \in Stack /\ stack' = stack /\ path \subseteq Worlds
  BY DEF IInv, TypeOK
<1> HIDE DEF c
<1>4. \A w \in path : /\ \A k \in Elements :
                           /\ Agrees(stack[k], c[w].stack[k], w)
                           /\ ~c[w].stack[k].valid => c[w].stack[k].f = Undef
                      /\ Agrees(x, c[w].hdr, w)
                      /\ ~c[w].hdr.valid => c[w].hdr.f = Undef
  BY <1>1, <1>3, ConcFacts
<1> QED BY <1>2, <1>3, <1>4, Statement

\* h = hs[i]
LEMMA AssignHeaderInv ==
  ASSUME IInv, NEW i \in Indices, AssignHeader(i),
         Step([w \in Worlds |-> [conc[w] EXCEPT !.hdr = At(conc[w], i, w)]])
  PROVE  IInv'
<1> DEFINE new == [w \in Worlds |-> At(conc[w], i, w)]
<1>1. new \in [Worlds -> ConcHeader] /\ \A w \in Worlds : new[w] = At(conc[w], i, w)
  BY AtFacts
<1>2. [w \in Worlds |-> [conc[w] EXCEPT !.hdr = At(conc[w], i, w)]]
        = [w \in Worlds |-> [conc[w] EXCEPT !.hdr = new[w]]]
  BY <1>1
<1>3. Step([w \in Worlds |-> [conc[w] EXCEPT !.hdr = new[w]]])
  BY <1>2
<1>4. ReadAt(i) \in Header /\ path \subseteq Worlds
  BY ReadFacts DEF IInv, TypeOK
<1>5. hdr' = ReadAt(i) /\ UNCHANGED <<stack, path, frames>>
  BY DEF AssignHeader
<1> HIDE DEF new
<1>6. \A w \in path : Agrees(ReadAt(i), new[w], w) /\ (~new[w].valid => new[w].f = Undef)
  BY <1>1, <1>4, AtFacts
<1> QED BY <1>1, <1>3, <1>4, <1>5, <1>6, HeaderStatement

\* h.setValid(); h.f = v;
LEMMA FillHeaderInv ==
  ASSUME IInv, NEW v \in Vals, FillHeader(Constant(v)),
         Step([w \in Worlds |-> [conc[w] EXCEPT !.hdr = [valid |-> TRUE, f |-> v]]])
  PROVE  IInv'
<1> DEFINE new == [w \in Worlds |-> [valid |-> TRUE, f |-> v]]
           x == [valid |-> Worlds, f |-> Constant(v)]
<1>1. /\ new \in [Worlds -> ConcHeader]
      /\ \A w \in Worlds : new[w].valid = TRUE /\ new[w].f = v
      /\ \A w \in Worlds : new[w] = [valid |-> TRUE, f |-> v]
  BY DEF ConcHeader
<1>2. [w \in Worlds |-> [conc[w] EXCEPT !.hdr = [valid |-> TRUE, f |-> v]]]
        = [w \in Worlds |-> [conc[w] EXCEPT !.hdr = new[w]]]
  BY <1>1
<1>3. Step([w \in Worlds |-> [conc[w] EXCEPT !.hdr = new[w]]])
  BY <1>2
<1>4. x \in Header /\ x.valid = Worlds /\ \A w \in Worlds : x.f[w] = v
  BY ConstantType DEF Header
<1>5. hdr' = x /\ UNCHANGED <<stack, path, frames>> /\ path \subseteq Worlds
  BY DEF FillHeader, IInv, TypeOK
<1> HIDE DEF new, x
<1>6. \A w \in path : Agrees(x, new[w], w) /\ (~new[w].valid => new[w].f = Undef)
  BY <1>1, <1>4, <1>5 DEF Agrees
<1> QED BY <1>1, <1>3, <1>4, <1>5, <1>6, HeaderStatement

LEMMA SetValidInv ==
  ASSUME IInv, NEW i \in Indices, SetValidAt(i),
         Step(PutAll(i, [w \in Worlds |-> [At(conc[w], i, w) EXCEPT !.valid = TRUE]]))
  PROVE  IInv'
<1> DEFINE new == [k \in Elements |-> [stack[k] EXCEPT !.valid = Worlds]]
           put == [w \in Worlds |-> [At(conc[w], i, w) EXCEPT !.valid = TRUE]]
<1>1. stack \in Stack /\ path \subseteq Worlds
  BY DEF IInv, TypeOK
<1>2. ASSUME NEW k \in Elements
      PROVE  /\ new[k] \in Header /\ new[k].valid = Worlds /\ new[k].f = stack[k].f
  BY <1>1 DEF Stack, Header
<1>3. new \in [Elements -> Header]
  BY <1>2
<1>4. ASSUME NEW w \in Worlds
      PROVE  /\ put[w] \in ConcHeader /\ put[w].valid = TRUE
             /\ put[w].f = At(conc[w], i, w).f
             /\ ~At(conc[w], i, w).valid => put[w].f = Undef
  BY AtFacts DEF ConcHeader
<1>5. put \in [Worlds -> ConcHeader]
  BY <1>4
<1>6. stack' = Updated(i, new) /\ UNCHANGED <<hdr, path, frames>> /\ Step(PutAll(i, put))
  BY DEF SetValidAt
<1> HIDE DEF new, put
<1>7. ASSUME NEW w \in path
      PROVE  /\ i.at[w] \in Elements => Agrees(new[i.at[w]], put[w], w)
             /\ ~put[w].valid => put[w].f = Undef
  <2>1. w \in Worlds /\ put[w].valid = TRUE
    BY <1>1, <1>4
  <2>2. CASE i.at[w] \in Elements
    <3>1. At(conc[w], i, w) = conc[w].stack[i.at[w]]
          /\ Agrees(stack[i.at[w]], conc[w].stack[i.at[w]], w)
      BY <2>1, <2>2, ConcFacts DEF At
    <3> QED BY <2>1, <2>2, <3>1, <1>2, <1>4 DEF Agrees
  <2> QED BY <2>1, <2>2
<1> QED BY <1>3, <1>5, <1>6, <1>7, Write

LEMMA SetInvalidInv ==
  ASSUME IInv, NEW i \in Indices, SetInvalidAt(i),
         Step(PutAll(i, [w \in Worlds |-> None]))
  PROVE  IInv'
<1> DEFINE new == [k \in Elements |-> Absent]
           put == [w \in Worlds |-> None]
<1>1. new \in [Elements -> Header] /\ \A k \in Elements : new[k] = Absent
  BY AbsentType
<1>2. put \in [Worlds -> ConcHeader] /\ \A w \in Worlds : put[w] = None
  BY AbsentType
<1>3. stack' = Updated(i, new) /\ UNCHANGED <<hdr, path, frames>> /\ Step(PutAll(i, put))
      /\ path \subseteq Worlds
  BY DEF SetInvalidAt, IInv, TypeOK
<1> HIDE DEF new, put
<1>4. \A w \in path : /\ i.at[w] \in Elements => Agrees(new[i.at[w]], put[w], w)
                      /\ ~put[w].valid => put[w].f = Undef
  BY <1>1, <1>2, <1>3, AbsentType
<1> QED BY <1>1, <1>2, <1>3, <1>4, Write

\* A shift that finds nothing to shift: all that is left on both sides are invalid
\* headers.
LEMMA Cleared ==
  ASSUME IInv, UNCHANGED <<hdr, path, frames>>,
         NEW s \in Stack, stack' = s, NEW by \in Int,
         Step([w \in Worlds |-> Shifted(conc[w], by)]),
         \A w \in path, k \in Elements :
           /\ w \notin s[k].valid
           /\ k + by \in Elements => ~conc[w].stack[k + by].valid
  PROVE  IInv'
<1> DEFINE c == [w \in Worlds |-> Shifted(conc[w], by)]
<1>1. ASSUME NEW w \in Worlds
      PROVE  /\ c[w] \in [stack : [Elements -> ConcHeader], hdr : ConcHeader]
             /\ c[w].hdr = conc[w].hdr
             /\ \A k \in Elements :
                  c[w].stack[k] = IF k + by \in Elements THEN conc[w].stack[k + by] ELSE None
  <2> DEFINE x == conc[w]
             t == [k \in Elements |-> IF k + by \in Elements THEN x.stack[k + by] ELSE None]
  <2>1. x \in [stack : [Elements -> ConcHeader], hdr : ConcHeader]
    BY ConcFacts
  <2>2. c[w] = [x EXCEPT !.stack = t]
    BY DEF Shifted
  <2>3. t \in [Elements -> ConcHeader]
        /\ \A k \in Elements : t[k] = IF k + by \in Elements THEN x.stack[k + by] ELSE None
    BY <2>1, AbsentType
  <2> HIDE DEF x, t, c
  <2>4. c[w] \in [stack : [Elements -> ConcHeader], hdr : ConcHeader]
        /\ c[w].hdr = x.hdr /\ c[w].stack = t
    BY <2>1, <2>2, <2>3
  <2> QED BY <2>3, <2>4 DEF x
<1>2. c \in [Worlds -> [stack : [Elements -> ConcHeader], hdr : ConcHeader]]
  BY <1>1
<1>3. Step(c) /\ hdr \in Header /\ hdr' = hdr /\ path \subseteq Worlds
  BY DEF IInv, TypeOK
<1> HIDE DEF c
<1>4. ASSUME NEW w \in path, NEW k \in Elements
      PROVE  /\ Agrees(s[k], c[w].stack[k], w)
             /\ ~c[w].stack[k].valid => c[w].stack[k].f = Undef
  <2>1. w \in Worlds
    BY <1>3
  <2>2. CASE k + by \in Elements
    <3>1. c[w].stack[k] = conc[w].stack[k + by]
      BY <2>1, <2>2, <1>1
    <3> QED BY <2>1, <2>2, <3>1, ConcFacts DEF Agrees
  <2>3. CASE k + by \notin Elements
    <3>1. c[w].stack[k] = None
      BY <2>1, <2>3, <1>1
    <3> QED BY <3>1, AbsentType DEF Agrees
  <2> QED BY <2>2, <2>3
<1>5. \A w \in path : /\ Agrees(hdr, c[w].hdr, w)
                      /\ ~c[w].hdr.valid => c[w].hdr.f = Undef
  BY <1>1, <1>3, ConcFacts
<1> QED BY <1>2, <1>3, <1>4, <1>5, Statement

\* Where nothing is to be shifted and some are left, they are invalid.
LEMMA NothingFacts ==
  ASSUME IInv, NEW n \in Nat, NothingToShift(n), n < Size
  PROVE  \A w \in path, k \in Elements : w \notin stack[k].valid /\ ~conc[w].stack[k].valid
<1> SUFFICES ASSUME NEW w \in path, NEW k \in Elements
             PROVE  w \notin stack[k].valid /\ ~conc[w].stack[k].valid
  OBVIOUS
<1>1. ~conc[w].stack[k].valid
  BY DEF NothingToShift
<1>2. w \in Worlds
  BY DEF IInv, TypeOK
<1> QED BY <1>1, <1>2, ConcFacts DEF Agrees

LEMMA PushFrontInv ==
  ASSUME IInv, NEW n \in Nat, NothingToShift(n), PushFront(n),
         Step([w \in Worlds |-> Shifted(conc[w], -n)])
  PROVE  IInv'
<1> DEFINE s == [k \in Elements |-> IF k < n THEN Absent ELSE stack[k]]
<1>1. stack \in Stack
  BY DEF IInv, TypeOK
<1>2. s \in Stack /\ \A k \in Elements : s[k] = IF k < n THEN Absent ELSE stack[k]
  BY <1>1, AbsentType DEF Stack
<1>3. stack' = s /\ UNCHANGED <<hdr, path, frames>>
  BY DEF PushFront
<1> HIDE DEF s
<1>4. ASSUME NEW w \in path, NEW k \in Elements
      PROVE  /\ w \notin s[k].valid
             /\ k + (-n) \in Elements => ~conc[w].stack[k + (-n)].valid
  <2>1. CASE n < Size
    BY <2>1, <1>2, NothingFacts, AbsentType
  <2>2. CASE ~(n < Size)
    <3>1. k < n /\ k + (-n) \notin Elements
      BY <2>2, ElementsFacts
    <3> QED BY <3>1, <1>2, AbsentType
  <2> QED BY <2>1, <2>2
<1>5. -n \in Int
  OBVIOUS
<1> QED BY <1>2, <1>3, <1>4, <1>5, Cleared

LEMMA PopFrontInv ==
  ASSUME IInv, NEW n \in Nat, NothingToShift(n), PopFront(n),
         Step([w \in Worlds |-> Shifted(conc[w], n)])
  PROVE  IInv'
<1> DEFINE s == [k \in Elements |-> IF k >= LastRange(n) THEN Absent ELSE stack[k]]
<1>1. stack \in Stack
  BY DEF IInv, TypeOK
<1>2. s \in Stack /\ \A k \in Elements : s[k] = IF k >= LastRange(n) THEN Absent ELSE stack[k]
  BY <1>1, AbsentType DEF Stack
<1>3. stack' = s /\ UNCHANGED <<hdr, path, frames>>
  BY DEF PopFront
<1> HIDE DEF s
<1>4. ASSUME NEW w \in path, NEW k \in Elements
      PROVE  /\ w \notin s[k].valid
             /\ k + n \in Elements => ~conc[w].stack[k + n].valid
  <2>1. CASE n < Size
    BY <2>1, <1>2, NothingFacts, AbsentType
  <2>2. CASE ~(n < Size)
    <3>1. k >= LastRange(n) /\ k + n \notin Elements
      BY <2>2, ElementsFacts DEF LastRange
    <3> QED BY <3>1, <1>2, AbsentType
  <2> QED BY <2>1, <2>2
<1> QED BY <1>2, <1>3, <1>4, Cleared

-----------------------------------------------------------------------------
(* If statements *)

LEMMA AgreeFewer ==
  ASSUME NEW s, NEW h, NEW S, NEW T \in SUBSET S, AgreeIn(s, h, S)
  PROVE  AgreeIn(s, h, T)
BY DEF AgreeIn

\* The open statements become fs, which differs from frames in its last only, and
\* path, stack and h become p, s and x.
LEMMA FramesChange ==
  ASSUME IInv, conc' = conc, NEW p \in SUBSET Worlds, path' = p,
         NEW s \in Stack, stack' = s, NEW x \in Header, hdr' = x,
         NEW fs \in Seq(Frame), frames' = fs, NEW n \in 0 .. MaxDepth, n = Len(fs),
         n - 1 <= Len(frames),
         \A d \in 1 .. n - 1 : fs[d] = frames[d],
         p = IF n = 0 THEN Worlds ELSE Inside(fs[n]),
         n > 0 => AgreeIn(fs[n].stack, fs[n].hdr, Outside(fs[n])),
         n = 1 => fs[n].path = Worlds,
         n > 1 => fs[n].path = Inside(fs[n - 1]),
         AgreeIn(s, x, p)
  PROVE  IInv'
<1>1. TypeOK'
  BY DEF IInv, TypeOK
<1>2. \A d \in 1 .. n - 1 : d \in 1 .. Len(frames) /\ d \in 1 .. n
  BY DEF IInv, TypeOK
<1>3. \A d, c \in 1 .. n : d = c + 1 => fs[d].path = Inside(fs[c])
  <2>1. ASSUME NEW d \in 1 .. n, NEW c \in 1 .. n, d = c + 1
        PROVE  fs[d].path = Inside(fs[c])
    <3>1. CASE d = n
      BY <3>1, <2>1
    <3>2. CASE d # n
      <4>1. d \in 1 .. n - 1 /\ c \in 1 .. n - 1
        BY <3>2, <2>1
      <4>2. frames[d].path = Inside(frames[c])
        BY <4>1, <2>1, <1>2 DEF IInv, Nested
      <4> QED BY <4>1, <4>2
    <3> QED BY <3>1, <3>2
  <2> QED BY <2>1
<1>4. \A d, c \in 1 .. n : c < d => fs[d].path \subseteq Inside(fs[c])
  <2>1. ASSUME NEW d \in 1 .. n, NEW c \in 1 .. n, c < d
        PROVE  fs[d].path \subseteq Inside(fs[c])
    <3>0. c \in 1 .. n - 1
      BY <2>1
    <3>1. c \in 1 .. n - 1 /\ fs[c] = frames[c] /\ c \in 1 .. Len(frames)
      BY <3>0, <1>2
    <3>2. CASE d # n
      <4>1. d \in 1 .. n - 1
        BY <3>2
      <4> QED BY <4>1, <3>1, <2>1, <1>2 DEF IInv, Nested
    <3>3. CASE d = n /\ c = n - 1
      BY <3>3, <2>1
    <3>4. CASE d = n /\ c # n - 1
      <4>1. n - 1 \in 1 .. n - 1 /\ c < n - 1
        BY <3>1, <3>4
      <4>2. fs[n - 1].path \subseteq Inside(fs[c])
        BY <4>1, <3>1, <1>2 DEF IInv, Nested
      <4>3. Inside(fs[n - 1]) \subseteq fs[n - 1].path
        BY DEF Inside
      <4>4. n > 1 /\ fs[d] = fs[n]
        BY <3>1, <3>4
      <4> QED BY <4>2, <4>3, <4>4
    <3> QED BY <3>2, <3>3, <3>4
  <2> QED BY <2>1
<1>5. fs = <<>> <=> n = 0
  OBVIOUS
<1>6. Nested'
  <2>1. \A d \in 1 .. n : Inside(frames[d])' = Inside(fs[d])
    BY DEF Inside
  <2>2. n # 0 => n \in 1 .. n
    OBVIOUS
  <2>3. path' = IF frames' = <<>> THEN Worlds ELSE Inside(frames'[Len(frames')])
    BY <2>1, <2>2, <1>5 DEF Inside
  <2>4. \A d, c \in 1 .. Len(frames') :
          /\ d = c + 1 => frames'[d].path = Inside(frames'[c])
          /\ c < d => frames'[d].path \subseteq Inside(frames'[c])
    BY <1>3, <1>4
  <2>5. frames' # <<>> => frames'[1].path = Worlds
    <3>1. n > 1 => 1 \in 1 .. n - 1 /\ frames # <<>>
      BY <1>2 DEF IInv, TypeOK
    <3>2. n > 0 => n = 1 \/ n > 1
      OBVIOUS
    <3> QED BY <3>1, <3>2, <1>5 DEF IInv, Nested
  <2> QED BY <2>3, <2>4, <2>5 DEF Nested, Inside
<1>7. InvalidUndefined'
  BY DEF IInv, InvalidUndefined
<1>8. AgreeIn(stack, hdr, path)'
  BY DEF AgreeIn, Agrees
<1>9. ASSUME NEW d \in 1 .. n
      PROVE  AgreeIn(fs[d].stack, fs[d].hdr, Outside(fs[d]))
  <2>1. CASE d = n
    <3>1. n > 0
      BY <2>1
    <3> QED BY <2>1, <3>1
  <2>2. CASE d # n
    <3>1. d \in 1 .. n - 1
      BY <2>2
    <3>2. fs[d] = frames[d] /\ d \in 1 .. Len(frames)
      BY <3>1, <1>2
    <3> QED BY <3>2 DEF IInv
  <2> QED BY <2>1, <2>2
<1>10. ASSUME NEW d \in 1 .. n
       PROVE  AgreeIn(frames[d].stack, frames[d].hdr, Outside(frames[d]))'
  <2> DEFINE t == fs[d].stack
             y == fs[d].hdr
             S == Outside(fs[d])
  <2>1. AgreeIn(t, y, S)
    BY <1>9
  <2>2. /\ (frames[d].stack)' = t /\ (frames[d].hdr)' = y
        /\ Outside(frames[d])' = S
    BY DEF Outside, Inside
  <2> HIDE DEF t, y, S
  <2> QED BY <2>1, <2>2 DEF AgreeIn, Agrees
<1> QED BY <1>1, <1>6, <1>7, <1>8, <1>10 DEF IInv

LEMMA IfThenInv ==
  ASSUME IInv, NEW c \in SUBSET Worlds, IfThen(c), UNCHANGED conc
  PROVE  IInv'
<1> DEFINE m == Len(frames)
           f == [kind |-> "then", path |-> path, cond |-> c, stack |-> stack, hdr |-> hdr]
           fs == Append(frames, f)
<1>1. /\ m \in Nat /\ m + 1 \in 0 .. MaxDepth /\ frames \in Seq(Frame)
      /\ path \in SUBSET Worlds /\ stack \in Stack /\ hdr \in Header
      /\ stack' = stack /\ hdr' = hdr /\ frames' = fs /\ path' = path \cap c
  BY DEF IfThen, IInv, TypeOK
<1>2. f \in Frame /\ f.path = path /\ f.stack = stack /\ f.hdr = hdr
      /\ Inside(f) = path \cap c /\ Outside(f) \subseteq path
  BY <1>1 DEF Frame, Inside, Outside
<1> HIDE DEF f
<1>3. /\ fs \in Seq(Frame) /\ Len(fs) = m + 1 /\ fs[m + 1] = f
      /\ \A d \in 1 .. m : fs[d] = frames[d]
  BY <1>1, <1>2
<1>4. AgreeIn(stack, hdr, path \cap c) /\ AgreeIn(stack, hdr, Outside(f))
  BY <1>2, AgreeFewer DEF IInv
<1>5. /\ m = 0 => path = Worlds
      /\ m > 0 => path = Inside(frames[m])
  BY <1>1 DEF IInv, Nested
<1>6. path \cap c \in SUBSET Worlds
  BY <1>1
<1> DEFINE n == m + 1
<1>7. n \in 0 .. MaxDepth /\ n - 1 = m /\ m <= m /\ m \in Nat /\ n # 0
  BY <1>1
<1>8. n > 1 => fs[n - 1] = frames[m] /\ m > 0
  BY <1>1, <1>3
<1>9. n = 1 => m = 0
  BY <1>1
<1>10. /\ n = 1 => fs[n].path = Worlds
       /\ n > 1 => fs[n].path = Inside(fs[n - 1])
  BY <1>2, <1>3, <1>5, <1>8, <1>9
<1>11. n = Len(fs) /\ n - 1 <= Len(frames) /\ (\A d \in 1 .. n - 1 : fs[d] = frames[d])
       /\ fs[n] = f
  BY <1>3, <1>7
<1>12. /\ fs \in Seq(Frame) /\ frames' = fs /\ path' = path \cap c
       /\ stack' = stack /\ hdr' = hdr /\ stack \in Stack /\ hdr \in Header
       /\ n \in 0 .. MaxDepth /\ path \cap c = (IF n = 0 THEN Worlds ELSE Inside(fs[n]))
       /\ AgreeIn(fs[n].stack, fs[n].hdr, Outside(fs[n]))
  BY <1>1, <1>2, <1>3, <1>4, <1>7, <1>11
<1> HIDE DEF m, n, fs
<1> QED BY <1>4, <1>6, <1>10, <1>11, <1>12, FramesChange, ZenonT(30)

\* What IfElse makes of a frame.
LEMMA FrameUpdate ==
  ASSUME NEW g \in Frame, NEW s, NEW x
  PROVE  [g EXCEPT !.kind = "else", !.stack = s, !.hdr = x]
           = [kind |-> "else", path |-> g.path, cond |-> g.cond, stack |-> s, hdr |-> x]
<1> DEFINE e == [g EXCEPT !.kind = "else", !.stack = s, !.hdr = x]
<1>1. DOMAIN g = {"kind", "path", "cond", "stack", "hdr"}
  BY DEF Frame
<1>2. /\ DOMAIN e = {"kind", "path", "cond", "stack", "hdr"}
      /\ e.kind = "else" /\ e.path = g.path /\ e.cond = g.cond /\ e.stack = s /\ e.hdr = x
  BY <1>1
<1>3. e = [d \in DOMAIN e |-> e[d]]
  OBVIOUS
<1> HIDE DEF e
<1>4. e = [kind |-> "else", path |-> g.path, cond |-> g.cond, stack |-> s, hdr |-> x]
  BY <1>2, <1>3
<1> QED BY <1>4 DEF e

LEMMA IfElseInv ==
  ASSUME IInv, IfElse, UNCHANGED conc
  PROVE  IInv'
<1> DEFINE n == Len(frames)
           g == frames[n]
           f == [kind |-> "else", path |-> g.path, cond |-> g.cond,
                 stack |-> stack, hdr |-> hdr]
           fs == [frames EXCEPT ![n] = f]
<1>1. frames \in Seq(Frame) /\ frames # <<>> /\ n \in Nat /\ n <= MaxDepth
  BY DEF IfElse, IInv, TypeOK
<1>2. n > 0 /\ n \in 1 .. n
  BY <1>1
<1>3. g \in Frame
  BY <1>1, <1>2
<1>4. /\ g.kind = "then" /\ stack' = g.stack /\ hdr' = g.hdr /\ path' = g.path \ g.cond
      /\ frames' = [frames EXCEPT ![n] = [@ EXCEPT !.kind = "else", !.stack = stack, !.hdr = hdr]]
  BY DEF IfElse, frame, Last
<1>5. [g EXCEPT !.kind = "else", !.stack = stack, !.hdr = hdr] = f
  BY <1>3, FrameUpdate
<1>6. frames' = fs
  BY <1>1, <1>2, <1>4, <1>5
<1>7. stack \in Stack /\ hdr \in Header /\ g.stack \in Stack /\ g.hdr \in Header
      /\ path = Inside(g) /\ g.path \in SUBSET Worlds
  BY <1>1, <1>3 DEF IInv, TypeOK, Frame, Nested
<1>8. /\ f \in Frame /\ f.kind = "else" /\ f.path = g.path /\ f.stack = stack /\ f.hdr = hdr
      /\ Inside(f) = g.path \ g.cond /\ Outside(f) = path
      /\ Outside(g) = g.path \ g.cond /\ Inside(f) \in SUBSET Worlds
  BY <1>3, <1>4, <1>7 DEF Frame, Inside, Outside
<1> HIDE DEF f
<1>9. /\ fs \in Seq(Frame) /\ Len(fs) = n /\ fs[n] = f
      /\ \A d \in 1 .. n - 1 : fs[d] = frames[d]
  BY <1>1, <1>2, <1>8
<1>10. AgreeIn(stack, hdr, Outside(f)) /\ AgreeIn(g.stack, g.hdr, Inside(f))
  BY <1>2, <1>8 DEF IInv
<1>11. n = 1 => g.path = Worlds
  BY <1>1 DEF IInv, Nested
<1>12. n > 1 => g.path = Inside(frames[n - 1]) /\ fs[n - 1] = frames[n - 1]
  <2> SUFFICES ASSUME n > 1 PROVE g.path = Inside(frames[n - 1]) /\ fs[n - 1] = frames[n - 1]
    OBVIOUS
  <2>1. n - 1 \in 1 .. n /\ n = (n - 1) + 1 /\ n - 1 \in 1 .. n - 1
    BY <1>1
  <2> QED BY <2>1, <1>2, <1>9 DEF IInv, Nested
<1>13. n \in 0 .. MaxDepth /\ n # 0 /\ n - 1 <= n /\ n = Len(frames)
  BY <1>1, <1>2
<1> HIDE DEF g, n, fs
<1>14. /\ n = 1 => fs[n].path = Worlds
       /\ n > 1 => fs[n].path = Inside(fs[n - 1])
  BY <1>8, <1>9, <1>11, <1>12
<1> QED BY <1>4, <1>6, <1>7, <1>8, <1>9, <1>10, <1>13, <1>14, FramesChange, ZenonT(30)

\* The stack after an if statement takes each world from its branch.
LEMMA MergeBranches ==
  ASSUME NEW a \in Stack, NEW b \in Stack, NEW x \in Header, NEW y \in Header,
         NEW c, NEW S \in SUBSET Worlds,
         AgreeIn(a, x, S \cap c), AgreeIn(b, y, S \ c)
  PROVE  LET s == [k \in Elements |-> MergeHeader(c, a[k], b[k])]
             h == MergeHeader(c, x, y)
         IN  s \in Stack /\ h \in Header /\ AgreeIn(s, h, S)
<1> DEFINE s == [k \in Elements |-> MergeHeader(c, a[k], b[k])]
           h == MergeHeader(c, x, y)
<1>1. \A k \in Elements : a[k] \in Header /\ b[k] \in Header /\ s[k] = MergeHeader(c, a[k], b[k])
  BY DEF Stack
<1>2. s \in Stack
  BY <1>1, MergeType DEF Stack
<1>3. h \in Header
  BY MergeType
<1>4. ASSUME NEW w \in S, NEW k \in Elements
      PROVE  Agrees(s[k], conc[w].stack[k], w)
  <2>1. /\ w \in c => Agrees(a[k], conc[w].stack[k], w)
        /\ w \notin c => Agrees(b[k], conc[w].stack[k], w)
    BY DEF AgreeIn
  <2> QED BY <1>1, <2>1, MergeAgrees
<1>5. ASSUME NEW w \in S
      PROVE  Agrees(h, conc[w].hdr, w)
  <2>1. /\ w \in c => Agrees(x, conc[w].hdr, w)
        /\ w \notin c => Agrees(y, conc[w].hdr, w)
    BY DEF AgreeIn
  <2> QED BY <2>1, MergeAgrees
<1>6. AgreeIn(s, h, S)
  BY <1>4, <1>5 DEF AgreeIn
<1> QED BY <1>2, <1>3, <1>6

\* A sequence without its last element.
LEMMA SubSeqFacts ==
  ASSUME NEW S, NEW q \in Seq(S), q # <<>>
  PROVE  /\ SubSeq(q, 1, Len(q) - 1) \in Seq(S)
         /\ Len(SubSeq(q, 1, Len(q) - 1)) = Len(q) - 1
         /\ \A d \in 1 .. Len(q) - 1 :
              SubSeq(q, 1, Len(q) - 1)[d] = q[d] /\ d \in 1 .. Len(q)
<1> DEFINE n == Len(q) - 1
<1>1. n \in Nat /\ \A d \in 1 .. n : q[d] \in S /\ d \in 1 .. Len(q)
  OBVIOUS
<1> HIDE DEF n
<1>2. n - 1 + 1 = n /\ (IF 1 <= n THEN n - 1 + 1 ELSE 0) = n
      /\ \A d \in 1 .. n : 1 + d - 1 = d
  BY <1>1
<1>3. 1 \in Int /\ n \in Int
  BY <1>1
<1>4. /\ SubSeq(q, 1, n) \in Seq(S) /\ Len(SubSeq(q, 1, n)) = n
      /\ \A d \in 1 .. n : SubSeq(q, 1, n)[d] = q[d]
  BY <1>1, <1>2, <1>3, SubSeqProperties
<1> QED BY <1>1, <1>4 DEF n

LEMMA IfEndInv ==
  ASSUME IInv, IfEnd, UNCHANGED conc
  PROVE  IInv'
<1> DEFINE m == Len(frames)
           n == m - 1
           g == frames[m]
           s == [k \in Elements |-> MergeHeader(g.cond, g.stack[k], stack[k])]
           x == MergeHeader(g.cond, g.hdr, hdr)
           fs == SubSeq(frames, 1, n)
<1>1. frames \in Seq(Frame) /\ frames # <<>> /\ m \in Nat /\ m <= MaxDepth
  BY DEF IfEnd, IInv, TypeOK
<1>2. m > 0 /\ m \in 1 .. m /\ n \in 0 .. MaxDepth /\ n - 1 <= m /\ n \in Nat
  BY <1>1
<1>3. g \in Frame
  BY <1>1, <1>2
<1>4. /\ g.kind = "else" /\ stack' = s /\ hdr' = x /\ path' = g.path /\ frames' = fs
  BY DEF IfEnd, frame, Last, Front
<1>5. stack \in Stack /\ hdr \in Header /\ g.stack \in Stack /\ g.hdr \in Header
      /\ path = Inside(g) /\ g.path \in SUBSET Worlds
  BY <1>1, <1>3 DEF IInv, TypeOK, Frame, Nested
<1>6. path = g.path \ g.cond /\ Outside(g) = g.path \cap g.cond
  BY <1>4, <1>5 DEF Inside, Outside
<1>7. AgreeIn(g.stack, g.hdr, g.path \cap g.cond) /\ AgreeIn(stack, hdr, g.path \ g.cond)
  BY <1>2, <1>6 DEF IInv
<1>8. s \in Stack /\ x \in Header /\ AgreeIn(s, x, g.path)
  BY <1>5, <1>7, MergeBranches
<1>9. /\ fs \in Seq(Frame) /\ Len(fs) = n
      /\ \A d \in 1 .. n : fs[d] = frames[d] /\ d \in 1 .. m
  BY <1>1, SubSeqFacts
<1>10. g.path = IF n = 0 THEN Worlds ELSE Inside(fs[n])
  <2>1. CASE n = 0
    <3>1. m = 1
      BY <2>1, <1>2
    <3> QED BY <2>1, <3>1, <1>1 DEF IInv, Nested
  <2>2. CASE n # 0
    <3>1. n \in 1 .. n /\ n \in 1 .. m /\ m = n + 1
      <4>1. n = m - 1
        OBVIOUS
      <4> HIDE DEF m, n
      <4> QED BY <4>1, <2>2, <1>1, <1>2
    <3>2. g.path = Inside(frames[n])
      BY <3>1, <1>2 DEF IInv, Nested
    <3> QED BY <2>2, <3>1, <3>2, <1>9
  <2> QED BY <2>1, <2>2
<1>11. n > 0 => AgreeIn(fs[n].stack, fs[n].hdr, Outside(fs[n]))
  <2> SUFFICES ASSUME n > 0 PROVE AgreeIn(fs[n].stack, fs[n].hdr, Outside(fs[n]))
    OBVIOUS
  <2>1. n \in 1 .. n /\ n \in 1 .. m
    BY <1>2
  <2> QED BY <2>1, <1>9 DEF IInv
<1>12. n = 1 => fs[n].path = Worlds
  <2> SUFFICES ASSUME n = 1 PROVE fs[n].path = Worlds
    OBVIOUS
  <2>1. n \in 1 .. n
    OBVIOUS
  <2>2. fs[n] = frames[1]
    BY <2>1, <1>9
  <2> QED BY <2>2, <1>1 DEF IInv, Nested
<1>13. n > 1 => fs[n].path = Inside(fs[n - 1])
  <2> SUFFICES ASSUME n > 1 PROVE fs[n].path = Inside(fs[n - 1])
    OBVIOUS
  <2>1. n \in 1 .. n /\ n - 1 \in 1 .. n /\ n = (n - 1) + 1
    BY <1>2
  <2>2. n \in 1 .. m /\ n - 1 \in 1 .. m /\ fs[n] = frames[n] /\ fs[n - 1] = frames[n - 1]
    BY <2>1, <1>9
  <2> QED BY <2>1, <2>2 DEF IInv, Nested
<1>14. \A d \in 1 .. n - 1 : fs[d] = frames[d]
  BY <1>2, <1>9
<1>15. n - 1 <= Len(frames)
  BY <1>2
<1> HIDE DEF m, n, g, s, x, fs
<1> QED BY <1>2, <1>4, <1>5, <1>8, <1>9, <1>10, <1>11, <1>12, <1>13, <1>14, <1>15, FramesChange, ZenonT(30)

-----------------------------------------------------------------------------
(* The invariant *)

LEMMA InitInv == RefInit => IInv
<1> SUFFICES ASSUME RefInit PROVE IInv
  OBVIOUS
<1>1. path = Worlds /\ frames = <<>> /\ hdr = Absent
  BY DEF RefInit, Init
<1>2. stack \in Stack
  <2>1. CASE stack = [k \in Elements |-> Absent]
    BY <2>1, AbsentType DEF Stack
  <2>2. CASE \E valid \in SUBSET Worlds : stack = Bound(valid)
    <3>1. PICK valid \in SUBSET Worlds : stack = Bound(valid)
      BY <2>2
    <3>2. \A k \in Elements : Input[k] \in Symbolic
      BY DEF Symbolic, Elements
    <3> QED BY <3>1, <3>2 DEF Bound, Stack, Header
  <2> QED BY <2>1, <2>2 DEF RefInit, Init
<1>3. ASSUME NEW w \in Worlds
      PROVE  /\ conc[w] \in [stack : [Elements -> ConcHeader], hdr : ConcHeader]
             /\ conc[w].hdr = None
             /\ \A k \in Elements :
                  /\ Agrees(stack[k], conc[w].stack[k], w)
                  /\ ~conc[w].stack[k].valid => conc[w].stack[k].f = Undef
  <2> DEFINE t == [k \in Elements |->
                     IF w \in stack[k].valid THEN [valid |-> TRUE, f |-> stack[k].f[w]] ELSE None]
  <2>1. conc[w] = [stack |-> t, hdr |-> None]
    BY DEF RefInit
  <2>2. ASSUME NEW k \in Elements
        PROVE  /\ t[k] \in ConcHeader
               /\ Agrees(stack[k], t[k], w)
               /\ ~t[k].valid => t[k].f = Undef
    <3>1. stack[k].f[w] \in Vals \cup {Undef}
      BY <1>2 DEF Stack, Header, Symbolic
    <3>2. CASE w \in stack[k].valid
      BY <3>1, <3>2 DEF ConcHeader, Agrees
    <3>3. CASE w \notin stack[k].valid
      BY <3>3, AbsentType DEF Agrees
    <3> QED BY <3>2, <3>3
  <2>3. t \in [Elements -> ConcHeader]
    BY <2>2
  <2> HIDE DEF t
  <2> QED BY <2>1, <2>2, <2>3, AbsentType
<1>4. conc \in [Worlds -> [stack : [Elements -> ConcHeader], hdr : ConcHeader]]
  BY <1>3 DEF RefInit
<1>5. TypeOK
  BY <1>1, <1>2, <1>4, AbsentType DEF TypeOK
<1>6. Nested
  BY <1>1 DEF Nested
<1>7. InvalidUndefined
  BY <1>3, AbsentType DEF InvalidUndefined
<1>8. AgreeIn(stack, hdr, path)
  BY <1>1, <1>3, AbsentType DEF AgreeIn
<1>9. \A d \in 1 .. Len(frames) : AgreeIn(frames[d].stack, frames[d].hdr, Outside(frames[d]))
  BY <1>1
<1> QED BY <1>5, <1>6, <1>7, <1>8, <1>9 DEF IInv

LEMMA StutterInv ==
  ASSUME IInv, UNCHANGED refVars
  PROVE  IInv'
<1>1. UNCHANGED <<stack, hdr, path, frames, conc>>
  BY DEF refVars, stackVars
<1>2. TypeOK' /\ InvalidUndefined'
  BY <1>1 DEF IInv, TypeOK, InvalidUndefined
<1>3. Nested'
  BY <1>1, NestedKept DEF IInv
<1>4. AgreeIn(stack, hdr, path)'
  BY <1>1 DEF IInv, AgreeIn, Agrees
<1>5. (\A d \in 1 .. Len(frames) : AgreeIn(frames[d].stack, frames[d].hdr, Outside(frames[d])))'
  BY <1>1 DEF IInv, AgreeIn, Agrees, Outside, Inside
<1> QED BY <1>2, <1>3, <1>4, <1>5 DEF IInv

LEMMA StepInv == IInv /\ [RefNext]_refVars => IInv'
<1> SUFFICES ASSUME IInv, [RefNext]_refVars PROVE IInv'
  OBVIOUS
<1>1. CASE RefAssignments
  <2>1. CASE \E i \in Indices :
               AssignElement(i, hdr) /\ Step(PutAll(i, [w \in Worlds |-> conc[w].hdr]))
    BY <2>1, FromHeaderInv
  <2>2. CASE \E i, j \in Indices :
               AssignElement(i, ReadAt(j))
               /\ Step(PutAll(i, [w \in Worlds |-> At(conc[w], j, w)]))
    BY <2>2, FromElementInv
  <2>3. CASE \E i \in Indices, val \in Vals, seen \in SUBSET Elements :
               AssignField(i, Constant(val), seen)
               /\ Step(PutAll(i, [w \in Worlds |-> WithField(At(conc[w], i, w), val)]))
    BY <2>3, FieldConstantInv
  <2>4. CASE \E i, j \in Indices, seen \in SUBSET Elements :
               AssignField(i, ReadAt(j).f, seen)
               /\ Step(PutAll(i, [w \in Worlds |->
                    WithField(At(conc[w], i, w), At(conc[w], j, w).f)]))
    BY <2>4, FieldElementInv
  <2>5. CASE \E i \in Indices :
               AssignHeader(i)
               /\ Step([w \in Worlds |-> [conc[w] EXCEPT !.hdr = At(conc[w], i, w)]])
    BY <2>5, AssignHeaderInv
  <2>6. CASE \E val \in Vals :
               FillHeader(Constant(val))
               /\ Step([w \in Worlds |-> [conc[w] EXCEPT !.hdr = [valid |-> TRUE, f |-> val]]])
    BY <2>6, FillHeaderInv
  <2> QED BY <1>1, <2>1, <2>2, <2>3, <2>4, <2>5, <2>6, Zenon DEF RefAssignments
<1>2. CASE RefValidity
  BY <1>2, SetValidInv, SetInvalidInv DEF RefValidity
<1>3. CASE RefShifts
  <2>1. \A n \in 1 .. MaxShift : n \in Nat
    OBVIOUS
  <2> QED BY <1>3, <2>1, PushFrontInv, PopFrontInv DEF RefShifts
<1>4. CASE \E c \in SUBSET Worlds : IfThen(c) /\ UNCHANGED conc
  BY <1>4, IfThenInv
<1>5. CASE RefEnd
  BY <1>5, IfElseInv, IfEndInv DEF RefEnd
<1>6. CASE UNCHANGED refVars
  BY <1>6, StutterInv
<1> QED BY <1>1, <1>2, <1>3, <1>4, <1>5, <1>6, Zenon DEF RefNext, RefStatement

\* Between two statements every element agrees with the program's in the inputs
\* that reach the statement, and what an open if statement has put aside agrees in
\* those that take its other branch, at every depth.
THEOREM StackInv == RefSpec => []IInv
BY InitInv, StepInv, PTL DEF RefSpec

\* The element an index stands for, and no other, has been written, whatever the
\* width of the index and whatever Z3 sees of the validity of the elements.
THEOREM StackElementsAgree == RefSpec => []ElementsAgree
<1>1. IInv => ElementsAgree
  BY DEF IInv, AgreeIn, ElementsAgree
<1> QED BY <1>1, StackInv, PTL

\* A read at an index the interpreter does not know returns the element the
\* program reads.
THEOREM StackReadsAgree == RefSpec => []ReadsAgree
<1>1. IInv => ReadsAgree
  BY DEF IInv, AgreeIn, ReadsAgree
<1> QED BY <1>1, StackInv, PTL
================================================================================
