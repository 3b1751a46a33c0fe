------------------------- MODULE HeaderValidity_proofs -------------------------
(***************************************************************************)
(* Proofs about HeaderValidityRef, for every set of worlds, headers,       *)
(* structs and values, every depth, and every program.                     *)
(***************************************************************************)
EXTENDS HeaderValidityRef, TLAPS

USE ConstantsAssumption DEF top

-----------------------------------------------------------------------------
(* The operators *)

\* A constant is a symbolic value.
LEMMA ConstantType ==
  ASSUME NEW x \in Vals \cup {Undef}
  PROVE  Constant(x) \in Symbolic
BY DEF Constant, Symbolic

\* Headers and structs that are declared in the block.
LEMMA NewType ==
  /\ NewHeader \in Header /\ NewStruct \in Struct /\ NoFrame \in Frame
<1>1. Constant(Undef) \in Symbolic
  BY ConstantType
<1>2. NewHeader \in Header /\ NewStruct \in Struct
  BY <1>1 DEF NewHeader, NewStruct, Header, Struct
<1> QED BY <1>2 DEF NoFrame, Frame, Env

\* Merging takes each world's value from its branch.
LEMMA MergeType ==
  ASSUME NEW x \in Symbolic, NEW y \in Symbolic, NEW c
  PROVE  /\ Merge(c, x, y) \in Symbolic
         /\ \A w \in Worlds : Merge(c, x, y)[w] = IF w \in c THEN x[w] ELSE y[w]
BY DEF Merge, Symbolic

\* The right-hand side of an assignment.
LEMMA RhsType ==
  ASSUME TypeOK, NEW r \in Operands
  PROVE  Rhs(r) \in Symbolic /\ ConcRhs(r) \in Symbolic
<1>1. r \in Headers => env.hdr[r] \in Header /\ conc.hdr[r] \in ConcHeader
  BY DEF TypeOK, Env
<1>2. r \notin Headers => Constant(r) \in Symbolic
  BY ConstantType DEF Operands
<1> QED BY <1>1, <1>2 DEF Rhs, ConcRhs, Header, ConcHeader

\* It agrees with the program's.
LEMMA RhsRefines ==
  ASSUME AgreesIn(env, path), NEW r \in Operands
  PROVE  Refines(Rhs(r), ConcRhs(r), path)
BY DEF AgreesIn, Rhs, ConcRhs, Refines

-----------------------------------------------------------------------------
(* Statements: one variable changes, on both sides *)

\* What an open if statement has put aside is for worlds outside of path.
LEMMA OutsidePath ==
  ASSUME TypeOK, Nested, NEW d \in 1 .. depth
  PROVE  /\ d \in 1 .. MaxDepth /\ frames[d] \in Frame /\ frames[d].vars \in Env
         /\ Inside(frames[d]) \subseteq Worlds
         /\ Outside(frames[d]) \subseteq Worlds \ path
<1>1. d \in 1 .. MaxDepth /\ frames[d] \in Frame
  BY DEF TypeOK
<1>2. frames[d].path \subseteq Worlds /\ frames[d].vars \in Env
  BY <1>1 DEF Frame
<1>3. path \subseteq Inside(frames[d])
  <2>1. depth \in 1 .. depth /\ path = Inside(frames[depth])
    BY DEF Nested, TypeOK
  <2>2. CASE d = depth
    BY <2>1, <2>2
  <2>3. CASE d # depth
    <3>1. frames[depth].path \subseteq Inside(frames[d])
      BY <2>1, <2>3, <1>1 DEF Nested, TypeOK
    <3> QED BY <2>1, <3>1 DEF Inside
  <2> QED BY <2>2, <2>3
<1> QED BY <1>1, <1>2, <1>3 DEF Outside, Inside

LEMMA NestedKept ==
  ASSUME Nested, UNCHANGED <<path, frames, depth>>
  PROVE  Nested'
BY ZenonT(30) DEF Nested, Inside

\* A statement that changes the program's variables in the worlds of path only
\* does not concern what is put aside.
LEMMA AsideKept ==
  ASSUME IInv, UNCHANGED <<path, frames, depth>>,
         \A h \in Headers, w \in Worlds \ path :
           /\ w \in conc'.hdr[h].valid <=> w \in conc.hdr[h].valid
           /\ conc'.hdr[h].f[w] = conc.hdr[h].f[w]
           /\ conc'.hdr[h].g[w] = conc.hdr[h].g[w],
         \A s \in Structs, w \in Worlds \ path : conc'.loc[s][w] = conc.loc[s][w]
  PROVE  /\ Nested'
         /\ (\A d \in 1 .. depth : AgreesIn(frames[d].vars, Outside(frames[d])))'
<1>1. Nested'
  BY NestedKept DEF IInv
<1>2. ASSUME NEW d \in 1 .. depth
      PROVE  AgreesIn(frames[d].vars, Outside(frames[d]))'
  <2> DEFINE e == frames[d].vars
             S == Outside(frames[d])
  <2>1. S \subseteq Worlds \ path
    BY OutsidePath DEF IInv
  <2>2. AgreesIn(e, S)
    BY DEF IInv
  <2>3. e' = e /\ S' = S
    BY DEF Outside, Inside
  <2> HIDE DEF e, S
  <2>4. /\ \A h \in Headers :
             /\ e.hdr[h].valid \cap S = conc'.hdr[h].valid \cap S
             /\ Refines(e.hdr[h].f, conc'.hdr[h].f, S)
        /\ ~StaleWrites =>
             /\ \A h \in Headers : Refines(e.hdr[h].g, conc'.hdr[h].g, S)
             /\ \A s \in Structs : Refines(e.loc[s].g, conc'.loc[s], S)
    BY <2>1, <2>2 DEF AgreesIn, Refines
  <2> QED BY <2>3, <2>4 DEF AgreesIn, Refines, e, S
<1> QED BY <1>1, <1>2

\* The instance of one header becomes i, and the program's header becomes c.
LEMMA HeaderStatement ==
  ASSUME IInv, UNCHANGED <<path, frames, depth>>,
         NEW h \in Headers, NEW i \in Header, NEW c \in ConcHeader,
         env' = [env EXCEPT !.hdr[h] = i], conc' = [conc EXCEPT !.hdr[h] = c],
         i.valid \cap path = c.valid \cap path,
         Refines(i.f, c.f, path),
         ~StaleWrites => Refines(i.g, c.g, path),
         \A w \in Worlds \ path :
           /\ w \in c.valid <=> w \in conc.hdr[h].valid
           /\ c.f[w] = conc.hdr[h].f[w] /\ c.g[w] = conc.hdr[h].g[w],
         \A w \in Worlds \ c.valid : c.f[w] = Undef /\ c.g[w] = Undef
  PROVE  IInv'
<1>1. /\ env'.loc = env.loc /\ conc'.loc = conc.loc
      /\ env'.hdr[h] = i /\ conc'.hdr[h] = c
      /\ \A k \in Headers : k # h => /\ env'.hdr[k] = env.hdr[k]
                                     /\ conc'.hdr[k] = conc.hdr[k]
  BY DEF IInv, TypeOK, Env
<1>2. env' \in Env
  BY DEF IInv, TypeOK, Env
<1>3. conc' \in [hdr : [Headers -> ConcHeader], loc : [Structs -> Symbolic]]
  BY DEF IInv, TypeOK
<1>4. TypeOK'
  BY <1>2, <1>3 DEF IInv, TypeOK
<1>5. InvalidUndefined'
  <2>1. \A k \in Headers : \A w \in Worlds \ conc'.hdr[k].valid :
          conc'.hdr[k].f[w] = Undef /\ conc'.hdr[k].g[w] = Undef
    BY <1>1 DEF IInv, InvalidUndefined
  <2> QED BY <2>1 DEF InvalidUndefined
<1>6. AgreesIn(env, path)'
  <2>1. /\ \A k \in Headers :
             /\ env'.hdr[k].valid \cap path = conc'.hdr[k].valid \cap path
             /\ Refines(env'.hdr[k].f, conc'.hdr[k].f, path)
        /\ ~StaleWrites =>
             /\ \A k \in Headers : Refines(env'.hdr[k].g, conc'.hdr[k].g, path)
             /\ \A s \in Structs : Refines(env'.loc[s].g, conc'.loc[s], path)
    BY <1>1 DEF IInv, AgreesIn
  <2> QED BY <2>1 DEF AgreesIn, Refines
<1>7. \A k \in Headers, w \in Worlds \ path :
        /\ w \in conc'.hdr[k].valid <=> w \in conc.hdr[k].valid
        /\ conc'.hdr[k].f[w] = conc.hdr[k].f[w]
        /\ conc'.hdr[k].g[w] = conc.hdr[k].g[w]
  BY <1>1
<1>8. /\ Nested'
      /\ (\A d \in 1 .. depth : AgreesIn(frames[d].vars, Outside(frames[d])))'
  BY <1>1, <1>7, AsideKept
<1> QED BY <1>4, <1>5, <1>6, <1>8 DEF IInv

\* The instance of one struct variable becomes i, and the program's field x.
LEMMA StructStatement ==
  ASSUME IInv, UNCHANGED <<path, frames, depth>>,
         NEW s \in Structs, NEW i \in Struct, NEW x \in Symbolic,
         env' = [env EXCEPT !.loc[s] = i], conc' = [conc EXCEPT !.loc[s] = x],
         ~StaleWrites => Refines(i.g, x, path),
         \A w \in Worlds \ path : x[w] = conc.loc[s][w]
  PROVE  IInv'
<1>1. /\ env'.hdr = env.hdr /\ conc'.hdr = conc.hdr
      /\ env'.loc[s] = i /\ conc'.loc[s] = x
      /\ \A t \in Structs : t # s => /\ env'.loc[t] = env.loc[t]
                                     /\ conc'.loc[t] = conc.loc[t]
  BY DEF IInv, TypeOK, Env
<1>2. env' \in Env
  BY DEF IInv, TypeOK, Env
<1>3. conc' \in [hdr : [Headers -> ConcHeader], loc : [Structs -> Symbolic]]
  BY DEF IInv, TypeOK
<1>4. TypeOK'
  BY <1>2, <1>3 DEF IInv, TypeOK
<1>5. InvalidUndefined'
  BY <1>1 DEF IInv, InvalidUndefined
<1>6. AgreesIn(env, path)'
  <2>1. /\ \A k \in Headers :
             /\ env'.hdr[k].valid \cap path = conc'.hdr[k].valid \cap path
             /\ Refines(env'.hdr[k].f, conc'.hdr[k].f, path)
        /\ ~StaleWrites =>
             /\ \A k \in Headers : Refines(env'.hdr[k].g, conc'.hdr[k].g, path)
             /\ \A t \in Structs : Refines(env'.loc[t].g, conc'.loc[t], path)
    BY <1>1 DEF IInv, AgreesIn
  <2> QED BY <2>1 DEF AgreesIn, Refines
<1>7. \A t \in Structs, w \in Worlds \ path : conc'.loc[t][w] = conc.loc[t][w]
  BY <1>1
<1>8. /\ Nested'
      /\ (\A d \in 1 .. depth : AgreesIn(frames[d].vars, Outside(frames[d])))'
  BY <1>1, <1>7, AsideKept
<1> QED BY <1>4, <1>5, <1>6, <1>8 DEF IInv

\* What IInv says of one header.
LEMMA HeaderFacts ==
  ASSUME IInv, NEW h \in Headers
  PROVE  /\ env.hdr[h] \in Header /\ conc.hdr[h] \in ConcHeader
         /\ path \subseteq Worlds
         /\ env.hdr[h].valid \cap path = conc.hdr[h].valid \cap path
         /\ Refines(env.hdr[h].f, conc.hdr[h].f, path)
         /\ ~StaleWrites => Refines(env.hdr[h].g, conc.hdr[h].g, path)
         /\ \A w \in Worlds \ conc.hdr[h].valid :
              conc.hdr[h].f[w] = Undef /\ conc.hdr[h].g[w] = Undef
BY DEF IInv, TypeOK, Env, AgreesIn, InvalidUndefined

\* What IInv says of one struct variable.
LEMMA StructFacts ==
  ASSUME IInv, NEW s \in Structs
  PROVE  /\ env.loc[s] \in Struct /\ conc.loc[s] \in Symbolic
         /\ path \subseteq Worlds
         /\ ~StaleWrites => Refines(env.loc[s].g, conc.loc[s], path)
BY DEF IInv, TypeOK, Env, AgreesIn

\* Updating a header by itself.
LEMMA HeaderKept ==
  ASSUME NEW e \in Env, NEW h \in Headers
  PROVE  [e EXCEPT !.hdr[h] = e.hdr[h]] = e
<1>1. [e.hdr EXCEPT ![h] = e.hdr[h]] = e.hdr
  BY DEF Env
<1> QED BY <1>1 DEF Env

\* The program's header in the worlds that execute the statement and elsewhere.
LEMMA BecomesFacts ==
  ASSUME NEW new \in ConcHeader, NEW old \in ConcHeader, path \subseteq Worlds
  PROVE  /\ Becomes(new, old) \in ConcHeader
         /\ \A w \in Worlds :
              /\ w \in Becomes(new, old).valid
                   <=> IF w \in path THEN w \in new.valid ELSE w \in old.valid
              /\ Becomes(new, old).f[w] = IF w \in path THEN new.f[w] ELSE old.f[w]
              /\ Becomes(new, old).g[w] = IF w \in path THEN new.g[w] ELSE old.g[w]
<1>1. new.f \in Symbolic /\ new.g \in Symbolic /\ old.f \in Symbolic /\ old.g \in Symbolic
      /\ new.valid \subseteq Worlds /\ old.valid \subseteq Worlds
  BY DEF ConcHeader
<1>2. /\ Merge(path, new.f, old.f) \in Symbolic /\ Merge(path, new.g, old.g) \in Symbolic
      /\ \A w \in Worlds :
           /\ Merge(path, new.f, old.f)[w] = IF w \in path THEN new.f[w] ELSE old.f[w]
           /\ Merge(path, new.g, old.g)[w] = IF w \in path THEN new.g[w] ELSE old.g[w]
  BY <1>1, MergeType
<1> QED BY <1>1, <1>2 DEF Becomes, ConcHeader

\* A statement that gives a header a new value: i by the interpreter, and new by
\* the program, where it is executed.
LEMMA BecomesInv ==
  ASSUME IInv, UNCHANGED <<path, frames, depth>>,
         NEW h \in Headers, NEW i \in Header, NEW new \in ConcHeader,
         env' = [env EXCEPT !.hdr[h] = i], RefBecomes(h, new),
         i.valid \cap path = new.valid \cap path,
         Refines(i.f, new.f, path),
         ~StaleWrites => Refines(i.g, new.g, path),
         \A w \in path \ new.valid : new.f[w] = Undef /\ new.g[w] = Undef
  PROVE  IInv'
<1> DEFINE c == Becomes(new, conc.hdr[h])
<1>1. /\ c \in ConcHeader /\ path \subseteq Worlds
      /\ \A w \in Worlds :
           /\ w \in c.valid <=> IF w \in path THEN w \in new.valid
                                              ELSE w \in conc.hdr[h].valid
           /\ c.f[w] = IF w \in path THEN new.f[w] ELSE conc.hdr[h].f[w]
           /\ c.g[w] = IF w \in path THEN new.g[w] ELSE conc.hdr[h].g[w]
  BY BecomesFacts, HeaderFacts
<1>2. conc' = [conc EXCEPT !.hdr[h] = c]
  BY DEF RefBecomes, IInv, TypeOK
<1> HIDE DEF c
<1>3. \A w \in Worlds \ c.valid : c.f[w] = Undef /\ c.g[w] = Undef
  BY <1>1, HeaderFacts
<1>4. i.valid \cap path = c.valid \cap path
  BY <1>1
<1>5. Refines(i.f, c.f, path) /\ (~StaleWrites => Refines(i.g, c.g, path))
  BY <1>1 DEF Refines
<1> QED BY <1>1, <1>2, <1>3, <1>4, <1>5, HeaderStatement

LEMMA SetValidInv ==
  ASSUME IInv, NEW h \in Headers, SetValid(h), RefSetValid(h)
  PROVE  IInv'
<1> DEFINE i == [env.hdr[h] EXCEPT !.valid = Worlds, !.inner = Worlds]
           c == [conc.hdr[h] EXCEPT !.valid = @ \cup path]
<1>1. i \in Header /\ i.valid = Worlds /\ i.f = env.hdr[h].f /\ i.g = env.hdr[h].g
  BY HeaderFacts DEF Header
<1>2. /\ c \in ConcHeader /\ c.valid = conc.hdr[h].valid \cup path
      /\ c.f = conc.hdr[h].f /\ c.g = conc.hdr[h].g
  BY HeaderFacts DEF ConcHeader
<1>3. env' = [env EXCEPT !.hdr[h] = i] /\ UNCHANGED <<path, frames, depth>>
  <2> DEFINE i1 == [env.hdr[h] EXCEPT !.valid = Worlds]
             env1 == [env EXCEPT !.hdr[h].valid = Worlds]
  <2>1. env \in Env /\ env.hdr[h] \in Header /\ h \in DOMAIN env.hdr
    BY DEF IInv, TypeOK, Env
  <2>2. env1.hdr[h] = i1 /\ env1.loc = env.loc /\ env1.hdr = [env.hdr EXCEPT ![h] = i1]
    BY <2>1 DEF Env
  <2>3. env' = [env1 EXCEPT !.hdr[h] = [i1 EXCEPT !.inner = Worlds]]
    BY <2>1, <2>2 DEF SetValid
  <2>4. [i1 EXCEPT !.inner = Worlds] = i
    BY <2>1 DEF Header
  <2>5. [env1 EXCEPT !.hdr[h] = i] = [env EXCEPT !.hdr[h] = i]
    <3> HIDE DEF i, i1
    <3> QED BY <2>1, <2>2 DEF Env
  <2>6. UNCHANGED <<path, frames, depth>>
    BY DEF SetValid
  <2> QED BY <2>3, <2>4, <2>5, <2>6
<1>4. conc' = [conc EXCEPT !.hdr[h] = c]
  BY DEF RefSetValid, IInv, TypeOK
<1> HIDE DEF i, c
<1>5. /\ i.valid \cap path = c.valid \cap path
      /\ Refines(i.f, c.f, path)
      /\ ~StaleWrites => Refines(i.g, c.g, path)
  BY <1>1, <1>2, HeaderFacts
<1>6. /\ \A w \in Worlds \ path :
           /\ w \in c.valid <=> w \in conc.hdr[h].valid
           /\ c.f[w] = conc.hdr[h].f[w] /\ c.g[w] = conc.hdr[h].g[w]
      /\ \A w \in Worlds \ c.valid : c.f[w] = Undef /\ c.g[w] = Undef
  BY <1>2, HeaderFacts
<1> QED BY <1>1, <1>2, <1>3, <1>4, <1>5, <1>6, HeaderStatement

LEMMA SetInvalidInv ==
  ASSUME IInv, NEW h \in Headers, SetInvalid(h), RefBecomes(h, Absent)
  PROVE  IInv'
<1>1. /\ Constant(Undef) \in Symbolic
      /\ \A w \in Worlds : Constant(Undef)[w] = Undef
  BY ConstantType DEF Constant
<1>2. Absent \in ConcHeader /\ Absent.valid = {}
      /\ Absent.f = Constant(Undef) /\ Absent.g = Constant(Undef)
  BY <1>1 DEF Absent, ConcHeader
<1>3. NewHeader \in Header /\ NewHeader.valid = {}
      /\ NewHeader.f = Constant(Undef) /\ NewHeader.g = Constant(Undef)
  BY <1>1 DEF NewHeader, Header
<1>4. env' = [env EXCEPT !.hdr[h] = NewHeader] /\ UNCHANGED <<path, frames, depth>>
  BY DEF SetInvalid
<1>5. /\ Refines(NewHeader.f, Absent.f, path) /\ Refines(NewHeader.g, Absent.g, path)
      /\ path \subseteq Worlds
  BY <1>2, <1>3, HeaderFacts DEF Refines
<1> QED BY <1>1, <1>2, <1>3, <1>4, <1>5, BecomesInv

LEMMA AssignFieldInv ==
  ASSUME IInv, NEW h \in Headers, NEW r \in Operands, NEW seen \in BOOLEAN,
         AssignField(h, r, seen), RefField(h, r)
  PROVE  IInv'
<1> DEFINE dropped == Dropped(env.hdr[h].valid, seen)
           i == IF dropped THEN env.hdr[h] ELSE [env.hdr[h] EXCEPT !.f = Rhs(r)]
           x == Merge(Written(h), ConcRhs(r), conc.hdr[h].f)
           c == [conc.hdr[h] EXCEPT !.f = x]
<1>1. /\ Rhs(r) \in Symbolic /\ ConcRhs(r) \in Symbolic
      /\ Refines(Rhs(r), ConcRhs(r), path)
  BY RhsType, RhsRefines DEF IInv
<1>2. /\ x \in Symbolic
      /\ \A w \in Worlds : x[w] = IF w \in path /\ w \in conc.hdr[h].valid
                                    THEN ConcRhs(r)[w] ELSE conc.hdr[h].f[w]
  BY <1>1, HeaderFacts, MergeType DEF ConcHeader, Written
<1>3. /\ i \in Header /\ i.valid = env.hdr[h].valid /\ i.g = env.hdr[h].g
      /\ i.f = IF dropped THEN env.hdr[h].f ELSE Rhs(r)
  BY <1>1, HeaderFacts DEF Header
<1>4. /\ c \in ConcHeader /\ c.valid = conc.hdr[h].valid
      /\ c.f = x /\ c.g = conc.hdr[h].g
  BY <1>2, HeaderFacts DEF ConcHeader
<1>5. dropped => env.hdr[h].valid = {}
  BY DEF Dropped
<1>6. env' = [env EXCEPT !.hdr[h] = i] /\ UNCHANGED <<path, frames, depth>>
  <2>1. CASE dropped
    BY <2>1, HeaderKept DEF AssignField, IInv, TypeOK
  <2>2. CASE ~dropped
    BY <2>2 DEF AssignField, IInv, TypeOK, Env, Header
  <2> QED BY <2>1, <2>2
<1>7. conc' = [conc EXCEPT !.hdr[h] = c]
  BY DEF RefField, IInv, TypeOK
<1> HIDE DEF i, c, x, dropped
<1>8. Refines(i.f, c.f, path)
  <2>1. ASSUME NEW w \in path, x[w] # Undef PROVE i.f[w] = x[w]
    <3>1. CASE w \in conc.hdr[h].valid
      BY <3>1, <2>1, <1>1, <1>2, <1>3, <1>5, HeaderFacts DEF Refines
    <3>2. CASE w \notin conc.hdr[h].valid
      BY <3>2, <2>1, <1>2, HeaderFacts
    <3> QED BY <3>1, <3>2
  <2> QED BY <2>1, <1>4 DEF Refines
<1>9. /\ \A w \in Worlds \ path : x[w] = conc.hdr[h].f[w]
      /\ \A w \in Worlds \ c.valid : x[w] = Undef /\ c.g[w] = Undef
  BY <1>2, <1>4, HeaderFacts
<1>10. i.valid \cap path = c.valid \cap path
  BY <1>3, <1>4, HeaderFacts
<1>11. ~StaleWrites => Refines(i.g, c.g, path)
  BY <1>3, <1>4, HeaderFacts
<1> QED BY <1>3, <1>4, <1>6, <1>7, <1>8, <1>9, <1>10, <1>11, HeaderStatement

\* A write to a nested struct that reaches it is a write to its header.
LEMMA AssignNestedInv ==
  ASSUME IInv, NEW h \in Headers, NEW r \in Operands, NEW seen \in BOOLEAN,
         AssignNested(h, r, seen), RefNested(h, ConcRhs(r))
  PROVE  IInv'
<1> DEFINE dropped == Dropped(env.hdr[h].inner, seen)
           i == IF dropped THEN env.hdr[h] ELSE [env.hdr[h] EXCEPT !.g = Rhs(r)]
           x == Merge(Written(h), ConcRhs(r), conc.hdr[h].g)
           c == [conc.hdr[h] EXCEPT !.g = x]
<1>1. /\ Rhs(r) \in Symbolic /\ ConcRhs(r) \in Symbolic
      /\ Refines(Rhs(r), ConcRhs(r), path)
  BY RhsType, RhsRefines DEF IInv
<1>2. /\ x \in Symbolic
      /\ \A w \in Worlds : x[w] = IF w \in path /\ w \in conc.hdr[h].valid
                                    THEN ConcRhs(r)[w] ELSE conc.hdr[h].g[w]
  BY <1>1, HeaderFacts, MergeType DEF ConcHeader, Written
<1>3. /\ i \in Header /\ i.valid = env.hdr[h].valid /\ i.f = env.hdr[h].f
      /\ i.g = IF dropped THEN env.hdr[h].g ELSE Rhs(r)
  BY <1>1, HeaderFacts DEF Header
<1>4. /\ c \in ConcHeader /\ c.valid = conc.hdr[h].valid
      /\ c.g = x /\ c.f = conc.hdr[h].f
  BY <1>2, HeaderFacts DEF ConcHeader
<1>5. ~StaleWrites /\ dropped => env.hdr[h].valid = {}
  BY DEF AssignNested, WriteReaches, Dropped
<1>6. env' = [env EXCEPT !.hdr[h] = i] /\ UNCHANGED <<path, frames, depth>>
  <2>1. CASE dropped
    BY <2>1, HeaderKept DEF AssignNested, IInv, TypeOK
  <2>2. CASE ~dropped
    BY <2>2 DEF AssignNested, IInv, TypeOK, Env, Header
  <2> QED BY <2>1, <2>2
<1>7. conc' = [conc EXCEPT !.hdr[h] = c]
  BY DEF RefNested, IInv, TypeOK
<1> HIDE DEF i, c, x, dropped
<1>8. ~StaleWrites => Refines(i.g, c.g, path)
  <2>1. ASSUME ~StaleWrites, NEW w \in path, x[w] # Undef PROVE i.g[w] = x[w]
    <3>1. CASE w \in conc.hdr[h].valid
      BY <3>1, <2>1, <1>1, <1>2, <1>3, <1>5, HeaderFacts DEF Refines
    <3>2. CASE w \notin conc.hdr[h].valid
      BY <3>2, <2>1, <1>2, HeaderFacts
    <3> QED BY <3>1, <3>2
  <2> QED BY <2>1, <1>4 DEF Refines
<1>9. /\ \A w \in Worlds \ path : x[w] = conc.hdr[h].g[w]
      /\ \A w \in Worlds \ c.valid : x[w] = Undef /\ c.f[w] = Undef
  BY <1>2, <1>4, HeaderFacts
<1>10. i.valid \cap path = c.valid \cap path
  BY <1>3, <1>4, HeaderFacts
<1>11. Refines(i.f, c.f, path)
  BY <1>3, <1>4, HeaderFacts
<1> QED BY <1>3, <1>4, <1>6, <1>7, <1>8, <1>9, <1>10, <1>11, HeaderStatement

LEMMA StructToHeaderInv ==
  ASSUME IInv, NEW h \in Headers, NEW s \in Structs, NEW seen \in BOOLEAN,
         StructToHeader(h, s, seen), RefNested(h, conc.loc[s])
  PROVE  IInv'
<1> DEFINE dropped == Dropped(env.hdr[h].valid, seen)
           i == IF dropped THEN env.hdr[h]
                ELSE [env.hdr[h] EXCEPT !.inner = env.loc[s].valid, !.g = env.loc[s].g]
           x == Merge(Written(h), conc.loc[s], conc.hdr[h].g)
           c == [conc.hdr[h] EXCEPT !.g = x]
<1>1. /\ env.loc[s].g \in Symbolic /\ env.loc[s].valid \in SUBSET Worlds
      /\ conc.loc[s] \in Symbolic
      /\ ~StaleWrites => Refines(env.loc[s].g, conc.loc[s], path)
  BY StructFacts DEF Struct
<1>2. /\ x \in Symbolic
      /\ \A w \in Worlds : x[w] = IF w \in path /\ w \in conc.hdr[h].valid
                                    THEN conc.loc[s][w] ELSE conc.hdr[h].g[w]
  BY <1>1, HeaderFacts, MergeType DEF ConcHeader, Written
<1>3. /\ i \in Header /\ i.valid = env.hdr[h].valid /\ i.f = env.hdr[h].f
      /\ i.g = IF dropped THEN env.hdr[h].g ELSE env.loc[s].g
  BY <1>1, HeaderFacts DEF Header
<1>4. /\ c \in ConcHeader /\ c.valid = conc.hdr[h].valid
      /\ c.g = x /\ c.f = conc.hdr[h].f
  BY <1>2, HeaderFacts DEF ConcHeader
<1>5. dropped => env.hdr[h].valid = {}
  BY DEF Dropped
<1>6. env' = [env EXCEPT !.hdr[h] = i] /\ UNCHANGED <<path, frames, depth>>
  <2>1. env \in Env
    BY DEF IInv, TypeOK
  <2>2. CASE dropped
    BY <2>1, <2>2, HeaderKept DEF StructToHeader
  <2>3. CASE ~dropped
    <3> DEFINE i1 == [env.hdr[h] EXCEPT !.inner = env.loc[s].valid]
               env1 == [env EXCEPT !.hdr[h].inner = env.loc[s].valid]
    <3>1. env.hdr[h] \in Header /\ h \in DOMAIN env.hdr
      BY <2>1 DEF Env
    <3>2. /\ env1.hdr[h] = i1 /\ env1.loc = env.loc
          /\ env1.hdr = [env.hdr EXCEPT ![h] = i1]
      BY <2>1, <3>1 DEF Env
    <3>3. env' = [env1 EXCEPT !.hdr[h] = [i1 EXCEPT !.g = env.loc[s].g]]
      BY <2>1, <2>3, <3>1, <3>2 DEF StructToHeader
    <3>4. [i1 EXCEPT !.g = env.loc[s].g] = i
      BY <2>3, <3>1 DEF Header
    <3>5. [env1 EXCEPT !.hdr[h] = i] = [env EXCEPT !.hdr[h] = i]
      <4> HIDE DEF i, i1
      <4> QED BY <2>1, <3>2 DEF Env
    <3>6. UNCHANGED <<path, frames, depth>>
      BY DEF StructToHeader
    <3> QED BY <3>3, <3>4, <3>5, <3>6
  <2> QED BY <2>2, <2>3
<1>7. conc' = [conc EXCEPT !.hdr[h] = c]
  BY DEF RefNested, IInv, TypeOK
<1> HIDE DEF i, c, x, dropped
<1>8. ~StaleWrites => Refines(i.g, c.g, path)
  <2>1. ASSUME ~StaleWrites, NEW w \in path, x[w] # Undef PROVE i.g[w] = x[w]
    <3>1. CASE w \in conc.hdr[h].valid
      BY <3>1, <2>1, <1>1, <1>2, <1>3, <1>5, HeaderFacts DEF Refines
    <3>2. CASE w \notin conc.hdr[h].valid
      BY <3>2, <2>1, <1>2, HeaderFacts
    <3> QED BY <3>1, <3>2
  <2> QED BY <2>1, <1>4 DEF Refines
<1>9. /\ \A w \in Worlds \ path : x[w] = conc.hdr[h].g[w]
      /\ \A w \in Worlds \ c.valid : x[w] = Undef /\ c.f[w] = Undef
  BY <1>2, <1>4, HeaderFacts
<1>10. i.valid \cap path = c.valid \cap path
  BY <1>3, <1>4, HeaderFacts
<1>11. Refines(i.f, c.f, path)
  BY <1>3, <1>4, HeaderFacts
<1> QED BY <1>3, <1>4, <1>6, <1>7, <1>8, <1>9, <1>10, <1>11, HeaderStatement

\* A struct variable that gets the value x of an expression the interpreter
\* evaluates to g: g agrees with x in path.
LEMMA StructBecomesInv ==
  ASSUME IInv, UNCHANGED <<path, frames, depth>>,
         NEW s \in Structs, NEW i \in Struct, NEW x \in Symbolic,
         env' = [env EXCEPT !.loc[s] = i], RefStruct(s, x),
         ~StaleWrites => Refines(i.g, x, path)
  PROVE  IInv'
<1> DEFINE y == Merge(path, x, conc.loc[s])
<1>1. /\ y \in Symbolic /\ path \subseteq Worlds
      /\ \A w \in Worlds : y[w] = IF w \in path THEN x[w] ELSE conc.loc[s][w]
  BY StructFacts, MergeType
<1>2. conc' = [conc EXCEPT !.loc[s] = y]
  BY DEF RefStruct, IInv, TypeOK
<1> HIDE DEF y
<1>3. (~StaleWrites => Refines(i.g, y, path)) /\ \A w \in Worlds \ path : y[w] = conc.loc[s][w]
  BY <1>1 DEF Refines
<1> QED BY <1>1, <1>2, <1>3, StructStatement

LEMMA AssignStructInv ==
  ASSUME IInv, NEW s \in Structs, NEW r \in Operands, NEW seen \in BOOLEAN,
         AssignStruct(s, r, seen), RefStruct(s, ConcRhs(r))
  PROVE  IInv'
<1> DEFINE dropped == Dropped(env.loc[s].valid, seen)
           i == IF dropped THEN env.loc[s] ELSE [env.loc[s] EXCEPT !.g = Rhs(r)]
<1>1. /\ Rhs(r) \in Symbolic /\ ConcRhs(r) \in Symbolic
      /\ Refines(Rhs(r), ConcRhs(r), path)
  BY RhsType, RhsRefines DEF IInv
<1>2. i \in Struct /\ i.g = IF dropped THEN env.loc[s].g ELSE Rhs(r)
  BY <1>1, StructFacts DEF Struct
<1>3. ~StaleWrites /\ dropped => path = {}
  BY StructFacts DEF AssignStruct, WriteReaches, Dropped
<1>4. env' = [env EXCEPT !.loc[s] = i] /\ UNCHANGED <<path, frames, depth>>
  <2>1. CASE dropped
    <3>1. [env.loc EXCEPT ![s] = env.loc[s]] = env.loc
      BY DEF IInv, TypeOK, Env
    <3>2. [env EXCEPT !.loc[s] = env.loc[s]] = env
      BY <3>1 DEF IInv, TypeOK, Env
    <3> QED BY <2>1, <3>2 DEF AssignStruct
  <2>2. CASE ~dropped
    BY <2>2 DEF AssignStruct, IInv, TypeOK, Env, Struct
  <2> QED BY <2>1, <2>2
<1> HIDE DEF i, dropped
<1>5. ~StaleWrites => Refines(i.g, ConcRhs(r), path)
  BY <1>1, <1>2, <1>3 DEF Refines
<1> QED BY <1>1, <1>2, <1>4, <1>5, StructBecomesInv

LEMMA StructFromHeaderInv ==
  ASSUME IInv, NEW s \in Structs, NEW h \in Headers,
         StructFromHeader(s, h), RefStruct(s, conc.hdr[h].g)
  PROVE  IInv'
<1> DEFINE i == [valid |-> env.hdr[h].inner, g |-> env.hdr[h].g]
<1>1. /\ i \in Struct /\ i.g = env.hdr[h].g /\ conc.hdr[h].g \in Symbolic
      /\ ~StaleWrites => Refines(i.g, conc.hdr[h].g, path)
  BY HeaderFacts DEF Header, ConcHeader, Struct
<1>2. env' = [env EXCEPT !.loc[s] = i] /\ UNCHANGED <<path, frames, depth>>
  BY DEF StructFromHeader
<1> HIDE DEF i
<1> QED BY <1>1, <1>2, StructBecomesInv

LEMMA CopyHeaderInv ==
  ASSUME IInv, NEW h \in Headers, NEW k \in Headers,
         CopyHeader(h, k), RefBecomes(h, conc.hdr[k])
  PROVE  IInv'
<1>1. env' = [env EXCEPT !.hdr[h] = env.hdr[k]] /\ UNCHANGED <<path, frames, depth>>
  BY DEF CopyHeader
<1>2. \A w \in path \ conc.hdr[k].valid : conc.hdr[k].f[w] = Undef /\ conc.hdr[k].g[w] = Undef
  BY HeaderFacts
<1> QED BY <1>1, <1>2, HeaderFacts, BecomesInv

LEMMA SetListInv ==
  ASSUME IInv, NEW h \in Headers, NEW r \in Operands, NEW n \in Operands \cup Structs,
         SetList(h, r, n),
         RefBecomes(h, [valid |-> Worlds, f |-> ConcRhs(r), g |-> ConcNested(n)])
  PROVE  IInv'
<1> DEFINE i == IF n \in Structs
                  THEN [valid |-> Worlds, inner |-> env.loc[n].valid,
                        f |-> Rhs(r), g |-> env.loc[n].g]
                  ELSE [valid |-> Worlds, inner |-> Worlds,
                        f |-> Rhs(r), g |-> Rhs(n)]
           new == [valid |-> Worlds, f |-> ConcRhs(r), g |-> ConcNested(n)]
<1>1. /\ Rhs(r) \in Symbolic /\ ConcRhs(r) \in Symbolic
      /\ Refines(Rhs(r), ConcRhs(r), path)
  BY RhsType, RhsRefines DEF IInv
<1>2. /\ i \in Header /\ new \in ConcHeader
      /\ ~StaleWrites => Refines(i.g, new.g, path)
  <2>1. CASE n \in Structs
    BY <2>1, <1>1, StructFacts DEF ConcNested, Struct, Header, ConcHeader
  <2>2. CASE n \notin Structs
    <3>1. /\ Rhs(n) \in Symbolic /\ ConcRhs(n) \in Symbolic
          /\ Refines(Rhs(n), ConcRhs(n), path)
      BY <2>2, RhsType, RhsRefines DEF IInv
    <3> QED BY <2>2, <3>1, <1>1 DEF ConcNested, Header, ConcHeader
  <2> QED BY <2>1, <2>2
<1>3. i.valid = Worlds /\ i.f = Rhs(r) /\ new.valid = Worlds /\ new.f = ConcRhs(r)
  OBVIOUS
<1>4. env' = [env EXCEPT !.hdr[h] = i] /\ UNCHANGED <<path, frames, depth>>
  BY DEF SetList, Listed
<1>5. RefBecomes(h, new)
  OBVIOUS
<1> HIDE DEF i, new
<1>6. path \ new.valid = {}
  BY <1>3, HeaderFacts
<1> QED BY <1>1, <1>2, <1>3, <1>4, <1>5, <1>6, BecomesInv

-----------------------------------------------------------------------------
(* If statements *)

\* An environment that agrees in more worlds agrees in fewer.
LEMMA AgreesFewer ==
  ASSUME NEW e, NEW S, NEW T \in SUBSET S, AgreesIn(e, S)
  PROVE  AgreesIn(e, T)
BY DEF AgreesIn, Refines

\* The parts of IInv about the frames, after a step that leaves the program alone
\* and the frames below n as they are.
LEMMA FramesChange ==
  ASSUME IInv, conc' = conc, NEW n \in 0 .. MaxDepth, depth' = n,
         NEW p \in SUBSET Worlds, path' = p, NEW e \in Env, env' = e,
         NEW fs \in [1 .. MaxDepth -> Frame], frames' = fs,
         n - 1 <= depth,
         \A d \in 1 .. n - 1 : fs[d] = frames[d],
         \A d \in 1 .. MaxDepth : d > n => fs[d] = NoFrame,
         p = IF n = 0 THEN Worlds ELSE Inside(fs[n]),
         n > 0 => /\ fs[n].kind # "none"
                  /\ AgreesIn(fs[n].vars, Outside(fs[n])),
         n = 1 => fs[n].path = Worlds,
         n > 1 => fs[n].path = Inside(fs[n - 1]),
         AgreesIn(e, p)
  PROVE  IInv'
<1>1. TypeOK'
  BY DEF IInv, TypeOK
<1>2. \A d \in 1 .. n - 1 : d \in 1 .. depth /\ d \in 1 .. n /\ d \in 1 .. MaxDepth
  BY DEF IInv, TypeOK
<1>3. \A d, c \in 1 .. n : d = c + 1 => fs[d].path = Inside(fs[c])
  <2>1. ASSUME NEW d \in 1 .. n, NEW c \in 1 .. n, d = c + 1
        PROVE  fs[d].path = Inside(fs[c])
    <3>1. CASE d = n
      BY <3>1, <2>1
    <3>2. CASE d # n
      <4>1. d \in 1 .. n - 1 /\ c \in 1 .. n - 1
        BY <3>2, <2>1
      <4> QED BY <4>1, <2>1, <1>2 DEF IInv, Nested
    <3> QED BY <3>1, <3>2
  <2> QED BY <2>1
<1>4. \A d, c \in 1 .. n : c < d => fs[d].path \subseteq Inside(fs[c])
  <2>1. ASSUME NEW d \in 1 .. n, NEW c \in 1 .. n, c < d
        PROVE  fs[d].path \subseteq Inside(fs[c])
    <3>1. c \in 1 .. n - 1 /\ fs[c] = frames[c] /\ c \in 1 .. depth
      BY <2>1, <1>2
    <3>2. CASE d # n
      <4>1. d \in 1 .. n - 1
        BY <3>2
      <4> QED BY <4>1, <3>1, <2>1, <1>2 DEF IInv, Nested
    <3>3. CASE d = n /\ c = n - 1
      BY <3>3, <2>1
    <3>4. CASE d = n /\ c # n - 1
      <4>1. n - 1 \in 1 .. n - 1 /\ c < n - 1
        BY <3>1, <3>4
      <4>2. fs[n - 1].path \subseteq Inside(fs[c])
        BY <4>1, <3>1, <1>2 DEF IInv, Nested
      <4>3. Inside(fs[n - 1]) \subseteq fs[n - 1].path
        BY DEF Inside
      <4> QED BY <4>1, <4>2, <4>3, <3>4
    <3> QED BY <3>2, <3>3, <3>4
  <2> QED BY <2>1
<1>5. \A d \in 1 .. n : fs[d].kind # "none"
  BY <1>2 DEF IInv, Nested
<1>6. Nested'
  <2>1. \A d \in 1 .. n : Inside(frames[d])' = Inside(fs[d])
    BY DEF Inside
  <2>2. n # 0 => n \in 1 .. n
    OBVIOUS
  <2>3. path' = IF depth' = 0 THEN Worlds ELSE Inside(frames'[depth'])
    BY <2>1, <2>2 DEF Inside
  <2>4. \A d, c \in 1 .. depth' :
          /\ d = c + 1 => frames'[d].path = Inside(frames'[c])
          /\ c < d => frames'[d].path \subseteq Inside(frames'[c])
    BY <1>3, <1>4
  <2>5. depth' > 0 => frames'[1].path = Worlds
    <3>1. n > 1 => 1 \in 1 .. n - 1 /\ depth > 0
      BY DEF IInv, TypeOK
    <3>2. n > 0 => n = 1 \/ n > 1
      OBVIOUS
    <3> QED BY <3>1, <3>2 DEF IInv, Nested
  <2> QED BY <2>3, <2>4, <2>5, <1>5 DEF Nested, Inside
<1>7. InvalidUndefined'
  BY DEF IInv, InvalidUndefined
<1>8. AgreesIn(env, path)'
  BY DEF AgreesIn, Refines
<1>9. \A d \in 1 .. n : AgreesIn(fs[d].vars, Outside(fs[d]))
  BY <1>2 DEF IInv
<1>10. (\A d \in 1 .. depth : AgreesIn(frames[d].vars, Outside(frames[d])))'
  <2>1. ASSUME NEW d \in 1 .. n
        PROVE  AgreesIn(frames[d].vars, Outside(frames[d]))'
    <3> DEFINE x == fs[d].vars
               S == Outside(fs[d])
    <3>1. AgreesIn(x, S)
      BY <1>9
    <3>2. (frames[d].vars)' = x /\ Outside(frames[d])' = S
      BY DEF Outside, Inside
    <3> HIDE DEF x, S
    <3> QED BY <3>1, <3>2 DEF AgreesIn, Refines
  <2> QED BY <2>1
<1> QED BY <1>1, <1>6, <1>7, <1>8, <1>10 DEF IInv

LEMMA IfThenInv ==
  ASSUME IInv, NEW c \in SUBSET Worlds, IfThen(c), UNCHANGED conc
  PROVE  IInv'
<1> DEFINE n == depth + 1
           f == [kind |-> "then", path |-> path, cond |-> c, vars |-> env]
           fs == [frames EXCEPT ![n] = f]
<1>1. /\ n \in 1 .. MaxDepth /\ depth' = n /\ n - 1 = depth
      /\ path \in SUBSET Worlds /\ env \in Env /\ env' = env /\ frames' = fs
  <2>1. /\ depth \in 0 .. MaxDepth /\ path \in SUBSET Worlds /\ env \in Env
    BY DEF IInv, TypeOK
  <2>2. depth < MaxDepth /\ depth' = n /\ env' = env /\ frames' = fs
    BY DEF IfThen
  <2>3. n \in 1 .. MaxDepth /\ n - 1 = depth
    BY <2>1, <2>2, ConstantsAssumption
  <2> QED BY <2>1, <2>2, <2>3
<1>2. f \in Frame /\ f.kind = "then" /\ f.path = path /\ f.vars = env
      /\ Inside(f) = path \cap c /\ Outside(f) \subseteq path
  BY <1>1 DEF Frame, Inside, Outside
<1>3. /\ fs \in [1 .. MaxDepth -> Frame] /\ fs[n] = f
      /\ \A d \in 1 .. n - 1 : fs[d] = frames[d]
      /\ \A d \in 1 .. MaxDepth : d > n => fs[d] = NoFrame
  BY <1>1, <1>2 DEF IInv, TypeOK
<1>4. path' = path \cap c
  BY DEF IfThen
<1> HIDE DEF f, fs, n
<1>5. AgreesIn(env, path \cap c) /\ AgreesIn(env, Outside(f))
  BY <1>2, AgreesFewer DEF IInv
<1>6. /\ n = 1 => fs[n].path = Worlds
      /\ n > 1 => fs[n].path = Inside(fs[n - 1])
  <2>1. /\ n = 1 => depth = 0
        /\ n > 1 => n - 1 \in 1 .. n - 1 /\ depth # 0
    BY <1>1
  <2>2. /\ depth = 0 => path = Worlds
        /\ depth # 0 => path = Inside(frames[depth])
    BY DEF IInv, Nested
  <2> QED BY <2>1, <2>2, <1>1, <1>2, <1>3
<1>7. n \in 0 .. MaxDepth /\ n # 0 /\ n - 1 <= depth
  BY <1>1
<1>8. path \cap c \in SUBSET Worlds /\ path \cap c = Inside(fs[n])
  BY <1>1, <1>2, <1>3
<1>9. /\ path \cap c = IF n = 0 THEN Worlds ELSE Inside(fs[n])
      /\ fs[n].kind # "none" /\ AgreesIn(fs[n].vars, Outside(fs[n]))
  BY <1>2, <1>3, <1>5, <1>7, <1>8
<1>10. /\ env \in Env /\ depth' = n /\ path' = path \cap c
       /\ env' = env /\ frames' = fs
  BY <1>1, <1>4
<1> QED BY <1>3, <1>5, <1>6, <1>7, <1>8, <1>9, <1>10, FramesChange, ZenonT(30)

LEMMA IfElseInv ==
  ASSUME IInv, IfElse, UNCHANGED conc
  PROVE  IInv'
<1> DEFINE g == frames[depth]
           f == [kind |-> "else", path |-> g.path, cond |-> g.cond, vars |-> env]
           fs == [frames EXCEPT ![depth] = f]
<1>1. /\ depth \in 1 .. MaxDepth /\ depth' = depth /\ g \in Frame /\ g.kind = "then"
      /\ env' = g.vars /\ path' = g.path \ g.cond /\ env \in Env /\ g.vars \in Env
      /\ path = Inside(g) /\ depth \in 1 .. depth
  BY DEF IfElse, IInv, TypeOK, Frame, Nested
<1>2. frames' = fs
  <2> DEFINE fs1 == [frames EXCEPT ![depth].kind = "else", ![depth].vars = env]
  <2>1. frames \in [1 .. MaxDepth -> Frame]
    BY DEF IInv, TypeOK
  <2>2. DOMAIN fs1 = 1 .. MaxDepth /\ \A d \in 1 .. MaxDepth : d # depth => fs1[d] = frames[d]
    BY <1>1, <2>1
  <2>3. fs1[depth] = f
    BY <1>1, <2>1 DEF Frame
  <2>4. fs1 = fs
    BY <1>1, <2>1, <2>2, <2>3
  <2> QED BY <2>4 DEF IfElse
<1>3. /\ f \in Frame /\ f.kind = "else" /\ f.path = g.path /\ f.vars = env
      /\ Inside(f) = g.path \ g.cond /\ Outside(f) = path
      /\ Outside(g) = g.path \ g.cond /\ Inside(f) \in SUBSET Worlds
  BY <1>1 DEF Frame, Inside, Outside
<1>4. /\ fs \in [1 .. MaxDepth -> Frame] /\ fs[depth] = f
      /\ \A d \in 1 .. depth - 1 : fs[d] = frames[d]
      /\ \A d \in 1 .. MaxDepth : d > depth => fs[d] = NoFrame
  BY <1>1, <1>3 DEF IInv, TypeOK
<1>5. AgreesIn(env, Outside(f)) /\ AgreesIn(g.vars, Inside(f))
  BY <1>1, <1>3 DEF IInv
<1>6. /\ depth = 1 => g.path = Worlds
      /\ depth > 1 => g.path = Inside(frames[depth - 1]) /\ depth - 1 \in 1 .. depth - 1
  <2>1. depth > 1 => /\ depth - 1 \in 1 .. depth - 1 /\ depth - 1 \in 1 .. depth
                     /\ depth = (depth - 1) + 1
    BY <1>1
  <2>2. Nested
    BY DEF IInv
  <2>3. depth = 1 => g.path = Worlds
    BY <2>2, <1>1 DEF Nested
  <2>4. depth > 1 => g.path = Inside(frames[depth - 1])
    BY <2>1, <2>2, <1>1 DEF Nested
  <2> QED BY <2>1, <2>3, <2>4
<1> HIDE DEF f, fs, g
<1>7. /\ depth = 1 => fs[depth].path = Worlds
      /\ depth > 1 => fs[depth].path = Inside(fs[depth - 1])
  BY <1>3, <1>4, <1>6
<1>8. depth \in 0 .. MaxDepth /\ depth # 0 /\ depth - 1 <= depth
  BY <1>1
<1> QED BY <1>1, <1>2, <1>3, <1>4, <1>5, <1>7, <1>8, FramesChange, ZenonT(30)

\* The environment after an if statement takes each world from its branch.
LEMMA MergeEnvType ==
  ASSUME NEW a \in Env, NEW b \in Env, NEW c
  PROVE  /\ MergeEnv(c, a, b) \in Env
         /\ \A h \in Headers :
              /\ MergeEnv(c, a, b).hdr[h].valid
                   = (c \cap a.hdr[h].valid) \cup (b.hdr[h].valid \ c)
              /\ \A w \in Worlds :
                   /\ MergeEnv(c, a, b).hdr[h].f[w]
                        = IF w \in c THEN a.hdr[h].f[w] ELSE b.hdr[h].f[w]
                   /\ MergeEnv(c, a, b).hdr[h].g[w]
                        = IF w \in c THEN a.hdr[h].g[w] ELSE b.hdr[h].g[w]
         /\ \A s \in Structs, w \in Worlds :
              MergeEnv(c, a, b).loc[s].g[w]
                = IF w \in c THEN a.loc[s].g[w] ELSE b.loc[s].g[w]
<1>1. ASSUME NEW h \in Headers
      PROVE  LET m == MergeHeader(c, a.hdr[h], b.hdr[h])
             IN  /\ m \in Header
                 /\ m.valid = (c \cap a.hdr[h].valid) \cup (b.hdr[h].valid \ c)
                 /\ \A w \in Worlds :
                      /\ m.f[w] = IF w \in c THEN a.hdr[h].f[w] ELSE b.hdr[h].f[w]
                      /\ m.g[w] = IF w \in c THEN a.hdr[h].g[w] ELSE b.hdr[h].g[w]
  <2> DEFINE x == a.hdr[h]
             y == b.hdr[h]
  <2>1. /\ x.valid \subseteq Worlds /\ y.valid \subseteq Worlds /\ y.inner \subseteq Worlds
        /\ x.f \in Symbolic /\ y.f \in Symbolic /\ x.g \in Symbolic /\ y.g \in Symbolic
    BY DEF Env, Header
  <2> HIDE DEF x, y
  <2>2. /\ Merge(c, x.f, y.f) \in Symbolic /\ Merge(c, x.g, y.g) \in Symbolic
        /\ \A w \in Worlds :
             /\ Merge(c, x.f, y.f)[w] = IF w \in c THEN x.f[w] ELSE y.f[w]
             /\ Merge(c, x.g, y.g)[w] = IF w \in c THEN x.g[w] ELSE y.g[w]
    BY <2>1, MergeType
  <2>3. (c \cap x.valid) \cup (y.valid \ c) \subseteq Worlds
    BY <2>1
  <2>4. LET m == MergeHeader(c, x, y)
        IN  /\ m \in Header
            /\ m.valid = (c \cap x.valid) \cup (y.valid \ c)
            /\ \A w \in Worlds :
                 /\ m.f[w] = IF w \in c THEN x.f[w] ELSE y.f[w]
                 /\ m.g[w] = IF w \in c THEN x.g[w] ELSE y.g[w]
    BY <2>1, <2>2, <2>3 DEF MergeHeader, MergeValid, MergeNested, Header
  <2> QED BY <2>4 DEF x, y
<1>2. ASSUME NEW s \in Structs
      PROVE  LET m == MergeStruct(c, a.loc[s], b.loc[s])
             IN  /\ m \in Struct
                 /\ \A w \in Worlds :
                      m.g[w] = IF w \in c THEN a.loc[s].g[w] ELSE b.loc[s].g[w]
  <2> DEFINE x == a.loc[s]
             y == b.loc[s]
  <2>1. y.valid \subseteq Worlds /\ x.g \in Symbolic /\ y.g \in Symbolic
    BY DEF Env, Struct
  <2> HIDE DEF x, y
  <2>2. /\ Merge(c, x.g, y.g) \in Symbolic
        /\ \A w \in Worlds : Merge(c, x.g, y.g)[w] = IF w \in c THEN x.g[w] ELSE y.g[w]
    BY <2>1, MergeType
  <2>3. LET m == MergeStruct(c, x, y)
        IN  /\ m \in Struct
            /\ \A w \in Worlds : m.g[w] = IF w \in c THEN x.g[w] ELSE y.g[w]
    BY <2>1, <2>2 DEF MergeStruct, MergeNested, Struct
  <2> QED BY <2>3 DEF x, y
<1>3. /\ \A h \in Headers : MergeEnv(c, a, b).hdr[h] = MergeHeader(c, a.hdr[h], b.hdr[h])
      /\ \A s \in Structs : MergeEnv(c, a, b).loc[s] = MergeStruct(c, a.loc[s], b.loc[s])
  BY DEF MergeEnv
<1>4. MergeEnv(c, a, b) \in Env
  BY <1>1, <1>2 DEF MergeEnv, Env
<1> QED BY <1>1, <1>2, <1>3, <1>4

\* What agrees in the worlds of either branch agrees merged.
LEMMA MergeAgrees ==
  ASSUME NEW a \in Env, NEW b \in Env, NEW c, NEW S \in SUBSET Worlds,
         AgreesIn(a, S \cap c), AgreesIn(b, S \ c)
  PROVE  AgreesIn(MergeEnv(c, a, b), S)
<1> DEFINE m == MergeEnv(c, a, b)
<1>1. /\ \A h \in Headers :
           /\ m.hdr[h].valid = (c \cap a.hdr[h].valid) \cup (b.hdr[h].valid \ c)
           /\ \A w \in S :
                /\ m.hdr[h].f[w] = IF w \in c THEN a.hdr[h].f[w] ELSE b.hdr[h].f[w]
                /\ m.hdr[h].g[w] = IF w \in c THEN a.hdr[h].g[w] ELSE b.hdr[h].g[w]
      /\ \A s \in Structs, w \in S :
           m.loc[s].g[w] = IF w \in c THEN a.loc[s].g[w] ELSE b.loc[s].g[w]
  BY MergeEnvType
<1> HIDE DEF m
<1>2. ASSUME NEW h \in Headers
      PROVE  /\ m.hdr[h].valid \cap S = conc.hdr[h].valid \cap S
             /\ Refines(m.hdr[h].f, conc.hdr[h].f, S)
             /\ ~StaleWrites => Refines(m.hdr[h].g, conc.hdr[h].g, S)
  <2>1. /\ a.hdr[h].valid \cap (S \cap c) = conc.hdr[h].valid \cap (S \cap c)
        /\ b.hdr[h].valid \cap (S \ c) = conc.hdr[h].valid \cap (S \ c)
    BY DEF AgreesIn
  <2>2. m.hdr[h].valid \cap S = conc.hdr[h].valid \cap S
    BY <1>1, <2>1
  <2>3. Refines(m.hdr[h].f, conc.hdr[h].f, S)
    BY <1>1 DEF AgreesIn, Refines
  <2>4. ~StaleWrites => Refines(m.hdr[h].g, conc.hdr[h].g, S)
    BY <1>1 DEF AgreesIn, Refines
  <2> QED BY <2>2, <2>3, <2>4
<1>3. ASSUME NEW s \in Structs
      PROVE  ~StaleWrites => Refines(m.loc[s].g, conc.loc[s], S)
  BY <1>1 DEF AgreesIn, Refines
<1>4. AgreesIn(m, S)
  BY <1>2, <1>3 DEF AgreesIn
<1> QED BY <1>4 DEF m

LEMMA IfEndInv ==
  ASSUME IInv, IfEnd, UNCHANGED conc
  PROVE  IInv'
<1> DEFINE g == frames[depth]
           n == depth - 1
           m == MergeEnv(g.cond, g.vars, env)
           fs == [frames EXCEPT ![depth] = NoFrame]
<1>1. /\ depth \in 1 .. MaxDepth /\ depth' = n /\ n \in 0 .. MaxDepth /\ n < depth
      /\ g \in Frame /\ g.kind = "else" /\ g.vars \in Env /\ env \in Env
      /\ env' = m /\ path' = g.path /\ g.path \in SUBSET Worlds /\ frames' = fs
      /\ path = Inside(g) /\ depth \in 1 .. depth
  BY DEF IfEnd, Pop, IInv, TypeOK, Frame, Nested
<1>2. path = g.path \ g.cond /\ Outside(g) = g.path \cap g.cond
  BY <1>1 DEF Inside, Outside
<1>3. AgreesIn(g.vars, g.path \cap g.cond) /\ AgreesIn(env, g.path \ g.cond)
  BY <1>1, <1>2 DEF IInv
<1>4. m \in Env /\ AgreesIn(m, g.path)
  BY <1>1, <1>3, MergeEnvType, MergeAgrees
<1>5. /\ fs \in [1 .. MaxDepth -> Frame]
      /\ \A d \in 1 .. n : fs[d] = frames[d]
      /\ \A d \in 1 .. n - 1 : fs[d] = frames[d]
      /\ \A d \in 1 .. MaxDepth : d > n => fs[d] = NoFrame
  BY <1>1, NewType DEF IInv, TypeOK
<1>6. g.path = IF n = 0 THEN Worlds ELSE Inside(frames[n])
  <2>1. CASE n = 0
    <3>1. depth = 1
      BY <2>1, <1>1
    <3> QED BY <2>1, <3>1 DEF IInv, Nested
  <2>2. CASE n # 0
    BY <2>2, <1>1 DEF IInv, Nested
  <2> QED BY <2>1, <2>2
<1>7. n > 0 => /\ n \in 1 .. n /\ n \in 1 .. depth
               /\ frames[n].kind # "none"
               /\ AgreesIn(frames[n].vars, Outside(frames[n]))
  BY <1>1 DEF IInv, Nested
<1>8. /\ n = 1 => frames[n].path = Worlds
      /\ n > 1 => frames[n].path = Inside(frames[n - 1]) /\ n - 1 \in 1 .. n - 1
  <2>1. /\ n = 1 => depth > 0
        /\ n > 1 => n - 1 \in 1 .. depth /\ n \in 1 .. depth /\ n = (n - 1) + 1
    BY <1>1
  <2> QED BY <2>1, <1>1 DEF IInv, Nested
<1>9. n - 1 <= depth /\ (n # 0 => n > 0)
  BY <1>1
<1> HIDE DEF g, n, m, fs
<1>10. /\ g.path = IF n = 0 THEN Worlds ELSE Inside(fs[n])
       /\ n > 0 => /\ fs[n].kind # "none"
                   /\ AgreesIn(fs[n].vars, Outside(fs[n]))
       /\ n = 1 => fs[n].path = Worlds
       /\ n > 1 => fs[n].path = Inside(fs[n - 1])
  BY <1>5, <1>6, <1>7, <1>8, <1>9
<1> QED BY <1>1, <1>4, <1>5, <1>9, <1>10, FramesChange

-----------------------------------------------------------------------------
(* The invariant *)

\* A symbolic input is a symbolic value.
LEMMA InputType == \A x \in Inputs : x \in Symbolic
BY DEF Symbolic

LEMMA InitInv == RefInit => IInv
<1> SUFFICES ASSUME RefInit PROVE IInv
  OBVIOUS
<1>1. ASSUME NEW h \in Headers
      PROVE  /\ env.hdr[h] \in Header
             /\ conc.hdr[h] = [valid |-> env.hdr[h].valid,
                               f |-> Defined(env.hdr[h].valid, env.hdr[h].f),
                               g |-> Defined(env.hdr[h].valid, env.hdr[h].g)]
  <2>1. PICK es \in [Headers -> {NewHeader} \cup
                       {BoundHeader(valid, f, g) : valid \in SUBSET Worlds,
                                                   f, g \in Inputs}] : env.hdr = es
    BY DEF RefInit, Init
  <2>2. es[h] \in Header
    BY NewType, InputType DEF BoundHeader, Header
  <2> QED BY <2>1, <2>2 DEF RefInit
<1>2. ASSUME NEW s \in Structs
      PROVE  env.loc[s] \in Struct /\ conc.loc[s] = env.loc[s].g
  <2>1. PICK es \in [Structs -> {NewStruct} \cup {BoundStruct(g) : g \in Inputs}] :
          env.loc = es
    BY DEF RefInit, Init
  <2>2. es[s] \in Struct
    BY NewType, InputType DEF BoundStruct, Struct
  <2> QED BY <2>1, <2>2 DEF RefInit
<1>3. /\ env = [hdr |-> env.hdr, loc |-> env.loc]
      /\ env.hdr = [h \in Headers |-> env.hdr[h]] /\ env.loc = [s \in Structs |-> env.loc[s]]
  BY DEF RefInit, Init
<1>4. env \in Env
  <2>1. env.hdr \in [Headers -> Header] /\ env.loc \in [Structs -> Struct]
    BY <1>1, <1>2, <1>3
  <2> QED BY <2>1, <1>3 DEF Env
<1>5. ASSUME NEW h \in Headers
      PROVE  /\ conc.hdr[h] \in ConcHeader
             /\ conc.hdr[h].valid = env.hdr[h].valid
             /\ \A w \in Worlds :
                  /\ conc.hdr[h].f[w] = IF w \in env.hdr[h].valid THEN env.hdr[h].f[w] ELSE Undef
                  /\ conc.hdr[h].g[w] = IF w \in env.hdr[h].valid THEN env.hdr[h].g[w] ELSE Undef
  <2> DEFINE i == env.hdr[h]
  <2>1. i.valid \in SUBSET Worlds /\ i.f \in Symbolic /\ i.g \in Symbolic
    BY <1>1 DEF Header
  <2> HIDE DEF i
  <2>2. /\ Defined(i.valid, i.f) \in Symbolic /\ Defined(i.valid, i.g) \in Symbolic
        /\ \A w \in Worlds :
             /\ Defined(i.valid, i.f)[w] = IF w \in i.valid THEN i.f[w] ELSE Undef
             /\ Defined(i.valid, i.g)[w] = IF w \in i.valid THEN i.g[w] ELSE Undef
    BY <2>1 DEF Defined, Symbolic
  <2>3. conc.hdr[h] = [valid |-> i.valid, f |-> Defined(i.valid, i.f),
                       g |-> Defined(i.valid, i.g)]
    BY <1>1 DEF i
  <2>4. /\ conc.hdr[h] \in ConcHeader
        /\ conc.hdr[h].valid = i.valid
        /\ \A w \in Worlds :
             /\ conc.hdr[h].f[w] = IF w \in i.valid THEN i.f[w] ELSE Undef
             /\ conc.hdr[h].g[w] = IF w \in i.valid THEN i.g[w] ELSE Undef
    BY <2>1, <2>2, <2>3 DEF ConcHeader
  <2> QED BY <2>4 DEF i
<1>6. conc \in [hdr : [Headers -> ConcHeader], loc : [Structs -> Symbolic]]
  <2>1. \A s \in Structs : conc.loc[s] \in Symbolic
    BY <1>2 DEF Struct
  <2>2. /\ conc = [hdr |-> conc.hdr, loc |-> conc.loc]
        /\ conc.hdr = [h \in Headers |-> conc.hdr[h]]
        /\ conc.loc = [s \in Structs |-> conc.loc[s]]
    BY DEF RefInit
  <2>3. conc.hdr \in [Headers -> ConcHeader] /\ conc.loc \in [Structs -> Symbolic]
    BY <1>5, <2>1, <2>2
  <2> QED BY <2>2, <2>3
<1>7. path = Worlds /\ depth = 0 /\ frames = [d \in 1 .. MaxDepth |-> NoFrame]
  BY DEF RefInit, Init
<1>8. TypeOK
  BY <1>4, <1>6, <1>7, NewType DEF TypeOK
<1>9. Nested
  BY <1>7 DEF Nested
<1>10. InvalidUndefined
  BY <1>5 DEF InvalidUndefined
<1>11. AgreesIn(env, path)
  BY <1>2, <1>5, <1>7 DEF AgreesIn, Refines
<1> QED BY <1>7, <1>8, <1>9, <1>10, <1>11 DEF IInv

LEMMA StepInv == IInv /\ [RefNext]_allVars => IInv'
<1> SUFFICES ASSUME IInv, [RefNext]_allVars PROVE IInv'
  OBVIOUS
<1>1. CASE RefStatement
  <2>1. CASE \E h \in Headers : (SetValid(h) /\ RefSetValid(h))
                               \/ (SetInvalid(h) /\ RefBecomes(h, Absent))
    BY <2>1, SetValidInv, SetInvalidInv
  <2>2. CASE \E h \in Headers, r \in Operands, seen \in BOOLEAN :
               (AssignField(h, r, seen) /\ RefField(h, r))
               \/ (AssignNested(h, r, seen) /\ RefNested(h, ConcRhs(r)))
    BY <2>2, AssignFieldInv, AssignNestedInv
  <2>3. CASE \E s \in Structs, r \in Operands, seen \in BOOLEAN :
               AssignStruct(s, r, seen) /\ RefStruct(s, ConcRhs(r))
    BY <2>3, AssignStructInv
  <2>4. CASE \E h, k \in Headers : CopyHeader(h, k) /\ RefBecomes(h, conc.hdr[k])
    BY <2>4, CopyHeaderInv
  <2>5. CASE \E s \in Structs, h \in Headers :
               StructFromHeader(s, h) /\ RefStruct(s, conc.hdr[h].g)
    BY <2>5, StructFromHeaderInv
  <2>6. CASE \E h \in Headers, s \in Structs, seen \in BOOLEAN :
               StructToHeader(h, s, seen) /\ RefNested(h, conc.loc[s])
    BY <2>6, StructToHeaderInv
  <2>7. CASE \E h \in Headers, r \in Operands, n \in Operands \cup Structs :
               SetList(h, r, n)
               /\ RefBecomes(h, [valid |-> Worlds, f |-> ConcRhs(r), g |-> ConcNested(n)])
    BY <2>7, SetListInv
  <2>8. CASE \E c \in SUBSET Worlds : IfThen(c) /\ UNCHANGED conc
    BY <2>8, IfThenInv
  <2> QED BY <1>1, <2>1, <2>2, <2>3, <2>4, <2>5, <2>6, <2>7, <2>8, Zenon DEF RefStatement
<1>2. CASE RefEnd
  BY <1>2, IfElseInv, IfEndInv DEF RefEnd
<1>3. CASE UNCHANGED allVars
  <2>1. UNCHANGED <<env, path, frames, depth, conc>>
    BY <1>3 DEF allVars, vars
  <2>2. TypeOK'
    BY <2>1 DEF IInv, TypeOK
  <2>3. /\ Nested'
        /\ (\A d \in 1 .. depth : AgreesIn(frames[d].vars, Outside(frames[d])))'
    BY <2>1, AsideKept
  <2>4. InvalidUndefined'
    BY <2>1 DEF IInv, InvalidUndefined
  <2>5. AgreesIn(env, path)'
    BY <2>1 DEF IInv, AgreesIn, Refines
  <2> QED BY <2>2, <2>3, <2>4, <2>5 DEF IInv
<1> QED BY <1>1, <1>2, <1>3 DEF RefNext

\* Between two statements the variables agree with the program's in the inputs
\* that reach the statement, and what an open if statement has put aside agrees
\* in those that take its other branch, at every depth.
THEOREM HeaderInv == RefSpec => []IInv
BY InitInv, StepInv, PTL DEF RefSpec

\* Every variable has its type.
THEOREM HeaderTypeOK == RefSpec => []TypeOK
<1>1. IInv => TypeOK
  BY DEF IInv
<1> QED BY <1>1, HeaderInv, PTL

\* isValid returns what it returns in the program, in every input that reaches it.
THEOREM HeaderValidityAgrees == RefSpec => []ValidityAgrees
<1>1. IInv => ValidityAgrees
  BY DEF IInv, AgreesIn, ValidityAgrees
<1> QED BY <1>1, HeaderInv, PTL

\* A field of a header has the value the program has written to it.
THEOREM HeaderFieldsAgree == RefSpec => []FieldsAgree
<1>1. IInv => FieldsAgree
  BY DEF IInv, AgreesIn, FieldsAgree
<1> QED BY <1>1, HeaderInv, PTL

\* So has a field of a nested or copied struct, in programs that do not write one
\* whose validity has gone stale.
THEOREM HeaderNestedAgrees ==
  ASSUME ~StaleWrites PROVE RefSpec => []NestedAgrees
<1>1. IInv => NestedAgrees
  BY DEF IInv, AgreesIn, NestedAgrees
<1> QED BY <1>1, HeaderInv, PTL

\* The comparison gets the constant for an invalid header where the header is
\* invalid, and elsewhere the values of the program.
THEOREM HeaderOutputAgrees ==
  ASSUME ~StaleWrites PROVE RefSpec => []OutputAgrees
<1>1. IInv => OutputAgrees
  <2> SUFFICES ASSUME IInv, NEW h \in Headers
               PROVE  LET i == env.hdr[h]
                          c == conc.hdr[h]
                      IN  /\ Refines(Printed(i.valid, i.f), c.f, path)
                          /\ Refines(Printed(i.valid, i.g), c.g, path)
                          /\ \A w \in path :
                               /\ Printed(i.valid, i.f)[w] = Invalid <=> w \notin c.valid
                               /\ Printed(i.valid, i.g)[w] = Invalid <=> w \notin c.valid
    BY DEF OutputAgrees
  <2> DEFINE i == env.hdr[h]
             c == conc.hdr[h]
  <2>1. /\ path \subseteq Worlds /\ i.f \in Symbolic /\ i.g \in Symbolic
        /\ \A w \in path : w \in i.valid <=> w \in c.valid
        /\ Refines(i.f, c.f, path) /\ Refines(i.g, c.g, path)
        /\ \A w \in Worlds \ c.valid : c.f[w] = Undef /\ c.g[w] = Undef
    BY HeaderFacts DEF Header
  <2> HIDE DEF i, c
  <2>2. \A w \in path :
          /\ Printed(i.valid, i.f)[w] = IF w \in i.valid THEN i.f[w] ELSE Invalid
          /\ Printed(i.valid, i.g)[w] = IF w \in i.valid THEN i.g[w] ELSE Invalid
    BY <2>1 DEF Printed
  <2>3. ASSUME NEW w \in path PROVE i.f[w] # Invalid /\ i.g[w] # Invalid
    <3>1. i.f[w] \in Vals \cup {Undef} /\ i.g[w] \in Vals \cup {Undef}
      BY <2>1 DEF Symbolic
    <3> QED BY <3>1, ConstantsAssumption
  <2>4. Refines(Printed(i.valid, i.f), c.f, path) /\ Refines(Printed(i.valid, i.g), c.g, path)
    <3>1. ASSUME NEW w \in path, c.f[w] # Undef \/ c.g[w] # Undef
          PROVE  w \in i.valid
      BY <2>1, <3>1
    <3>2. Refines(Printed(i.valid, i.f), c.f, path)
      BY <2>1, <2>2, <3>1 DEF Refines
    <3>3. Refines(Printed(i.valid, i.g), c.g, path)
      BY <2>1, <2>2, <3>1 DEF Refines
    <3> QED BY <3>2, <3>3
  <2>5. \A w \in path :
          /\ Printed(i.valid, i.f)[w] = Invalid <=> w \notin c.valid
          /\ Printed(i.valid, i.g)[w] = Invalid <=> w \notin c.valid
    BY <2>1, <2>2, <2>3
  <2> QED BY <2>4, <2>5 DEF i, c
<1> QED BY <1>1, HeaderInv, PTL

\* Comparing two headers gives what it gives in the program, where the program
\* has defined what is compared.
THEOREM HeaderComparisonAgrees ==
  ASSUME ~StaleWrites PROVE RefSpec => []ComparisonAgrees
<1>1. IInv => ComparisonAgrees
  <2> SUFFICES ASSUME IInv, NEW h \in Headers, NEW k \in Headers, NEW w \in path
               PROVE  LET a == conc.hdr[h]
                          b == conc.hdr[k]
                          equal == w \in HeadersEqual(env.hdr[h], env.hdr[k])
                      IN  IF w \in a.valid \cap b.valid
                            THEN {a.f[w], a.g[w], b.f[w], b.g[w]} \subseteq Vals =>
                                   (equal <=> a.f[w] = b.f[w] /\ a.g[w] = b.g[w])
                            ELSE equal <=> w \notin a.valid \cup b.valid
    BY DEF ComparisonAgrees
  <2> DEFINE a == conc.hdr[h]
             b == conc.hdr[k]
             i == env.hdr[h]
             j == env.hdr[k]
  <2>1. /\ w \in Worlds
        /\ w \in i.valid <=> w \in a.valid
        /\ w \in j.valid <=> w \in b.valid
    BY HeaderFacts
  <2>2. /\ a.f[w] # Undef => i.f[w] = a.f[w]
        /\ a.g[w] # Undef => i.g[w] = a.g[w]
        /\ b.f[w] # Undef => j.f[w] = b.f[w]
        /\ b.g[w] # Undef => j.g[w] = b.g[w]
    BY HeaderFacts DEF Refines
  <2> HIDE DEF a, b, i, j
  <2>3. w \in HeadersEqual(i, j) <=>
          \/ w \notin i.valid \cup j.valid
          \/ w \in i.valid \cap j.valid /\ i.f[w] = j.f[w] /\ i.g[w] = j.g[w]
    BY <2>1 DEF HeadersEqual
  <2>4. IF w \in a.valid \cap b.valid
          THEN {a.f[w], a.g[w], b.f[w], b.g[w]} \subseteq Vals =>
                 (w \in HeadersEqual(i, j) <=> a.f[w] = b.f[w] /\ a.g[w] = b.g[w])
          ELSE w \in HeadersEqual(i, j) <=> w \notin a.valid \cup b.valid
    BY <2>1, <2>2, <2>3
  <2> QED BY <2>4 DEF a, b, i, j
<1> QED BY <1>1, HeaderInv, PTL
================================================================================
