--------------------------- MODULE HeaderValidityRef ---------------------------
(***************************************************************************)
(* HeaderValidity in lockstep with a P4 interpreter that runs in every     *)
(* world for itself.  There a nested struct has no validity of its own,    *)
(* the fields of an invalid header are undefined, and a write to them has  *)
(* no effect.  Only the worlds in path execute the statement visited.      *)
(***************************************************************************)
EXTENDS HeaderValidity

VARIABLE conc    \* the variables of the interpreter, in every world

allVars == <<vars, conc>>

ConcHeader == [valid : SUBSET Worlds, f : Symbolic, g : Symbolic]

Absent == [valid |-> {}, f |-> Constant(Undef), g |-> Constant(Undef)]

\* The fields of a header that is valid in the worlds V only.
Defined(V, x) == [w \in Worlds |-> IF w \in V THEN x[w] ELSE Undef]

RefInit ==
  /\ Init
  /\ conc = [hdr |-> [h \in Headers |->
                LET i == env.hdr[h]
                IN  [valid |-> i.valid,
                     f |-> Defined(i.valid, i.f), g |-> Defined(i.valid, i.g)]],
             loc |-> [s \in Structs |-> env.loc[s].g]]

\* A header that becomes new in the worlds of path, and stays old elsewhere.
Becomes(new, old) ==
  [valid |-> (path \cap new.valid) \cup (old.valid \ path),
   f |-> Merge(path, new.f, old.f), g |-> Merge(path, new.g, old.g)]

ConcRhs(r) == IF r \in Headers THEN conc.hdr[r].f ELSE Constant(r)

ConcNested(n) == IF n \in Structs THEN conc.loc[n] ELSE ConcRhs(n)

\* The worlds that execute a write to a field of h.
Written(h) == path \cap conc.hdr[h].valid

RefSetValid(h) == conc' = [conc EXCEPT !.hdr[h].valid = @ \cup path]

RefBecomes(h, new) == conc' = [conc EXCEPT !.hdr[h] = Becomes(new, @)]

RefField(h, r) ==
  conc' = [conc EXCEPT !.hdr[h].f = Merge(Written(h), ConcRhs(r), @)]

RefNested(h, x) == conc' = [conc EXCEPT !.hdr[h].g = Merge(Written(h), x, @)]

RefStruct(s, x) == conc' = [conc EXCEPT !.loc[s] = Merge(path, x, @)]

RefStatement ==
  \/ \E h \in Headers : \/ SetValid(h) /\ RefSetValid(h)
                        \/ SetInvalid(h) /\ RefBecomes(h, Absent)
  \/ \E h \in Headers, r \in Operands, seen \in BOOLEAN :
       \/ AssignField(h, r, seen) /\ RefField(h, r)
       \/ AssignNested(h, r, seen) /\ RefNested(h, ConcRhs(r))
  \/ \E s \in Structs, r \in Operands, seen \in BOOLEAN :
       AssignStruct(s, r, seen) /\ RefStruct(s, ConcRhs(r))
  \/ \E h, k \in Headers : CopyHeader(h, k) /\ RefBecomes(h, conc.hdr[k])
  \/ \E s \in Structs, h \in Headers :
       StructFromHeader(s, h) /\ RefStruct(s, conc.hdr[h].g)
  \/ \E h \in Headers, s \in Structs, seen \in BOOLEAN :
       StructToHeader(h, s, seen) /\ RefNested(h, conc.loc[s])
  \/ \E h \in Headers, r \in Operands, n \in Operands \cup Structs :
       /\ SetList(h, r, n)
       /\ RefBecomes(h, [valid |-> Worlds, f |-> ConcRhs(r), g |-> ConcNested(n)])
  \/ \E c \in SUBSET Worlds : IfThen(c) /\ UNCHANGED conc

RefEnd == (IfElse \/ IfEnd) /\ UNCHANGED conc

RefNext == RefStatement \/ RefEnd

RefSpec == RefInit /\ [][RefNext]_allVars

-----------------------------------------------------------------------------
(* Properties *)

\* Every variable has its type, and the frames above the top are unused.
TypeOK ==
  /\ env \in Env
  /\ path \in SUBSET Worlds
  /\ frames \in [1 .. MaxDepth -> Frame]
  /\ depth \in 0 .. MaxDepth
  /\ \A d \in 1 .. MaxDepth : d > depth => frames[d] = NoFrame
  /\ conc \in [hdr : [Headers -> ConcHeader], loc : [Structs -> Symbolic]]

\* x is y wherever the program has defined y; an undefined value may be any.
Refines(x, y, S) == \A w \in S : y[w] # Undef => x[w] = y[w]

\* In every input that reaches the current statement, the validity computed for
\* a header (what isValid returns) is that of the program's header.
ValidityAgrees ==
  \A h \in Headers : env.hdr[h].valid \cap path = conc.hdr[h].valid \cap path

\* A field of a header has the value the program has written, although a write
\* is dropped when the header is known to be invalid and takes effect in the
\* inputs where it is invalid when that is not known.
FieldsAgree == \A h \in Headers : Refines(env.hdr[h].f, conc.hdr[h].f, path)

\* So has a field of a struct nested in a header, or copied from one: "assignments
\* where we clearly know the header is invalid are invalid" (type_complex.cpp:193),
\* and no others are.
NestedAgrees ==
  /\ \A h \in Headers : Refines(env.hdr[h].g, conc.hdr[h].g, path)
  /\ \A s \in Structs : Refines(env.loc[s].g, conc.loc[s], path)

\* What get_z3_vars hands to the comparison: the constant for an invalid header
\* just where the header is invalid, also for the nested field, whose struct's
\* own validity need not be the header's.
OutputAgrees ==
  \A h \in Headers :
    LET i == env.hdr[h]
        c == conc.hdr[h]
    IN  /\ Refines(Printed(i.valid, i.f), c.f, path)
        /\ Refines(Printed(i.valid, i.g), c.g, path)
        /\ \A w \in path :
             /\ Printed(i.valid, i.f)[w] = Invalid <=> w \notin c.valid
             /\ Printed(i.valid, i.g)[w] = Invalid <=> w \notin c.valid

\* Comparing two headers gives what it gives in the program, wherever the
\* program has defined the fields it compares.
ComparisonAgrees ==
  \A h, k \in Headers : \A w \in path :
    LET a == conc.hdr[h]
        b == conc.hdr[k]
        equal == w \in HeadersEqual(env.hdr[h], env.hdr[k])
    IN  IF w \in a.valid \cap b.valid
          THEN {a.f[w], a.g[w], b.f[w], b.g[w]} \subseteq Vals =>
                 (equal <=> a.f[w] = b.f[w] /\ a.g[w] = b.g[w])
          ELSE equal <=> w \notin a.valid \cup b.valid

-----------------------------------------------------------------------------
(* The inductive invariant *)

\* The variables e agree with the program's in the worlds S.
AgreesIn(e, S) ==
  /\ \A h \in Headers :
       /\ e.hdr[h].valid \cap S = conc.hdr[h].valid \cap S
       /\ Refines(e.hdr[h].f, conc.hdr[h].f, S)
  /\ ~StaleWrites =>
       /\ \A h \in Headers : Refines(e.hdr[h].g, conc.hdr[h].g, S)
       /\ \A s \in Structs : Refines(e.loc[s].g, conc.loc[s], S)

\* The worlds of an open if statement that take the branch being visited, and
\* those that take the other one.
Inside(f)  == IF f.kind = "then" THEN f.path \cap f.cond ELSE f.path \ f.cond
Outside(f) == f.path \ Inside(f)

\* Each if statement is visited for the worlds its parent's branch is for.
Nested ==
  /\ path = IF depth = 0 THEN Worlds ELSE Inside(top)
  /\ \A d \in 1 .. depth : frames[d].kind # "none"
  /\ depth > 0 => frames[1].path = Worlds
  /\ \A d, e \in 1 .. depth :
       /\ d = e + 1 => frames[d].path = Inside(frames[e])
       /\ e < d => frames[d].path \subseteq Inside(frames[e])

\* The program's headers have no fields where they are invalid.
InvalidUndefined ==
  \A h \in Headers : \A w \in Worlds \ conc.hdr[h].valid :
    conc.hdr[h].f[w] = Undef /\ conc.hdr[h].g[w] = Undef

\* What holds between two statements: the variables agree with the program's in
\* the inputs that reach the statement, and what each open if statement has put
\* aside (clone_vars in the visitor of IfStatement) agrees in those of its other branch.
IInv ==
  /\ TypeOK /\ Nested /\ InvalidUndefined
  /\ AgreesIn(env, path)
  /\ \A d \in 1 .. depth : AgreesIn(frames[d].vars, Outside(frames[d]))
=============================================================================
