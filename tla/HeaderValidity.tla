---------------------------- MODULE HeaderValidity ----------------------------
(***************************************************************************)
(* Headers, the structs nested in them and struct variables                *)
(* (common/type_complex.cpp) under the if statements of the symbolic       *)
(* interpreter.  As in PathMerge a Boolean expression is the set of the    *)
(* worlds in which it is true and a symbolic value is a function of the    *)
(* world.                                                                  *)
(*                                                                         *)
(* StructBase, the base of all of them, has a member valid.  That of a     *)
(* struct nested in a header is another expression than its header's: it   *)
(* is set along with it by propagate_validity only.                        *)
(***************************************************************************)
EXTENDS Naturals

CONSTANTS
  Worlds,       \* the valuations of the symbolic inputs
  Headers,      \* variables of a header type: a field f, and a struct of one field g
  Structs,      \* variables of the type of that struct
  Vals,         \* the values of a field
  Inputs,       \* the symbolic inputs a field of a parameter may be bound to
  Undef,        \* the constant UNDEF_LABEL stands for
  Invalid,      \* the constant INVALID_LABEL stands for
  MaxDepth,     \* bound: if statements nested in each other
  StaleWrites   \* BOOLEAN: see WriteReaches

ASSUME ConstantsAssumption ==
  /\ Vals # {} /\ Inputs \subseteq [Worlds -> Vals]
  /\ Undef \notin Vals /\ Invalid \notin Vals \cup {Undef}
  /\ Headers \cap Vals = {} /\ Structs \cap (Headers \cup Vals) = {}
  /\ MaxDepth \in Nat
  /\ StaleWrites \in BOOLEAN

Symbolic == [Worlds -> Vals \cup {Undef}]

\* inner is the member valid of the nested struct.
Header == [valid : SUBSET Worlds, inner : SUBSET Worlds,
           f : Symbolic, g : Symbolic]
Struct == [valid : SUBSET Worlds, g : Symbolic]
Env    == [hdr : [Headers -> Header], loc : [Structs -> Struct]]

VARIABLES
  env,     \* the instances the variables are bound to
  path,    \* the worlds the current statement is visited for
  frames,  \* the open if statements, outermost first
  depth    \* how many are open

vars == <<env, path, frames, depth>>

Frame == [kind : {"none", "then", "else"}, path : SUBSET Worlds,
          cond : SUBSET Worlds, vars : Env]

Constant(x) == [w \in Worlds |-> x]

\* A variable declared in the block: HeaderInstance's constructor, and
\* StructBase's followed by set_undefined.
NewHeader == [valid |-> {}, inner |-> {},
              f |-> Constant(Undef), g |-> Constant(Undef)]
NewStruct == [valid |-> Worlds, g |-> Constant(Undef)]

\* A parameter: bind and propagate_validity with a symbolic validity.
BoundHeader(valid, f, g) ==
  [valid |-> valid, inner |-> valid, f |-> f, g |-> g]
BoundStruct(g) == [valid |-> Worlds, g |-> g]

NoFrame == [kind |-> "none", path |-> {}, cond |-> {},
            vars |-> [hdr |-> [h \in Headers |-> NewHeader],
                      loc |-> [s \in Structs |-> NewStruct]]]

Init ==
  /\ env \in [hdr : [Headers -> {NewHeader} \cup
                       {BoundHeader(valid, f, g) : valid \in SUBSET Worlds,
                                                   f, g \in Inputs}],
              loc : [Structs -> {NewStruct} \cup {BoundStruct(g) : g \in Inputs}]]
  /\ path = Worlds
  /\ frames = [d \in 1 .. MaxDepth |-> NoFrame]
  /\ depth = 0

top == frames[depth]

-----------------------------------------------------------------------------
(* Validity *)

SetValid(h) ==
  /\ env' = [env EXCEPT !.hdr[h].valid = Worlds, !.hdr[h].inner = Worlds]
  /\ UNCHANGED <<path, frames, depth>>

\* set_valid, propagate_validity and set_undefined: a fresh header again.
SetInvalid(h) ==
  /\ env' = [env EXCEPT !.hdr[h] = NewHeader]
  /\ UNCHANGED <<path, frames, depth>>

-----------------------------------------------------------------------------
(* Assignments *)

\* Mutant: a write to a header that may be invalid is dropped.
DroppedIfUnsure(valid, seen) == seen /\ valid # Worlds

(***************************************************************************)
(* update_member drops a write when valid simplifies to false.  Z3 need    *)
(* not see that an unsatisfiable expression is false: seen is whether it   *)
(* does.                                                                   *)
(***************************************************************************)
Dropped(valid, seen) == seen /\ valid = {}

(***************************************************************************)
(* The code writes a nested or copied struct by its own validity, which    *)
(* may differ from that of its header (where it is nested) or from true    *)
(* (in a struct variable): neither merge nor a copy adjusts it.            *)
(* StaleWrites = FALSE leaves the programs out that write such a struct.   *)
(***************************************************************************)
WriteReaches(valid, own) == StaleWrites \/ own = valid

\* The right-hand side: a constant, or the field f of a header.
Operands == Vals \cup Headers

Rhs(r) == IF r \in Headers THEN env.hdr[r].f ELSE Constant(r)

AssignField(h, r, seen) ==
  /\ env' = IF Dropped(env.hdr[h].valid, seen) THEN env
            ELSE [env EXCEPT !.hdr[h].f = Rhs(r)]
  /\ UNCHANGED <<path, frames, depth>>

AssignNested(h, r, seen) ==
  /\ WriteReaches(env.hdr[h].valid, env.hdr[h].inner)
  /\ env' = IF Dropped(env.hdr[h].inner, seen) THEN env
            ELSE [env EXCEPT !.hdr[h].g = Rhs(r)]
  /\ UNCHANGED <<path, frames, depth>>

AssignStruct(s, r, seen) ==
  /\ WriteReaches(Worlds, env.loc[s].valid)
  /\ env' = IF Dropped(env.loc[s].valid, seen) THEN env
            ELSE [env EXCEPT !.loc[s].g = Rhs(r)]
  /\ UNCHANGED <<path, frames, depth>>

\* h = k, where k is a header.
CopyHeader(h, k) ==
  /\ env' = [env EXCEPT !.hdr[h] = env.hdr[k]]
  /\ UNCHANGED <<path, frames, depth>>

\* s = h.s: the copy keeps the validity the struct had in the header.
StructFromHeader(s, h) ==
  /\ env' = [env EXCEPT !.loc[s] =
               [valid |-> env.hdr[h].inner, g |-> env.hdr[h].g]]
  /\ UNCHANGED <<path, frames, depth>>

\* h.s = s: the nested struct becomes a copy of s, with the validity of s.
StructToHeader(h, s, seen) ==
  /\ env' = IF Dropped(env.hdr[h].valid, seen) THEN env
            ELSE [env EXCEPT !.hdr[h].inner = env.loc[s].valid,
                             !.hdr[h].g = env.loc[s].g]
  /\ UNCHANGED <<path, frames, depth>>

\* The members set from the list {r, {n}} or {r, n} under a validity that has been
\* propagated to them; n, a struct variable, brings its own along.
Listed(valid, r, n) ==
  IF n \in Structs
    THEN [valid |-> valid, inner |-> env.loc[n].valid,
          f |-> Rhs(r), g |-> env.loc[n].g]
    ELSE [valid |-> valid, inner |-> valid, f |-> Rhs(r), g |-> Rhs(n)]

\* h = {r, {n}} or h = {r, n}: the header becomes valid, whatever the list says.
SetList(h, r, n) ==
  /\ env' = [env EXCEPT !.hdr[h] = Listed(Worlds, r, n)]
  /\ UNCHANGED <<path, frames, depth>>

-----------------------------------------------------------------------------
(* IfStatement: see PathMerge for the whole of it *)

Merge(c, then, else) == [w \in Worlds |-> IF w \in c THEN then[w] ELSE else[w]]

\* Mutant: StructBase::merge for a header, which leaves its validity alone.
MergeValidKept(c, then, else) == else

\* The validity HeaderInstance::merge computes.
MergeValid(c, then, else) == (c \cap then) \cup (else \ c)

\* Mutant: the members of a nested struct not merged.
MergeNestedKept(c, then, else) == else

\* StructBase::merge of a struct: its members, but not its validity.
MergeNested(c, then, else) == Merge(c, then, else)

MergeHeader(c, then, else) ==
  [valid |-> MergeValid(c, then.valid, else.valid),
   inner |-> else.inner,
   f |-> Merge(c, then.f, else.f),
   g |-> MergeNested(c, then.g, else.g)]

MergeStruct(c, then, else) ==
  [valid |-> else.valid, g |-> MergeNested(c, then.g, else.g)]

MergeEnv(c, then, else) ==
  [hdr |-> [h \in Headers |-> MergeHeader(c, then.hdr[h], else.hdr[h])],
   loc |-> [s \in Structs |-> MergeStruct(c, then.loc[s], else.loc[s])]]

\* Mutant: the locals of the if statement outlive it.
PopKeepsFrame ==
  /\ depth' = depth - 1
  /\ UNCHANGED frames

Pop ==
  /\ depth' = depth - 1
  /\ frames' = [frames EXCEPT ![depth] = NoFrame]

IfThen(c) ==
  /\ depth < MaxDepth
  /\ depth' = depth + 1
  /\ frames' = [frames EXCEPT ![depth + 1] =
                  [kind |-> "then", path |-> path, cond |-> c, vars |-> env]]
  /\ path' = path \cap c
  /\ UNCHANGED env

\* Mutant: the else branch starts from what the then branch has left.
IfElseNotRestored ==
  /\ depth > 0 /\ top.kind = "then"
  /\ frames' = [frames EXCEPT ![depth].kind = "else", ![depth].vars = env]
  /\ path' = top.path \ top.cond
  /\ UNCHANGED <<env, depth>>

IfElse ==
  /\ depth > 0 /\ top.kind = "then"
  /\ frames' = [frames EXCEPT ![depth].kind = "else", ![depth].vars = env]
  /\ env' = top.vars
  /\ path' = top.path \ top.cond
  /\ UNCHANGED depth

IfEnd ==
  /\ depth > 0 /\ top.kind = "else"
  /\ env' = MergeEnv(top.cond, top.vars, env)
  /\ path' = top.path
  /\ Pop

-----------------------------------------------------------------------------
(* What the code computes from headers *)

\* Mutant: StructBase::operator==, which compares the members only.
HeadersEqualMembers(a, b) == {w \in Worlds : a.f[w] = b.f[w] /\ a.g[w] = b.g[w]}

\* HeaderInstance::operator==.
HeadersEqual(a, b) ==
  {w \in Worlds : \/ w \notin a.valid \cup b.valid
                  \/ w \in a.valid \cap b.valid /\ a.f[w] = b.f[w] /\ a.g[w] = b.g[w]}

\* Mutant: the members printed whatever the validity.
PrintedAlways(valid, x) == x

\* get_z3_vars of a member: of a nested struct's too, with the header's validity.
Printed(valid, x) == [w \in Worlds |-> IF w \in valid THEN x[w] ELSE Invalid]

-----------------------------------------------------------------------------

Next ==
  \/ \E h \in Headers : SetValid(h) \/ SetInvalid(h)
  \/ \E h \in Headers, r \in Operands, seen \in BOOLEAN :
       AssignField(h, r, seen) \/ AssignNested(h, r, seen)
  \/ \E s \in Structs, r \in Operands, seen \in BOOLEAN : AssignStruct(s, r, seen)
  \/ \E h, k \in Headers : CopyHeader(h, k)
  \/ \E s \in Structs, h \in Headers : StructFromHeader(s, h)
  \/ \E h \in Headers, s \in Structs, seen \in BOOLEAN : StructToHeader(h, s, seen)
  \/ \E h \in Headers, r \in Operands, n \in Operands \cup Structs :
       SetList(h, r, n)
  \/ \E c \in SUBSET Worlds : IfThen(c)
  \/ IfElse
  \/ IfEnd

Spec == Init /\ [][Next]_vars
=============================================================================
