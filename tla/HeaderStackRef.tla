---------------------------- MODULE HeaderStackRef ----------------------------
(***************************************************************************)
(* HeaderStack in lockstep with a P4 interpreter that runs in every world  *)
(* for itself, where an index is a number, and one that is out of range    *)
(* reads an invalid header and writes nothing.                             *)
(***************************************************************************)
EXTENDS HeaderStack

CONSTANTS Indices,    \* the indices of statements
          MaxShift    \* bound: argument of push_front and pop_front

\* A constant index is in range: the compiler rejects others.
ASSUME IndexAssumption ==
  /\ MaxShift \in Nat
  /\ \A i \in Indices :
       /\ i.numeral \in BOOLEAN /\ i.range \in Nat
       /\ IF i.numeral THEN \E k \in Elements : i.at = Constant(k)
                       ELSE i.at \in [Worlds -> 0 .. i.range - 1]

VARIABLE conc    \* for each world, its [stack, hdr]

refVars == <<stackVars, conc>>

None == [valid |-> FALSE, f |-> Undef]

RefInit ==
  /\ Init
  /\ conc = [w \in Worlds |->
       [stack |-> [k \in Elements |->
          IF w \in stack[k].valid THEN [valid |-> TRUE, f |-> stack[k].f[w]] ELSE None],
        hdr |-> None]]

\* The worlds that execute the statement take a step, each with its own values.
Step(new) == conc' = [w \in Worlds |-> IF w \in path THEN new[w] ELSE conc[w]]

At(c, index, w) ==
  IF index.at[w] \in Elements THEN c.stack[index.at[w]] ELSE None

Put(c, index, w, h) ==
  IF index.at[w] \in Elements THEN [c EXCEPT !.stack[index.at[w]] = h] ELSE c

\* Every world writes its h[w].
PutAll(index, h) == [w \in Worlds |-> Put(conc[w], index, w, h[w])]

\* A write to a field of an invalid header has no effect.
WithField(h, val) == IF h.valid THEN [h EXCEPT !.f = val] ELSE h

RefAssignments ==
  \/ \E i \in Indices :
       AssignElement(i, hdr) /\ Step(PutAll(i, [w \in Worlds |-> conc[w].hdr]))
  \/ \E i, j \in Indices :
       /\ AssignElement(i, ReadAt(j))
       /\ Step(PutAll(i, [w \in Worlds |-> At(conc[w], j, w)]))
  \/ \E i \in Indices, val \in Vals, seen \in SUBSET Elements :
       /\ AssignField(i, Constant(val), seen)
       /\ Step(PutAll(i, [w \in Worlds |-> WithField(At(conc[w], i, w), val)]))
  \/ \E i, j \in Indices, seen \in SUBSET Elements :
       /\ AssignField(i, ReadAt(j).f, seen)
       /\ Step(PutAll(i, [w \in Worlds |->
            WithField(At(conc[w], i, w), At(conc[w], j, w).f)]))
  \/ \E i \in Indices :
       /\ AssignHeader(i)
       /\ Step([w \in Worlds |-> [conc[w] EXCEPT !.hdr = At(conc[w], i, w)]])
  \/ \E val \in Vals :
       /\ FillHeader(Constant(val))
       /\ Step([w \in Worlds |-> [conc[w] EXCEPT !.hdr = [valid |-> TRUE, f |-> val]]])

RefValidity ==
  \E i \in Indices :
    \/ /\ SetValidAt(i)
       /\ Step(PutAll(i, [w \in Worlds |-> [At(conc[w], i, w) EXCEPT !.valid = TRUE]]))
    \/ SetInvalidAt(i) /\ Step(PutAll(i, [w \in Worlds |-> None]))

\* By how much an element moves.
Shifted(c, by) ==
  [c EXCEPT !.stack = [k \in Elements |->
     IF k + by \in Elements THEN c.stack[k + by] ELSE None]]

(***************************************************************************)
(* The code does not shift.  Only such programs are checked that use       *)
(* push_front and pop_front to clear the stack, or while it is empty.      *)
(***************************************************************************)
NothingToShift(n) ==
  n >= Size \/ \A w \in path, k \in Elements : ~conc[w].stack[k].valid

RefShifts ==
  \E n \in 1 .. MaxShift :
    /\ NothingToShift(n)
    /\ \/ PushFront(n) /\ Step([w \in Worlds |-> Shifted(conc[w], -n)])
       \/ PopFront(n) /\ Step([w \in Worlds |-> Shifted(conc[w], n)])

RefStatement ==
  \/ RefAssignments \/ RefValidity \/ RefShifts
  \/ \E c \in SUBSET Worlds : IfThen(c) /\ UNCHANGED conc

RefEnd == (IfElse \/ IfEnd) /\ UNCHANGED conc

RefNext == RefStatement \/ RefEnd

RefSpec == RefInit /\ [][RefNext]_refVars

-----------------------------------------------------------------------------

\* A symbolic header is that of the program in a world; a field the program
\* leaves undefined, that of an invalid header included, may be anything.
Agrees(h, c, w) ==
  /\ w \in h.valid <=> c.valid
  /\ c.valid /\ c.f # Undef => h.f[w] = c.f

\* The element an index stands for, and no other one, has been written, set
\* valid or set invalid, for every input that reaches the statement: with an
\* index that is too small for the stack, or out of range, under branches, and
\* whether or not Z3 sees that an element is invalid (common/state.cpp:189,
\* common/expressions.cpp:139).
ElementsAgree ==
  \A w \in path, k \in Elements : Agrees(stack[k], conc[w].stack[k], w)

\* A read at such an index returns the element it stands for
\* (common/type_complex.cpp:550).
ReadsAgree == \A w \in path : Agrees(hdr, conc[w].hdr, w)

-----------------------------------------------------------------------------
(* The inductive invariant *)

Symbolic   == [Worlds -> Vals \cup {Undef}]
Header     == [valid : SUBSET Worlds, f : Symbolic]
Stack      == [Elements -> Header]
Frame      == [kind : {"then", "else"}, path : SUBSET Worlds, cond : SUBSET Worlds,
               stack : Stack, hdr : Header]
ConcHeader == [valid : BOOLEAN, f : Vals \cup {Undef}]

TypeOK ==
  /\ stack \in Stack /\ hdr \in Header
  /\ path \in SUBSET Worlds
  /\ frames \in Seq(Frame) /\ Len(frames) <= MaxDepth
  /\ conc \in [Worlds -> [stack : [Elements -> ConcHeader], hdr : ConcHeader]]

\* The stack s and the header h agree with the program's in the worlds S.
AgreeIn(s, h, S) ==
  \A w \in S : /\ \A k \in Elements : Agrees(s[k], conc[w].stack[k], w)
               /\ Agrees(h, conc[w].hdr, w)

\* The worlds of an open if statement that take the branch being visited, and
\* those that take the other one.
Inside(f)  == IF f.kind = "then" THEN f.path \cap f.cond ELSE f.path \ f.cond
Outside(f) == f.path \ Inside(f)

\* Each if statement is visited for the worlds its parent's branch is for.
Nested ==
  /\ path = IF frames = <<>> THEN Worlds ELSE Inside(frames[Len(frames)])
  /\ frames # <<>> => frames[1].path = Worlds
  /\ \A d, e \in 1 .. Len(frames) :
       /\ d = e + 1 => frames[d].path = Inside(frames[e])
       /\ e < d => frames[d].path \subseteq Inside(frames[e])

\* The program's headers have no fields where they are invalid.
InvalidUndefined ==
  \A w \in Worlds :
    /\ \A k \in Elements : ~conc[w].stack[k].valid => conc[w].stack[k].f = Undef
    /\ ~conc[w].hdr.valid => conc[w].hdr.f = Undef

\* What holds between two statements: every element agrees with the program's in
\* the inputs that reach the statement, and the stack that each open if statement
\* has put aside (clone_vars in the visitor of IfStatement) in those of its other
\* branch.
IInv ==
  /\ TypeOK /\ Nested /\ InvalidUndefined
  /\ AgreeIn(stack, hdr, path)
  /\ \A d \in 1 .. Len(frames) :
       AgreeIn(frames[d].stack, frames[d].hdr, Outside(frames[d]))
=============================================================================
