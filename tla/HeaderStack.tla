----------------------------- MODULE HeaderStack -----------------------------
(***************************************************************************)
(* Header stacks (common/type_complex.cpp, StackInstance) and what the     *)
(* interpreter makes of hs[i] with an index it does not know: an           *)
(* assignment, a method call or a read touches every element that i may    *)
(* stand for, under the condition that it does.                            *)
(*                                                                         *)
(* As in HeaderValidity a Boolean expression is a set of worlds and a      *)
(* symbolic value a function of the world; an element has one field.  The  *)
(* members nextIndex and lastIndex, which next and last read in parsers,   *)
(* are left out.                                                           *)
(***************************************************************************)
EXTENDS Integers, Sequences, SequencesExt

CONSTANTS
  Worlds,     \* the valuations of the symbolic inputs
  Size,       \* int_size: number of elements
  Vals,       \* the values of the field
  Undef,      \* the constant UNDEF_LABEL stands for
  Input,      \* the symbolic inputs that the elements of a parameter are bound to
  MaxDepth    \* bound: if statements nested in each other

ASSUME StackAssumption ==
  /\ Size \in Nat \ {0} /\ MaxDepth \in Nat
  /\ Undef \notin Vals
  /\ Input \in [0 .. Size - 1 -> [Worlds -> Vals]]

VARIABLES
  stack,   \* the stack hs, a function on its elements
  hdr,     \* a header h of the same type
  path,    \* the worlds the current statement is visited for
  frames   \* the open if statements, outermost first

stackVars == <<stack, hdr, path, frames>>

Elements == 0 .. Size - 1

Constant(x) == [w \in Worlds |-> x]

\* A fresh header, and what setInvalid makes of one.
Absent == [valid |-> {}, f |-> Constant(Undef)]

\* The elements of a parameter have one symbolic validity among them.
Bound(valid) == [k \in Elements |-> [valid |-> valid, f |-> Input[k]]]

\* The stack is declared in the block, or a parameter of the control.
Init ==
  /\ stack \in {[k \in Elements |-> Absent]} \cup {Bound(valid) : valid \in SUBSET Worlds}
  /\ hdr = Absent
  /\ path = Worlds
  /\ frames = <<>>

Merge(c, then, else) == [w \in Worlds |-> IF w \in c THEN then[w] ELSE else[w]]

\* HeaderInstance::merge
MergeHeader(c, then, else) ==
  [valid |-> (c \cap then.valid) \cup (else.valid \ c),
   f |-> Merge(c, then.f, else.f)]

-----------------------------------------------------------------------------
(***************************************************************************)
(* An index is [numeral, at, range]: whether it is a constant, its value   *)
(* in every world, and the number of values of its type, which may be too  *)
(* few to reach all of the elements.                                       *)
(***************************************************************************)

\* Mutant: one element is missed if the index is wide enough.
MaxIdxOff(index) == IF index.range < Size THEN index.range ELSE Size - 1

MaxIdx(index) == IF index.range < Size THEN index.range ELSE Size

\* get_hdr_pairs: the elements an index may stand for, and when it does.
Reached(index) ==
  IF index.numeral THEN {index.at[w] : w \in Worlds} ELSE 0 .. MaxIdx(index) - 1

Cond(index, k) == {w \in Worlds : index.at[w] = k}

\* Mutant: the last element instead of an undefined header.
ReadAtLast(index) ==
  LET hit == {w \in Worlds : index.at[w] \in Reached(index)}
  IN  [valid |-> {w \in hit : w \in stack[index.at[w]].valid} \cup (stack[Size - 1].valid \ hit),
       f |-> [w \in Worlds |->
                IF w \in hit THEN stack[index.at[w]].f[w] ELSE stack[Size - 1].f[w]]]

\* StackInstance::get_member: an undefined header, merged with every element the
\* index may stand for under the condition that it does.
ReadAt(index) ==
  LET hit == {w \in Worlds : index.at[w] \in Reached(index)}
  IN  [valid |-> {w \in hit : w \in stack[index.at[w]].valid},
       f |-> [w \in Worlds |->
                IF w \in hit THEN stack[index.at[w]].f[w] ELSE Undef]]

\* Each of these elements becomes new[k], merged with what it was.
Updated(index, new) ==
  [k \in Elements |->
     IF k \in Reached(index)
       THEN MergeHeader(Worlds \ Cond(index, k), stack[k], new[k])
       ELSE stack[k]]

-----------------------------------------------------------------------------
(* Assignments *)

\* hs[i] = r: set_stack with an expression as its target.
AssignElement(index, r) ==
  /\ stack' = Updated(index, [k \in Elements |-> r])
  /\ UNCHANGED <<hdr, path, frames>>

\* hs[i].f = r: set_stack with a name as its target.  update_member drops a
\* write to an element known to be invalid; seen are those of which Z3 sees it.
AssignField(index, r, seen) ==
  /\ stack' = Updated(index, [k \in Elements |->
       IF k \in seen /\ stack[k].valid = {} THEN stack[k]
       ELSE [stack[k] EXCEPT !.f = r]])
  /\ UNCHANGED <<hdr, path, frames>>

\* h = hs[i]
AssignHeader(index) ==
  /\ hdr' = ReadAt(index)
  /\ UNCHANGED <<stack, path, frames>>

\* h.setValid(); h.f = r;
FillHeader(r) ==
  /\ hdr' = [valid |-> Worlds, f |-> r]
  /\ UNCHANGED <<stack, path, frames>>

-----------------------------------------------------------------------------
(* Method calls: resolve_stack_call *)

SetValidAt(index) ==
  /\ stack' = Updated(index, [k \in Elements |-> [stack[k] EXCEPT !.valid = Worlds]])
  /\ UNCHANGED <<hdr, path, frames>>

SetInvalidAt(index) ==
  /\ stack' = Updated(index, [k \in Elements |-> Absent])
  /\ UNCHANGED <<hdr, path, frames>>

\* push_front and pop_front invalidate the elements at one end; the others stay
\* where they are.
PushFront(n) ==
  /\ stack' = [k \in Elements |-> IF k < n THEN Absent ELSE stack[k]]
  /\ UNCHANGED <<hdr, path, frames>>

LastRange(n) == IF n > Size THEN 0 ELSE Size - n

PopFront(n) ==
  /\ stack' = [k \in Elements |-> IF k >= LastRange(n) THEN Absent ELSE stack[k]]
  /\ UNCHANGED <<hdr, path, frames>>

-----------------------------------------------------------------------------
(* IfStatement: see PathMerge for the whole of it *)

frame == Last(frames)

IfThen(c) ==
  /\ Len(frames) < MaxDepth
  /\ frames' = Append(frames, [kind |-> "then", path |-> path, cond |-> c,
                               stack |-> stack, hdr |-> hdr])
  /\ path' = path \cap c
  /\ UNCHANGED <<stack, hdr>>

\* Mutant: the else branch starts from the stack the then branch has left.
IfElseNotRestored ==
  /\ frames # <<>> /\ frame.kind = "then"
  /\ frames' = [frames EXCEPT ![Len(frames)] =
       [@ EXCEPT !.kind = "else", !.stack = stack, !.hdr = hdr]]
  /\ path' = frame.path \ frame.cond
  /\ UNCHANGED <<stack, hdr>>

IfElse ==
  /\ frames # <<>> /\ frame.kind = "then"
  /\ frames' = [frames EXCEPT ![Len(frames)] =
       [@ EXCEPT !.kind = "else", !.stack = stack, !.hdr = hdr]]
  /\ stack' = frame.stack /\ hdr' = frame.hdr
  /\ path' = frame.path \ frame.cond

\* StructBase::merge for the stack, element by element.
IfEnd ==
  /\ frames # <<>> /\ frame.kind = "else"
  /\ stack' = [k \in Elements |-> MergeHeader(frame.cond, frame.stack[k], stack[k])]
  /\ hdr' = MergeHeader(frame.cond, frame.hdr, hdr)
  /\ path' = frame.path
  /\ frames' = Front(frames)
=============================================================================
