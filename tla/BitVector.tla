------------------------------ MODULE BitVector ------------------------------
(***************************************************************************)
(* Z3Bitvector (common/type_simple.cpp) and the expressions that are       *)
(* evaluated with it (common/operands.cpp), for one valuation of the       *)
(* symbolic inputs: a bit vector then is a number below 2^w.               *)
(*                                                                         *)
(* An instance has a P4 type and, next to it, the flag is_signed, which    *)
(* decides which operator of Z3 is taken.                                  *)
(*                                                                         *)
(* The operands have one width.  Shifts and operands of infinite precision *)
(* are left out: there the code goes through a pointer to a local variable *)
(* that has gone out of scope.                                             *)
(***************************************************************************)
EXTENDS Integers, Sequences, Bitwise

CONSTANT MaxWidth   \* bound: width of a bit vector

ASSUME WidthAssumption == MaxWidth \in Nat \ {0}

VARIABLE operands   \* the instances of the operands visited, innermost last

BitsType(w, isSigned) == [w |-> w, isSigned |-> isSigned]
BitsTypes == [w : 1 .. MaxWidth, isSigned : BOOLEAN]

\* Booleans are Z3Bitvectors as well.
Bool == [w |-> 0, isSigned |-> FALSE]

Instance(type, val, isSigned) == [type |-> type, val |-> val, is_signed |-> isSigned]

top == operands[Len(operands)]
left == operands[Len(operands) - 1]

Visit(instance) == operands' = Append(operands, instance)

\* The operands are replaced by the result.
Replace(n, instance) ==
  operands' = Append(SubSeq(operands, 1, Len(operands) - n), instance)

-----------------------------------------------------------------------------
(* Bit vectors in Z3 *)

Wrapped(n, w) == n % 2^w

\* The number a bit vector is for the signed operators.
Signed(b, w) == IF b < 2^(w - 1) THEN b ELSE b - 2^w

Extract(b, hi, lo) == (b \div 2^lo) % 2^(hi - lo + 1)

bvadd_no_overflow(a, b, w) == a + b < 2^w
bvadd_no_underflow(a, b, w) == Signed(a, w) + Signed(b, w) >= -(2^(w - 1))
bvsub_no_overflow(a, b, w) == Signed(a, w) - Signed(b, w) < 2^(w - 1)
bvsub_no_underflow(a, b) == a >= b

Sign(n) == IF n < 0 THEN -1 ELSE 1

\* Division of signed numbers rounds towards 0.
bvsdiv(a, b, w) ==
  LET m == Signed(a, w)  n == Signed(b, w) IN
  Wrapped(Sign(m) * Sign(n) * ((Sign(m) * m) \div (Sign(n) * n)), w)

-----------------------------------------------------------------------------
(* Operators *)

\* Mutant: bits are cut off on the left.
CastKeepsHigh(b, size, dest) == IF size > dest THEN Extract(b, size - 1, size - dest) ELSE b

\* pure_bv_cast: zeros are added, or the high bits cut off.
pure_bv_cast(b, size, dest) == IF size > dest THEN Extract(b, dest - 1, 0) ELSE b

Negated(op, x) ==
  [x EXCEPT !.val = CASE op = "-" -> Wrapped(-x.val, x.type.w)
                      [] op = "~" -> 2^x.type.w - 1 - x.val
                      [] op = "!" -> ~x.val]

\* Mutant: a sum is taken for an overflow only if it is one for the signed operator.
AddSatSigned(a, b, w) ==
  IF bvadd_no_underflow(a, b, w) THEN Wrapped(a + b, w) ELSE 2^w - 1

operatorAddSat(a, b, w) ==
  IF bvadd_no_underflow(a, b, w) /\ bvadd_no_overflow(a, b, w)
  THEN Wrapped(a + b, w) ELSE 2^w - 1

operatorSubSat(a, b, w) ==
  IF bvsub_no_underflow(a, b) /\ bvsub_no_overflow(a, b, w)
  THEN Wrapped(a - b, w) ELSE 0

\* The result has the type and the flag of the left operand.
Arithmetic(op, x, y) ==
  LET a == x.val  b == y.val  w == x.type.w IN
  [x EXCEPT !.val =
     CASE op = "+" -> Wrapped(a + b, w)
       [] op = "-" -> Wrapped(a - b, w)
       [] op = "*" -> Wrapped(a * b, w)
       [] op = "/" -> IF x.is_signed THEN bvsdiv(a, b, w) ELSE a \div b
       [] op = "%" -> a % b
       [] op = "|+|" -> operatorAddSat(a, b, w)
       [] op = "|-|" -> operatorSubSat(a, b, w)
       [] op = "&" -> a & b
       [] op = "|" -> a | b
       [] op = "^" -> a ^^ b]

\* The number an operand is compared as: the flag of the left one decides.
Compared(x, y) == IF x.is_signed THEN Signed(y.val, x.type.w) ELSE y.val

Comparison(op, x, y) ==
  LET a == Compared(x, x)  b == Compared(x, y) IN
  Instance(Bool, CASE op = "==" -> x.val = y.val
                   [] op = "!=" -> x.val # y.val
                   [] op = "<" -> a < b
                   [] op = "<=" -> a <= b
                   [] op = ">" -> a > b
                   [] op = ">=" -> a >= b, FALSE)

concat(x, y) ==
  Instance(BitsType(x.type.w + y.type.w, FALSE), x.val * 2^y.type.w + y.val, x.is_signed)

\* Mutant: the width of a slice is off by one.
NarrowSlice(x, hi, lo) ==
  Instance(BitsType(hi - lo, FALSE), Extract(x.val, hi, lo), x.is_signed)

slice(x, hi, lo) ==
  Instance(BitsType(hi - lo + 1, FALSE), Extract(x.val, hi, lo), x.is_signed)

\* The conversion of a bit vector to bool compares it with 0 as a signed one.
cast_allocate(x, dest) ==
  IF dest = x.type THEN x
  ELSE Instance(dest,
         CASE dest = Bool -> Signed(x.val, x.type.w) > 0
           [] x.type = Bool -> IF x.val THEN 1 ELSE 0
           [] OTHER -> pure_bv_cast(x.val, x.type.w, dest.w), FALSE)

\* The place in a variable of a slice, or of a slice of a slice, of it: the slice
\* that is taken last comes first.
Place(slices) ==
  IF Len(slices) = 1 THEN slices[1]
  ELSE [hi |-> slices[1].hi + slices[2].lo, lo |-> slices[1].lo + slices[2].lo]

\* compute_slice: what a variable becomes that y is assigned to a slice of.
compute_slice(x, y, slices) ==
  LET p == Place(slices)
      high == (x.val \div 2^(p.hi + 1)) * 2^(p.hi + 1)
      low == x.val % 2^p.lo
  IN  IF p.hi = x.type.w - 1 /\ p.lo = 0 THEN y.val
      ELSE high + pure_bv_cast(y.val, y.type.w, p.hi + 1 - p.lo) * 2^p.lo + low

\* Z3Bitvector::merge: the flag of the instance that is merged into stays.
merged(x, cond, then) == [x EXCEPT !.val = IF cond THEN then.val ELSE x.val]

-----------------------------------------------------------------------------
(* Expressions *)

Init == operands = <<>>

\* gen_instance makes the symbolic inputs, and says nothing of their sign.
Input(type, n) == Visit(Instance(type, Wrapped(n, type.w), FALSE))

Constant(type, n) == Visit(Instance(type, Wrapped(n, type.w), type.isSigned))

BoolInput(b) == Visit(Instance(Bool, b, FALSE))

Unary(op) == Replace(1, Negated(op, top))

Binary(op) == Replace(2, Arithmetic(op, left, top))

Compare(op) == Replace(2, Comparison(op, left, top))

Concat == Replace(2, concat(left, top))

Slice(hi, lo) == Replace(1, slice(top, hi, lo))

\* A cast, or the assignment to a variable of that type.
Cast(dest) == Replace(1, cast_allocate(top, dest))

\* The values that a variable has at the end of two paths, or the arms of ?:.
Merge(cond) == Replace(2, merged(left, cond, top))

\* A variable and the value of one of its slices become the variable's new value.
AssignSlice(slices) ==
  Replace(2, Instance(BitsType(left.type.w, FALSE), compute_slice(left, top, slices),
                      top.is_signed))
=============================================================================
