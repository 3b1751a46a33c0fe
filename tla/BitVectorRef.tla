----------------------------- MODULE BitVectorRef -----------------------------
(***************************************************************************)
(* Bit vectors next to the integers that they stand for: every operand has *)
(* its P4 type and the integer that P4-16 gives it, which never sees a     *)
(* bit.  Bits and integers are related by a single property.               *)
(*                                                                         *)
(* Where ToZ3 is known to compute something else, an operation is left out *)
(* unless Deviations names it.                                             *)
(***************************************************************************)
EXTENDS BitVector, FiniteSetsExt

CONSTANT Deviations

ASSUME DeviationsAssumption ==
  Deviations \subseteq {"sign", "extend", "saturate", "bool"}

VARIABLE numbers   \* the types and the integers of the operands

vars == <<operands, numbers>>

Lowest(type) == IF type.isSigned THEN -(2^(type.w - 1)) ELSE 0
Highest(type) == IF type.isSigned THEN 2^(type.w - 1) - 1 ELSE 2^type.w - 1
Values(type) == IF type = Bool THEN BOOLEAN ELSE Lowest(type) .. Highest(type)

Number(type, n) == [type |-> type, n |-> n]

\* The value of the type that is n modulo 2^w, and the nearest one to n.
Fit(type, n) == ((n - Lowest(type)) % 2^type.w) + Lowest(type)
Clamp(type, n) == IF n < Lowest(type) THEN Lowest(type)
                  ELSE IF n > Highest(type) THEN Highest(type) ELSE n

last == numbers[Len(numbers)]
first == numbers[Len(numbers) - 1]

Put(n, number) == numbers' = Append(SubSeq(numbers, 1, Len(numbers) - n), number)

\* The P4 rules for operands.
OneBits == Len(numbers) >= 1 /\ last.type # Bool
TwoAlike == Len(numbers) >= 2 /\ first.type = last.type
TwoBits == TwoAlike /\ last.type # Bool

Allowed(deviation, differs) == differs => deviation \in Deviations

-----------------------------------------------------------------------------
(* What P4 computes *)

Bit(n, i) == (n \div 2^i) % 2
BitNumber(type, f) ==
  Fit(type, MapThenSumSet(LAMBDA i : f[i] * 2^i, 0 .. type.w - 1))

Bitwise2(type, op, a, b) ==
  BitNumber(type, [i \in 0 .. type.w - 1 |->
     LET ones == Bit(a, i) + Bit(b, i) IN
     CASE op = "&" -> IF ones = 2 THEN 1 ELSE 0
       [] op = "|" -> IF ones > 0 THEN 1 ELSE 0
       [] op = "^" -> IF ones = 1 THEN 1 ELSE 0])

Meaning(type, op, a, b) ==
  CASE op = "+" -> Fit(type, a + b)
    [] op = "-" -> Fit(type, a - b)
    [] op = "*" -> Fit(type, a * b)
    [] op = "/" -> a \div b
    [] op = "%" -> a - b * (a \div b)
    [] op = "|+|" -> Clamp(type, a + b)
    [] op = "|-|" -> Clamp(type, a - b)
    [] OTHER -> Bitwise2(type, op, a, b)

Ordered(op, a, b) ==
  CASE op = "<" -> a < b
    [] op = "<=" -> a <= b
    [] op = ">" -> b < a
    [] op = ">=" -> b <= a

Part(n, hi, lo) == (n \div 2^lo) % 2^(hi - lo + 1)

\* n with the bits from lo to hi replaced by y.
Patched(n, hi, lo, y) == n + (y - Part(n, hi, lo)) * 2^lo

\* P4 converts between types of one sign or of one width.
Castable(from, to) ==
  \/ /\ from # Bool /\ to # Bool
     /\ from.w = to.w \/ from.isSigned = to.isSigned
  \/ {from, to} = {Bool, BitsType(1, FALSE)}
  \/ from = to

Converted(from, to, n) ==
  IF from = to THEN n
  ELSE IF to = Bool THEN n = 1
  ELSE IF from = Bool THEN (IF n THEN 1 ELSE 0)
  ELSE Fit(to, n)

-----------------------------------------------------------------------------
(* Programs *)

Room == Len(numbers) < 2

RefInput == \E type \in BitsTypes : \E n \in Values(type) :
  Room /\ Input(type, n) /\ Put(0, Number(type, n))

RefConstant == \E type \in BitsTypes : \E n \in Values(type) :
  Room /\ Constant(type, n) /\ Put(0, Number(type, n))

RefBool == \E b \in BOOLEAN : Room /\ BoolInput(b) /\ Put(0, Number(Bool, b))

RefNeg == OneBits /\ Unary("-") /\ Put(1, Number(last.type, Fit(last.type, -last.n)))

RefCmpl == OneBits /\ Unary("~") /\ Put(1, Number(last.type, Fit(last.type, -last.n - 1)))

RefNot == /\ Len(numbers) >= 1 /\ last.type = Bool
          /\ Unary("!") /\ Put(1, Number(Bool, ~last.n))

RefBinary == \E op \in {"+", "-", "*", "/", "%", "|+|", "|-|", "&", "|", "^"} :
  /\ TwoBits
  /\ op \in {"/", "%"} => ~last.type.isSigned /\ last.n # 0
  /\ Allowed("sign", op = "/" /\ left.is_signed)
  /\ Allowed("saturate", op \in {"|+|", "|-|"} /\ last.type.isSigned)
  /\ Binary(op)
  /\ Put(2, Number(last.type, Meaning(last.type, op, first.n, last.n)))

RefEqual == \E op \in {"==", "!="} :
  /\ TwoAlike /\ Compare(op)
  /\ Put(2, Number(Bool, (first.n = last.n) <=> (op = "==")))

RefOrder == \E op \in {"<", "<=", ">", ">="} :
  /\ TwoBits
  /\ Allowed("sign", left.is_signed # first.type.isSigned)
  /\ Compare(op)
  /\ Put(2, Number(Bool, Ordered(op, first.n, last.n)))

RefConcat ==
  /\ Len(numbers) >= 2 /\ first.type # Bool /\ last.type # Bool
  /\ first.type.w + last.type.w <= MaxWidth
  /\ Concat
  /\ LET type == BitsType(first.type.w + last.type.w, first.type.isSigned) IN
     Put(2, Number(type, Fit(type, (first.n * 2^last.type.w) + (last.n % 2^last.type.w))))

RefSlice == \E hi, lo \in 0 .. MaxWidth - 1 :
  /\ OneBits /\ lo <= hi /\ hi < last.type.w
  /\ Slice(hi, lo)
  /\ Put(1, Number(BitsType(hi - lo + 1, FALSE), Part(last.n, hi, lo)))

RefCast == \E to \in BitsTypes \cup {Bool} :
  /\ Len(numbers) >= 1 /\ Castable(last.type, to)
  /\ Allowed("extend", last.type.isSigned /\ to.w > last.type.w)
  /\ Allowed("bool", to = Bool /\ last.type # Bool)
  /\ Cast(to) /\ Put(1, Number(to, Converted(last.type, to, last.n)))

RefMerge == \E cond \in BOOLEAN :
  TwoAlike /\ Merge(cond) /\ Put(2, IF cond THEN last ELSE first)

SlicesOf(w) == {[hi |-> hi, lo |-> lo] : hi, lo \in 0 .. w - 1}

\* x[s] = y
RefAssignSlice == \E s \in SlicesOf(MaxWidth) :
  /\ Len(numbers) >= 2 /\ first.type # Bool
  /\ s.lo <= s.hi /\ s.hi < first.type.w
  /\ last.type = BitsType(s.hi - s.lo + 1, FALSE)
  /\ AssignSlice(<<s>>)
  /\ Put(2, Number(first.type, Fit(first.type, Patched(first.n, s.hi, s.lo, last.n))))

\* x[s][t] = y
RefAssignSliceOfSlice == \E s, t \in SlicesOf(MaxWidth) :
  /\ Len(numbers) >= 2 /\ first.type # Bool
  /\ s.lo <= s.hi /\ s.hi < first.type.w
  /\ t.lo <= t.hi /\ t.hi <= s.hi - s.lo
  /\ last.type = BitsType(t.hi - t.lo + 1, FALSE)
  /\ AssignSlice(<<t, s>>)
  /\ LET part == Patched(Part(first.n, s.hi, s.lo), t.hi, t.lo, last.n) IN
     Put(2, Number(first.type, Fit(first.type, Patched(first.n, s.hi, s.lo, part))))

RefInit == Init /\ numbers = <<>>

RefNext ==
  \/ RefInput \/ RefConstant \/ RefBool
  \/ RefNeg \/ RefCmpl \/ RefNot
  \/ RefBinary \/ RefEqual \/ RefOrder
  \/ RefConcat \/ RefSlice \/ RefCast \/ RefMerge
  \/ RefAssignSlice \/ RefAssignSliceOfSlice

RefSpec == RefInit /\ [][RefNext]_vars

-----------------------------------------------------------------------------
(* Properties *)

\* Each operand has an integer of its P4 type and bits of that type's width
\* (casts, concat, slice and slice assignments make up the type of their result).
TypeOK ==
  /\ Len(numbers) = Len(operands)
  /\ \A i \in DOMAIN numbers :
       /\ numbers[i].type \in BitsTypes \cup {Bool}
       /\ numbers[i].n \in Values(numbers[i].type)
       /\ operands[i].type.w = numbers[i].type.w
       /\ operands[i].is_signed \in BOOLEAN

\* What bits say at a P4 type.
Read(type, b) ==
  IF type = Bool THEN b ELSE IF type.isSigned THEN Signed(b, type.w) ELSE b

\* After any expression, the bits of every operand, read at its P4 type, are the
\* integer that P4 gives it, whatever the types and flags are that the instances
\* have picked up on the way through casts, slices, merges and slice assignments.
ValuesAgree ==
  \A i \in DOMAIN numbers : Read(numbers[i].type, operands[i].val) = numbers[i].n
=============================================================================
