-------------------------------- MODULE Taint --------------------------------
(***************************************************************************)
(* The expressions Z3 is asked about, what they mean, and the search for   *)
(* undefined values in them (compare/compare.cpp, substitute_taint and     *)
(* check_undefined).                                                       *)
(*                                                                         *)
(* An expression is a tree of nodes [op, sort, args].  Its leaves are an   *)
(* input x, a Boolean input p, numbers, and the constants "undefined" (one *)
(* for each sort, as Z3 identifies constants of one name and sort).  The   *)
(* operators are ite, inc (for every operator on numbers) and zero (for    *)
(* every comparison).                                                      *)
(***************************************************************************)
EXTENDS Naturals, Sequences

CONSTANT Width    \* numbers are below Width

Numbers == 0 .. Width - 1

Leaf(op, sort) == [op |-> op, sort |-> sort, args |-> <<>>]
Input == Leaf("x", "bv")
Flag == Leaf("p", "bool")
Undefined(sort) == Leaf("undefined", sort)
Number(n) == [op |-> "number", sort |-> "bv", args |-> <<n>>]
Inc(e) == [op |-> "inc", sort |-> "bv", args |-> <<e>>]
Zero(e) == [op |-> "zero", sort |-> "bool", args |-> <<e>>]
Ite(c, a, b) == [op |-> "ite", sort |-> a.sort, args |-> <<c, a, b>>]

\* The constants Z3 chooses values for: the inputs, the two undefined values,
\* and taints, which are told apart by the place they were made at.
Valuations(taints) ==
  [x : Numbers, p : BOOLEAN, ubv : Numbers, ubool : BOOLEAN,
   tbv : [{id \in taints : id.sort = "bv"} -> Numbers],
   tbool : [{id \in taints : id.sort = "bool"} -> BOOLEAN]]

TaintValue(id, v) == IF id.sort = "bv" THEN v.tbv[id] ELSE v.tbool[id]

RECURSIVE Eval(_, _)
Eval(e, v) ==
  CASE e.op = "x" -> v.x
    [] e.op = "p" -> v.p
    [] e.op = "undefined" -> IF e.sort = "bv" THEN v.ubv ELSE v.ubool
    [] e.op = "number" -> e.args[1]
    [] e.op = "inc" -> (Eval(e.args[1], v) + 1) % Width
    [] e.op = "zero" -> Eval(e.args[1], v) = 0
    [] e.op = "ite" -> IF Eval(e.args[1], v) THEN Eval(e.args[2], v)
                       ELSE Eval(e.args[3], v)
    [] e.op = "taint" -> TaintValue(e.args[1], v)

\* Z3 finds no input for which the two differ.
Equivalent(e, f) == \A v \in Valuations({}) : Eval(e, v) = Eval(f, v)

-----------------------------------------------------------------------------

\* A fresh taint constant in place of the expression at a path.
Tainted(sort, path) ==
  LET id == [sort |-> sort, path |-> path] IN
  [expr |-> [op |-> "taint", sort |-> sort, args |-> <<id>>], taints |-> {id}]

\* Mutant: an ite with a tainted branch counts, too.
WholeAny(r) == r.taints # {}

\* The code takes an expression with taints that is not an ite for tainted as a
\* whole.
Whole(r) == r.expr.op # "ite" /\ r.taints # {}

\* The expression over what its arguments have become; all taints are merged.
Rebuilt(e, args) ==
  [expr |-> [e EXCEPT !.args = [i \in DOMAIN args |-> args[i].expr]],
   taints |-> UNION {args[i].taints : i \in DOMAIN args}]

RECURSIVE SubstituteTaint(_, _)
SubstituteTaint(e, path) ==
  CASE e.op = "undefined" -> Tainted(e.sort, path)
    [] e.op \in {"inc", "zero"} ->
         LET arg == SubstituteTaint(e.args[1], Append(path, 1))
         IN IF Whole(arg) THEN Tainted(e.sort, path) ELSE Rebuilt(e, <<arg>>)
    [] e.op = "ite" ->
         LET cond == SubstituteTaint(e.args[1], Append(path, 1))
             then == SubstituteTaint(e.args[2], Append(path, 2))
             else == SubstituteTaint(e.args[3], Append(path, 3))
         IN IF Whole(cond) \/ (Whole(then) /\ Whole(else))
            THEN Tainted(e.sort, path)
            ELSE Rebuilt(e, <<cond, then, else>>)
    [] OTHER -> [expr |-> e, taints |-> {}]

\* The query of check_undefined for one member has no solution.
ExcusedByTaint(before, after) ==
  \A r \in {SubstituteTaint(before, <<>>)} : \A v \in Valuations(r.taints) :
    Eval(r.expr, v) \in {Eval(after, v)} \cup
      {TaintValue(id, v) : id \in {t \in r.taints : t.sort = before.sort}}

-----------------------------------------------------------------------------

\* What the evaluation of an expression looks at includes an undefined value.
RECURSIVE Touches(_, _)
Touches(e, v) ==
  CASE e.op = "undefined" -> TRUE
    [] e.op \in {"inc", "zero"} -> Touches(e.args[1], v)
    [] e.op = "ite" ->
         \/ Touches(e.args[1], v)
         \/ (Eval(e.args[1], v) /\ Touches(e.args[2], v))
         \/ (~Eval(e.args[1], v) /\ Touches(e.args[3], v))
    [] OTHER -> FALSE

\* An operator over an expression that is undefined for some inputs and defined
\* for others.
RECURSIVE MixedOperand(_)
MixedOperand(e) ==
  \/ /\ e.op \in {"inc", "zero"}
     /\ \E v, w \in Valuations({}) : Touches(e.args[1], v) /\ ~Touches(e.args[1], w)
  \/ e.op \notin {"number", "taint"} /\ \E i \in DOMAIN e.args : MixedOperand(e.args[i])
=============================================================================
