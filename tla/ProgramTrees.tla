----------------------------- MODULE ProgramTrees -----------------------------
(***************************************************************************)
(* Programs as p4pruner sees them, and what its passes may turn them into. *)
(* A program is the fields that it declares and the statements of a        *)
(* control.  A statement is [kind, e, subs]: its expressions, and the      *)
(* statements in it, the branches of an if or the components of a block.   *)
(* An expression is [op, args].                                            *)
(***************************************************************************)
EXTENDS Naturals, Sequences, SequencesExt, FiniteSetsExt

Expr(op, args) == [op |-> op, args |-> args]
Const == Expr("const", <<>>)
Literal(b) == Expr(IF b THEN "true" ELSE "false", <<>>)

Statement(kind, es, subs) == [kind |-> kind, es |-> es, subs |-> subs]
Empty == Statement("empty", <<>>, <<>>)

Binary == {"add", "and"}
Unary == {"neg"}
Shift == {"shl", "mod"}
Bits == Binary \cup Unary \cup Shift \cup {"const"}
Compare == {"equ", "land"}

\* All sequences that take one element of each of the sets.
Product(sets) ==
  FoldLeft(LAMBDA prefixes, S : {Append(s, x) : s \in prefixes, x \in S}, {<<>>}, sets)

-----------------------------------------------------------------------------
\* Transformations of expressions, bottom up: sets of possible results.

\* ExpressionPruner.  Both sides of a binary operation have the same
\* probability as threshold, so that the right side is never picked.
PickSide(e) == IF e.op \in Binary \cup Unary \cup Shift THEN {e, e.args[1]} ELSE {e}

\* BoolExpressionPruner
RandBoolLiteral(e) ==
  IF e.op \in Compare THEN {Literal(TRUE), Literal(FALSE)} ELSE {e}

\* ReplaceVariables: of anything that has bits, but the left values.
Replace(e) == IF e.op \in Bits THEN {e, Const} ELSE {e}

\* ConstantFolding (p4c)
Fold(e) ==
  CASE e.op \in Bits \ {"const"} /\ \A k \in DOMAIN e.args : e.args[k] = Const -> {Const}
    [] e.op = "equ" /\ \A k \in DOMAIN e.args : e.args[k] = Const -> {Literal(TRUE)}
    [] OTHER -> {e}

RECURSIVE Exprs(_, _)
Exprs(Postorder(_), e) ==
  UNION {Postorder(Expr(e.op, a)) :
           a \in Product([k \in DOMAIN e.args |-> Exprs(Postorder, e.args[k])])}

RECURSIVE Statements(_, _)
Statements(Postorder(_), s) ==
  {Statement(s.kind, es, subs) :
     es \in Product([k \in DOMAIN s.es |-> Exprs(Postorder, s.es[k])]),
     subs \in Product([k \in DOMAIN s.subs |-> Statements(Postorder, s.subs[k])])}

Programs(Postorder(_), p) ==
  {[p EXCEPT !.body = b] :
     b \in Product([k \in DOMAIN p.body |-> Statements(Postorder, p.body[k])])}

remove_expressions(p) == Programs(PickSide, p)
remove_bool_expressions(p) == Programs(RandBoolLiteral, p)
apply_replace(p) == Programs(Replace, p)

-----------------------------------------------------------------------------
\* Removing statements.

RECURSIVE Within(_)
Within(s) == {s} \cup UNION {Within(s.subs[k]) : k \in DOMAIN s.subs}

AllStatements(p) == UNION {Within(p.body[k]) : k \in DOMAIN p.body}

RECURSIVE Count(_)
Count(s) == 1 + FoldLeft(LAMBDA n, t : n + Count(t), 0, s.subs)

count_statements(p) == FoldLeft(LAMBDA n, t : n + Count(t), 0, p.body)

\* Mutant: an empty branch of an if goes with the next round.
KeepsEmptyNever(inIf) == FALSE

\* An empty statement stays where it is.
KeepsEmpty(inIf) == inIf

\* The Pruner: what is left of a statement, as a sequence.
RECURSIVE Rest(_, _, _)
Rest(s, to_prune, inIf) ==
  LET inside == [s EXCEPT !.subs = FlattenSeq(
        [k \in DOMAIN s.subs |-> Rest(s.subs[k], to_prune, s.kind = "if")])]
  IN CASE s.kind = "return" -> <<s>>
       [] s.kind = "empty" -> IF KeepsEmpty(inIf) THEN <<s>> ELSE <<>>
       [] s.kind = "block" -> <<inside>>
       [] s.kind \in {"assign", "if"} /\ s \in to_prune ->
            IF inIf THEN <<Empty>> ELSE <<>>
       [] OTHER -> <<inside>>

\* The Collector stops one statement after its maximum; a block is no statement.
\* The statements are equal to others in the program, and these go as well.
remove_statements(p, max) ==
  LET collected == {s \in AllStatements(p) : s.kind # "block"} IN
  {[p EXCEPT !.body = FlattenSeq(
      [k \in DOMAIN p.body |-> Rest(p.body[k], to_prune, FALSE)])] :
     to_prune \in {c \in SUBSET collected : Cardinality(c) <= max + 1}}

-----------------------------------------------------------------------------
\* The compiler's passes.

RECURSIVE FoldIfs(_)
FoldIfs(s) ==
  LET subs == [k \in DOMAIN s.subs |-> FoldIfs(s.subs[k])] IN
  CASE s.kind = "if" /\ s.es[1] = Literal(TRUE) -> subs[1]
    [] s.kind = "if" /\ s.es[1] = Literal(FALSE) ->
         IF Len(subs) = 2 THEN subs[2] ELSE Empty
    [] OTHER -> [s EXCEPT !.subs = subs]

generic_passes(p) ==
  {[q EXCEPT !.body = [k \in DOMAIN q.body |-> FoldIfs(q.body[k])]] :
     q \in Programs(Fold, p)}

RECURSIVE Ops(_)
Ops(e) == {e.op} \cup UNION {Ops(e.args[k]) : k \in DOMAIN e.args}

\* Operators, names and kinds of statements in a program.
Features(p) ==
  {s.kind : s \in AllStatements(p)}
    \cup UNION {UNION {Ops(s.es[k]) : k \in DOMAIN s.es} : s \in AllStatements(p)}

\* ListStructs looks for fields of parameters only: "field" is one, "nested"
\* the field of a field.
extended_unused(p) == {[p EXCEPT !.fields = @ \cap Features(p) \cap {"field"}]}

-----------------------------------------------------------------------------

RECURSIVE IfsComplete(_)
IfsComplete(s) ==
  /\ s.kind = "if" => s.subs # <<>>
  /\ \A k \in DOMAIN s.subs : IfsComplete(s.subs[k])
=============================================================================
