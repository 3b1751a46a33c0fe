------------------------------- MODULE MCPruner -------------------------------
(***************************************************************************)
(* Pruner for small programs and a compiler that fails for those which     *)
(* have certain features.                                                  *)
(***************************************************************************)
EXTENDS Pruner, Sequences, FiniteSets

Tree == INSTANCE ProgramTrees

Field == Tree!Expr("field", <<>>)
Nested == Tree!Expr("nested", <<>>)
Sum == Tree!Expr("add", <<Field, Tree!Const>>)

Assign(e) == Tree!Statement("assign", <<e>>, <<>>)
Return == Tree!Statement("return", <<>>, <<>>)
If(c, subs) == Tree!Statement("if", <<c>>, subs)
Block(subs) == Tree!Statement("block", <<>>, subs)

IsField(e) == Tree!Expr("equ", <<e, Tree!Const>>)
Minus(e) == Tree!Expr("neg", <<e>>)

Bodies ==
  {<<If(IsField(Field), <<Assign(Sum)>>), Assign(Sum)>>,
   <<If(IsField(Nested), <<Assign(Nested), Block(<<Assign(Sum)>>)>>), Return>>,
   <<If(Tree!Literal(TRUE), <<If(IsField(Field), <<Return>>)>>), Assign(Minus(Nested))>>,
   <<Assign(Tree!Expr("shl", <<Minus(Field), Nested>>))>>}

MCInputs == [fields : {{"field", "nested"}}, body : Bodies]

\* The compiler fails with an outcome for a program that has a feature, or
\* crashes on another; the fields that are used have to be declared.
Outcomes ==
  {[code |-> 1, msg |-> {"Compiler Bug", "error"}], [code |-> 1, msg |-> {"error"}],
   [code |-> 20, msg |-> {}], [code |-> 0, msg |-> {"Compiler Bug"}]}

MCTools ==
  [feature : {"add", "if", "nested"}, crash : {"empty", "assign"}, outcome : Outcomes]

Fine == [code |-> 0, msg |-> {}]
Failed(msg) == [code |-> 1, msg |-> msg]

MCCompiler(t, p) ==
  LET features == Tree!Features(p) IN
  CASE ~(features \cap {"field", "nested"} \subseteq p.fields) -> Failed({"error"})
    [] features \cap {"field", "nested"} \subseteq p.fields /\ t.feature \in features -> t.outcome
    [] OTHER -> IF t.crash \in features THEN Failed({"Compiler Bug"}) ELSE Fine

\* The script exits with 20 where the compiler breaks a program, here when it
\* lets it pass.
MCValidationScript(t, p) ==
  LET run == MCCompiler(t, p) IN
  IF run.code = 0 /\ t.crash = "assign" THEN [code |-> 20, msg |-> {}] ELSE run

MCConfigs == {[code |-> 1, msg |-> {"Compiler Bug"}], [code |-> 30, msg |-> {}]}

MCStatementsRemoved(p, max) == Tree!remove_statements(p, max)
MCExpressionsReduced(p) == Tree!remove_expressions(p)
MCBooleansReduced(p) == Tree!remove_bool_expressions(p)
MCGenericPasses(p) == Tree!generic_passes(p)
MCVariablesReplaced(p) == Tree!apply_replace(p)
MCUnusedRemoved(p) == Tree!extended_unused(p)
MCCountStatements(p) == Tree!count_statements(p)

\* No if loses its branch (pruner/src/statement_pruner.cpp:42): what one round
\* has emptied is still there after the next, whatever the others reduce.
IfsKeepBranches == \A k \in DOMAIN program.body : Tree!IfsComplete(program.body[k])
=============================================================================
