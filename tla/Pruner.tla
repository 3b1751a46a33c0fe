-------------------------------- MODULE Pruner --------------------------------
(***************************************************************************)
(* p4pruner (pruner/src/main.cpp): statements, expressions, boolean        *)
(* expressions and, with the compiler's passes, variables and declarations *)
(* are taken out of a program at random, as long as the compiler, or the   *)
(* validation script, says the same of what is left.                       *)
(*                                                                         *)
(* What a pass may turn a program into is a parameter; ProgramTrees has it *)
(* for small programs.  Two programs that print the same are equal.        *)
(***************************************************************************)
EXTENDS Naturals

CONSTANTS
  StatementsRemoved(_, _), \* collect_statements with a bank, remove_statements
  ExpressionsReduced(_),   \* remove_expressions
  BooleansReduced(_),      \* remove_bool_expressions
  GenericPasses(_),        \* the passes of apply_generic_passes
  VariablesReplaced(_),    \* apply_replace
  UnusedRemoved(_),        \* ExtendedUnusedDeclarations
  CountStatements(_),      \* count_statements
  Compiler(_, _),          \* [code, msg] of a compiler run on a program
  ValidationScript(_, _),  \* the same for the validation script
  Inputs, Tools, Configs,  \* programs, installations, and config files
  NO_CHNG_ITERS, PRUNER_MAX_ITERS, REPLACE_VARS_MAX_ITERS,
  NoFile

ASSUME ItersAssumption ==
  /\ NO_CHNG_ITERS \in Nat \ {0}
  /\ PRUNER_MAX_ITERS \in Nat /\ REPLACE_VARS_MAX_ITERS \in Nat

ASSUME NoFileAssumption == NoFile \notin Inputs

VARIABLES
  input,   \* the program
  tools,   \* the compiler and the script that are installed
  config,  \* exit code and message to be reproduced
  script,  \* validation_bin has a value
  phase,
  program, \* the program of the running phase
  caller,  \* program of apply_replace_vars while replace_variables runs
  i,       \* rounds
  same,    \* same_before_pruning
  bank,    \* max_statements
  output   \* file written at the end

givenVars == <<input, tools, config, script>>
loopVars == <<i, same, bank>>
vars == <<givenVars, phase, program, caller, loopVars, output>>

Classify(info) ==
  CASE info.code = 20 -> "SemanticBug"
    [] info.code = 0 -> "Success"
    [] info.code = 30 -> "Undefined"
    [] info.code \notin {0, 20, 30} /\ "Compiler Bug" \in info.msg -> "CrashBug"
    [] OTHER -> IF "error" \in info.msg THEN "Error" ELSE "Unknown"

\* err_type
Wanted == Classify(config)

\* get_exit_info.  A script keeps its message to itself.
ExitInfo(p) ==
  IF Wanted = "SemanticBug"
  THEN [code |-> ValidationScript(tools, p).code, msg |-> {}]
  ELSE Compiler(tools, p)

\* Without a script there is no exit code to wait for, but an exception.
Runs == Wanted = "SemanticBug" => script

\* Mutant: any run with the exit code will do.
AcceptedCode(p) == ExitInfo(p).code = config.code

\* What check_pruned_program accepts of a program that has changed.
Accepted(p) ==
  /\ ExitInfo(p).code = config.code
  /\ Classify(ExitInfo(p)) = Wanted

Init ==
  /\ input \in Inputs /\ tools \in Tools
  /\ config = [code |-> 0, msg |-> {}] /\ script = FALSE
  /\ phase = "config"
  /\ program = input /\ caller = input
  /\ i = 0 /\ same = 0 /\ bank = 0
  /\ output = NoFile

\* get_config_from_json, get_conf_from_script, get_conf_from_compiler; then
\* prune_statements is called.
Configure ==
  /\ phase = "config"
  /\ \/ config' \in Configs /\ script' = TRUE
     \/ config' = ValidationScript(tools, input) /\ script' = TRUE
     \/ config' = Compiler(tools, input) /\ script' = FALSE
  /\ phase' = "statements"
  /\ bank' = (10 * CountStatements(input)) \div 11
  /\ UNCHANGED <<input, tools, program, caller, i, same, output>>

Limit == IF phase = "replace" THEN REPLACE_VARS_MAX_ITERS ELSE PRUNER_MAX_ITERS

Candidates ==
  CASE phase = "statements"  -> StatementsRemoved(program, bank)
    [] phase = "expressions" -> ExpressionsReduced(program)
    [] phase = "booleans"    -> BooleansReduced(program)
    [] phase = "replace"     -> VariablesReplaced(program)

InLoop == phase \in {"statements", "expressions", "booleans", "replace"}

Another == InLoop /\ i < Limit /\ same < NO_CHNG_ITERS

\* Mutant: a success of a pass over expressions starts the rounds anew.
RoundPassesAnew ==
  /\ Another
  /\ program' \in Candidates
  /\ program' # program => Runs /\ Accepted(program')
  /\ i' = (IF phase = "statements" THEN i + 1 ELSE 0) /\ same' = 0
  /\ bank' = IF phase = "statements" THEN bank + 2 ELSE bank
  /\ UNCHANGED <<givenVars, phase, caller, output>>

\* One round of a loop whose candidate is taken, or is what it was before.
RoundPasses ==
  /\ Another
  /\ program' \in Candidates
  /\ program' # program => Runs /\ Accepted(program')
  /\ i' = i + 1 /\ same' = 0
  /\ bank' = IF phase = "statements" THEN bank + 2 ELSE bank
  /\ UNCHANGED <<givenVars, phase, caller, output>>

RoundFails ==
  /\ Another
  /\ \E p \in Candidates : p # program /\ Runs /\ ~Accepted(p)
  /\ i' = i + 1 /\ same' = same + 1
  /\ bank' = CASE phase # "statements" -> bank
               [] phase = "statements" /\ bank < 2 -> 1
               [] OTHER -> bank \div 2
  /\ UNCHANGED <<givenVars, phase, program, caller, output>>

After ==
  [statements |-> "expressions", expressions |-> "booleans",
   booleans |-> "generic", replace |-> "replaced"]

LoopEnds ==
  /\ InLoop /\ ~Another
  /\ phase' = After[phase]
  /\ i' = 0 /\ same' = 0
  /\ UNCHANGED <<givenVars, program, caller, bank, output>>

\* The generic passes are a success, or the last step of all.
ApplyGenericPasses ==
  /\ phase = "generic"
  /\ \E p \in GenericPasses(program) :
       \/ /\ p # program => Runs /\ Accepted(p)
          /\ program' = p /\ caller' = p
          /\ phase' = "replace"
       \/ /\ p # program /\ Runs /\ ~Accepted(p)
          /\ phase' = "emit"
          /\ UNCHANGED <<program, caller>>
  /\ UNCHANGED <<givenVars, loopVars, output>>

\* apply_replace_vars checks what replace_variables has already checked.
CheckReplaced ==
  /\ phase = "replaced"
  /\ phase' = "unused"
  /\ program # caller => Runs
  /\ program' = IF program # caller /\ Accepted(program) THEN program ELSE caller
  /\ UNCHANGED <<givenVars, caller, loopVars, output>>

ApplyUnusedDecls ==
  /\ phase = "unused"
  /\ \E p \in UnusedRemoved(program) :
       /\ p # program => Runs
       /\ program' = IF p # program /\ Accepted(p) THEN p ELSE program
  /\ phase' = "emit"
  /\ UNCHANGED <<givenVars, caller, loopVars, output>>

\* emit_p4_program, unless it is a dry run.
Emit ==
  /\ phase = "emit"
  /\ phase' = "end"
  /\ output' \in {program, NoFile}
  /\ UNCHANGED <<givenVars, program, caller, loopVars>>

\* An exception out of a pass, or out of popen: whatever has been achieved by
\* then is dropped.
Throw ==
  /\ phase \notin {"config", "end"}
  /\ phase' = "end"
  /\ UNCHANGED <<givenVars, program, caller, loopVars, output>>

Next ==
  \/ Configure
  \/ RoundPasses \/ RoundFails \/ LoopEnds
  \/ ApplyGenericPasses \/ CheckReplaced \/ ApplyUnusedDecls
  \/ Emit \/ Throw

Spec == Init /\ [][Next]_vars

\* One process, which waits for its tools only, and these come back.
FairSpec == Spec /\ WF_vars(Next)

-----------------------------------------------------------------------------

\* A setting is <<tools, config>>: a semantic bug is a matter of the validation
\* script; a crash of the compiler has to remain a crash.
ShowsBug(setting, p) ==
  IF setting[2].code = 20
  THEN ValidationScript(setting[1], p).code = 20
  ELSE LET run == Compiler(setting[1], p) IN
       /\ run.code = setting[2].code
       /\ run.code \notin {0, 30} =>
            ("Compiler Bug" \in run.msg <=> "Compiler Bug" \in setting[2].msg)

Reduced == INSTANCE Reduction WITH setting <- <<tools, config>>

\* p4pruner is a reduction: through all its phases, whatever a pass may have
\* made of the program, the file that it writes is the input or shows the bug
\* that was asked for (pruner/src/pruner_util.cpp:169).
ReductionRefined == Reduced!Spec

\* p4pruner comes to an end (pruner/src/statement_pruner.cpp:93).  A program
\* that does not change counts as a success and starts the count of failures
\* anew, so that nothing but the number of rounds ends a loop that has run dry.
PrunerEnds == <>(phase = "end")
=============================================================================
