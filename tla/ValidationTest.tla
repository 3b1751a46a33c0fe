---------------------------- MODULE ValidationTest ----------------------------
(***************************************************************************)
(* tools/run_validation_test.py around p4validate and p4compare: one       *)
(* validation, or a comparison of an original with each of its variants,   *)
(* once or twice.  The exit codes decide what the test says.               *)
(***************************************************************************)
EXTENDS Compare

VARIABLES
  input,      \* what is tested: the passes of a compiler, or the original
              \* program followed by its variants
  test,       \* "validation", "violation" or "undef"
  ignore,     \* --ignore-crashes
  stage,      \* "run" the tool, "first" and "second" loop of the undef test
  todo,       \* variants that are still to be compared
  result      \* exit code of the test

driverVars == <<input, test, ignore, stage, todo, result>>
testVars == <<compareVars, driverVars>>

Variants == 2 .. Len(input)

Pair(v) == <<input[1], input[v]>>

TestInit ==
  /\ passes = <<>> /\ validate = FALSE /\ phase = "done"
  /\ kept = {} /\ it = 2 /\ passBefore = 1
  /\ before = 0 /\ next = 0 /\ output = 0
  /\ verdict = "none"
  /\ stage = "begin" /\ todo = {} /\ result = "none"

\* run_validation_test starts p4validate.
RunValidation ==
  /\ stage = "begin" /\ test = "validation"
  /\ stage' = "run"
  /\ passes' = input /\ validate' = TRUE
  /\ Start
  /\ UNCHANGED <<meaning, broken, allow, input, test, ignore, todo, result>>

\* run_validation_test reads its exit code.
ReadValidation ==
  /\ stage = "run" /\ verdict # "none"
  /\ stage' = "end"
  /\ result' =
       IF verdict \notin {"success", "undef", "violation"} /\ ignore
       THEN "success"
       ELSE CASE verdict = "undef" -> IF allow THEN "success" ELSE "violation"
              [] verdict = "skipped" -> "success"
              [] OTHER -> verdict
  /\ UNCHANGED <<compareVars, input, test, ignore, todo>>

\* run_violation_test and run_undef_test list the variants.
ListVariants ==
  /\ stage = "begin" /\ test # "validation"
  /\ stage' = "first" /\ todo' = Variants
  /\ allow' = (allow /\ test = "violation")
  /\ UNCHANGED <<passes, meaning, broken, validate, phase, kept, it, passBefore,
                 before, next, output, verdict, input, test, ignore, result>>

InLoop == stage \in {"first", "second"}

\* Mutant: the variant is not taken off the list.
CompareVariantAgain ==
  /\ InLoop /\ phase = "done" /\ verdict = "none"
  /\ \E v \in todo : passes' = Pair(v)
  /\ validate' = FALSE
  /\ Start
  /\ UNCHANGED <<meaning, broken, allow, input, test, ignore, stage, todo, result>>

\* p4compare on the original and one of the variants, in any order.
CompareVariant ==
  /\ InLoop /\ phase = "done" /\ verdict = "none"
  /\ \E v \in todo :
       /\ todo' = todo \ {v}
       /\ passes' = Pair(v)
  /\ validate' = FALSE
  /\ Start
  /\ UNCHANGED <<meaning, broken, allow, input, test, ignore, stage, result>>

\* Mutant: an error counts as a violation.
WantedAny(code) == code # "success"

Wanted(code) == code = "violation"

\* The loop of run_violation_test goes on after a violation.
ReadViolation ==
  /\ InLoop /\ verdict # "none" /\ Wanted(verdict)
  /\ phase = "done" /\ verdict' = "none"
  /\ UNCHANGED <<listVars, phase, kept, it, passBefore, before, next, output,
                 driverVars>>

\* It ends with an error after anything else: the second loop of the undef test
\* is meant to.
ReadOther ==
  /\ InLoop /\ verdict # "none" /\ ~Wanted(verdict)
  /\ stage' = "end"
  /\ result' = IF stage = "second" THEN "success" ELSE "failure"
  /\ UNCHANGED <<compareVars, input, test, ignore, todo>>

\* All variants are violations.
LoopEnds ==
  /\ InLoop /\ phase = "done" /\ verdict = "none" /\ todo = {}
  /\ IF stage = "first" /\ test = "undef"
     THEN /\ stage' = "second" /\ todo' = Variants
          /\ allow' = TRUE
          /\ UNCHANGED result
     ELSE /\ stage' = "end"
          /\ result' = IF stage = "second" THEN "failure" ELSE "success"
          /\ UNCHANGED <<todo, allow>>
  /\ UNCHANGED <<passes, meaning, broken, validate, phase, kept, it, passBefore,
                 before, next, output, verdict, input, test, ignore>>

DriverNext ==
  \/ RunValidation \/ ReadValidation \/ ListVariants
  \/ CompareVariant \/ ReadViolation \/ ReadOther \/ LoopEnds

TestNext == DriverNext \/ (CompareNext /\ UNCHANGED driverVars)

TestSpec == TestInit /\ [][TestNext]_testVars

\* One process runs at a time and nothing but its own end stops it; Z3 answers,
\* if only that it does not know.
FairTestSpec == TestSpec /\ WF_testVars(TestNext)

-----------------------------------------------------------------------------

\* Before the tool is started there is no verdict to wait for.
Verdict == IF phase = "done" /\ verdict = "none" THEN "idle" ELSE verdict

Abstract == INSTANCE Validation WITH cleared <- Cleared, verdict <- Verdict

\* p4validate and p4compare, under the test driver, clear the dumps one after
\* the other and for a reason: every verdict is earned by what the compiler's
\* passes have done, although files are thrown out first and interpreted before
\* they are compared (validate/main.cpp:45, compare/compare.cpp:210).
ValidationRefined == Abstract!Spec

\* Every test comes to an end (tools/run_validation_test.py:85): the two loops
\* over the variants, one of which has to fail, included.
TestEnds == <>(stage = "end")

\* Position j of input is fine, or differs, for the comparison with position i.
Differs(i, j) ==
  \E o \in 1 .. NOutputs :
    ~Equal(meaning[input[i].text][o], meaning[input[j].text][o])

\* What a passing test says (tools/run_validation_test.py:35): with no crash to
\* ignore, that all passes are fine or nothing has changed; of a folder of
\* variants, that each of them differs from the original and none could be
\* skipped.
TestResultEarned ==
  result = "success" =>
    CASE test = "validation" ->
           ~ignore => \A j \in 1 .. Len(input) - 1 : Abstract!Fine(j)
      [] test = "violation" ->
           \A v \in Variants :
             Differs(1, v) /\ ~input[1].banned /\ ~input[v].banned
      [] test = "undef" ->
           /\ \A v \in Variants :
                Differs(1, v) /\ ~input[1].banned /\ ~input[v].banned
           /\ Variants # {}
=============================================================================
