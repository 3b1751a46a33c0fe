------------------------------- MODULE Compare -------------------------------
(***************************************************************************)
(* p4validate and p4compare (validate/main.cpp, compare/main.cpp,          *)
(* compare/compare.cpp).  p4validate runs the compiler, throws out the     *)
(* dumps that are byte for byte their predecessor, interprets all others,  *)
(* and only then compares them pairwise with Z3; p4compare does the same   *)
(* with the files it is given, without throwing any out.                   *)
(*                                                                         *)
(* A list of dumps is kept as the set of their positions among the passes. *)
(* Z3 answers truthfully or gives up ("unknown").                          *)
(***************************************************************************)
EXTENDS Naturals, Sequences

CONSTANTS
  Equal(_, _),      \* two values of an output are equal for all inputs
  Forgiven(_, _),   \* what check_undefined asks of two values has no solution
  NOutputs          \* number of outputs of every program

ASSUME OutputsAssumption == NOutputs \in Nat \ {0}

VARIABLES
  passes,     \* the files, in order: [text, banned]
  meaning,    \* result of interpreting a text: a value for each output
  broken,     \* texts that fail to parse or to be interpreted
  allow,      \* undefined_is_ok
  validate,   \* p4validate, or else p4compare
  phase,
  kept,       \* prunedPassList, later prog_list
  it,         \* the file prune or interpret is at
  passBefore, \* the last file that was kept
  before,     \* prog_before, 0 before the comparisons
  next,       \* prog_after, one more than the last file at the end
  output,     \* member check_undefined is at
  verdict     \* exit code

listVars == <<passes, meaning, broken, allow, validate>>
compareVars == <<listVars, phase, kept, it, passBefore, before, next, output,
                 verdict>>

\* compare_files.  Two files that do not exist are equal as well.
SameFile(i, j) == passes[i].text = passes[j].text

TooFew(files) == \A i, j \in files : i = j

\* The next file of the list, or one more than the last file.
After(i) ==
  CHOOSE k \in i + 1 .. Len(passes) + 1 :
    /\ k \in kept \cup {Len(passes) + 1}
    /\ \A m \in i + 1 .. k - 1 : m \notin kept

Exit(code) ==
  /\ phase' = "done"
  /\ verdict' = code

Start ==
  /\ phase' = "list"
  /\ kept' = (IF validate' THEN {1} ELSE 1 .. Len(passes')) \cap (1 .. Len(passes'))
  /\ it' = 2 /\ passBefore' = 1
  /\ before' = 0 /\ next' = 0 /\ output' = 0
  /\ verdict' = "none"

\* One round of the loop over passList.
PruneFile ==
  /\ phase = "list" /\ validate /\ it <= Len(passes)
  /\ it' = it + 1
  /\ \/ /\ SameFile(passBefore, it)
        /\ UNCHANGED <<kept, passBefore>>
     \/ /\ ~SameFile(passBefore, it)
        /\ kept' = kept \cup {it} /\ passBefore' = it
  /\ UNCHANGED <<listVars, phase, before, next, output, verdict>>

\* The list is complete.
CheckLength ==
  /\ phase = "list" /\ (validate => it > Len(passes))
  /\ \/ /\ TooFew(kept)
        /\ Exit(IF validate THEN "skipped" ELSE "failure")
        /\ UNCHANGED it
     \/ /\ ~TooFew(kept)
        /\ phase' = "interpret"
        /\ it' = 1
        /\ UNCHANGED verdict
  /\ UNCHANGED <<listVars, kept, passBefore, before, next, output>>

\* parseP4File and get_z3_repr for the next program.
Interpret ==
  /\ phase = "interpret" /\ it <= Len(passes)
  /\ \/ /\ passes[it].text \in broken
        /\ Exit("failure")
        /\ UNCHANGED it
     \/ /\ passes[it].text \notin broken
        /\ it' = After(it)
        /\ UNCHANGED <<phase, verdict>>
  /\ UNCHANGED <<listVars, kept, passBefore, before, next, output>>

CompareFirst ==
  /\ phase = "interpret" /\ it > Len(passes)
  /\ phase' = "compare"
  /\ before' = 1 /\ next' = After(1)
  /\ UNCHANGED <<listVars, kept, it, passBefore, output, verdict>>

Same(i, j) ==
  \A o \in 1 .. NOutputs :
    Equal(meaning[passes[i].text][o], meaning[passes[j].text][o])

\* One of the two names contains the name of an unsupported pass.
Skipped == passes[before].banned \/ passes[next].banned

\* Mutant: prog_before stays what it is.
AdvanceAfter ==
  /\ next' = After(next) /\ UNCHANGED before
  /\ phase' = "compare"

Advance ==
  /\ before' = next /\ next' = After(next)
  /\ phase' = "compare"

Comparing == phase = "compare" /\ next <= Len(passes)

SkipPair ==
  /\ Comparing /\ Skipped
  /\ Advance
  /\ UNCHANGED <<listVars, kept, it, passBefore, output, verdict>>

PairEqual ==
  /\ Comparing /\ ~Skipped /\ Same(before, next)
  /\ Advance
  /\ UNCHANGED <<listVars, kept, it, passBefore, output, verdict>>

PairUnknown ==
  /\ Comparing /\ ~Skipped
  /\ Exit("failure")
  /\ UNCHANGED <<listVars, kept, it, passBefore, before, next, output>>

PairDiffers ==
  /\ Comparing /\ ~Skipped /\ ~Same(before, next)
  /\ \/ /\ allow
        /\ phase' = "recheck" /\ output' = 1
        /\ UNCHANGED verdict
     \/ /\ ~allow
        /\ Exit("violation")
        /\ UNCHANGED output
  /\ UNCHANGED <<listVars, kept, it, passBefore, before, next>>

MemberForgiven ==
  Forgiven(meaning[passes[before].text][output],
           meaning[passes[next].text][output])

\* One round of check_undefined: the member is not to blame.
RecheckPasses ==
  /\ phase = "recheck" /\ MemberForgiven
  /\ \/ output < NOutputs /\ output' = output + 1 /\ UNCHANGED <<phase, before, next>>
     \/ output = NOutputs /\ Advance /\ UNCHANGED output
  /\ UNCHANGED <<listVars, kept, it, passBefore, verdict>>

RecheckHolds ==
  /\ phase = "recheck" /\ ~MemberForgiven
  /\ Exit("violation")
  /\ UNCHANGED <<listVars, kept, it, passBefore, before, next, output>>

\* The answer is unknown: a violation all the same, unless the model that is
\* printed with it does not exist, and the exception ends the process.
RecheckUnknown ==
  /\ phase = "recheck"
  /\ \E code \in {"violation", "aborted"} : Exit(code)
  /\ UNCHANGED <<listVars, kept, it, passBefore, before, next, output>>

PassedAll ==
  /\ phase = "compare" /\ next > Len(passes)
  /\ Exit("success")
  /\ UNCHANGED <<listVars, kept, it, passBefore, before, next, output>>

CompareNext ==
  \/ PruneFile \/ CheckLength \/ Interpret \/ CompareFirst
  \/ SkipPair \/ PairEqual \/ PairUnknown \/ PairDiffers
  \/ RecheckPasses \/ RecheckHolds \/ RecheckUnknown
  \/ PassedAll

\* The dumps that are known to be fine: those that were thrown out behind the
\* last program compared are, too.
Cleared == IF before = 0 THEN 1 ELSE next - 1
=============================================================================
