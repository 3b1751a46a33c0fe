------------------------------ MODULE Validation ------------------------------
(***************************************************************************)
(* What a validation of a compiler run promises.  The compiler has dumped  *)
(* the program after each of its passes; a validation walks through the    *)
(* dumps in order and may clear a dump only if the pass that wrote it is   *)
(* fine.  It ends in success only when every dump is cleared, and in a     *)
(* violation only at a pass that changed what the program does.            *)
(***************************************************************************)
EXTENDS Naturals, Sequences

CONSTANTS
  Equal(_, _),      \* two values of an output are equal for all inputs
  Forgiven(_, _),   \* they differ through undefined values only
  NOutputs          \* number of outputs of a program

VARIABLES
  passes,    \* sequence of [text, banned]: the dumps, and unsupported passes
  meaning,   \* what each text computes: a value for each output
  broken,    \* texts that cannot be parsed or interpreted
  allow,     \* --allow-undefined
  cleared,   \* number of dumps cleared so far; the first one is given
  verdict

validationVars == <<passes, meaning, broken, allow, cleared, verdict>>

SameText(i, j) == passes[i].text = passes[j].text

\* The pass that wrote the dump j + 1 is not supported, or the dump j is still
\* what an unsupported pass has left.
Unsupported(j) ==
  \/ passes[j + 1].banned
  \/ \E i \in 1 .. j : passes[i].banned /\ \A k \in i .. j : SameText(i, k)

Same(j) ==
  \A o \in 1 .. NOutputs :
    Equal(meaning[passes[j].text][o], meaning[passes[j + 1].text][o])

Excused(j) ==
  \A o \in 1 .. NOutputs :
    Forgiven(meaning[passes[j].text][o], meaning[passes[j + 1].text][o])

Fine(j) ==
  SameText(j, j + 1) \/ Unsupported(j) \/ Same(j) \/ (allow /\ Excused(j))

\* The dumps up to n are cleared, one after the other.
Clear ==
  /\ verdict = "none"
  /\ \E n \in cleared + 1 .. Len(passes) :
       /\ cleared' = n
       /\ \A j \in cleared .. n - 1 : Fine(j)
  /\ UNCHANGED <<passes, meaning, broken, allow, verdict>>

Report(v) ==
  /\ verdict = "none"
  /\ verdict' = v
  /\ UNCHANGED <<passes, meaning, broken, allow, cleared>>

Succeed ==
  /\ cleared = Len(passes)
  /\ \A j \in DOMAIN passes : passes[j].text \notin broken
  /\ Report("success")

\* No pass has changed the program.
Skip ==
  /\ \A j \in 1 .. Len(passes) - 1 : SameText(j, j + 1)
  /\ Report("skipped")

\* Up to here everything is fine, and the next dump is not what it should be.
Violate ==
  /\ cleared < Len(passes)
  /\ ~Same(cleared) /\ ~passes[cleared + 1].banned
  /\ Report("violation")

Fail == Report("failure") \/ Report("aborted")

\* The verdict has been taken note of.
Forget ==
  /\ verdict \notin {"idle", "none"}
  /\ verdict' = "idle"
  /\ UNCHANGED <<passes, meaning, broken, allow, cleared>>

\* The next validation is prepared, and started; the first dump is given.
Begin ==
  /\ verdict = "idle"
  /\ verdict' \in {"idle", "none"}
  /\ cleared' = 1
  /\ UNCHANGED <<meaning, broken>>

Init == cleared = 1 /\ verdict = "idle"

Next == Clear \/ Succeed \/ Skip \/ Violate \/ Fail \/ Forget \/ Begin

Spec == Init /\ [][Next]_validationVars
=============================================================================
