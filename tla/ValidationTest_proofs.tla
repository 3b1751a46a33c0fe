------------------------ MODULE ValidationTest_proofs ------------------------
(***************************************************************************)
(* ValidationTest implements Validation, for all lists of dumps and        *)
(* variants, all programs, and whatever Z3 is able to decide.              *)
(***************************************************************************)
EXTENDS ValidationTest, WellFoundedInduction, TLAPS

USE OutputsAssumption

\* What is tested is a list.
InputType == Len(input) \in Nat /\ DOMAIN input = 1 .. Len(input)

-----------------------------------------------------------------------------
(* The invariant *)

N == Len(passes)

SeqType == N \in Nat /\ DOMAIN passes = 1 .. N

Text(i) == passes[i].text

NoneKept(i, k) == \A m \in i + 1 .. k : m \notin kept

\* Files that were thrown out are those of the last file kept before them.
Thrown(last) ==
  \A i \in kept : \A k \in i .. last : NoneKept(i, k) => Text(i) = Text(k)

Pruning ==
  phase = "list" =>
    /\ before = 0 /\ kept \subseteq 1 .. N
    /\ ~validate => kept = 1 .. N
    /\ validate /\ N > 0 =>
         /\ it <= N + 1
         /\ 1 \in kept /\ passBefore \in kept
         /\ \A m \in kept : m <= passBefore /\ m < it
         /\ Thrown(it - 1)
    /\ it \in Nat /\ it >= 2

Listed ==
  phase \in {"interpret", "compare", "recheck"} =>
    kept \subseteq 1 .. N /\ 1 \in kept /\ Thrown(N)

Interpreting ==
  phase = "interpret" =>
    /\ before = 0
    /\ it \in kept \cup {N + 1}
    /\ \A j \in 1 .. N : j < it => Text(j) \notin broken

Pairwise ==
  phase \in {"compare", "recheck"} =>
    /\ \A j \in 1 .. N : Text(j) \notin broken
    /\ before \in kept /\ next \in kept \cup {N + 1}
    /\ before < next
    /\ NoneKept(before, next - 1)

ForgivenAt(o) ==
  Forgiven(meaning[passes[before].text][o], meaning[passes[next].text][o])

Rechecking ==
  phase = "recheck" =>
    /\ next <= N /\ ~Skipped /\ ~Same(before, next) /\ allow
    /\ output \in 1 .. NOutputs
    /\ \A o \in 1 .. output - 1 : ForgivenAt(o)

\* Between two runs of a tool nothing is cleared but the first file.
Driving ==
  /\ phase \in {"list", "interpret", "compare", "recheck", "done"}
  /\ phase # "done" => verdict = "none"
  /\ verdict # "idle"
  /\ stage = "begin" => phase = "done" /\ verdict = "none"
  /\ InLoop /\ phase # "done" => N = 2
  /\ phase = "done" /\ verdict = "none" => Cleared = 1
  /\ InLoop /\ phase = "done" /\ verdict = "violation" => Cleared = 1

CompareInv == SeqType /\ Pruning /\ Listed /\ Interpreting /\ Pairwise /\ Rechecking

VInv == InputType /\ CompareInv /\ Driving

-----------------------------------------------------------------------------
(* The next file of a list *)

LEMMA LeastExists ==
  ASSUME NEW T \in SUBSET Nat, NEW t \in T
  PROVE  \E x \in T : \A y \in T : x <= y
<1> DEFINE R == OpToRel(<, Nat)
<1>1. IsWellFoundedOn(R, Nat)
  BY NatLessThanWellFounded
<1>2. R = {ss \in Nat \X Nat : ss[1] < ss[2]}
  BY Zenon DEF OpToRel
<1> HIDE DEF R
<1>3. \E x \in T : \A y \in T : ~ (<<y, x>> \in R)
  <2> DEFINE S == Nat
  <2>1. T \subseteq S /\ T # {} /\ IsWellFoundedOn(R, S)
    BY <1>1
  <2> QED BY <2>1, WFMin
<1>4. \A x, y \in Nat : <<y, x>> \in R <=> y < x
  BY <1>2
<1>5. PICK x \in T : \A y \in T : ~(<<y, x>> \in R)
  BY <1>3
<1>6. \A y \in T : ~(y < x)
  BY <1>4, <1>5
<1> QED BY <1>6

LEMMA AfterNext ==
  ASSUME N \in Nat, NEW j \in 1 .. N
  PROVE  /\ After(j) \in j + 1 .. N + 1
         /\ After(j) \in kept \cup {N + 1}
         /\ NoneKept(j, After(j) - 1)
<1> DEFINE T == {k \in j + 1 .. N + 1 : k \in kept \cup {N + 1}}
<1>1. T \in SUBSET Nat /\ N + 1 \in T
  OBVIOUS
<1>2. PICK k \in T : \A m \in T : k <= m
  <2> HIDE DEF T
  <2> QED BY <1>1, LeastExists
<1>3. \A m \in j + 1 .. k - 1 : m \notin kept
  BY <1>2
<1>4. \E l \in j + 1 .. Len(passes) + 1 :
        /\ l \in kept \cup {Len(passes) + 1}
        /\ \A m \in j + 1 .. l - 1 : m \notin kept
  BY <1>2, <1>3 DEF N
<1> QED BY <1>4 DEF After, N, NoneKept

-----------------------------------------------------------------------------
(* The invariant is inductive *)

\* A tool is started on a list.
LEMMA StartInv ==
  ASSUME Start, SeqType'
  PROVE  CompareInv'
BY DEF Start, CompareInv, Pruning, Listed, Interpreting, Pairwise, Rechecking,
     Thrown, NoneKept, Text, N, SeqType

LEMMA PruneFileInv == CompareInv /\ PruneFile => CompareInv'
<1> SUFFICES ASSUME CompareInv, PruneFile PROVE CompareInv'
  OBVIOUS
<1> USE DEF CompareInv, N, SeqType
<1>1. /\ UNCHANGED <<passes, validate, before>> /\ phase = "list" /\ phase' = "list"
      /\ N > 0 /\ it \in 2 .. N /\ validate /\ it' = it + 1 /\ it' - 1 = it
  BY DEF PruneFile, listVars, Pruning
<1>2. CASE SameFile(passBefore, it) /\ UNCHANGED <<kept, passBefore>>
  <2>1. ASSUME NEW j \in kept, NEW k \in j .. it, NoneKept(j, k)
        PROVE  Text(j) = Text(k)
    <3>1. CASE k < it
      BY <1>1, <2>1, <3>1 DEF Pruning, Thrown
    <3>2. CASE k = it
      <4>1. j = passBefore
        BY <1>1, <2>1, <3>2 DEF Pruning, NoneKept
      <4> QED BY <1>2, <3>2, <4>1 DEF SameFile, Text
    <3> QED BY <1>1, <3>1, <3>2 DEF Pruning
  <2>2. Thrown(it - 1)'
    BY <1>1, <1>2, <2>1 DEF Thrown, NoneKept, Text
  <2>3. Pruning'
    BY <1>1, <1>2, <2>2 DEF Pruning
  <2> QED BY <1>1, <2>3 DEF Listed, Interpreting, Pairwise, Rechecking
<1>3. CASE kept' = kept \cup {it} /\ passBefore' = it
  <2>1. ASSUME NEW j \in kept', NEW k \in j .. it, NoneKept(j, k)'
        PROVE  Text(j) = Text(k)
    <3>1. CASE k < it
      BY <1>1, <1>3, <2>1, <3>1 DEF Pruning, Thrown, NoneKept
    <3>2. CASE k = it
      BY <1>1, <1>3, <2>1, <3>2 DEF Pruning, NoneKept
    <3> QED BY <1>1, <3>1, <3>2, <1>3 DEF Pruning
  <2>2. Thrown(it - 1)'
    BY <1>1, <1>3, <2>1 DEF Thrown, NoneKept, Text
  <2>3. Pruning'
    BY <1>1, <1>3, <2>2 DEF Pruning
  <2> QED BY <1>1, <2>3 DEF Listed, Interpreting, Pairwise, Rechecking
<1> QED BY <1>2, <1>3 DEF PruneFile

LEMMA ExitInv ==
  ASSUME CompareInv, UNCHANGED passes, phase' = "done"
  PROVE  CompareInv'
BY DEF CompareInv, SeqType, N, Pruning, Listed, Interpreting, Pairwise, Rechecking

LEMMA CheckLengthInv == CompareInv /\ CheckLength => CompareInv'
<1> SUFFICES ASSUME CompareInv, CheckLength PROVE CompareInv'
  OBVIOUS
<1>1. CASE TooFew(kept)
  BY <1>1, ExitInv DEF CheckLength, Exit, listVars
<1>2. CASE ~TooFew(kept)
  <2>1. /\ UNCHANGED <<listVars, kept, before>> /\ phase = "list"
        /\ phase' = "interpret" /\ it' = 1
        /\ validate => it > N
    BY <1>2 DEF CheckLength, N
  <2>2. N \in Nat /\ N > 0 /\ before = 0 /\ kept \subseteq 1 .. N
    BY <1>2, <2>1 DEF CompareInv, SeqType, Pruning, TooFew
  <2>3. 1 \in kept /\ Thrown(N)
    <3>1. CASE validate
      <4>1. it - 1 = N /\ Thrown(it - 1) /\ 1 \in kept
        BY <2>1, <2>2, <3>1 DEF CompareInv, Pruning
      <4> QED BY <4>1
    <3>2. CASE ~validate
      BY <2>1, <2>2, <3>2 DEF CompareInv, Pruning, Thrown, NoneKept
    <3> QED BY <3>1, <3>2
  <2>4. SeqType' /\ Pruning' /\ Pairwise' /\ Rechecking'
    BY <2>1 DEF CompareInv, SeqType, N, Pruning, Pairwise, Rechecking, listVars
  <2>5. Listed'
    BY <2>1, <2>2, <2>3 DEF Listed, Thrown, NoneKept, Text, N, listVars
  <2>6. Interpreting'
    BY <2>1, <2>2, <2>3 DEF Interpreting, N, listVars
  <2> QED BY <2>4, <2>5, <2>6 DEF CompareInv
<1> QED BY <1>1, <1>2

LEMMA InterpretInv == CompareInv /\ Interpret => CompareInv'
<1> SUFFICES ASSUME CompareInv, Interpret PROVE CompareInv'
  OBVIOUS
<1>1. CASE passes[it].text \in broken
  BY <1>1, ExitInv DEF Interpret, Exit, listVars
<1>2. CASE passes[it].text \notin broken
  <2>1. /\ UNCHANGED <<passes, broken, kept, before>> /\ phase = "interpret"
        /\ phase' = phase /\ it <= N /\ it' = After(it)
    BY <1>2 DEF Interpret, listVars, N
  <2>2. /\ N \in Nat /\ kept \subseteq 1 .. N /\ Thrown(N)
        /\ it \in kept \cup {N + 1}
    BY <2>1 DEF CompareInv, SeqType, Listed, Interpreting
  <2>3. it \in 1 .. N /\ it \in kept
    BY <2>1, <2>2
  <2> DEFINE n == After(it)
  <2>4. n \in it + 1 .. N + 1 /\ n \in kept \cup {N + 1} /\ NoneKept(it, n - 1)
    BY <2>2, <2>3, AfterNext
  <2> HIDE DEF n
  <2>5. ASSUME NEW j \in 1 .. N, j < n
        PROVE  Text(j) \notin broken
    <3>1. CASE j < it
      BY <2>1, <3>1 DEF CompareInv, Interpreting
    <3>2. CASE j >= it
      <4>1. j \in it .. N /\ NoneKept(it, j)
        BY <2>2, <2>3, <2>4, <2>5, <3>2 DEF NoneKept
      <4>2. Text(it) = Text(j)
        BY <2>2, <2>3, <4>1 DEF Thrown
      <4> QED BY <1>2, <4>2 DEF Text
    <3> QED BY <2>3, <3>1, <3>2
  <2>6. Interpreting'
    BY <2>1, <2>4, <2>5 DEF CompareInv, Interpreting, N, Text, n
  <2>7. Listed'
    BY <2>1 DEF CompareInv, Listed, Thrown, NoneKept, Text, N
  <2>8. SeqType' /\ Pruning' /\ Pairwise' /\ Rechecking'
    BY <2>1 DEF CompareInv, SeqType, N, Pruning, Pairwise, Rechecking
  <2> QED BY <2>6, <2>7, <2>8 DEF CompareInv
<1> QED BY <1>1, <1>2

LEMMA CompareFirstInv == CompareInv /\ CompareFirst => CompareInv'
<1> SUFFICES ASSUME CompareInv, CompareFirst PROVE CompareInv'
  OBVIOUS
<1>1. /\ UNCHANGED <<passes, broken, kept>> /\ phase = "interpret"
      /\ phase' = "compare" /\ it > N /\ before' = 1 /\ next' = After(1)
  BY DEF CompareFirst, listVars, N
<1>2. N \in Nat /\ 1 \in kept /\ kept \subseteq 1 .. N /\ 1 \in 1 .. N
  BY <1>1 DEF CompareInv, SeqType, Listed
<1>3. next' \in 2 .. N + 1 /\ next' \in kept \cup {N + 1} /\ NoneKept(1, next' - 1)
  BY <1>1, <1>2, AfterNext
<1>4. \A j \in 1 .. N : Text(j) \notin broken
  <2>1. it = N + 1
    <3>1. it \in kept \cup {N + 1}
      BY <1>1 DEF CompareInv, Interpreting
    <3> QED BY <1>1, <1>2, <3>1
  <2> QED BY <1>1, <1>2, <2>1 DEF CompareInv, Interpreting
<1>5. Pairwise'
  BY <1>1, <1>2, <1>3, <1>4 DEF Pairwise, NoneKept, Text, N
<1>6. Listed'
  BY <1>1 DEF CompareInv, Listed, Thrown, NoneKept, Text, N
<1>7. SeqType' /\ Pruning' /\ Interpreting' /\ Rechecking'
  BY <1>1 DEF CompareInv, SeqType, N, Pruning, Interpreting, Rechecking
<1> QED BY <1>5, <1>6, <1>7 DEF CompareInv

\* The comparison goes on to the next pair.
LEMMA AdvanceInv ==
  ASSUME CompareInv, phase \in {"compare", "recheck"}, next <= N, Advance,
         UNCHANGED <<passes, broken, kept>>
  PROVE  CompareInv' /\ next \in 1 .. N /\ next \in kept
         /\ next' \in next + 1 .. N + 1 /\ NoneKept(next, next' - 1)
<1>1. N \in Nat /\ kept \subseteq 1 .. N /\ next \in kept
  BY DEF CompareInv, SeqType, Listed, Pairwise
<1>2. before' = next /\ next' = After(next) /\ phase' = "compare" /\ next \in 1 .. N
  BY <1>1 DEF Advance
<1>3. next' \in next + 1 .. N + 1 /\ next' \in kept \cup {N + 1} /\ NoneKept(next, next' - 1)
  BY <1>1, <1>2, AfterNext
<1>4. Pairwise'
  BY <1>1, <1>2, <1>3 DEF CompareInv, Pairwise, NoneKept, Text, N
<1>5. Listed'
  BY <1>2 DEF CompareInv, Listed, Thrown, NoneKept, Text, N
<1>6. SeqType' /\ Pruning' /\ Interpreting' /\ Rechecking'
  BY <1>2 DEF CompareInv, SeqType, N, Pruning, Interpreting, Rechecking
<1> QED BY <1>1, <1>2, <1>3, <1>4, <1>5, <1>6 DEF CompareInv

LEMMA PairDiffersInv == CompareInv /\ PairDiffers => CompareInv'
<1> SUFFICES ASSUME CompareInv, PairDiffers PROVE CompareInv'
  OBVIOUS
<1>1. CASE ~allow
  BY <1>1, ExitInv DEF PairDiffers, Exit, listVars
<1>2. CASE allow
  <2>1. /\ UNCHANGED <<listVars, kept, it, passBefore, before, next>> /\ phase = "compare"
        /\ next <= N /\ ~Skipped /\ ~Same(before, next)
        /\ phase' = "recheck" /\ output' = 1
    BY <1>2 DEF PairDiffers, Comparing, N
  <2>2. Rechecking'
    BY <1>2, <2>1 DEF Rechecking, N, Skipped, Same, ForgivenAt, listVars
  <2>3. Pairwise' /\ Listed'
    BY <2>1 DEF CompareInv, Pairwise, Listed, Thrown, NoneKept, Text, N, listVars
  <2>4. SeqType' /\ Pruning' /\ Interpreting'
    BY <2>1 DEF CompareInv, SeqType, N, Pruning, Interpreting, listVars
  <2> QED BY <2>2, <2>3, <2>4 DEF CompareInv
<1> QED BY <1>1, <1>2

LEMMA RecheckPassesInv == CompareInv /\ RecheckPasses => CompareInv'
<1> SUFFICES ASSUME CompareInv, RecheckPasses PROVE CompareInv'
  OBVIOUS
<1> USE DEF RecheckPasses, listVars
<1>1. CASE output = NOutputs /\ Advance
  <2>1. phase = "recheck" /\ next <= N /\ UNCHANGED <<passes, broken, kept>>
    BY DEF CompareInv, Rechecking
  <2> QED BY <1>1, <2>1, AdvanceInv
<1>2. CASE output < NOutputs /\ output' = output + 1 /\ UNCHANGED <<phase, before, next>>
  <2>1. phase = "recheck" /\ UNCHANGED <<listVars, kept, it, passBefore>>
    OBVIOUS
  <2>2. Rechecking'
    <3>1. /\ next <= N /\ ~Skipped /\ ~Same(before, next) /\ allow
          /\ output \in 1 .. NOutputs
          /\ \A o \in 1 .. output : ForgivenAt(o)
      BY <2>1 DEF CompareInv, Rechecking, MemberForgiven, ForgivenAt
    <3>2. output + 1 \in 1 .. NOutputs /\ (output + 1) - 1 = output
      BY <1>2, <3>1
    <3> QED BY <1>2, <2>1, <3>1, <3>2 DEF Rechecking, N, Skipped, Same, ForgivenAt
  <2>3. Pairwise' /\ Listed'
    BY <1>2, <2>1 DEF CompareInv, Pairwise, Listed, Thrown, NoneKept, Text, N
  <2>4. SeqType' /\ Pruning' /\ Interpreting'
    BY <1>2, <2>1 DEF CompareInv, SeqType, N, Pruning, Interpreting
  <2> QED BY <2>2, <2>3, <2>4 DEF CompareInv
<1> QED BY <1>1, <1>2

LEMMA CompareStep == CompareInv /\ CompareNext => CompareInv'
<1> SUFFICES ASSUME CompareInv, CompareNext PROVE CompareInv'
  OBVIOUS
<1>1. CASE PruneFile
  BY <1>1, PruneFileInv
<1>2. CASE CheckLength
  BY <1>2, CheckLengthInv
<1>3. CASE Interpret
  BY <1>3, InterpretInv
<1>4. CASE CompareFirst
  BY <1>4, CompareFirstInv
<1>5. CASE SkipPair
  BY <1>5, AdvanceInv DEF SkipPair, Comparing, N, listVars
<1>6. CASE PairEqual
  BY <1>6, AdvanceInv DEF PairEqual, Comparing, N, listVars
<1>7. CASE PairUnknown
  BY <1>7, ExitInv DEF PairUnknown, Exit, listVars
<1>8. CASE PairDiffers
  BY <1>8, PairDiffersInv
<1>9. CASE RecheckPasses
  BY <1>9, RecheckPassesInv
<1>10. CASE RecheckHolds
  BY <1>10, ExitInv DEF RecheckHolds, Exit, listVars
<1>11. CASE RecheckUnknown
  BY <1>11, ExitInv DEF RecheckUnknown, Exit, listVars
<1>12. CASE PassedAll
  BY <1>12, ExitInv DEF PassedAll, Exit, listVars
<1> QED BY <1>1, <1>2, <1>3, <1>4, <1>5, <1>6, <1>7, <1>8, <1>9, <1>10, <1>11, <1>12
        DEF CompareNext

-----------------------------------------------------------------------------
(* The test driver *)

LEMMA InitInv == InputType /\ TestInit => VInv
BY DEF TestInit, VInv, CompareInv, SeqType, N, Pruning, Listed, Interpreting,
       Pairwise, Rechecking, Driving, InLoop, Cleared

\* The two files of a comparison are not cleared without the second.
LEMMA PairCleared ==
  ASSUME CompareInv, N = 2, phase \in {"compare", "recheck"}, next <= N
  PROVE  Cleared = 1
<1>1. before \in 1 .. 2 /\ next \in 1 .. 2 /\ before < next
  BY DEF CompareInv, SeqType, Listed, Pairwise
<1> QED BY <1>1 DEF Cleared

LEMMA CompareDriving ==
  VInv /\ CompareNext /\ UNCHANGED driverVars => Driving'
<1> SUFFICES ASSUME VInv, CompareNext, UNCHANGED driverVars PROVE Driving'
  OBVIOUS
<1> USE DEF driverVars, InLoop, N
<1>1. CompareInv /\ Driving /\ UNCHANGED <<stage, passes>>
  BY DEF VInv, CompareNext, PruneFile, CheckLength, Interpret, CompareFirst, SkipPair,
         PairEqual, PairUnknown, PairDiffers, RecheckPasses, RecheckHolds,
         RecheckUnknown, PassedAll, listVars
<1>2. phase # "done" /\ stage # "begin"
  BY <1>1 DEF Driving, CompareNext, PruneFile, CheckLength, Interpret, CompareFirst,
         SkipPair, PairEqual, PairUnknown, PairDiffers, RecheckPasses, RecheckHolds,
         RecheckUnknown, PassedAll, Comparing
<1>3. \/ phase' \in {"list", "interpret", "compare", "recheck"} /\ UNCHANGED verdict
      \/ /\ phase' = "done"
         /\ verdict' \in {"success", "skipped", "failure", "aborted"}
      \/ /\ phase' = "done" /\ verdict' = "violation" /\ UNCHANGED <<before, next>>
         /\ phase \in {"compare", "recheck"} /\ next <= N
  <2>1. CASE PruneFile \/ CheckLength
    BY <2>1 DEF PruneFile, CheckLength, Exit
  <2>2. CASE Interpret \/ CompareFirst
    BY <2>2 DEF Interpret, CompareFirst, Exit
  <2>3. CASE SkipPair \/ PairEqual \/ PairUnknown
    BY <2>3 DEF SkipPair, PairEqual, PairUnknown, Advance, Exit
  <2>4. CASE PairDiffers
    BY <2>4 DEF PairDiffers, Comparing, Exit
  <2>5. CASE RecheckPasses
    BY <2>5 DEF RecheckPasses, Advance
  <2>6. CASE RecheckHolds \/ RecheckUnknown
    BY <1>1, <2>6 DEF RecheckHolds, RecheckUnknown, Exit, CompareInv, Rechecking
  <2>7. CASE PassedAll
    BY <2>7 DEF PassedAll, Exit
  <2> QED BY <2>1, <2>2, <2>3, <2>4, <2>5, <2>6, <2>7 DEF CompareNext
<1>4. CASE phase' \in {"list", "interpret", "compare", "recheck"} /\ UNCHANGED verdict
  BY <1>1, <1>2, <1>4 DEF Driving
<1>5. CASE /\ phase' = "done"
           /\ verdict' \in {"success", "skipped", "failure", "aborted"}
  BY <1>1, <1>2, <1>5 DEF Driving
<1>6. CASE /\ phase' = "done" /\ verdict' = "violation" /\ UNCHANGED <<before, next>>
           /\ phase \in {"compare", "recheck"} /\ next <= N
  <2>1. InLoop => Cleared = 1
    BY <1>1, <1>2, <1>6, PairCleared DEF Driving
  <2> QED BY <1>1, <1>2, <1>6, <2>1 DEF Driving, Cleared
<1> QED BY <1>3, <1>4, <1>5, <1>6

LEMMA DriverStep == VInv /\ DriverNext => CompareInv' /\ Driving'
<1> SUFFICES ASSUME VInv, DriverNext PROVE CompareInv' /\ Driving'
  OBVIOUS
<1> USE DEF VInv, InLoop, N
<1>1. CASE RunValidation
  <2>1. SeqType'
    BY <1>1 DEF RunValidation, SeqType, InputType
  <2>2. CompareInv'
    BY <1>1, <2>1, StartInv DEF RunValidation
  <2> QED BY <1>1, <2>2 DEF RunValidation, Start, Driving
<1>2. CASE CompareVariant
  <2>1. PICK v \in todo : passes' = <<input[1], input[v]>>
    BY <1>2 DEF CompareVariant, Pair
  <2>2. Len(passes') = 2 /\ DOMAIN passes' = 1 .. 2
    BY <2>1
  <2>3. SeqType'
    BY <2>2 DEF SeqType
  <2>4. CompareInv'
    BY <1>2, <2>3, StartInv DEF CompareVariant
  <2> QED BY <1>2, <2>2, <2>4 DEF CompareVariant, Start, Driving
<1>3. CASE ReadValidation \/ ReadOther
  <2>1. UNCHANGED compareVars /\ stage' = "end"
    BY <1>3 DEF ReadValidation, ReadOther
  <2>2. CompareInv'
    BY <2>1 DEF compareVars, listVars, CompareInv, SeqType, Pruning, Listed, Thrown,
         NoneKept, Text, Interpreting, Pairwise, Rechecking, Skipped, Same, ForgivenAt
  <2> QED BY <2>1, <2>2 DEF compareVars, listVars, Driving, Cleared
<1>4. CASE ListVariants \/ LoopEnds
  <2>1. /\ UNCHANGED <<passes, phase, before, next, verdict>>
        /\ phase = "done" /\ verdict = "none"
    BY <1>4 DEF ListVariants, LoopEnds, Driving
  <2>2. stage' # "begin"
    BY <1>4 DEF ListVariants, LoopEnds
  <2>3. CompareInv'
    BY <2>1, ExitInv
  <2> QED BY <2>1, <2>2, <2>3 DEF Driving, Cleared
<1>5. CASE ReadViolation
  <2>1. /\ UNCHANGED <<passes, phase, before, next, stage>> /\ InLoop
        /\ phase = "done" /\ verdict = "violation" /\ verdict' = "none"
    BY <1>5 DEF ReadViolation, listVars, driverVars, Wanted
  <2>2. CompareInv'
    BY <2>1, ExitInv
  <2> QED BY <2>1, <2>2 DEF Driving, Cleared
<1> QED BY <1>1, <1>2, <1>3, <1>4, <1>5 DEF DriverNext

LEMMA TestStep == VInv /\ [TestNext]_testVars => VInv'
<1> SUFFICES ASSUME VInv, [TestNext]_testVars PROVE VInv'
  OBVIOUS
<1>1. InputType'
  BY DEF VInv, InputType, TestNext, testVars, driverVars, DriverNext, RunValidation,
         ReadValidation, ListVariants, CompareVariant, ReadViolation, ReadOther, LoopEnds
<1>2. CASE DriverNext
  BY <1>1, <1>2, DriverStep DEF VInv
<1>3. CASE CompareNext /\ UNCHANGED driverVars
  BY <1>1, <1>3, CompareStep, CompareDriving DEF VInv
<1>4. CASE UNCHANGED testVars
  BY <1>1, <1>4 DEF testVars, driverVars, compareVars, listVars, VInv, CompareInv, SeqType,
     N, Pruning, Listed, Thrown, NoneKept, Text, Interpreting, Pairwise, Rechecking,
     Skipped, Same, ForgivenAt, Driving, InLoop, Cleared
<1> QED BY <1>2, <1>3, <1>4 DEF TestNext

-----------------------------------------------------------------------------
(* Every step of the tools is one of the validation, or none *)

Stutter == UNCHANGED Abstract!validationVars

AbstractStep == Abstract!Next \/ Stutter

\* A pair of dumps that is fine clears the second of them, and what was thrown
\* out behind it.
LEMMA PairFine ==
  ASSUME CompareInv, phase \in {"compare", "recheck"}, next <= N,
         Skipped \/ Same(before, next) \/ (allow /\ \A o \in 1 .. NOutputs : ForgivenAt(o))
  PROVE  Abstract!Fine(next - 1)
<1>1. /\ N \in Nat /\ kept \subseteq 1 .. N /\ before \in kept /\ next \in 1 .. N
      /\ before < next /\ NoneKept(before, next - 1) /\ Thrown(N)
  BY DEF CompareInv, SeqType, Listed, Pairwise
<1>2. \A k \in before .. next - 1 : passes[before].text = passes[k].text
  <2> SUFFICES ASSUME NEW k \in before .. next - 1
               PROVE  passes[before].text = passes[k].text
    OBVIOUS
  <2>1. before \in 1 .. N /\ k \in before .. N /\ NoneKept(before, k)
    BY <1>1 DEF NoneKept
  <2> QED BY <1>1, <2>1 DEF Thrown, Text
<1>3. before \in 1 .. next - 1 /\ next - 1 \in before .. next - 1 /\ (next - 1) + 1 = next
  BY <1>1
<1>4. CASE passes[before].banned
  BY <1>2, <1>3, <1>4 DEF Abstract!Fine, Abstract!Unsupported, Abstract!SameText
<1>5. CASE passes[next].banned
  BY <1>3, <1>5 DEF Abstract!Fine, Abstract!Unsupported
<1>6. CASE Same(before, next)
  BY <1>2, <1>3, <1>6 DEF Abstract!Fine, Abstract!Same, Same
<1>7. CASE allow /\ \A o \in 1 .. NOutputs : ForgivenAt(o)
  BY <1>2, <1>3, <1>7 DEF Abstract!Fine, Abstract!Excused, ForgivenAt
<1> QED BY <1>4, <1>5, <1>6, <1>7 DEF Skipped

LEMMA ThrownFine ==
  ASSUME NEW i \in 1 .. N, NEW k \in i .. N, N \in Nat, Thrown(N), i \in kept,
         NoneKept(i, k)
  PROVE  \A j \in i .. k - 1 : Abstract!Fine(j)
<1> SUFFICES ASSUME NEW j \in i .. k - 1 PROVE Abstract!Fine(j)
  OBVIOUS
<1>1. j \in i .. N /\ j + 1 \in i .. N /\ NoneKept(i, j) /\ NoneKept(i, j + 1)
  BY DEF NoneKept
<1>2. Text(i) = Text(j) /\ Text(i) = Text(j + 1)
  BY <1>1 DEF Thrown
<1> QED BY <1>2 DEF Abstract!Fine, Abstract!SameText, Text

LEMMA ClearPair ==
  ASSUME CompareInv, phase \in {"compare", "recheck"}, verdict = "none", next <= N,
         Skipped \/ Same(before, next) \/ (allow /\ \A o \in 1 .. NOutputs : ForgivenAt(o)),
         Advance, UNCHANGED <<passes, meaning, broken, allow, kept, verdict>>
  PROVE  Abstract!Clear
<1> DEFINE n == After(next)
<1>1. /\ N \in Nat /\ kept \subseteq 1 .. N /\ before \in kept /\ next \in 1 .. N
      /\ next \in kept /\ before < next /\ Thrown(N)
  BY DEF CompareInv, SeqType, Listed, Pairwise
<1>2. n \in next + 1 .. N + 1 /\ NoneKept(next, n - 1)
  BY <1>1, AfterNext
<1>3. before' = next /\ next' = n /\ phase' = "compare"
  BY DEF Advance
<1> HIDE DEF n
<1>4. n - 1 \in next .. N /\ (n - 1) - 1 = n - 2 /\ n - 1 \in (next - 1) + 1 .. N
  BY <1>1, <1>2
<1>5. \A j \in next .. n - 2 : Abstract!Fine(j)
  BY <1>1, <1>2, <1>4, ThrownFine
<1>6. \A j \in next - 1 .. (n - 1) - 1 : Abstract!Fine(j)
  <2>1. Abstract!Fine(next - 1)
    BY PairFine
  <2> SUFFICES ASSUME NEW j \in next - 1 .. (n - 1) - 1 PROVE Abstract!Fine(j)
    OBVIOUS
  <2>2. j = next - 1 \/ j \in next .. n - 2
    BY <1>1, <1>2, <1>4
  <2> QED BY <1>5, <2>1, <2>2
<1>7. Cleared = next - 1 /\ Cleared' = n - 1
  <2>1. before # 0 /\ next # 0
    BY <1>1
  <2> QED BY <1>3, <2>1 DEF Cleared
<1>8. Verdict = "none" /\ Verdict' = "none"
  BY <1>3 DEF Verdict
<1>9. n - 1 \in Cleared + 1 .. Len(passes) /\ \A j \in Cleared .. (n - 1) - 1 : Abstract!Fine(j)
  BY <1>4, <1>6, <1>7 DEF N
<1> QED BY <1>7, <1>8, <1>9 DEF Abstract!Clear

LEMMA ClearFirst == VInv /\ CompareFirst => AbstractStep
<1> SUFFICES ASSUME VInv, CompareFirst PROVE AbstractStep
  OBVIOUS
<1> DEFINE n == After(1)
<1>1. /\ CompareInv /\ phase = "interpret" /\ phase' = "compare" /\ before' = 1
      /\ next' = n /\ UNCHANGED <<listVars, kept, verdict>>
  BY DEF VInv, CompareFirst
<1>2. N \in Nat /\ 1 \in kept /\ kept \subseteq 1 .. N /\ Thrown(N) /\ 1 \in 1 .. N
  BY <1>1 DEF CompareInv, SeqType, Listed
<1>3. n \in 2 .. N + 1 /\ NoneKept(1, n - 1)
  BY <1>2, AfterNext
<1>4. Cleared = 1 /\ Cleared' = n - 1 /\ verdict = "none"
  BY <1>1 DEF CompareInv, Interpreting, Cleared, VInv, Driving
<1> HIDE DEF n
<1>5. Verdict = "none" /\ Verdict' = "none"
  BY <1>1, <1>4 DEF Verdict
<1>6. CASE n = 2
  BY <1>1, <1>4, <1>5, <1>6 DEF AbstractStep, Stutter, Abstract!validationVars, listVars
<1>7. CASE n # 2
  <2>1. n - 1 \in 1 .. N /\ n - 1 \in 2 .. N
    BY <1>2, <1>3, <1>7
  <2>2. \A j \in 1 .. (n - 1) - 1 : Abstract!Fine(j)
    BY <1>2, <1>3, <2>1, ThrownFine
  <2>3. Abstract!Clear
    BY <1>1, <1>4, <1>5, <2>1, <2>2 DEF Abstract!Clear, listVars, N
  <2> QED BY <2>3 DEF AbstractStep, Abstract!Next
<1> QED BY <1>6, <1>7

\* A violation is told of the pair the comparison has come to.
LEMMA ViolatePair ==
  ASSUME CompareInv, phase \in {"compare", "recheck"}, verdict = "none", next <= N,
         ~Skipped, ~Same(before, next), phase' = "done", verdict' = "violation",
         UNCHANGED <<listVars, before, next>>
  PROVE  Abstract!Violate
<1>1. /\ N \in Nat /\ kept \subseteq 1 .. N /\ before \in kept /\ next \in 1 .. N
      /\ before < next /\ NoneKept(before, next - 1) /\ Thrown(N)
  BY DEF CompareInv, SeqType, Listed, Pairwise
<1>2. before \in 1 .. N /\ next - 1 \in before .. N
  BY <1>1
<1>3. passes[before].text = passes[next - 1].text
  BY <1>1, <1>2 DEF Thrown, Text
<1>4. Cleared = next - 1 /\ Cleared' = Cleared /\ (next - 1) + 1 = next
  <2>1. before # 0
    BY <1>1
  <2> QED BY <1>1, <2>1 DEF Cleared
<1>5. next - 1 < Len(passes)
  BY <1>1 DEF N
<1>6. ~Abstract!Same(next - 1)
  BY <1>3, <1>4 DEF Same, Abstract!Same
<1>7. Verdict = "none" /\ Verdict' = "violation"
  BY DEF Verdict
<1> QED BY <1>4, <1>5, <1>6, <1>7
        DEF Abstract!Violate, Abstract!Report, Skipped, listVars

LEMMA SkipList == VInv /\ CheckLength => AbstractStep
<1> SUFFICES ASSUME VInv, CheckLength PROVE AbstractStep
  OBVIOUS
<1>1. /\ CompareInv /\ UNCHANGED <<listVars, kept, before, next>> /\ before = 0
      /\ phase = "list" /\ verdict = "none" /\ (validate => it > N)
  BY DEF VInv, CheckLength, CompareInv, Pruning, Driving, N
<1>2. Verdict = "none" /\ Cleared = 1 /\ Cleared' = 1
  BY <1>1 DEF Verdict, Cleared
<1>3. CASE TooFew(kept) /\ phase' = "done" /\ verdict' = "failure"
  <2>1. Verdict' = "failure"
    BY <1>3 DEF Verdict
  <2>2. Abstract!Fail
    BY <1>1, <1>2, <2>1 DEF Abstract!Fail, Abstract!Report, listVars
  <2> QED BY <2>2 DEF AbstractStep, Abstract!Next
<1>4. CASE validate /\ TooFew(kept) /\ phase' = "done" /\ verdict' = "skipped"
  <2>1. \A j \in 1 .. N - 1 : Abstract!SameText(j, j + 1)
    <3> SUFFICES ASSUME NEW j \in 1 .. N - 1 PROVE Abstract!SameText(j, j + 1)
      OBVIOUS
    <3>1. N \in Nat /\ N > 0
      BY <1>1 DEF CompareInv, SeqType
    <3>2. /\ 1 \in kept /\ kept \subseteq 1 .. N /\ it \in Nat /\ it <= N + 1
          /\ Thrown(it - 1)
      BY <1>1, <1>4, <3>1 DEF CompareInv, Pruning
    <3>3. it - 1 = N
      BY <1>1, <1>4, <3>1, <3>2
    <3>4. \A m \in kept : m = 1
      BY <1>4, <3>2 DEF TooFew
    <3>5. NoneKept(1, j) /\ NoneKept(1, j + 1)
      BY <3>1, <3>4 DEF NoneKept
    <3>6. j \in 1 .. N /\ j + 1 \in 1 .. N
      BY <3>1
    <3>7. Text(1) = Text(j) /\ Text(1) = Text(j + 1)
      BY <3>2, <3>3, <3>5, <3>6 DEF Thrown
    <3> QED BY <3>7 DEF Abstract!SameText, Text
  <2>2. Verdict' = "skipped"
    BY <1>4 DEF Verdict
  <2>3. Abstract!Skip
    BY <1>1, <1>2, <2>1, <2>2 DEF Abstract!Skip, Abstract!Report, listVars, N
  <2> QED BY <2>3 DEF AbstractStep, Abstract!Next
<1>5. CASE phase' = "interpret" /\ UNCHANGED verdict
  <2>1. Verdict' = "none"
    BY <1>1, <1>5 DEF Verdict
  <2> QED BY <1>1, <1>2, <2>1 DEF AbstractStep, Stutter, Abstract!validationVars, listVars
<1> QED BY <1>3, <1>4, <1>5 DEF CheckLength, Exit

LEMMA CompareSimulated == VInv /\ CompareNext => AbstractStep
<1> SUFFICES ASSUME VInv, CompareNext PROVE AbstractStep
  OBVIOUS
<1>1. CompareInv /\ Driving
  BY DEF VInv
<1>2. CASE PruneFile
  <2>1. phase = "list" /\ UNCHANGED <<listVars, phase, before, next, verdict>>
    BY <1>2 DEF PruneFile
  <2> QED BY <2>1 DEF AbstractStep, Stutter, Abstract!validationVars, listVars, Verdict,
                      Cleared
<1>3. CASE CheckLength
  BY <1>3, SkipList
<1>4. CASE Interpret
  <2>1. phase = "interpret" /\ verdict = "none" /\ UNCHANGED <<listVars, before, next>>
    BY <1>1, <1>4 DEF Interpret, Driving
  <2>2. \/ phase' = "done" /\ verdict' = "failure"
        \/ UNCHANGED <<phase, verdict>>
    BY <1>4 DEF Interpret, Exit
  <2> QED BY <2>1, <2>2 DEF AbstractStep, Stutter, Abstract!validationVars, Abstract!Next,
            Abstract!Fail, Abstract!Report, listVars, Verdict, Cleared
<1>5. CASE CompareFirst
  BY <1>5, ClearFirst
<1>6. CASE SkipPair \/ PairEqual
  <2>1. /\ phase \in {"compare", "recheck"} /\ verdict = "none" /\ next <= N
        /\ Skipped \/ Same(before, next)
        /\ Advance /\ UNCHANGED <<passes, meaning, broken, allow, kept, verdict>>
    BY <1>1, <1>6 DEF SkipPair, PairEqual, Comparing, Driving, N, listVars
  <2>2. Abstract!Clear
    BY <1>1, <2>1, ClearPair
  <2> QED BY <2>2 DEF AbstractStep, Abstract!Next
<1>7. CASE PairUnknown
  BY <1>1, <1>7 DEF PairUnknown, Comparing, Exit, Driving, AbstractStep, Abstract!Next,
     Abstract!Fail, Abstract!Report, listVars, Verdict, Cleared
<1>8. CASE PairDiffers
  <2>1. /\ phase = "compare" /\ verdict = "none" /\ next <= N /\ ~Skipped
        /\ ~Same(before, next) /\ UNCHANGED <<listVars, before, next>>
    BY <1>1, <1>8 DEF PairDiffers, Comparing, Driving, N
  <2>2. CASE phase' = "recheck" /\ UNCHANGED verdict
    BY <2>1, <2>2 DEF AbstractStep, Stutter, Abstract!validationVars, listVars, Verdict,
                      Cleared
  <2>3. CASE phase' = "done" /\ verdict' = "violation"
    BY <1>1, <2>1, <2>3, ViolatePair DEF AbstractStep, Abstract!Next
  <2> QED BY <1>8, <2>2, <2>3 DEF PairDiffers, Exit
<1>9. CASE RecheckPasses
  <2>1. /\ phase = "recheck" /\ verdict = "none" /\ next <= N /\ allow
        /\ output \in 1 .. NOutputs /\ \A o \in 1 .. output - 1 : ForgivenAt(o)
        /\ ForgivenAt(output)
        /\ UNCHANGED <<listVars, kept, verdict>>
    BY <1>1, <1>9 DEF RecheckPasses, Driving, CompareInv, Rechecking, MemberForgiven,
       ForgivenAt
  <2>2. CASE output = NOutputs /\ Advance
    <3>1. \A o \in 1 .. NOutputs : ForgivenAt(o)
      BY <2>1, <2>2
    <3>2. Abstract!Clear
      BY <1>1, <2>1, <2>2, <3>1, ClearPair DEF listVars
    <3> QED BY <3>2 DEF AbstractStep, Abstract!Next
  <2>3. CASE UNCHANGED <<phase, before, next>>
    BY <2>1, <2>3 DEF AbstractStep, Stutter, Abstract!validationVars, listVars, Verdict,
                      Cleared
  <2> QED BY <1>9, <2>2, <2>3 DEF RecheckPasses
<1>10. CASE RecheckHolds \/ RecheckUnknown
  <2>1. /\ phase = "recheck" /\ verdict = "none" /\ next <= N /\ ~Skipped
        /\ ~Same(before, next) /\ UNCHANGED <<listVars, before, next>>
        /\ phase' = "done" /\ verdict' \in {"violation", "aborted"}
    BY <1>1, <1>10 DEF RecheckHolds, RecheckUnknown, Exit, Driving, CompareInv, Rechecking
  <2>2. CASE verdict' = "violation"
    BY <1>1, <2>1, <2>2, ViolatePair DEF AbstractStep, Abstract!Next
  <2>3. CASE verdict' = "aborted"
    BY <2>1, <2>3 DEF AbstractStep, Abstract!Next, Abstract!Fail, Abstract!Report,
       listVars, Verdict, Cleared
  <2> QED BY <2>1, <2>2, <2>3
<1>11. CASE PassedAll
  <2>1. /\ phase = "compare" /\ verdict = "none" /\ next > N
        /\ UNCHANGED <<listVars, before, next>> /\ phase' = "done" /\ verdict' = "success"
    BY <1>1, <1>11 DEF PassedAll, Exit, Driving, N
  <2>2. /\ N \in Nat /\ kept \subseteq 1 .. N /\ before \in kept
        /\ next \in kept \cup {N + 1} /\ \A j \in 1 .. N : Text(j) \notin broken
        /\ DOMAIN passes = 1 .. N
    BY <1>1, <2>1 DEF CompareInv, SeqType, Listed, Pairwise
  <2>3. before # 0 /\ next - 1 = N
    BY <2>1, <2>2
  <2>4. Cleared = N /\ Cleared' = Cleared
    BY <2>1, <2>3 DEF Cleared
  <2>5. Verdict = "none" /\ Verdict' = "success"
    BY <2>1 DEF Verdict
  <2>6. Abstract!Succeed
    BY <2>1, <2>2, <2>4, <2>5 DEF Abstract!Succeed, Abstract!Report, Text, N, listVars
  <2> QED BY <2>6 DEF AbstractStep, Abstract!Next
<1> QED BY <1>2, <1>3, <1>4, <1>5, <1>6, <1>7, <1>8, <1>9, <1>10, <1>11 DEF CompareNext

LEMMA DriverSimulated == VInv /\ DriverNext => AbstractStep
<1> SUFFICES ASSUME VInv, DriverNext PROVE AbstractStep
  OBVIOUS
<1> USE DEF AbstractStep
<1>1. Driving
  BY DEF VInv
<1>2. CASE RunValidation \/ CompareVariant
  <2>1. phase = "done" /\ verdict = "none" /\ Start /\ UNCHANGED <<meaning, broken>>
    BY <1>1, <1>2 DEF RunValidation, CompareVariant, Driving
  <2>2. Verdict = "idle" /\ Verdict' = "none" /\ Cleared' = 1
    BY <2>1 DEF Start, Verdict, Cleared
  <2> QED BY <2>1, <2>2 DEF Abstract!Next, Abstract!Begin
<1>3. CASE ListVariants \/ LoopEnds
  <2>1. /\ phase = "done" /\ verdict = "none"
        /\ UNCHANGED <<phase, verdict, before, next, meaning, broken>>
    BY <1>1, <1>3 DEF ListVariants, LoopEnds, Driving
  <2>2. Verdict = "idle" /\ Verdict' = "idle" /\ Cleared = 1 /\ Cleared' = 1
    BY <1>1, <2>1 DEF Driving, Verdict, Cleared
  <2> QED BY <2>1, <2>2 DEF Abstract!Next, Abstract!Begin
<1>4. CASE ReadValidation \/ ReadOther
  <2>1. UNCHANGED compareVars
    BY <1>4 DEF ReadValidation, ReadOther
  <2> QED BY <2>1 DEF compareVars, listVars, Stutter, Abstract!validationVars, Verdict,
                      Cleared
<1>5. CASE ReadViolation
  <2>1. /\ phase = "done" /\ verdict = "violation" /\ verdict' = "none"
        /\ UNCHANGED <<listVars, phase, before, next>>
    BY <1>5 DEF ReadViolation, Wanted
  <2> QED BY <2>1 DEF Abstract!Next, Abstract!Forget, Verdict, Cleared, listVars
<1> QED BY <1>2, <1>3, <1>4, <1>5 DEF DriverNext

\* Every verdict of the tools is earned: whatever the compiler has dumped and Z3
\* gives up on, p4validate and p4compare under the test driver go through the
\* dumps as a validation may.
THEOREM ValidationSound == InputType /\ TestSpec => ValidationRefined
<1>1. InputType /\ TestInit => VInv
  BY InitInv
<1>2. VInv /\ [TestNext]_testVars => VInv'
  BY TestStep
<1>3. InputType /\ TestInit => Abstract!Init
  BY DEF TestInit, Abstract!Init, Cleared, Verdict
<1>4. VInv /\ [TestNext]_testVars => [Abstract!Next]_(Abstract!validationVars)
  <2> SUFFICES ASSUME VInv, [TestNext]_testVars
               PROVE  [Abstract!Next]_(Abstract!validationVars)
    OBVIOUS
  <2>1. CASE DriverNext
    BY <2>1, DriverSimulated DEF AbstractStep, Stutter
  <2>2. CASE CompareNext
    BY <2>2, CompareSimulated DEF AbstractStep, Stutter
  <2>3. CASE UNCHANGED testVars
    BY <2>3 DEF testVars, compareVars, listVars, Abstract!validationVars, Verdict, Cleared
  <2> QED BY <2>1, <2>2, <2>3 DEF TestNext
<1> QED BY <1>1, <1>2, <1>3, <1>4, PTL DEF TestSpec, ValidationRefined, Abstract!Spec

-----------------------------------------------------------------------------
(* What a passing test says *)

\* The test is one of the three functions of run_validation_test.py.
TestType == test \in {"validation", "violation", "undef"}

\* A comparison of the original with the variant v would be a violation.
Good(v) == Differs(1, v) /\ ~input[1].banned /\ ~input[v].banned

\* The variant under comparison has not been judged by the loop yet.
Pending == phase # "done" \/ verdict # "none"

Stages ==
  /\ TestType
  /\ test = "validation" => stage \in {"begin", "run", "end"}
  /\ test = "violation" => stage \in {"begin", "first", "end"}
  /\ test = "undef" => stage \in {"begin", "first", "second", "end"}
  /\ InLoop => todo \subseteq Variants
  /\ IF stage = "end" THEN phase = "done" ELSE result = "none"

\* What the verdict says of the files that have been compared.
Told ==
  /\ verdict \in {"none", "success", "skipped", "violation", "failure", "aborted"}
  /\ \A j \in 1 .. Cleared - 1 : Abstract!Fine(j)
  /\ verdict = "success" => Cleared = N
  /\ verdict = "skipped" => \A j \in 1 .. N - 1 : Abstract!SameText(j, j + 1)
  /\ verdict = "violation" =>
       /\ before \in 1 .. N /\ next \in before + 1 .. N
       /\ ~Skipped /\ ~Same(before, next)

\* Those files are the ones the test is about.
Current ==
  /\ test = "validation" /\ stage # "begin" => passes = input
  /\ InLoop /\ Pending => \E v \in Variants : passes = Pair(v)

\* The loops have seen a violation for every variant they are through with.
Looped ==
  /\ stage = "first" =>
       \A v \in Variants \ todo : Good(v) \/ (Pending /\ passes = Pair(v))
  /\ stage = "second" => \A v \in Variants : Good(v)

Ended ==
  result = "success" =>
    /\ test = "validation" /\ ~ignore => verdict \in {"success", "skipped"}
    /\ test # "validation" => \A v \in Variants : Good(v)
    /\ test = "undef" => Variants # {}

Earned == Stages /\ Told /\ Current /\ Looped /\ Ended

LEMMA EarnedInit == InputType /\ TestType /\ TestInit => Earned
<1> SUFFICES ASSUME InputType, TestType, TestInit PROVE Earned
  OBVIOUS
<1>1. /\ stage = "begin" /\ result = "none" /\ phase = "done" /\ verdict = "none"
      /\ Cleared = 1
  BY DEF TestInit, Cleared
<1> QED BY <1>1 DEF Earned, Stages, Told, Current, Looped, Ended, InLoop, Pending

\* A tool that has just been started has told nothing.
LEMMA StartTold ==
  ASSUME Start
  PROVE  Told'
BY DEF Start, Told, Cleared

LEMMA ListKept == CompareNext => UNCHANGED listVars
BY DEF CompareNext, PruneFile, CheckLength, Interpret, CompareFirst, SkipPair, PairEqual,
       PairUnknown, PairDiffers, RecheckPasses, RecheckHolds, RecheckUnknown, PassedAll

LEMMA FineKept ==
  ASSUME UNCHANGED <<passes, meaning, allow>>
  PROVE  \A j : /\ Abstract!Fine(j) => Abstract!Fine(j)'
                /\ Abstract!SameText(j, j + 1) => Abstract!SameText(j, j + 1)'
BY DEF Abstract!Fine, Abstract!SameText, Abstract!Unsupported, Abstract!Same,
       Abstract!Excused

\* Only a pair that differs is told to.
LEMMA ViolationTold ==
  ASSUME VInv, CompareNext, verdict = "none", verdict' = "violation"
  PROVE  /\ before' \in 1 .. N' /\ next' \in before' + 1 .. N'
         /\ ~Skipped' /\ ~Same(before, next)'
<1>1. UNCHANGED listVars
  BY ListKept
<1>2. /\ phase \in {"compare", "recheck"} /\ next <= N /\ ~Skipped /\ ~Same(before, next)
      /\ UNCHANGED <<before, next>>
  <2>1. CASE PairDiffers
    BY <2>1 DEF PairDiffers, Comparing, N
  <2>2. CASE RecheckHolds \/ RecheckUnknown
    BY <2>2 DEF RecheckHolds, RecheckUnknown, VInv, CompareInv, Rechecking
  <2>3. CASE ~(PairDiffers \/ RecheckHolds \/ RecheckUnknown)
    BY <2>3 DEF CompareNext, PruneFile, CheckLength, Interpret, CompareFirst, SkipPair,
           PairEqual, PairUnknown, RecheckPasses, PassedAll, Exit
  <2> QED BY <2>1, <2>2, <2>3
<1>3. before \in 1 .. N /\ next \in before + 1 .. N
  BY <1>2 DEF VInv, CompareInv, SeqType, Listed, Pairwise
<1> QED BY <1>1, <1>2, <1>3 DEF listVars, N, Skipped, Same

\* A step of a tool tells what the abstract validation lets it tell.
LEMMA CompareTold == VInv /\ Told /\ CompareNext => Told'
<1> SUFFICES ASSUME VInv, Told, CompareNext PROVE Told'
  OBVIOUS
<1>1. phase # "done" /\ verdict = "none"
  BY DEF VInv, Driving, CompareNext, PruneFile, CheckLength, Interpret, CompareFirst,
         SkipPair, PairEqual, PairUnknown, PairDiffers, RecheckPasses, RecheckHolds,
         RecheckUnknown, PassedAll, Comparing
<1>2. UNCHANGED <<passes, meaning, broken, allow>>
  BY ListKept DEF listVars
<1>3. Verdict = "none" /\ AbstractStep
  BY <1>1, CompareSimulated DEF Verdict
<1>4. Cleared \in Nat
  <2>1. before = 0 \/ (before \in Nat /\ next \in Nat /\ next > before)
    BY <1>1 DEF VInv, Driving, CompareInv, SeqType, Pruning, Interpreting, Listed, Pairwise
  <2> QED BY <2>1 DEF Cleared
<1>5. /\ \A j \in 1 .. Cleared' - 1 : Abstract!Fine(j)
      /\ Verdict' \in {"none", "success", "skipped", "violation", "failure", "aborted"}
      /\ Verdict' = "success" => Cleared' = N
      /\ Verdict' = "skipped" => \A j \in 1 .. N - 1 : Abstract!SameText(j, j + 1)
  <2>1. CASE Abstract!Clear
    <3>1. PICK n \in Cleared + 1 .. N :
            Cleared' = n /\ \A j \in Cleared .. n - 1 : Abstract!Fine(j)
      BY <2>1 DEF Abstract!Clear, N
    <3>2. \A j \in 1 .. n - 1 : j \in 1 .. Cleared - 1 \/ j \in Cleared .. n - 1
      BY <1>4
    <3> QED BY <2>1, <3>1, <3>2, <1>3 DEF Told, Abstract!Clear
  <2>2. CASE Abstract!Succeed \/ Abstract!Skip \/ Abstract!Violate \/ Abstract!Fail
    <3>1. Cleared' = Cleared
      BY <2>2 DEF Abstract!Succeed, Abstract!Skip, Abstract!Violate, Abstract!Fail,
                  Abstract!Report
    <3>2. \A j \in 1 .. Cleared' - 1 : Abstract!Fine(j)
      BY <3>1 DEF Told
    <3> QED BY <2>2, <3>1, <3>2 DEF Abstract!Succeed, Abstract!Skip, Abstract!Violate,
                                   Abstract!Fail, Abstract!Report, N
  <2>3. CASE Stutter
    BY <2>3, <1>3 DEF Stutter, Abstract!validationVars, Told
  <2>4. ~Abstract!Forget /\ ~Abstract!Begin
    BY <1>3 DEF Abstract!Forget, Abstract!Begin
  <2> QED BY <1>3, <2>1, <2>2, <2>3, <2>4 DEF AbstractStep, Abstract!Next
<1>6. verdict' = Verdict'
  BY <1>5 DEF Verdict
<1>7. N' = N
  BY <1>2 DEF N
<1>8. /\ \A j \in 1 .. Cleared' - 1 : Abstract!Fine(j)'
      /\ verdict' = "skipped" => \A j \in 1 .. N' - 1 : Abstract!SameText(j, j + 1)'
  BY <1>2, <1>5, <1>6, <1>7, FineKept
<1>9. verdict' = "violation" =>
        /\ before' \in 1 .. N' /\ next' \in before' + 1 .. N'
        /\ ~Skipped' /\ ~Same(before, next)'
  BY <1>1, ViolationTold
<1> QED BY <1>5, <1>6, <1>7, <1>8, <1>9 DEF Told

\* A violation of the pair of the original and v.
LEMMA PairGood ==
  ASSUME Told, verdict = "violation", NEW v \in Variants, passes = Pair(v)
  PROVE  Good(v)
<1>1. N = 2 /\ passes[1] = input[1] /\ passes[2] = input[v]
  BY DEF Pair, N
<1>2. before = 1 /\ next = 2 /\ ~Skipped /\ ~Same(before, next)
  BY <1>1 DEF Told
<1> QED BY <1>1, <1>2 DEF Good, Differs, Skipped, Same

LEMMA GoodKept ==
  ASSUME UNCHANGED <<input, meaning>>
  PROVE  \A v : Good(v) => Good(v)'
BY DEF Good, Differs

LEMMA CompareEarned ==
  VInv /\ Earned /\ CompareNext /\ UNCHANGED driverVars => Earned'
<1> SUFFICES ASSUME VInv, Earned, CompareNext, UNCHANGED driverVars PROVE Earned'
  OBVIOUS
<1>1. /\ UNCHANGED <<passes, meaning, input, test, ignore, stage, todo, result>>
      /\ Variants' = Variants
  BY ListKept DEF listVars, driverVars, Variants
<1>2. phase # "done" /\ (phase' = "done" => verdict' # "none")
  BY DEF VInv, Driving, CompareNext, PruneFile, CheckLength, Interpret, CompareFirst,
         SkipPair, PairEqual, PairUnknown, PairDiffers, RecheckPasses, RecheckHolds,
         RecheckUnknown, PassedAll, Comparing, Advance, Exit
<1>3. Pending /\ Pending'
  BY <1>2 DEF Pending
<1>4. Told'
  BY CompareTold DEF Earned
<1>5. Stages'
  BY <1>1, <1>2 DEF Earned, Stages, TestType, InLoop
<1>6. Current'
  BY <1>1, <1>3 DEF Earned, Current, InLoop, Pair
<1>7. Looped'
  <2>1. \A v : Good(v) => Good(v)'
    BY <1>1, GoodKept
  <2> QED BY <1>1, <1>3, <2>1 DEF Earned, Looped, Pair
<1>8. result # "success"
  BY <1>2 DEF Earned, Stages
<1>9. Ended'
  BY <1>1, <1>8 DEF Ended
<1> QED BY <1>4, <1>5, <1>6, <1>7, <1>9 DEF Earned

LEMMA RunValidationEarned == Earned /\ RunValidation => Earned'
<1> SUFFICES ASSUME Earned, RunValidation PROVE Earned'
  OBVIOUS
<1>1. /\ stage = "begin" /\ test = "validation" /\ stage' = "run" /\ passes' = input
      /\ UNCHANGED <<meaning, input, test, ignore, todo, result>> /\ result = "none"
  BY DEF RunValidation, Earned, Stages
<1>2. Told'
  BY StartTold DEF RunValidation
<1>3. Stages' /\ Current' /\ Looped' /\ Ended'
  BY <1>1 DEF Earned, Stages, TestType, InLoop, Current, Looped, Ended
<1> QED BY <1>2, <1>3 DEF Earned

LEMMA ReadValidationEarned == VInv /\ Earned /\ ReadValidation => Earned'
<1> SUFFICES ASSUME VInv, Earned, ReadValidation PROVE Earned'
  OBVIOUS
<1>1. /\ stage = "run" /\ verdict # "none" /\ stage' = "end"
      /\ UNCHANGED <<passes, meaning, allow, phase, before, next, verdict>>
      /\ UNCHANGED <<input, test, ignore, todo>>
  BY DEF ReadValidation, compareVars, listVars
<1>2. test = "validation" /\ phase = "done"
  BY <1>1 DEF Earned, Stages, TestType, VInv, Driving
<1>3. Told'
  <2>1. N' = N /\ Cleared' = Cleared
    BY <1>1 DEF N, Cleared
  <2> QED BY <1>1, <2>1, FineKept DEF Earned, Told, Skipped, Same
<1>4. Stages' /\ Current' /\ Looped'
  BY <1>1, <1>2 DEF Earned, Stages, TestType, InLoop, Current, Looped
<1>5. result' = "success" /\ ~ignore => verdict \in {"success", "skipped"}
  <2>1. verdict \in {"success", "skipped", "violation", "failure", "aborted"}
    BY <1>1 DEF Earned, Told
  <2> QED BY <2>1 DEF ReadValidation
<1>6. Ended'
  BY <1>1, <1>2, <1>5 DEF Ended
<1> QED BY <1>3, <1>4, <1>6 DEF Earned

LEMMA ListVariantsEarned == VInv /\ Earned /\ ListVariants => Earned'
<1> SUFFICES ASSUME VInv, Earned, ListVariants PROVE Earned'
  OBVIOUS
<1>1. /\ stage = "begin" /\ test # "validation" /\ stage' = "first" /\ todo' = Variants
      /\ UNCHANGED <<passes, meaning, phase, before, next, verdict>>
      /\ UNCHANGED <<input, test, ignore, result>> /\ Variants' = Variants
  BY DEF ListVariants, Variants
<1>2. phase = "done" /\ verdict = "none" /\ Cleared = 1 /\ result = "none"
  BY <1>1 DEF VInv, Driving, Earned, Stages
<1>3. Told'
  BY <1>1, <1>2 DEF Told, Cleared
<1>4. Stages' /\ Current' /\ Looped' /\ Ended'
  BY <1>1, <1>2 DEF Earned, Stages, TestType, InLoop, Current, Pending, Looped, Ended
<1> QED BY <1>3, <1>4 DEF Earned

LEMMA CompareVariantEarned == Earned /\ CompareVariant => Earned'
<1> SUFFICES ASSUME Earned, CompareVariant PROVE Earned'
  OBVIOUS
<1>1. PICK v \in todo : todo' = todo \ {v} /\ passes' = Pair(v)
  BY DEF CompareVariant
<1>2. /\ InLoop /\ phase = "done" /\ verdict = "none" /\ phase' = "list"
      /\ UNCHANGED <<meaning, input, test, ignore, stage, result>> /\ Variants' = Variants
  BY DEF CompareVariant, Start, Variants
<1>3. Pending' /\ ~Pending /\ v \in Variants /\ stage # "end" /\ result = "none"
  BY <1>2 DEF Pending, Earned, Stages, InLoop
<1>4. Told'
  BY StartTold DEF CompareVariant
<1>5. Stages' /\ Ended'
  BY <1>1, <1>2, <1>3 DEF Earned, Stages, TestType, InLoop, Ended
<1>6. Pair(v)' = Pair(v)
  BY <1>2 DEF Pair
<1>7. Current'
  BY <1>1, <1>2, <1>3, <1>6 DEF Current, InLoop, Earned, Stages, Pair
<1>8. Looped'
  <2>1. \A u : Good(u) => Good(u)'
    BY <1>2, GoodKept
  <2>2. \A u \in Variants \ todo' : u \in Variants \ todo \/ u = v
    BY <1>1
  <2> QED BY <1>1, <1>2, <1>3, <1>6, <2>1, <2>2 DEF Earned, Looped, Pair
<1> QED BY <1>4, <1>5, <1>7, <1>8 DEF Earned

LEMMA ReadViolationEarned == VInv /\ Earned /\ ReadViolation => Earned'
<1> SUFFICES ASSUME VInv, Earned, ReadViolation PROVE Earned'
  OBVIOUS
<1>1. /\ InLoop /\ verdict = "violation" /\ phase = "done" /\ verdict' = "none"
      /\ UNCHANGED <<passes, meaning, allow, phase, before, next>>
      /\ UNCHANGED <<input, test, ignore, stage, todo, result>> /\ Variants' = Variants
  BY DEF ReadViolation, Wanted, listVars, driverVars, Variants
<1>2. Cleared = 1 /\ Pending /\ ~Pending' /\ stage # "end"
  BY <1>1 DEF VInv, Driving, InLoop, Pending
<1>3. Told'
  BY <1>1, <1>2 DEF Told, Cleared
<1>4. Stages' /\ Current' /\ Ended'
  BY <1>1, <1>2 DEF Earned, Stages, TestType, InLoop, Current, Ended
<1>5. Looped'
  <2>1. \A v : Good(v) => Good(v)'
    BY <1>1, GoodKept
  <2>2. \A v \in Variants : passes = Pair(v) => Good(v)
    BY <1>1, PairGood DEF Earned
  <2> QED BY <1>1, <2>1, <2>2 DEF Earned, Looped
<1> QED BY <1>3, <1>4, <1>5 DEF Earned

LEMMA ReadOtherEarned == VInv /\ Earned /\ ReadOther => Earned'
<1> SUFFICES ASSUME VInv, Earned, ReadOther PROVE Earned'
  OBVIOUS
<1>1. /\ InLoop /\ verdict # "none" /\ stage' = "end"
      /\ UNCHANGED <<passes, meaning, allow, phase, before, next, verdict>>
      /\ UNCHANGED <<input, test, ignore, todo>> /\ Variants' = Variants
      /\ result' = IF stage = "second" THEN "success" ELSE "failure"
  BY DEF ReadOther, compareVars, listVars, Variants
<1>2. phase = "done" /\ test # "validation" /\ Variants # {}
  BY <1>1 DEF VInv, Driving, Earned, Stages, TestType, Current, Pending, InLoop
<1>3. Told'
  <2>1. N' = N /\ Cleared' = Cleared
    BY <1>1 DEF N, Cleared
  <2> QED BY <1>1, <2>1, FineKept DEF Earned, Told, Skipped, Same
<1>4. Stages' /\ Current' /\ Looped'
  BY <1>1, <1>2 DEF Earned, Stages, TestType, InLoop, Current, Looped
<1>5. Ended'
  <2>1. \A v : Good(v) => Good(v)'
    BY <1>1, GoodKept
  <2>2. stage = "second" => \A v \in Variants : Good(v)
    BY DEF Earned, Looped
  <2> QED BY <1>1, <1>2, <2>1, <2>2 DEF Ended
<1> QED BY <1>3, <1>4, <1>5 DEF Earned

LEMMA LoopEndsEarned == VInv /\ Earned /\ LoopEnds => Earned'
<1> SUFFICES ASSUME VInv, Earned, LoopEnds PROVE Earned'
  OBVIOUS
<1>1. /\ InLoop /\ phase = "done" /\ verdict = "none" /\ todo = {}
      /\ UNCHANGED <<passes, meaning, phase, before, next, verdict>>
      /\ UNCHANGED <<input, test, ignore>> /\ Variants' = Variants
  BY DEF LoopEnds, Variants
<1>2. /\ Cleared = 1 /\ ~Pending /\ ~Pending' /\ test # "validation" /\ result = "none"
      /\ test = "undef" \/ (test = "violation" /\ stage = "first")
  BY <1>1 DEF VInv, Driving, Pending, Earned, Stages, TestType, InLoop
<1>3. Told'
  BY <1>1, <1>2 DEF Told, Cleared
<1>4. \A v \in Variants : Good(v) /\ Good(v)'
  <2>1. \A v : Good(v) => Good(v)'
    BY <1>1, GoodKept
  <2>2. \A v \in Variants : Good(v)
    BY <1>1, <1>2 DEF Earned, Looped, InLoop
  <2> QED BY <2>1, <2>2
<1>5. CASE stage = "first" /\ test = "undef"
  <2>1. stage' = "second" /\ todo' = Variants /\ UNCHANGED result
    BY <1>5 DEF LoopEnds
  <2>2. Stages' /\ Current' /\ Looped' /\ Ended'
    BY <1>1, <1>2, <1>4, <1>5, <2>1 DEF Stages, TestType, InLoop, Current, Looped, Ended
  <2> QED BY <1>3, <2>2 DEF Earned
<1>6. CASE ~(stage = "first" /\ test = "undef")
  <2>1. /\ stage' = "end" /\ result' = (IF stage = "second" THEN "failure" ELSE "success")
        /\ UNCHANGED todo
    BY <1>6 DEF LoopEnds
  <2>2. Stages' /\ Current' /\ Looped'
    BY <1>1, <1>2, <2>1 DEF Stages, TestType, InLoop, Current, Looped
  <2>3. result' = "success" => test = "violation"
    BY <1>1, <1>2, <1>6, <2>1 DEF InLoop
  <2>4. Ended'
    BY <1>1, <1>2, <1>4, <2>3 DEF Ended
  <2> QED BY <1>3, <2>2, <2>4 DEF Earned
<1> QED BY <1>5, <1>6

LEMMA EarnedStep == VInv /\ Earned /\ [TestNext]_testVars => Earned'
<1> SUFFICES ASSUME VInv, Earned, [TestNext]_testVars PROVE Earned'
  OBVIOUS
<1>1. CASE DriverNext
  BY <1>1, RunValidationEarned, ReadValidationEarned, ListVariantsEarned,
     CompareVariantEarned, ReadViolationEarned, ReadOtherEarned, LoopEndsEarned
     DEF DriverNext
<1>2. CASE CompareNext /\ UNCHANGED driverVars
  BY <1>2, CompareEarned
<1>3. CASE UNCHANGED testVars
  <2>1. /\ UNCHANGED <<passes, meaning, allow, phase, before, next, verdict>>
        /\ UNCHANGED <<input, test, ignore, stage, todo, result>>
    BY <1>3 DEF testVars, compareVars, listVars, driverVars
  <2>2. Told'
    <3>1. N' = N /\ Cleared' = Cleared
      BY <2>1 DEF N, Cleared
    <3> QED BY <2>1, <3>1, FineKept DEF Earned, Told, Skipped, Same
  <2>3. Stages' /\ Current' /\ Ended' /\ Looped'
    <3>1. \A v : Good(v) => Good(v)'
      BY <2>1, GoodKept
    <3>2. Variants' = Variants /\ (\A v : Pair(v)' = Pair(v)) /\ Pending' = Pending
          /\ InLoop' = InLoop
      BY <2>1 DEF Variants, Pair, Pending, InLoop
    <3> QED BY <2>1, <3>1, <3>2 DEF Earned, Stages, TestType, Current, Looped, Ended
  <2> QED BY <2>2, <2>3 DEF Earned
<1> QED BY <1>1, <1>2, <1>3 DEF TestNext

\* A test that passes says what it is meant to say: all passes of the compiler are
\* fine, or nothing has changed; or each variant differs from the original in a
\* supported pass, and of an undef test there is one.
THEOREM TestSound == InputType /\ TestType /\ TestSpec => []TestResultEarned
<1>1. InputType /\ TestType /\ TestInit => VInv /\ Earned
  BY InitInv, EarnedInit
<1>2. VInv /\ Earned /\ [TestNext]_testVars => (VInv /\ Earned)'
  BY TestStep, EarnedStep
<1>3. VInv /\ Earned => TestResultEarned
  <2> SUFFICES ASSUME VInv, Earned, result = "success" PROVE TestResultEarned
    BY DEF TestResultEarned
  <2>1. stage = "end"
    BY DEF Earned, Stages
  <2>2. CASE test = "validation"
    <3>1. ASSUME ~ignore, NEW j \in 1 .. Len(input) - 1
          PROVE  Abstract!Fine(j)
      <4>1. passes = input /\ verdict \in {"success", "skipped"}
        BY <2>1, <2>2, <3>1 DEF Earned, Current, Ended
      <4>2. CASE verdict = "success"
        BY <3>1, <4>1, <4>2 DEF Earned, Told, N
      <4>3. CASE verdict = "skipped"
        BY <3>1, <4>1, <4>3 DEF Earned, Told, N, Abstract!Fine
      <4> QED BY <4>1, <4>2, <4>3
    <3> QED BY <2>2, <3>1 DEF TestResultEarned
  <2>3. CASE test # "validation"
    <3>1. /\ \A v \in Variants :
               Differs(1, v) /\ ~input[1].banned /\ ~input[v].banned
          /\ test = "undef" => Variants # {}
      BY <2>3 DEF Earned, Ended, Good
    <3>2. test = "violation" \/ test = "undef"
      BY <2>3 DEF Earned, Stages, TestType
    <3> QED BY <3>1, <3>2 DEF TestResultEarned
  <2> QED BY <2>2, <2>3
<1> QED BY <1>1, <1>2, <1>3, PTL DEF TestSpec
================================================================================
