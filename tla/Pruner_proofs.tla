---------------------------- MODULE Pruner_proofs ----------------------------
(***************************************************************************)
(* Pruner implements Reduction, whatever the passes make of a program,     *)
(* whatever the tools say of it, and for any number of rounds.             *)
(***************************************************************************)
EXTENDS Pruner, TLAPS

\* What the code checks of a candidate is that it shows the bug.
LEMMA AcceptedShows ==
  ASSUME NEW p, Accepted(p)
  PROVE  ShowsBug(<<tools, config>>, p)
<1>1. CASE config.code = 20
  <2>1. Wanted = "SemanticBug"
    BY <1>1 DEF Wanted, Classify
  <2> QED BY <1>1, <2>1 DEF Accepted, ExitInfo, ShowsBug
<1>2. CASE config.code # 20
  <2>1. Wanted # "SemanticBug"
    BY <1>2 DEF Wanted, Classify
  <2>2. ExitInfo(p) = Compiler(tools, p)
    BY <2>1 DEF ExitInfo
  <2>3. Compiler(tools, p).code = config.code
    BY <2>2 DEF Accepted
  <2>4. Classify(Compiler(tools, p)) = Classify(config)
    BY <2>2 DEF Accepted, Wanted
  <2>5. ASSUME config.code \notin {0, 30}
        PROVE  "Compiler Bug" \in Compiler(tools, p).msg <=> "Compiler Bug" \in config.msg
    BY <1>2, <2>3, <2>4, <2>5 DEF Classify
  <2> QED BY <1>2, <2>3, <2>5 DEF ShowsBug
<1> QED BY <1>1, <1>2

\* Nothing is written before the end, and replace_variables hands on the
\* program it was given or one it has checked.
PrunerInv ==
  /\ phase # "end" => output = NoFile
  /\ phase = "config" => program = input
  /\ phase \in {"replace", "replaced"} => program = caller \/ Accepted(program)

\* A candidate that is taken is a reduction.
LEMMA TakenReduces ==
  ASSUME output = NoFile, UNCHANGED <<input, tools, config, output>>,
         program' = program \/ Accepted(program')
  PROVE  [Reduced!Next]_Reduced!reductionVars
<1>1. CASE program' = program
  BY <1>1 DEF Reduced!reductionVars
<1>2. CASE Accepted(program')
  BY <1>2, AcceptedShows DEF Reduced!Next, Reduced!Reduce
<1> QED BY <1>1, <1>2

LEMMA AcceptedNext ==
  ASSUME UNCHANGED givenVars
  PROVE  Accepted(program)' <=> Accepted(program')
BY DEF givenVars, Accepted, ExitInfo, Wanted, Classify

LEMMA InvInit == Init => PrunerInv
BY DEF Init, PrunerInv

LEMMA InvStep == PrunerInv /\ [Next]_vars => PrunerInv'
<1> SUFFICES ASSUME PrunerInv, [Next]_vars PROVE PrunerInv'
  OBVIOUS
<1> USE DEF PrunerInv
<1>1. CASE Configure
  BY <1>1 DEF Configure
<1>2. CASE RoundPasses
  <2>1. /\ phase' = phase /\ output' = output /\ caller' = caller
        /\ phase # "config" /\ phase # "end" /\ phase # "replaced"
        /\ program' = program \/ Accepted(program')
    BY <1>2 DEF RoundPasses, Another, InLoop
  <2>2. Accepted(program)' <=> Accepted(program')
    BY <1>2, AcceptedNext DEF RoundPasses
  <2> QED BY <2>1, <2>2
<1>3. CASE RoundFails
  <2>1. /\ phase' = phase /\ output' = output /\ caller' = caller
        /\ phase # "config" /\ phase # "end" /\ program' = program
    BY <1>3 DEF RoundFails, Another, InLoop
  <2>2. Accepted(program) => Accepted(program)'
    BY <1>3, AcceptedNext DEF RoundFails
  <2> QED BY <2>1, <2>2
<1>4. CASE LoopEnds
  <2>1. /\ phase' \in {"expressions", "booleans", "generic", "replaced"}
        /\ phase' = "replaced" => phase = "replace"
    BY <1>4 DEF LoopEnds, InLoop, After
  <2>2. Accepted(program) => Accepted(program)'
    BY <1>4, AcceptedNext DEF LoopEnds
  <2> QED BY <1>4, <2>1, <2>2 DEF LoopEnds, InLoop
<1>5. CASE ApplyGenericPasses
  BY <1>5 DEF ApplyGenericPasses, givenVars
<1>6. CASE CheckReplaced
  BY <1>6 DEF CheckReplaced
<1>7. CASE ApplyUnusedDecls
  BY <1>7 DEF ApplyUnusedDecls
<1>8. CASE Emit
  BY <1>8 DEF Emit
<1>9. CASE Throw
  BY <1>9 DEF Throw
<1>10. CASE UNCHANGED vars
  <2>1. UNCHANGED <<phase, program, caller, output, input>> /\ UNCHANGED givenVars
    BY <1>10 DEF vars, givenVars
  <2>2. Accepted(program)' <=> Accepted(program)
    BY <2>1, AcceptedNext
  <2> QED BY <2>1, <2>2
<1> QED BY <1>1, <1>2, <1>3, <1>4, <1>5, <1>6, <1>7, <1>8, <1>9, <1>10 DEF Next

LEMMA Simulation == PrunerInv /\ [Next]_vars => [Reduced!Next]_Reduced!reductionVars
<1> SUFFICES ASSUME PrunerInv, [Next]_vars PROVE [Reduced!Next]_Reduced!reductionVars
  OBVIOUS
<1>1. CASE Configure
  BY <1>1 DEF Configure, PrunerInv, Reduced!Next, Reduced!Prepare
<1>2. CASE RoundPasses
  BY <1>2, TakenReduces DEF RoundPasses, Another, InLoop, PrunerInv, givenVars
<1>3. CASE RoundFails
  BY <1>3 DEF RoundFails, givenVars, Reduced!reductionVars
<1>4. CASE LoopEnds
  BY <1>4 DEF LoopEnds, givenVars, Reduced!reductionVars
<1>5. CASE ApplyGenericPasses
  BY <1>5, TakenReduces DEF ApplyGenericPasses, PrunerInv, givenVars
<1>6. CASE CheckReplaced
  BY <1>6 DEF CheckReplaced, PrunerInv, givenVars, Reduced!reductionVars
<1>7. CASE ApplyUnusedDecls
  BY <1>7, AcceptedShows DEF ApplyUnusedDecls, PrunerInv, givenVars, Reduced!reductionVars,
     Reduced!Next, Reduced!Reduce
<1>8. CASE Emit
  BY <1>8 DEF Emit, PrunerInv, givenVars, Reduced!Next, Reduced!Emit, Reduced!reductionVars
<1>9. CASE Throw
  BY <1>9 DEF Throw, givenVars, Reduced!reductionVars
<1>10. CASE UNCHANGED vars
  BY <1>10 DEF vars, givenVars, Reduced!reductionVars
<1> QED BY <1>1, <1>2, <1>3, <1>4, <1>5, <1>6, <1>7, <1>8, <1>9, <1>10 DEF Next

\* p4pruner goes only from one program that shows the bug to the next, and
\* writes the last of them or nothing.
THEOREM PrunerReduces == Spec => ReductionRefined
<1>1. Init => Reduced!Init
  BY DEF Init, Reduced!Init
<1> QED BY <1>1, InvInit, InvStep, Simulation, PTL
        DEF Spec, ReductionRefined, Reduced!Spec
=============================================================================
