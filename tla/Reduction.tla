------------------------------ MODULE Reduction ------------------------------
(***************************************************************************)
(* What the reduction of a program with a bug promises: it goes from one   *)
(* program that shows the bug to the next, in any way it likes, and leaves *)
(* behind the last one, or nothing.                                        *)
(***************************************************************************)
CONSTANTS
  ShowsBug(_, _),   \* in a setting, a program shows the bug that is looked for
  NoFile

VARIABLES
  input,     \* the program to be reduced
  setting,   \* the tools, and what they should say
  program,   \* the smallest program so far
  output     \* the file that is left behind

reductionVars == <<input, setting, program, output>>

Init == program = input /\ output = NoFile

\* What the bug looks like is known before the first reduction.
Prepare ==
  /\ program = input /\ output = NoFile
  /\ UNCHANGED <<input, program, output>>

Reduce ==
  /\ output = NoFile
  /\ ShowsBug(setting, program')
  /\ UNCHANGED <<input, setting, output>>

Emit ==
  /\ output = NoFile
  /\ output' = program
  /\ UNCHANGED <<input, setting, program>>

Next == Prepare \/ Reduce \/ Emit

Spec == Init /\ [][Next]_reductionVars
=============================================================================
