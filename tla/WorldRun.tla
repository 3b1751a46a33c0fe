------------------------------- MODULE WorldRun -------------------------------
(***************************************************************************)
(* What the symbolic execution promises: an ordinary P4 interpreter, run   *)
(* once in every world.  Each world has its own store and its own place in *)
(* the program: it is running the current statement, waits for a later     *)
(* branch, is done with its branch, has returned from a call that is still *)
(* open, or has exited the block.                                          *)
(***************************************************************************)
EXTENDS Naturals

CONSTANTS Worlds, Vars, Vals, Input, Ops, MaxDepth

VARIABLES
  conc,    \* the store of the interpreter, in every world
  status,  \* what a world is doing
  at       \* the open branch or call it waits in, is done with, or left

Statuses == {"live", "wait", "done", "returned", "exited"}

Live == {w \in Worlds : status[w] = "live"}

At(s, d) == {w \in Worlds : status[w] = s /\ at[w] = d}

Init ==
  /\ conc = Input
  /\ status = [w \in Worlds |-> "live"]
  /\ at = [w \in Worlds |-> 0]

Assign(v, u, op) ==
  /\ conc' = [conc EXCEPT ![v] =
                [w \in Worlds |-> IF status[w] = "live" THEN op[conc[u][w]]
                                  ELSE conc[v][w]]]
  /\ UNCHANGED <<status, at>>

\* The worlds of S go from the current statement to status s at d.
Leave(S, s, d) ==
  /\ status' = [w \in Worlds |-> IF w \in Live \cap S THEN s ELSE status[w]]
  /\ at' = [w \in Worlds |-> IF w \in Live \cap S THEN d ELSE at[w]]
  /\ UNCHANGED conc

\* The worlds that have status s at d take up the current statement.
Enter(s, d) ==
  /\ status' = [w \in Worlds |-> IF w \in At(s, d) THEN "live" ELSE status[w]]
  /\ at' = [w \in Worlds |-> IF w \in At(s, d) THEN 0 ELSE at[w]]
  /\ UNCHANGED conc

\* The worlds that wait at d or are done there take up the current statement.
Resume(d) ==
  /\ status' = [w \in Worlds |->
       IF w \in At("wait", d) \cup At("done", d) THEN "live" ELSE status[w]]
  /\ at' = [w \in Worlds |->
       IF w \in At("wait", d) \cup At("done", d) THEN 0 ELSE at[w]]
  /\ UNCHANGED conc

\* End of one branch of d, and start of the branch for the worlds of S.
Turn(S, d) ==
  /\ status' = [w \in Worlds |->
       IF w \in Live THEN "done"
       ELSE IF w \in At("wait", d) \cap S THEN "live" ELSE status[w]]
  /\ at' = [w \in Worlds |->
       IF w \in Live THEN d
       ELSE IF w \in At("wait", d) \cap S THEN 0 ELSE at[w]]
  /\ UNCHANGED conc

Next ==
  \/ \E v, u \in Vars, op \in Ops : Assign(v, u, op)
  \/ Leave(Worlds, "exited", 0)
  \/ \E d \in 1 .. MaxDepth :
       \/ Leave(Worlds, "returned", d)
       \/ \E S \in SUBSET Worlds :
            Leave(S, "wait", d) \/ Turn(S, d)
       \/ Enter("done", d)
       \/ Enter("returned", d)
       \/ Resume(d)

Spec == Init /\ [][Next]_<<conc, status, at>>
=============================================================================
