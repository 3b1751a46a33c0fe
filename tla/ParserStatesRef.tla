--------------------------- MODULE ParserStatesRef ---------------------------
(***************************************************************************)
(* What a parser does with one input: it takes the first case that matches *)
(* and goes on until it accepts or rejects.  ToZ3 does not unroll loops:   *)
(* an input that comes to a state for the second time is accepted there.   *)
(***************************************************************************)
EXTENDS ParserStates

\* The state that a transition leads to.
Taken(next, s) ==
  LET matching == {k \in DOMAIN next.cases : s.key \in next.cases[k].keys} IN
  CASE next.kind = "none" -> "reject"
    [] next.kind = "path" -> next.to
    [] OTHER ->
         IF matching # {} THEN next.cases[Min(matching)].to
         ELSE IF next.default = "none" THEN "reject" ELSE next.default

\* What is left of the parameters by a parse from a declaration on, with the states
\* that have not been visited yet.
Parse[rest \in SUBSET States] ==
  [at \in Declarations |-> [s \in Params |->
     IF at \in rest
     THEN LET after == parser[at].body[s]
          IN  Parse[rest \ {at}][Taken(parser[at].next, after)][after]
     ELSE IF at = "reject" THEN Invalidated(s) ELSE s]]

\* At the end of a parser every world has what its own parse has left: states
\* that are reached on several paths, overlapping cases, missing defaults and
\* rejects under some conditions included (common/parser.cpp:116, :158).
ParserAgrees ==
  pc = "end" => \A w \in Worlds : store[w] = Parse[States]["start"][Input[w]]

-----------------------------------------------------------------------------
(***************************************************************************)
(* A case that ends in a loop neither returns nor exits, and then a later  *)
(* case that matches as well returns in its place.  Parsers with a loop    *)
(* are checked with disjoint cases only.                                   *)
(***************************************************************************)
Transition(next) ==
  IF next.kind = "path" THEN {next.to}
  ELSE {next.cases[k].to : k \in DOMAIN next.cases} \cup {next.default}

\* An order of the states in which every transition goes on to an earlier one.
Ranks(p) ==
  {rank \in [States -> 1 .. Cardinality(States)] :
     \A s \in States : \A t \in Transition(p[s].next) \cap States : rank[t] < rank[s]}

Loops(p) == Ranks(p) = {}

Disjoint(p) ==
  \A s \in States : \A j, k \in DOMAIN p[s].next.cases :
    j # k => p[s].next.cases[j].keys \cap p[s].next.cases[k].keys = {}

Orderly(p) == Loops(p) => Disjoint(p)
-----------------------------------------------------------------------------
(* What the visitor knows on its way *)

Stores == [Worlds -> Params]
Partial == [dom : SUBSET Worlds, val : Stores]
Frames ==
  [cases : Seq([cond : SUBSET Worlds, to : Declarations]), open : BOOLEAN,
   old : Stores, visited : SUBSET States, kept : Partial,
   exitAll : BOOLEAN, returnAll : BOOLEAN, fwd : SUBSET Worlds]

TypeOK ==
  /\ pc \in Declarations \cup {"back", "end"}
  /\ frames \in Seq(Frames)
  /\ store \in Stores
  /\ fwd \subseteq Worlds /\ ret \subseteq Worlds /\ exitCond \subseteq Worlds
  /\ returns \in Partial /\ exits \in Partial
  /\ exited \in BOOLEAN /\ returned \in BOOLEAN
  /\ visited \subseteq States

\* The worlds that have neither accepted nor rejected.
Within == ret \cap exitCond

Done(w) == Parse[States]["start"][Input[w]]

\* What is to come for the parameters s of a world, on a path that has visited seen.
Rest(at, s, seen) == IF at = "back" THEN s ELSE Parse[States \ seen][at][s]

\* The worlds the case of a select is visited for, or all of its worlds in between.
Inside(f) == IF f.open THEN f.fwd \cap Head(f.cases).cond ELSE f.fwd
Outer(d) == IF d = 0 THEN Worlds ELSE Inside(frames[d])
Left(f) == IF f.open THEN Tail(f.cases) ELSE f.cases

\* Selects are nested in cases: conditions go together, and what a select has put
\* aside is what it goes on with.
Nested ==
  /\ \A d \in DOMAIN frames :
       /\ frames[d].fwd = Outer(d - 1)
       /\ frames[d].open => frames[d].cases # <<>>
       /\ d < Len(frames) => frames[d].open
  /\ pc # "end" => fwd = Outer(Len(frames))
  /\ pc = "end" => frames = <<>>
  /\ pc # "back" /\ frames # <<>> => frame.open
  /\ frames # <<>> /\ ~frame.open =>
       store = frame.old /\ visited = frame.visited /\ ~exited /\ ~returned
  /\ exited \/ returned => pc \in {"back", "end"}

\* A path goes on to earlier states only, where there is such an order.
Ranked ==
  /\ pc \in States => pc \notin visited
  /\ \A rank \in Ranks(parser) :
       /\ pc \in States => \A s \in visited : rank[pc] < rank[s]
       /\ \A d \in DOMAIN frames : \A k \in DOMAIN frames[d].cases :
            frames[d].cases[k].to \in States =>
              \A s \in frames[d].visited : rank[frames[d].cases[k].to] < rank[s]

\* Disjoint cases stay so, and what has been kept belongs to none that is left.
CasesDisjoint ==
  Disjoint(parser) => \A d \in DOMAIN frames : \A k \in DOMAIN frames[d].cases :
    /\ frames[d].kept.dom \cap frames[d].cases[k].cond = {}
    /\ \A j \in 1 .. k - 1 : frames[d].cases[j].cond \cap frames[d].cases[k].cond = {}

Recorded ==
  /\ \A w \in returns.dom : returns.val[w] = Done(w)
  /\ \A w \in exits.dom : exits.val[w] = Done(w)

\* A world whose path is visited goes on to what its parse leaves; where nothing
\* is left to visit it has come to a loop.
Current ==
  (pc # "end" /\ (frames = <<>> \/ frame.open)) => \A w \in Within \cap fwd :
    /\ Rest(pc, store[w], visited) = Done(w)
    /\ pc = "back" => ~exited /\ ~returned /\ Loops(parser)

\* The first case that matches is still to be visited.
Waits(f, w) == \E k \in DOMAIN Left(f) :
  /\ w \in Left(f)[k].cond
  /\ \A j \in 1 .. k - 1 : w \notin Left(f)[j].cond
  /\ Rest(Left(f)[k].to, f.old[w], f.visited) = Done(w)

\* The case of a world has come to a loop.
IsKept(f, w) ==
  /\ w \in f.kept.dom /\ f.kept.val[w] = Done(w)
  /\ ~f.exitAll /\ ~f.returnAll /\ Loops(parser)

Framed == \A d \in DOMAIN frames : \A w \in Within \cap frames[d].fwd :
  \/ frames[d].open /\ w \in Head(frames[d].cases).cond
  \/ Waits(frames[d], w)
  \/ IsKept(frames[d], w)

\* Wherever the visitor is, every world has its result, or is on the way to it: on
\* the path that is visited, or in a select that is open, in the first case that
\* matches and has not been visited yet, or cut by a loop in one that has been
\* (common/parser.cpp:116, :158).
IInv ==
  /\ TypeOK /\ LeavesOnce
  /\ Nested /\ Ranked /\ CasesDisjoint
  /\ Recorded /\ Current /\ Framed
  /\ ParserAgrees
=============================================================================
