----------------------------- MODULE ParserStates -----------------------------
(***************************************************************************)
(* The states of a parser (common/parser.cpp): the visitor follows every   *)
(* transition from "start" on, one case of a select after the other, and   *)
(* merges what the cases leave behind.  accept is a return statement and   *)
(* reject an exit statement in disguise.                                   *)
(*                                                                         *)
(* As in PathMerge an expression has one value in every world; a store     *)
(* gives every world the parser's parameters at once, since conditions     *)
(* apply to all of them alike.                                             *)
(***************************************************************************)
EXTENDS Naturals, Sequences, SequencesExt, FiniteSets

CONSTANTS
  Worlds,      \* the valuations of the symbolic inputs
  States,      \* the states of the parser, "start" among them
  Params,      \* what a world can have in the parameters of the parser
  Parsers,     \* what the states may be: see parser
  Input        \* the parameters with which the parser is called

\* What a transition may name.
Declarations == States \cup {"accept", "reject"}

SelectCases == [keys : SUBSET {s.key : s \in Params}, to : Declarations]

ASSUME ParsersAssumption ==
  /\ IsFiniteSet(States) /\ "start" \in States
  /\ {"accept", "reject", "none", "back", "end"} \cap States = {}
  /\ \A p \in Parsers : \A s \in States :
       /\ p[s].body \in [Params -> Params]
       /\ p[s].next.kind \in {"none", "path", "select"}
       /\ p[s].next.kind = "path" => p[s].next.to \in Declarations
       /\ p[s].next.cases \in Seq(SelectCases)
       /\ p[s].next.default \in Declarations \cup {"none"}

\* Rejected parameters are parameters, too.
ASSUME InputAssumption ==
  /\ Input \in [Worlds -> Params]
  /\ \A s \in Params : [s EXCEPT !.valid = FALSE] \in Params

VARIABLES
  parser,     \* for each state: its body, a function on the parameters of a
              \* world, and its transition [kind, to, cases, default]
  pc,         \* the declaration that is visited, or "back" from all of them
  frames,     \* open calls of process_select_cases, outermost first
  store,
  fwd,        \* conjunction of the forward_conds
  ret,        \* conjunction of the return_conds
  returns,    \* return_states of the parser's scope
  exitCond, exits, exited,
  returned,   \* is_returned of the parser's scope
  visited     \* visited_states of the parser's scope

parserVars == <<parser, pc, frames, store, fwd, ret, returns, exitCond, exits,
                exited, returned, visited>>
leaving == <<ret, returns, exitCond, exits, exited, returned>>

Nothing == [dom |-> {}, val |-> Input]

\* A list of pairs, as the partial store its merge produces (see PathMerge).
MergeVars(p, cur) ==
  [w \in Worlds |-> IF w \in p.dom THEN p.val[w] ELSE cur[w]]

AddEarlier(p, cond, s) == [dom |-> p.dom \cup cond, val |-> MergeVars(p, s)]

AddLater(p, cond, s) ==
  [dom |-> p.dom \cup cond, val |-> MergeVars([dom |-> cond, val |-> s], p.val)]

Init ==
  /\ parser \in Parsers
  /\ pc = "start" /\ frames = <<>>
  /\ store = Input
  /\ fwd = Worlds /\ ret = Worlds /\ returns = Nothing
  /\ exitCond = Worlds /\ exits = Nothing
  /\ exited = FALSE /\ returned = FALSE
  /\ visited = {}

frame == Last(frames)

\* The declaration a name stands for is visited, but no state a second time.
Target(to, seen) == IF to \in seen THEN "back" ELSE to

-----------------------------------------------------------------------------
(* States *)

Body == [w \in Worlds |-> parser[pc].body[store[w]]]

\* A state without a transition goes to reject.
RejectState ==
  /\ pc \in States /\ parser[pc].next.kind = "none"
  /\ visited' = visited \cup {pc}
  /\ store' = Body
  /\ pc' = "reject"
  /\ UNCHANGED <<parser, frames, fwd, leaving>>

\* Mutant: a state is visited even if it has been visited before.
GoToAgain ==
  /\ pc \in States /\ parser[pc].next.kind = "path"
  /\ visited' = visited \cup {pc}
  /\ store' = Body
  /\ pc' = parser[pc].next.to
  /\ UNCHANGED <<parser, frames, fwd, leaving>>

GoTo ==
  /\ pc \in States /\ parser[pc].next.kind = "path"
  /\ visited' = visited \cup {pc}
  /\ store' = Body
  /\ pc' = Target(parser[pc].next.to, visited')
  /\ UNCHANGED <<parser, frames, fwd, leaving>>

\* Worlds in which the key set of a case matches: it has a value, a mask, a
\* range, or several of them.
Match(case, s) == {w \in Worlds : s[w].key \in case.keys}

\* gather_select_conds.  The cases do not exclude each other, only default
\* excludes the cases before it, of which there are none behind it.
SelectConds(next, s) ==
  LET matches == UNION {Match(next.cases[k], s) : k \in DOMAIN next.cases} IN
  [k \in DOMAIN next.cases |-> [cond |-> Match(next.cases[k], s), to |-> next.cases[k].to]]
    \o <<[cond |-> Worlds \ matches,
          to |-> IF next.default = "none" THEN "reject" ELSE next.default]>>

Select ==
  /\ pc \in States /\ parser[pc].next.kind = "select"
  /\ visited' = visited \cup {pc}
  /\ store' = Body
  /\ frames' = Append(frames,
       [cases |-> SelectConds(parser[pc].next, store'), open |-> FALSE,
        old |-> store', visited |-> visited', kept |-> Nothing,
        exitAll |-> TRUE, returnAll |-> TRUE, fwd |-> fwd])
  /\ pc' = "back"
  /\ UNCHANGED <<parser, fwd, leaving>>

-----------------------------------------------------------------------------
(* process_select_cases *)

AtSelect == pc = "back" /\ frames # <<>>

CaseOpen ==
  /\ AtSelect /\ ~frame.open /\ frame.cases # <<>>
  /\ fwd' = frame.fwd \cap Head(frame.cases).cond
  /\ frames' = [frames EXCEPT ![Len(frames)] =
                  [frame EXCEPT !.open = TRUE, !.old = store, !.visited = visited]]
  /\ pc' = Target(Head(frame.cases).to, visited)
  /\ UNCHANGED <<parser, store, leaving, visited>>

\* Mutant: what one case has visited is visited for the others, too.
VisitedAfterAll == visited

\* set_visited_states
VisitedAfter == frame.visited

CaseEnd ==
  /\ AtSelect /\ frame.open
  /\ visited' = VisitedAfter
  /\ fwd' = frame.fwd
  /\ frames' = [frames EXCEPT ![Len(frames)] =
       [frame EXCEPT !.open = FALSE, !.cases = Tail(@),
                     !.kept = IF exited \/ returned THEN @
                              ELSE AddEarlier(@, Head(frame.cases).cond, store),
                     !.exitAll = @ /\ exited, !.returnAll = @ /\ returned]]
  /\ exited' = FALSE /\ returned' = FALSE
  /\ store' = frame.old
  /\ UNCHANGED <<parser, pc, ret, returns, exitCond, exits>>

SelectEnd ==
  /\ AtSelect /\ ~frame.open /\ frame.cases = <<>>
  /\ exited' = frame.exitAll /\ returned' = frame.returnAll
  /\ store' = MergeVars(frame.kept, store)
  /\ frames' = Front(frames)
  /\ UNCHANGED <<parser, pc, fwd, ret, returns, exitCond, exits, visited>>

-----------------------------------------------------------------------------
(* accept and reject *)

\* Mutant: a path that overlaps with another one that has returned.
PathCondForward == fwd

PathCond == fwd \cap ret

\* The ReturnStatement of accept.
Accept ==
  /\ pc = "accept"
  /\ pc' = "back"
  /\ returns' = AddEarlier(returns, PathCond \cap exitCond, store)
  /\ ret' = ret \ PathCond
  /\ returned' = TRUE
  /\ UNCHANGED <<parser, frames, store, fwd, exitCond, exits, exited, visited>>

\* propagate_validity(false) for all structs that are copied out.
Invalidated(s) == [s EXCEPT !.valid = FALSE]

\* The ExitStatement of reject, with in_parser set.
Reject ==
  /\ pc = "reject"
  /\ pc' = "back"
  /\ exits' = AddLater(exits, exitCond \cap PathCond,
                       [w \in Worlds |-> Invalidated(store[w])])
  /\ exitCond' = exitCond \ PathCond
  /\ exited' = TRUE
  /\ UNCHANGED <<parser, frames, store, fwd, ret, returns, returned, visited>>

\* copy_out of apply, and the merge_exit_states of run_arch_block.
ParserEnd ==
  /\ pc = "back" /\ frames = <<>>
  /\ pc' = "end"
  /\ store' = MergeVars(exits, MergeVars(returns, store))
  /\ UNCHANGED <<parser, frames, fwd, leaving, visited>>

Next ==
  \/ RejectState \/ GoTo \/ Select
  \/ CaseOpen \/ CaseEnd \/ SelectEnd
  \/ Accept \/ Reject \/ ParserEnd

Spec == Init /\ [][Next]_parserVars

\* A recursion in one process, which nothing else has to wait for.
FairSpec == Spec /\ WF_parserVars(Next)

-----------------------------------------------------------------------------

\* No world leaves the parser twice, and those that have not left are the ones
\* the next accept or reject may still be for: conditions of cases overlap, paths
\* are cut, and yet what accept and reject record is recorded for each input once
\* (common/parser.cpp:102, common/visitor_interpret.cpp:361).
LeavesOnce ==
  /\ returns.dom \cap exits.dom = {}
  /\ returns.dom \cap ret = {}
  /\ exits.dom \cap exitCond = {}
  /\ Worlds \ (returns.dom \cup exits.dom) = ret \cap exitCond

\* The visitor comes back from every parser, loops or not: a state is not
\* visited within itself, and every path is cut at some point
\* (common/parser.cpp:134, :184).
VisitEnds == <>(pc = "end")
=============================================================================
