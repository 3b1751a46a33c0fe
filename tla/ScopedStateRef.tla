---------------------------- MODULE ScopedStateRef ----------------------------
(***************************************************************************)
(* ScopedState in lockstep with an interpreter that has lexical scopes: a  *)
(* callee sees its own variables and those of the control, never those of  *)
(* its caller, and the variables of an inner block end with it.  Where a   *)
(* world is in the program is kept as in WorldRun.                         *)
(*                                                                         *)
(* Programs are those whose names do not hide each other within a call or  *)
(* hide a global one: the code has one scope per call only, and looks      *)
(* names up in the caller's.                                               *)
(***************************************************************************)
EXTENDS ScopedState

CONSTANTS
  Signatures,  \* parameter lists of the callees
  Results,     \* variables that a function's value is assigned to
  MaxDepth     \* bound: open calls and ifs

ASSUME SignaturesAssumption ==
  /\ MaxDepth \in Nat
  /\ \A params \in Signatures :
       /\ params \in Seq([name : Locals, dir : {"in", "out", "inout"}])
       /\ \A j, k \in DOMAIN params : params[j].name = params[k].name => j = k

VARIABLES
  env,           \* for each scope: what each world has in its variables
  seen,          \* for each frame: the local names a statement may use
  status, at

Run == INSTANCE WorldRun WITH conc <- Input, Vars <- Names, Vals <- {}, Ops <- {}

refVars == <<env, seen, status, at>>
allVars == <<scopedVars, refVars>>

Usable == Last(seen) \cup Globals

Place(e, n) == IF n \in Globals /\ Len(e) > 2 THEN 2 ELSE Len(e)
Value(e, n) == e[Place(e, n)][n]

\* The worlds of W assign.
Assign(e, n, val, W) == [e EXCEPT ![Place(e, n)][n] = Ite(W, val, @)]

\* The worlds of W leave a call.
LeaveCall(e, copyOut, W) ==
  [i \in DOMAIN Front(e) |-> [n \in DOMAIN e[i] |->
     IF n \in DOMAIN copyOut /\ Place(Front(e), n) = i
     THEN Ite(W, Value(e, copyOut[n]), e[i][n]) ELSE e[i][n]]]

\* The variables of the block after all calls have been left.
Exit(e) ==
  LET left[i \in DOMAIN e] ==
        IF i = Len(e) THEN e ELSE LeaveCall(left[i + 1], scopes[i + 1].copyOut, Worlds)
  IN  left[1][1]

RefInit ==
  /\ Init
  /\ env = <<>> /\ seen = <<>>
  /\ status = [w \in Worlds |-> "live"] /\ at = [w \in Worlds |-> 0]

RefAssignment ==
  \E n, m \in Usable :
    /\ n # m
    /\ AssignmentStatement(n, m)
    /\ env' = Assign(env, n, Value(env, m), Run!Live)
    /\ UNCHANGED <<seen, status, at>>

RefDeclaration ==
  \E n \in Locals \ Last(seen) :
    /\ Declaration(n)
    /\ env' = [env EXCEPT ![Len(env)] = With(@, n, Constant(Undef))]
    /\ seen' = [seen EXCEPT ![Len(seen)] = @ \cup {n}]
    /\ UNCHANGED <<status, at>>

ParamValues(params, args) ==
  [n \in {params[k].name : k \in DOMAIN params} |->
     LET k == CHOOSE i \in DOMAIN params : params[i].name = n
     IN IF params[k].dir = "out" THEN Constant(Undef) ELSE Value(env, args[k])]

RefCall ==
  \E params \in Signatures :
    \E args \in [DOMAIN params -> Usable], result \in (Results \cap Usable) \cup {"none"} :
      /\ Len(frames) < MaxDepth
      /\ Call(params, args, result)
      /\ env' = Append(env, ParamValues(params, args))
      /\ seen' = Append(seen, {params[k].name : k \in DOMAIN params})
      /\ UNCHANGED <<status, at>>

\* A call in the right operand of && or ||.
RefShortCircuit ==
  \E params \in Signatures, c \in SUBSET Worlds \ {{}, Worlds} :
    \E args \in [DOMAIN params -> Usable] :
      /\ Len(frames) < MaxDepth - 1
      /\ ShortCircuit(c, params, args)
      /\ env' = Append(env, ParamValues(params, args))
      /\ seen' = seen \o <<Last(seen), {params[k].name : k \in DOMAIN params}>>
      /\ Run!Leave(Worlds \ c, "wait", Len(frames) + 1)

CallDepth == CHOOSE d \in DOMAIN frames :
  /\ frames[d].kind = "call"
  /\ \A j \in DOMAIN frames : frames[j].kind = "call" => j <= d

\* What a world returns it keeps with the callee's variables.
RefReturn ==
  \E n \in Usable :
    /\ ReturnStatement(GetVar(scopes, n))
    /\ env' = [env EXCEPT ![Len(env)] =
                 With(@, "result", Ite(Run!Live, Value(env, n),
                   IF "result" \in DOMAIN @ THEN @["result"] ELSE Constant(Undef)))]
    /\ Run!Leave(Worlds, "returned", CallDepth)
    /\ UNCHANGED seen

\* No function exits: the front end does not allow it.
RefExit ==
  /\ \A d \in DOMAIN frames : frames[d].result = "none"
  /\ ExitStatement
  /\ env' = [env EXCEPT ![1] =
       [n \in DOMAIN @ |-> Ite(Run!Live, Exit(env)[n], @[n])]]
  /\ Run!Leave(Worlds, "exited", 0)
  /\ UNCHANGED seen

RefIfThen ==
  \E c \in SUBSET Worlds \ {{}, Worlds} :
    /\ Len(frames) < MaxDepth
    /\ IfThen(c)
    /\ seen' = Append(seen, Last(seen))
    /\ Run!Leave(Worlds \ c, "wait", Len(frames) + 1)
    /\ UNCHANGED env

RefStatement ==
  /\ NextStatement
  /\ \/ RefAssignment \/ RefDeclaration \/ RefCall
     \/ RefReturn \/ RefExit \/ RefIfThen \/ RefShortCircuit

RefIfElse ==
  /\ IfElse
  /\ seen' = Append(Front(seen), seen[Len(seen) - 1])
  /\ Run!Turn(Worlds, Len(frames))
  /\ UNCHANGED env

RefIfEnd ==
  /\ IfEnd
  /\ seen' = Front(seen)
  /\ Run!Enter("done", Len(frames))
  /\ UNCHANGED env

Back == Run!Live \cup Run!At("returned", Len(frames))

RefCallEnd ==
  /\ CallEnd
  /\ LET left == LeaveCall(env, Last(scopes).copyOut, Back)
     IN env' = IF frame.result \in {"none", "operand"} THEN left
               ELSE Assign(left, frame.result, Last(env)["result"], Back)
  /\ seen' = Front(seen)
  /\ Run!Enter("returned", Len(frames))

RefBlockBegin ==
  /\ BlockBegin
  /\ env' = <<[n \in Globals |-> Input[n]], [n \in Globals |-> Input[n]]>>
  /\ seen' = <<{}>>
  /\ UNCHANGED <<status, at>>

RefBlockEnd ==
  /\ BlockEnd
  /\ env' = LeaveCall(env, Last(scopes).copyOut, Back)
  /\ seen' = <<>>
  /\ UNCHANGED <<status, at>>

RefShortCircuitEnd ==
  /\ ShortCircuitEnd
  /\ seen' = Front(seen)
  /\ Run!Resume(Len(frames))
  /\ UNCHANGED env

RefEnd == RefIfElse \/ RefIfEnd \/ RefCallEnd \/ RefShortCircuitEnd \/ RefBlockEnd

RefSpec == RefInit /\ [][RefBlockBegin \/ RefStatement \/ RefEnd]_allVars

-----------------------------------------------------------------------------

\* Wherever the visitor is, a name it looks up is the variable that is meant,
\* with the value the program has given it (state.cpp:644): for all inputs that
\* reach the statement.
NamesAgree ==
  (frames # <<>> /\ ~exited /\ ~returned) =>
    \A n \in Usable, w \in Run!Live : GetVar(scopes, n)[w] = Value(env, n)[w]

\* The scope a frame belongs to.
ScopeAt(fs, d) == 1 + Cardinality({j \in 1 .. d : fs[j].kind = "call"})
ScopeOf(d) == ScopeAt(frames, d)

\* The variables of the callers wait unharmed for their calls to end, whatever
\* branches, calls of the same names and unwinding exits do meanwhile
\* (state.cpp:470, visitor_interpret.cpp:402).
CallersAgree ==
  \A d \in DOMAIN frames :
    \A n \in seen[d] \cup (IF ScopeOf(d) = 2 THEN Globals ELSE {}), w \in Run!Live :
      scopes[ScopeOf(d)].vars[n][w] = env[ScopeOf(d)][n][w]

\* The parameters of the block have, for every input, the values the program
\* leaves in them, whether it has come to its end, returned, or exited from any
\* number of calls whose out parameters were still to be copied back
\* (visitor_interpret.cpp:408, create_z3.cpp:150).
OutputsAgree ==
  (frames = <<>> /\ scopes # <<>>) =>
    \A n \in Globals, w \in Worlds : scopes[1].vars[n][w] = env[1][n][w]

-----------------------------------------------------------------------------
(* Where the values of every world are *)

Store == [Worlds -> Values]
VarMaps == UNION {[S -> Store] : S \in SUBSET Names}
EnvMaps == UNION {[S -> Store] : S \in SUBSET (Names \cup {"result"})}
Pair == [cond : SUBSET Worlds, map : VarMaps]
Scopes ==
  [vars : VarMaps, copyOut : UNION {[S -> Names] : S \in SUBSET Names},
   ret : SUBSET Worlds, states : Seq(Pair),
   exprs : Seq([cond : SUBSET Worlds, val : Store])]
Frames ==
  [kind : {"call", "then", "else", "operand"}, fwd : SUBSET Worlds,
   cond : SUBSET Worlds, old : VarMaps, kept : VarMaps,
   exitAll : BOOLEAN, returnAll : BOOLEAN, result : Names \cup {"none", "operand"}]

TypeOK ==
  /\ scopes \in Seq(Scopes) /\ frames \in Seq(Frames)
  /\ fwd \in SUBSET Worlds /\ exitCond \in SUBSET Worlds /\ exits \in Seq(Pair)
  /\ exited \in BOOLEAN /\ returned \in BOOLEAN
  /\ env \in Seq(EnvMaps) /\ seen \in Seq(SUBSET Locals)
  /\ status \in [Worlds -> Run!Statuses] /\ at \in [Worlds -> Nat]

\* The names that a statement can use in a frame, and the variables they mean.
Known(d) == seen[d] \cup Globals
Meant(d, n) == env[IF n \in Globals THEN 2 ELSE ScopeOf(d)][n]

\* The scope of the block's parameters, that of the control, and the calls.
Layered(sc) ==
  /\ Len(sc) > 1 /\ DOMAIN sc[1].vars = Globals /\ Globals \subseteq DOMAIN sc[2].vars
  /\ sc[2].copyOut = [n \in Globals |-> n]
  /\ \A i \in DOMAIN sc : i > 2 => DOMAIN sc[i].vars \subseteq Locals

Shaped(fs, sc, e, sn) ==
  /\ fs # <<>> /\ fs[1].kind = "call" /\ Len(sn) = Len(fs)
  /\ Layered(sc) /\ Len(sc) = ScopeAt(fs, Len(fs))
  /\ Len(e) = Len(sc) /\ DOMAIN e[1] = Globals
  /\ \A i \in DOMAIN sc : DOMAIN sc[i].vars \subseteq DOMAIN e[i]
  /\ \A d \in DOMAIN fs : sn[d] \subseteq DOMAIN sc[ScopeAt(fs, d)].vars
  /\ \A d, f \in DOMAIN fs :
       d < f /\ ScopeAt(fs, d) = ScopeAt(fs, f) => sn[d] \subseteq sn[f]

\* What a call leaves is copied to names of its caller.
Returns(fs, sc, sn) ==
  \A d \in DOMAIN fs : d > 1 /\ fs[d].kind = "call" =>
    /\ fs[d].result \in sn[d - 1] \cup Globals \cup {"none", "operand"}
    /\ \A n \in DOMAIN sc[ScopeAt(fs, d)].copyOut :
         n \in sn[d - 1] \cup Globals /\ sc[ScopeAt(fs, d)].copyOut[n] \in sn[d]

\* The worlds that the statements in a frame are for.
Inside(f) ==
  CASE f.kind = "call" -> f.fwd
    [] f.kind = "else" -> f.fwd \ f.cond
    [] OTHER -> f.fwd \cap f.cond
Outer(fs, d) == IF d = 0 THEN Worlds ELSE Inside(fs[d])

Nested(fs, cond) ==
  /\ cond = Outer(fs, Len(fs))
  /\ \A d \in DOMAIN fs : fs[d].fwd = Outer(fs, d - 1)
  /\ \A d, e \in DOMAIN fs : d < e => fs[e].fwd \subseteq Outer(fs, d)

\* The frame that a world is in.
Home(w) == IF status[w] = "live" THEN Len(frames) ELSE at[w]

HasNotReturned(w, i) == \A j \in 1 .. i : w \in scopes[j].ret

Located(w) ==
  LET f == frames[Home(w)] IN
  \/ status[w] = "exited" /\ w \notin exitCond
  \/ /\ w \in exitCond /\ Home(w) \in DOMAIN frames
     /\ \/ /\ status[w] = "live"
           /\ w \in fwd /\ HasNotReturned(w, Len(scopes))
        \/ /\ status[w] = "wait" /\ f.kind \in {"then", "operand"}
           /\ w \in f.fwd \ f.cond /\ HasNotReturned(w, ScopeOf(Home(w)))
        \/ /\ status[w] = "done" /\ f.kind = "else"
           /\ w \in f.fwd \cap f.cond /\ HasNotReturned(w, ScopeOf(Home(w)))
        \/ /\ status[w] = "returned" /\ f.kind = "call"
           /\ w \in f.fwd /\ HasNotReturned(w, ScopeOf(Home(w)) - 1)
           /\ w \notin scopes[ScopeOf(Home(w))].ret

\* A block is broken off, or its results are dropped, where nobody is left.
Skipping ==
  /\ exited \/ returned => Run!Live = {}
  /\ returned => Last(scopes).states # <<>>
  /\ \A d \in DOMAIN frames : frames[d].kind = "operand" =>
       /\ ~exited /\ (d = Len(frames) => ~returned)
       /\ d < Len(frames) => frames[d + 1].kind = "call" /\ frames[d + 1].result = "operand"
  /\ \A d \in DOMAIN frames :
       frames[d].kind = "else" /\ (frames[d].exitAll \/ frames[d].returnAll) =>
         Run!At("done", d) = {}

\* The pairs of a list are for different worlds, none of which is left.
Apart(list, left) ==
  \A j, k \in DOMAIN list :
    list[k].cond \cap left = {} /\ (j # k => list[j].cond \cap list[k].cond = {})

Recorded ==
  /\ Apart(exits, exitCond)
  /\ \A i \in DOMAIN scopes :
       /\ Apart(scopes[i].states, scopes[i].ret)
       /\ Len(scopes[i].exprs) = Len(scopes[i].states)
       /\ \A k \in DOMAIN scopes[i].states : scopes[i].exprs[k].cond = scopes[i].states[k].cond

\* The variables of callers do not change while a map that has them is kept.
Frozen(sc, map, i) ==
  \A j \in 1 .. i - 1 : \A n \in DOMAIN map \cap DOMAIN sc[j].vars \cap Locals :
    (\A k \in j + 1 .. i : n \notin DOMAIN sc[k].vars) => map[n] = sc[j].vars[n]

AllFrozen(fs, sc) ==
  /\ \A d \in DOMAIN fs :
       /\ fs[d].kind # "call" => Frozen(sc, fs[d].old, ScopeAt(fs, d))
       /\ fs[d].kind = "else" => Frozen(sc, fs[d].kept, ScopeAt(fs, d))
  /\ \A i \in DOMAIN sc : \A k \in DOMAIN sc[i].states :
       Frozen(sc, sc[i].states[k].map, i)

Has(map, n, w, val) == n \in DOMAIN map /\ map[n][w] = val[w]

Saved(map, d, w) == \A n \in Known(d) : Has(map, n, w, Meant(d, n))

HasLeft(w, i) == \E k \in DOMAIN scopes[i].states :
  /\ w \in scopes[i].states[k].cond
  /\ \A n \in Globals : Has(scopes[i].states[k].map, n, w, env[2][n])
  /\ \A n \in Range(scopes[i].copyOut) :
       Has(scopes[i].states[k].map, n, w, env[i][n])
  /\ "result" \in DOMAIN env[i]
  /\ scopes[i].exprs[k].val[w] = env[i]["result"][w]

HasExited(w) == \E k \in DOMAIN exits :
  /\ w \in exits[k].cond
  /\ \A n \in Globals : Has(exits[k].map, n, w, env[1][n])

\* The values of a world are in the variables, in those that an open branch has put
\* aside, or in a list, and in the variables of the calls around it.
Accounted(w) ==
  /\ status[w] = "live" => \A n \in Globals : scopes[2].vars[n][w] = env[2][n][w]
  /\ status[w] = "live" => \A n \in Last(seen) :
       Last(scopes).vars[n][w] = Last(env)[n][w]
  /\ status[w] = "wait" => Saved(frames[at[w]].old, at[w] - 1, w)
  /\ status[w] = "done" => Saved(frames[at[w]].kept, at[w] - 1, w)
  /\ status[w] = "returned" => HasLeft(w, ScopeOf(at[w]))
  /\ status[w] = "exited" => HasExited(w)
  /\ status[w] # "exited" => \A d \in DOMAIN frames : ScopeOf(d) < ScopeOf(Home(w)) =>
       \A n \in seen[d] : scopes[ScopeOf(d)].vars[n][w] = env[ScopeOf(d)][n][w]

Running ==
  /\ Shaped(frames, scopes, env, seen) /\ Returns(frames, scopes, seen)
  /\ Nested(frames, fwd) /\ Skipping /\ Recorded /\ AllFrozen(frames, scopes)
  /\ \A w \in Worlds : Located(w) /\ Accounted(w)

\* Between two statements the lists, the maps of open branches and the scopes have,
\* together, the values of every world, whichever way it has left a branch, a call or
\* the block (state.cpp:434, visitor_interpret.cpp:390).  This is inductive.
IInv ==
  /\ TypeOK
  /\ scopes = <<>> => RefInit
  /\ frames # <<>> => Running
  /\ OutputsAgree
===============================================================================
