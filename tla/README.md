# A verification of ToZ3

ToZ3 (`src/common`) turns a P4-16 program into Z3 expressions by running it
symbolically: every arch block (a parser, control or deparser of the program's
package) becomes one expression per output, over the symbolic inputs of the
block. `p4compare` (`src/compare`) asks Z3 whether the expressions before and
after a compiler pass are equal; `p4toz3` (`src/interpret`) prints them; the
pruner (`src/pruner`) shrinks a program that shows a bug. A wrong expression
makes the validation miss a compiler bug or report one that is not there, so
what has to be right above all is that the expression *is* the program, for
every input and however the program leaves its blocks. This directory holds
TLA+ models of that part of the code, the TLC runs that check them, and proofs.

## The system

| Part | State | Operations | What must hold |
|---|---|---|---|
| Control flow of the symbolic interpreter (`common/visitor_interpret.cpp`, `scope.h`, `state.h`) | stack of scopes with forward conditions, return conditions and return states; `exit_cond`, `exit_states`, `is_exited`, `is_returned` | visiting assignments, if, switch, return, exit, calls, arch blocks | in every input the merged variables are what the program computes; nothing that is still executed is skipped |
| Table application (`common/type_table.cpp`) | the table's keys, entries, actions, `hit`, `miss`, action index | `apply`, `action_run`, switch over a table | the first matching arm or else the default action takes effect, and only that one |
| Scopes, names, copy-in/copy-out (`common/state.cpp`) | variables and declarations per scope, copy-out arguments | `declare_var`, `get_var`, `set_var`, `copy_in`, `copy_out`, `push_scope`, `pop_scope` | names mean the declaration P4 means; arguments are copied in order, out exactly once |
| Headers, structs, unions (`common/type_complex.cpp`) | members, `valid`, `parent_union` | `setValid`, `setInvalid`, `isValid`, assignment, copy, list initialization, `merge`, `==`, `get_z3_vars` | validity and fields per input; writes to invalid headers without effect; one valid member in a union |
| Header stacks (`common/type_complex.cpp`) | elements, `nextIndex`, `lastIndex`, size | `push_front`, `pop_front`, `next`, `last`, symbolic indices | shifts at the bounds; a symbolic index touches exactly the element it selects |
| Parser states (`common/parser.cpp`) | visited states of the path | transitions, select, accept and reject | which inputs are accepted; loops are cut |
| Expressions (`common/expressions.cpp`, `operands.cpp`) | expression result of the visitor | operators, method calls, short-circuit, mux | effects only in the inputs that evaluate the operand |
| Bit vectors (`common/type_simple.cpp`) | width, sign, value | arithmetic, saturation, shifts, casts, slices | the operators of P4 at every width |
| Package and arch blocks (`common/create_z3.cpp`) | the state shared by the blocks | `run_arch_block`, mapping of package arguments | no block leaves anything behind for the next one |
| Comparison (`validate/main.cpp`, `compare/compare.cpp`) | list of dumps, list of (pass, results), solver | throwing out dumps that repeat their predecessor, pairwise comparison, taint substitution, skipped passes | success only if no pass changed a defined result |
| Validation driver (`tools/run_validation_test.py`) | exit codes | runs p4validate, or p4compare on each variant of a program | every exit code is understood as what it says; the test ends |
| Pruner (`pruner/src`) | program, bank of statements, counters | statement, expression, Boolean and compiler pruning | the pruned program still shows the same bug; it terminates |
| `visitor_specialize.cpp`, `util.cpp`, `interpret/main.cpp`, `externs/core.cpp` | none | substitution of types, names, printing | - |

The parts interact by calls only: one visitor, one `P4State`, no threads. What
makes the code hard is not concurrency but the merging of *all* executions of
the program into one state. Each statement is visited once, for a set of inputs
described by conditions spread over scopes and flags; statements that leave a
block early (return, exit) park a copy of the state under a condition and the
copies are merged later, by another function, in an order that matters if two
conditions overlap. The flags that say "no input is left here" belong partly to
a scope and partly to the whole state. Instances carry further symbolic state
(validity, stack indices, table hits) that must be merged along. The hazards
list in `PROJECT.json` names the lines.

## Modules

The models of the interpreter share one abstraction. A Z3 expression has a
value for each valuation of the symbolic inputs; a valuation is a **world**. A
Boolean expression is the set of worlds in which it is true, a symbolic value is
a function of the world, `z3::ite` chooses world by world. Worlds are a constant
set, so the abstraction loses nothing but the syntax of expressions; where the
code looks at the syntax (`simplify().is_false()`) the model allows every
answer Z3 could give. Programs are not fixed: an action visits any statement
that can legally come next, so TLC explores every program up to a size and the
proofs cover all programs. The correctness statement is always the same: the
symbolic run goes in lockstep with an ordinary interpreter that runs in each
world by itself, and agrees with it. A module `X` is the code, `XRef` adds the
interpreter and the properties, `MCX` the instance for TLC (usually a counter of
the statements met), `X_proofs` the proofs.

### The interpreter

* `PathMerge` - the control flow. `frames` stands for the locals of the open
  C++ calls of the visitor (`old_vars`, `then_vars`, `case_states`, the two
  `has_exited`/`has_returned` flags) and for the `P4Scope` of an open call;
  `fwd` and `ret` are the conjunctions of all forward and return conditions.
  `AssignmentStatement`, `ReturnStatement`, `ExitStatement`, `IfThen`/`IfElse`/
  `IfEnd`, `SwitchOpen`/`CaseArm`/`DefaultArm`/`ArmEnd`/`SwitchEnd`, `Call`/
  `CallEnd`, `BlockBegin`/`BlockEnd` follow the handlers of the same names,
  cut where the handler visits a part of the program. The lists of (condition,
  variables) pairs are kept as the partial store that folding them in the
  code's order gives: later pairs win in `exit_states`, earlier pairs in
  `return_states`, which are merged back to front.
* `WorldRun` - the specification: a P4 interpreter in each world. A world is
  live, waits for a later branch, is done with its branch, has returned from an
  open call, or has exited. It is not translated from the code. PathMergeRef
  and ScopedStateRef instantiate it.
* `TableApply` - `P4TableInstance::apply` added to the statements of PathMerge:
  entries and actions one after the other, each a call, then the default
  action; merging of `action_vars`.
* `ScopedState` - what PathMerge has as one flat store: `scopes` is the list of
  `P4Scope`s with their variables by name, copy-out arguments and return states;
  `Owner` is the search of `find_var` from the innermost scope outwards.
  `CopyIn` evaluates all arguments, in the new scope already, before it declares
  the parameters, `LeaveScope` is `copy_out` from popping the scope on, `Unwind`
  the loop with which exit copies out all open calls before it clones the
  variables. `ShortCircuit` is `&&` or `||` with a function called in the right
  operand, whose effects `ShortCircuitEnd` takes back in the other inputs. The loops
  over copy-out arguments and over lists of states are written by what they leave:
  the last parameter that is copied to a name, and the last pair that has a value
  for an input, count. In ScopedStateRef the interpreter has lexical scopes.
* `HeaderValidity` - headers with a field and a nested struct, struct variables,
  and their own small if statement, against an interpreter in which a nested
  struct has no validity of its own. An undefined value may be refined to any
  value.
* `HeaderStack` - a stack as a function on its elements; `Reached` and `Cond` are
  `get_hdr_pairs`, the elements that an index may stand for, bounded by the size
  of the stack and the width of the index, and the inputs in which it does;
  assignments to an element or its field, method calls (`resolve_stack_call`)
  and reads (`get_member`) merge what the statement does into each of them
  under its condition (`Updated`, `ReadAt`).
* `ParserStates` - the transitions of a parser for the whole of its path:
  `visited` is `visited_parser_states`, a `Select` opens the cases in order,
  `CaseEnd` restores the variables and the visited states, `SelectEnd` merges
  back to front. `Accept` adds a return state and `Reject` an exit state, as the
  code's fake return and exit statements do. ParserStatesRef has the parser as a
  recursive function of one input, and what the visitor knows of every input on
  its way (`IInv`).
* `BitVector` - Z3Bitvector for one valuation: an operand is its P4 type, its
  bits and `is_signed`; `operands` are the instances that the visitor holds while
  it visits an expression. The operators of Z3 (`bvadd_no_overflow`, `bvsdiv`,
  ...) are defined by what they compute and marked external. BitVectorRef keeps
  for each operand the integer that P4 gives it, and its rules for operands.

### The validation

* `Validation` - the abstract specification: dumps are cleared one by one, a dump
  only if its pass is fine (same meaning, or only what the run tolerates), and
  success, skipped and violation are told only where they are earned.
* `Compare` - p4validate from the list of dumps on, and p4compare. `PruneFile`
  (`generatePassList`), `CheckLength`, `Interpret`, then one action for each
  outcome of a comparison: skipped, equal, unknown, different; a difference is
  looked at again (`check_undefined`), member by member, under taints. Lists of
  files are the set of the positions kept. Z3 answers truthfully or gives up.
* `Taint` - the expressions and `substitute_taint`, by structural recursion, with
  an evaluator that says what an expression means. It has RECURSIVE operators
  and is used by the MC module only; Compare has `Equal` and `Forgiven` as
  parameters.
* `ValidationTest` - run_validation_test.py around both: the three kinds of tests,
  the loops over variants, and what each exit code is read as. `Abstract`
  instantiates Validation with a refinement mapping: cleared is the number of
  dumps up to the one before the next to be compared, the verdict the
  exit code of the process. Dumps that have been thrown out are cleared with the
  next one that is kept: the mapping is the reason why every step of Compare is
  a step of Validation or a stutter.

### The pruner

* `Reduction` - the abstract specification: from one program that shows the bug
  to the next, leaving behind the last one or nothing.
* `Pruner` - p4pruner: classification of the bug (`Configure`), five passes, each
  a loop with its count of rounds and of rounds without a change, the check of
  a candidate by a run of the compiler or the validation script (`Accepted`),
  the passes that hand a program on unchecked, exceptions (`Throw`), the file
  written at the end (`Emit`). What a pass may make of a program is a parameter.
* `ProgramTrees` - those parameters for small programs: the statements collected
  at random and removed, the random literals and sides of operators, constant
  folding and removal of ifs by the compiler's passes, replaced members, unused
  declarations.

## Runs

| Run | Shows | Bounds |
|---|---|---|
| `path_merge` | type correctness; forward, return and exit conditions describe the inputs at the current statement (`PathIsLive`); the store agrees in them (`LiveAgrees`); a block is broken off only when nobody is left in it (`SkipsOnlyDead`); no input is claimed by two parked states (`PathUnclaimed`); the result of an arch block is right (`BlockResult`); `IInv` | 3 worlds, 1 variable, values 0..2, 5 statements, 4 open frames |
| `table_apply` | the same through tables with overlapping entries, with `PathMissesNone` in place of `PathIsLive`; `IInv` | 2 worlds, 6 statements and arms, 4 frames |
| `scopes` | a name means in a callee what it means lexically, parameters and results included (`NamesAgree`); the variables of the callers meanwhile are what the program has left there (`CallersAgree`); the outputs collected at the end, also after an exit that unwinds several calls (`OutputsAgree`); `IInv` | 2 worlds, 2 globals, 2 local names, an action (out, inout) and a function (in), 4 statements, 3 frames |
| `header_validity` | validity, fields, nested fields, comparison and output of headers, under branches; `IInv` | 2 worlds, 2 headers, 1 struct, 3 statements, ifs 2 deep |
| `stacks` | the element an index stands for, and no other, is written or changes its validity (`ElementsAgree`); a read returns it (`ReadsAgree`); `IInv` | 3 worlds, 3 elements, indices of width 1 and 2 and constants, 3 statements; about a million states |
| `parser` | the parameters that come out of a parser, per input, accepted or rejected (`ParserAgrees`); no input leaves twice, and none is lost (`LeavesOnce`); the visit ends (`VisitEnds`); `IInv` | 3 states, 3 keys, a select with two cases of overlapping or disjoint keys at the start, loops back from both others |
| `bit_vectors` | the bits of every operand, read at its P4 type, are the integer P4 gives it (`ValuesAgree`) | widths 1..4, expressions of any length that hold two operands at a time |
| `validation` | the process implements `Validation` (`ValidationRefined`); a test passes only if what it tested earned it (`TestResultEarned`); a valid supported pass has kept every defined value (`SuccessKeepsDefined`); the test ends (`TestEnds`) | lists of at most 3 dumps of 3 texts or missing, 4 programs of 2 outputs; and every pair of small expressions (an ite or operator over another) over numbers 0, 1 |
| `pruner` | the process implements `Reduction` (`ReductionRefined`); ifs keep their branches (`IfsKeepBranches`); it ends (`PrunerEnds`) | 4 bodies, a compiler that fails on a feature in one of four ways and crashes on another, NO_CHNG_ITERS = 2, PRUNER_MAX_ITERS = 3, REPLACE_VARS_MAX_ITERS = 2 |
| `mixed_callee`, `table_exits`, `nested_write` | the three findings, below | as the runs above |

*Why the bounds are enough.* In PathMerge three worlds are enough for a condition
to hold in one, fail in one and leave one behind with a third fate (returned,
exited), and four frames for a branch in a call in a branch in the block. The
assignment is an increment modulo 3, so an assignment that takes effect twice,
or not at all, or in another world is seen. Where the conditions come from does
not matter: every subset of the worlds is tried. Three frames are a call in a
call, or one in a branch or an operand, in the block: a name of the callee can be found in
its own scope, its caller's, and the control's. Four statements are two calls inside each
other, an if and an exit, or a call with an assignment before and after it. Three elements and indices of
width 1 and 2 make an index too narrow, exact and too wide for the stack. Three
parser states give a loop of length 1 to 3 and two ways into one state. Width 4
has concatenations of different widths and slices of slices. Three dumps are a
kept one, one thrown out and another kept one, in any order. The rounds of the
pruner (`pruner/src/constants.h` has 10, 50 and 5) are small, but their order is
the code's: a loop can end by its limit and by the count of unchanged rounds.
Where states are listed as symmetric (worlds, headers), no action or property
names one.

*Deadlock* is checked where something can always follow (`bit_vectors`). All other
runs stop when their program is `MaxStatements` long, or the process has ended.

*Programs left out.* Where the code is known to go another way, the passing run
leaves those programs out. Through a constant: `MixedCallees = FALSE` (callees
left through return for some inputs and through exit for all others),
`UnguardedExits = FALSE` (an exit in a table's action reached for inputs that an
earlier arm matched), `StaleWrites = FALSE` (a write to a struct whose own
validity is not that of its header), `Deviations = {}` (the four places of
BitVector below). Through a guard or the choice of inputs: names that hide each
other within a call or a global (ScopedStateRef); push_front and pop_front on a
stack with something to shift (`NothingToShift`: the code invalidates one end
but moves nothing); parsers that have a loop *and* overlapping cases
(`Orderly`); values that apply an operator to one that is undefined for some
inputs only (`MixedOperand`), which substitute_taint takes for undefined
altogether.

*Refinement.* `ValidationTest` implements `Validation` and `Pruner` implements
`Reduction`; both are stated with INSTANCE ... WITH, checked by TLC as properties,
and proved.

*Liveness and fairness.* `TestEnds`, `PrunerEnds` and `VisitEnds` assume weak
fairness of the whole next-state relation: each is about a single process with
nobody to wait for but a program it has started (the compiler, Z3), which
answers or gives up. The code has no timeout of its own, so a compiler that
never ends is outside of the model. What the three show is that the loops have
a variant: the list of variants gets shorter; a pruning pass ends by its limit
even if every candidate is a success that changes nothing; and the visitor
never follows a transition back into a state of its path. The visitor of the
other models is a recursion over a finite program and has no loop of its own.

## Findings

1. `mixed_callee` - after `if (c) { return; } exit;` in a callee, the caller's
   block breaks off for the inputs `c` too: `is_exited` belongs to the whole
   state and survives `copy_out` (`expressions.cpp:269`).
2. `table_exits` - the default action is visited under `!hit || !matches` with
   the member `hit`, false in the declared instance (`type_table.cpp:312`), so
   it is visited for all inputs. Merging the arms over it repairs the variables
   but not the effect of an exit. Arms that overlap have the same problem.
3. `nested_write` - `S s = h.s; s.g = 1;` with `h` invalid: the write is dropped,
   because the copy keeps the validity of its header (`type_complex.cpp:195`);
   and `if (c) { h.setValid(); } h.s.g = 1;`, because merging leaves the
   validity of nested structs alone.

Differences from P4 that were met and have no run: setValid on a member of a
header union leaves the others valid, since `bind_to_union` is never called
(`type_complex.cpp:377`). In BitVector, each shown by TLC when its name is put
into `Deviations`: symbolic inputs of a signed type are never flagged as signed
and are ordered as unsigned numbers, and a slice of a signed constant keeps the
flag ("sign", `state.cpp:549`); a negative number that is widened becomes
positive ("extend", `type_simple.cpp:39`); signed saturation ends at the unsigned
limits ("saturate", `type_simple.cpp:129-136`); and a `bit<1>` cast to bool is
always false, as `val > 0` is a signed comparison ("bool", `type_simple.cpp:335`).

## Proofs

`PathMerge_proofs` proves, for all sets of worlds, variables, values and
operations, all inputs, every nesting depth and programs of any length, that
`RefSpec` implies `[]TypeOK`, `[]PathIsLive`, `[]LiveAgrees`, `[]SkipsOnlyDead`,
`[]PathUnclaimed` and `[]BlockResult`. Assumed are `ConstantsAssumption`
(non-empty values, an input store of the right type, unary operations, at least
one frame) and `MixedCallees = FALSE`, without which finding 1 refutes them.
None of the properties is inductive. That the store is right after an `IfEnd`
depends on what the frame has kept for the other branch, and that a world is
still missing from `Path` on where it left. `IInv` says for every world that is
not live where it is (`Accounted`): `Parked` (which frame it waits in or is done
with, and that no frame above contains it), `Waits` (the frame's `old` store is
right for it), `IsDone` (the frame's kept store is), `HasReturned` (its call's
return states are), or exited (the exit states are). `Nested` and `NestedCalls`
say how the conditions of the frames and scopes contain each other. There is one
lemma per action; the lemmas before them say what pushing, popping and changing
the top frame, and the interpreter's moves, do to each part of `IInv`.

`TableApply_proofs` goes on to programs with tables, with any entries, any
overlaps, and tables within branches, calls and the actions of other tables:
`TableRefSpec` implies `[]PathMissesNone`, `[]LiveAgrees`, `[]SkipsOnlyDead`,
`[]BlockResult` and `[]TypeOK`. It assumes `MixedCallees = FALSE` and
`UnguardedExits = FALSE`, without which findings 1 and 2 refute them. It uses
the same `IInv` and the lemmas of PathMerge, which therefore hold of the frames
of tables too. What is new is that `Path` is only an upper bound: an action is
also visited for inputs that an earlier arm has matched. These are done with the
table but not parked outside of its conditions; they are `Shadowed`, and may
even return from the action a second time. So a call may hold a return state
of a world that did not return from it (`Claimed` says of whom this can be
true), and `AppliesOnce` says that the world that really runs an action has
matched no arm before. `LiveUnmatched` derives from it that merging the actions'
states, first match first, picks the right one; `ActionStep` opens and closes
an action; `GuardedExit` is where `UnguardedExits = FALSE` is used: an exit is
then for worlds in no table's shadow. That `Path` is exact in programs without
tables (`PathSound` of `PathMerge_proofs`) is `PathIsExact`, from `NoTables`.

`HeaderValidity_proofs` proves for `HeaderValidity`, for all sets of worlds,
headers, structs and values and every depth of ifs, that `RefSpec` implies
`[]TypeOK`, `[]ValidityAgrees` and `[]FieldsAgree`, without any assumption on the
program, and, for `StaleWrites = FALSE` (finding 3), `[]NestedAgrees`,
`[]OutputAgrees` and `[]ComparisonAgrees`. `HeaderStack_proofs` proves
`[]ElementsAgree` and `[]ReadsAgree` for stacks of any size, from
`StackAssumption` and `IndexAssumption` (an index is a constant or a function of the
input into the values of its type). The argument is the same for both. That the
variables agree in the inputs `path` of the current statement is not inductive:
`IfElse` goes back to the copy made before the then branch, and `IfEnd` merges
two. `IInv` says in addition that the copy each open if has put aside agrees in
`Outside(frame)`, the inputs of the branch that is not being visited, and
`Nested` that these sets lie inside each other, so that a statement, which
changes the program only in `path`, disturbs none of the copies.
`InvalidUndefined` is what makes it harmless to drop a write to an invalid
header. For stacks, `ReachedFacts` is the heart: an index that is in the stack
reaches the element it stands for, whatever its width.

`ScopedState_proofs` proves for `ScopedStateRef`, for all sets of worlds, names and
values, all signatures, calls of any depth and programs of any length, that
`RefSpec` implies `[]NamesAgree` (`ScopesResolve`), `[]CallersAgree` (`ScopesProtect`) and
`[]OutputsAgree` (`ScopesDeliver`). Assumed are `NamesAssumption` (a control has finitely
many parameters, whose names no local has) and `SignaturesAssumption` (the
parameters of a signature have different names), and no constant leaves programs out; what
the guards of ScopedStateRef leave out is said above. `ScopesKnow` is the inductive
invariant, `IInv`. It has two halves. The first does not depend on a world. `Shaped` and
`Returns` say what the scopes are: the block's, the control's, and one for each open call,
whose copy-out arguments are names that its caller knows. `Nested` is about the
conditions of the frames. `AllFrozen` says that a map which a branch or a return has
put aside still has, for the locals of the callers, the values they have now: this is
why a merge by name does no harm to a caller whose variables the callee cannot see but which
`clone_vars` clones with all the others. `Recorded` says that no two pairs of a list are for
the same input. The second half follows every world: `Located` says which frame it is
in, and `Accounted` where its values are - in the scopes, in the map of an open
branch, in exactly one return state of a call, or in exactly one exit state - and that in the
scopes of the calls around it nothing has changed. Three steps are hard.
`CallEnd` merges the return states before it copies out, so that for the worlds that have
returned the arguments come from the maps, and for the others from the scope. `IfEnd` puts
`Frozen` maps back over scopes in which a call may have been made and left meanwhile. And an
exit unwinds copies of the scopes: `UnwoundAgree`, by induction downwards from the innermost
call, says that they agree with the program's variables at every height of the unwinding.
The models' loops, `Unwind` and `Exit`, are recursive functions on the scopes, and what
they unfold to is proved by `NatSetInduction`.

`ParserStates_proofs` proves `ParserLeavesOnce`: accept and reject record no input
twice and lose none, in every parser, its loops and overlapping cases included.
`ParserParses` is `[]ParserAgrees`, for any number of states, cases and inputs,
from the types of `ParsersAssumption` and `InputAssumption`, and of parsers that
are `Orderly`: those with a loop have disjoint cases. (Otherwise the case that
is cut by the loop does not return, and a later case that overlaps with it returns
for its inputs, too.) It shows more: `IInv` has in `Current` that the worlds of the
path that is visited still have the right parse before them, and in `Framed` that
every open select has each of its worlds in the case that is open, in a later
case that is the first to match and still to be visited (`Waits`), or among the results
of the cases that came to a loop (`IsKept`). Without loops the latter never happens,
which `Ranked` proves: all of a path's transitions go down in any order of the states
that the parser has. Where there is no such order, cases are disjoint, and
`CasesDisjoint` keeps a case from adding to inputs that an earlier one has kept.
The reference is a recursive function on the sets of states that are still to
be visited; that it is defined, and what it unfolds to (`ParseUnfolds`), is proved
by induction on their number, with `NatSetInduction` in the place of the library's
rules.

`Pruner_proofs` proves `PrunerReduces`: p4pruner implements `Reduction`, for all
programs, tools, passes and limits. `PrunerInv` says that nothing is written
before the end, that the program is the input until the bug is classified, and
that the program at hand is the one that passed the last check;
`AcceptedShows` is why a check that passes shows the same bug. Assumed are
`ItersAssumption` and `NoFileAssumption`.

`ValidationTest_proofs` proves `ValidationSound`: for a list of dumps of any
length, all programs, and every choice of Z3 between answering and giving up,
the driver and its processes implement `Validation`. What makes the steps go
through is `VInv`: the files thrown out since the last kept one have its text
(`Thrown`, `NoneKept`), the positions compared are neighbours among those kept,
the members forgiven so far really are, and between two processes the mapping
is back at its start. `PairFine`, `ThrownFine`, `ClearPair` and `ViolatePair`
connect the verdict on two files that are compared with the passes between them.
Assumed are `OutputsAssumption` and that the input is a sequence (`InputType`).
`TestSound` goes on to `[]TestResultEarned`, for each of the three kinds of tests
(`TestType`): `Earned` carries what a verdict says of its files (`Told`) through the
exit codes and the loops (`Looped`: every variant taken off the list has been
told apart from the original, or is being compared).

*Only model-checked:* liveness (`TestEnds`, `PrunerEnds`, `VisitEnds`), as liveness
and `ENABLED` are out of the prover's reach; `SuccessKeepsDefined`
and `IfsKeepBranches` (Taint, ProgramTrees recurse over expressions and programs);
and `ValuesAgree` and `TypeOK` of BitVector, which uses the bitwise operators and
powers of two of every width.

## Not modelled

In the modelled parts: which action a switch over `action_run` takes (see the
plan); `?:` with calls in its arms, and tables applied in the right operand of
`&&` and `||`, which the front end moves out of expressions; enums,
errors, lists as values; named and optional arguments and default values of
parameters, which only decide which argument goes with which parameter; `next` and `last` of
header stacks (`next` does not advance: the line that would, type_complex.cpp:518,
is commented out, so that only parsers that extract into a stack once could be
checked against P4); shifts and operands of infinite precision, whose handlers
(`align_bitvectors`, `operator>>`, `operator<<`) read through a pointer to a local
variable that has gone out of scope; the select expressions of the pruner, its
random seed and the printing of programs; running the compiler, its list of
passes and the options.

Data that the models abstract from, because no property tells the difference:
the keysets of a select (values, ranges, masks and lists are any set of keys,
`Match`), while the path on which a `ParserError` moves a parser to reject
(`parser.cpp:199`) is left out; the number and sorts of the outputs that are
compared (`Same` takes them as equal: for others Z3 throws at `compare.cpp:236`
and nobody catches it); what `simplify()` does to a member before the taints are
substituted, and operators of more than two arguments (`Whole`); the visitor
around each operator of BitVector (`Visit` stands for all of them); two programs
that the pruner prints alike (`RoundPasses` takes them as equal). Stores are
values: two scopes or maps that share an instance cannot occur in a model, and
whether the code's copies are deep where they have to be is not shown. (It does
share instances when the then branch of an if has left,
`visitor_interpret.cpp:673`: the variables are then wrong at most for inputs
that are no longer there.)

What properties leave open on purpose. The reference parser makes the same cut
in a loop as the code, so `ParserAgrees` speaks of nothing after it.
`Validation` permits skipped passes and differences that undefined values
excuse. `TestResultEarned` takes two missing dumps for no change, and asks
nothing of the second loop of a test for undefined behaviour, of which the
script itself accepts every outcome but a violation. `Reduction` permits a
pruner that writes nothing. Where something can go wrong in what is left open
here, or in the programs left out above that none of the three runs of findings
shows, the hazards list has it without a property and with the reason.

Parts without a state of their own: type specialization, the registry of externs,
the interpreter's front end. Parsing and type checking are those of the P4
compiler. Not the program's own: `contrib/z3`, `pruner/src/contrib/json.h`,
`p4include` and the P4 programs under `tests` - the vendored headers are
37000 of the 48000 lines of C++ and Python that are not tests.

## Plan

1. `ActionRun` (extends TableApply): the action index shared by `apply`,
   `action_run` and `handle_table_switch` (`visitor_interpret.cpp:450-560`),
   which number actions differently; immutable tables.
2. ScopedState with `?:`, whose arms have effects as the right operand of `&&`
   and `||` has (`operands.cpp:324-370`).
3. HeaderStack composed with ParserStates, once `next` advances.
