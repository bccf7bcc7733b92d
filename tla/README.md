# A TLA+ verification of scrip (one4all)

scrip compiles SNOBOL4, Snocone, Rebus, Icon, Prolog and Raku to one intermediate program, the
`stage2_t`: a stack-machine (SM) instruction sequence and a set of Byrd-box graphs.  It runs that
program with an interpreter or a JIT, or emits native code and code for other platforms.  This
directory models the parts of it where a mistake is easy to make and hard to find with a test: what
backtracking undoes, what nested execution saves and restores, what an error leaves behind, what
memory still holds code.  All paths below are relative to `src/` of the repository unless they
start with `README.md`, `archive/` or `scripts/`.

## 1. The system

| Component | State | Operations | Modelled by |
|---|---|---|---|
| Executable pool, `processor/bb_pool.c` | one mmap'd area, `pool_top`, page protections | alloc, seal, free, reset | BBPool |
| Box builder, `emitter/emit_bb.c`, and pattern cache, `runtime/snobol4/stmt_exec.c` | builds in progress, child cache, pattern cache | build pattern with operands, hit, error reset | BBPool |
| Pattern lowering, `lower/lower_pat_dcg.c` | none (a function of the pattern tree) | wire the γ/ω/β ports of each box | PatLower, PatGraph, PatCases |
| Pattern engine, `lower/ir_exec.c`, `lower/scrip_ir.c` | cursor, per-node state, subject, captures | scan, walk, one step per box, ARBNO sub-walks | PatEngine |
| Prolog unification, `frontend/prolog/prolog_unify.c`, `term.h` | references of variables, trail | bind, push, unwind, deref, unify | PlTrail |
| Users of the trail: `frontend/prolog/pl_broker.c`, `runtime/interp/pl_runtime.c` | the marks they hold | try, resume, give up, commit | PlTrail |
| SM interpreter, `processor/sm_interp.c`; JIT, `processor/sm_jit_interp.c` | pc, operand stack, success flag, call stack | one handler per opcode | SMCalls |
| Nested runs and recovery: `driver/interp_hooks.c`, `driver/scrip_sm.c`, `eval_code.c`, `snobol4.c` | jump buffer, `kw_rtntype`, one value per variable | EVAL, APPLY, error, END | SMCalls |
| Synchronous monitor, `driver/sync_monitor.c` | two runs of one program | step each, compare | SMRunners |
| Sync-step monitor, `scripts/monitor/monitor_sync_bin.py`, and its clients in `runtime/snobol4/snobol4.c` | two FIFOs per process, name tables, the event held of each process | open, emit, wait, read, compare, skip, release | SyncStep, Lockstep |
| Prolog clause boxes, `lower/lower_pl.c`, `ir_exec.c` (BB_PL_*) | state of shared graph nodes, environments, trail | call, choice, sequence, alternation, unify, cut, is | PlProgram, PlEngine, PlSLD |
| Icon expressions: `lower/lower_icn.c`, `ir_exec.c` (BB_ICN_* and the shared nodes), `scrip_ir.c` | value, state and counter of each node, shared by all activations | evaluate a node, again for its next result; reset, snapshot, restore | IcnProgram, IcnGraph, IcnEngine, IcnConform, IcnReference |
| Icon frames and generators: `runtime/interp/icn_runtime.c`, `sm_interp.c` (1557, 1696-1808) | frame stack, suspended machines | call, return, start, suspend, resume | IcnEngine |
| Broker, Raku run time | boxes, method tables | drive a box in one of three ways | planned (broker), no |
| Conditional-assignment stack, `snobol4_nmd.c` | chain of contexts | enter, push, pop, commit, leave | planned |
| Front ends, AST tools, statement lowering | none that outlives a call | parse, print, lower | no |
| Emitters, other targets, driver | text or bytes | emit | no |

scrip itself is one thread; only the sync-step monitor has several processes.  The components
interact in five ways, and these are what the models are about.

* **Calls that come back.**  A pattern match may evaluate an expression, an expression may call a
  function, a function may EVAL, APPLY or match.  Each level keeps part of its state in C locals
  and part in globals, and the globals must be as the outer level left them when it resumes.
* **Backtracking.**  Boxes are entered (α) and re-entered (β), succeed (γ) and fail (ω).  What a
  box did must be undone when it is re-entered or fails: cursor, captures, bindings, node state.
* **Non-local exits.**  A run-time error is a `longjmp` to the innermost `setjmp`, over any number
  of active components, none of which gets to clean up.
* **Memory that changes its meaning.**  Built patterns live in a bump-allocated pool that is
  reset as a whole; caches and sealed code hold addresses into it.
* **Messages over pipes.**  Under the sync-step monitor every process waits for an answer to each
  event, over FIFOs that hold less than a record, and any of them may be killed at any time.

The individual hazards, each at its line and with the property that covers it, are in
`PROJECT.json` under `hazards`.

## 2. The modules

### 2.1 BBPool: executable memory and who points at it

`BBPool.tla` follows `bb_pool.c` page by page and its clients call by call.  A build
(`bb_build_flat`, `bb_build_brokered`) is a sequence of actions because its steps allocate, seal
and free at different times: `BuildRoot` allocates the outermost buffer and empties the child
cache; `VisitKid` and `MakeKid` are `pre_build_children`'s recursion, kept as the work list
`work`; `EmitKid`/`OverflowKid` and `EmitRoot`/`OverflowRoot` are the two ends of emitting into a
buffer.  A deferred variable in a match that runs builds its pattern without looking in the pattern
cache, so `BuildRoot` may meet a pattern that is cached.  `CacheHit` and `Enter` put code on the C stack (`running`), `MatchError` is the `longjmp`
into `rt_match_variant`, which resets pool and pattern cache under whatever is still running.
`doomed` is a history variable: how many outer entries had the pool reset under them (they can be
returned to; the code makes no attempt to prevent it, so `RunningCodeIsExecutable` speaks of the
others).  An error with no live `setjmp` left ends what the model says.

Properties: the emitter writes to writable pages only; what is freed is writable; the pattern cache
points to sealed, intact code; code sealed in the pool calls only sealed, intact code of the right
operand; what runs is executable.

A page is the model's unit because the pool size and `FLAT_BUF_MAX` are multiples of it.  The real
pool holds 16 buffers (`bb_pool.h` speaks of 64 MB, `bb_pool.c` maps 4), so exhaustion is a normal
event, and the run has a pool of three buffers.

### 2.2 PatLower, PatEngine: pattern matching

`PatLower` is `build_node`: patterns are trees, the result a graph of nodes with `ga`, `om`
and a kind, and the static rewiring of a failure port to the next resumable box on the left.
`PatEngine` runs the graph the way `IR_exec_pat`, `bb_exec_once` and `bb_exec_node` do: one
action per kind of box, with the cursor `delta` a global, the per-node `state` and `counter`, a
stack of walks for ARBNO bodies, and the safety budget of `n * 64 + 256` node executions.
`PatReference` says what the boxes promise when composed, without a graph: the ordered list of
ways a pattern has at a cursor.  Each box's own ways come from the code (BREAK succeeds at the end
of the subject, for example); how they compose comes from README.md:48-54.

The parsers build sequences and alternations of two elements, nested to the left
(`snobol4.y:135-139`): `p1 p2 p3` is `(p1 p2) p3`, and `p1 (p2 p3)` is a different tree.  `Cat` and
`Or` of PatCases are these, and the runs use no other.  Of the boxes without operands the parsers
make `ARB()`, `REM()`, `FENCE()`, `ABORT()`; written bare, the names are variables.  `case.before` is the
byte in front of the subject, which a box reads when the cursor has got there.

The wiring is static: one failure port per node, no saved cursor, one entry for α and β.  It
is therefore exact only for a fragment of the language, and the fragment is worth stating:

> one-way boxes (bare, or under a capture), then at most one generator (ARB, SPAN, a short ARBNO),
> then one more bare box; or one-way boxes, and then an alternation of one-way boxes or a captured
> box, generator or alternation.  An unparenthesised sequence of more than two fails back into its
> first element, so a generator is in the middle only where parentheses make it so.

`MCPatFragment` checks that the engine equals the reference there.  Outside it, captures behind a
generator fail the attempt, a captured generator re-entered through β counts as fresh,
generators behind generators are not initialised again, alternatives do not start where the
alternation did, and a walk that is too long is given up.  `MCPatDocs` shows the alternation
against the documents.  ABORT and a bare FENCE fail the attempt at the current start position only
(README.md:66 speaks of a `longjmp`).

`MCPatWide` and the proofs say what holds of any composition.  `TypeOK` is more than types here: each
walk stands at a box of its own graph, the walk above it is that of the ARBNO it stands at, what a
node counts is a cursor exactly if its kind makes it one, and no cursor passes the end of the
subject.  Nothing of the kind holds at the other end.  One-way boxes step back by what they advanced, but
an ARBNO drops back to an absolute position, and a box between the two steps back from there:
the cursor may leave the attempt and the subject.  `Steady` (in PatGraph) says when it cannot, from
the ports alone: no box that moves the cursor can be entered again once it has matched, but SPAN,
ARB and ARBNO, and those only while no other box has moved the cursor since.  In steady patterns the
cursor stays in the attempt (`CursorInAttempt`) and the positions an ARBNO keeps ascend
(`ArbnoKeepsItsPositions`); in every pattern an ARBNO goes back to positions it kept.

### 2.3 PlTrail: unification and backtracking

`PlTrail.tla` is unification one pair at a time: an agenda stands for the recursion of `unify`,
`DerefLeft`/`DerefRight` are turns of `term_deref`'s loop, `UnifyVar` binds (and records, unless the
variable is anonymous, slot -1), `UnifyArgs` opens the arguments of two compounds, `UnifyFails` is
the caller that unwinds to its mark.  `marks` are the trail marks held by the boxes and builtins
around it; `TryAlternative`, `Backtrack`, `LastAlternative` and `Commit` are what `pl_choice_fn`,
`pl_unify_fn`, `pl_head_unify_fn`, `\+` and `once` do with them.  The mark discipline is that of
these two files; the BB_PL nodes of `ir_exec.c` keep their own and are left to PlEngine.

`PlStore.tla` is the abstract specification: a store in which only unbound variables are bound and
in which every choice point keeps a complete copy of the store.  `BacktrackingRestores` says
that the trail implements it, with the copies computed by undoing what is recorded above each
mark (`Undone`).  It speaks of named variables: an anonymous variable, once bound, stays bound, which
is what the code does.

Of the unification itself, the run compares what it left with the least congruence of its goal
(`SuccessIsMostGeneral`, `FailureMeansNoUnifier`), and the proofs state it without that definition
(`UnifyIsRight`, section 4).

There is no occurs check, so a variable may be bound to a term that contains it.  `NoRefRing`
says that variables never refer to one another in a ring, so `term_deref` ends; unifying two
cyclic terms with one another does not end in the code and is not among the goals of the run.

### 2.4 SMCalls, Scopes, SMRunners: calls, nested runs, errors

The program keeps one value per variable.  A call saves the values of the names the function
declares (its result variable, parameters, locals), sets them, and a return puts them back, last
one first.  `Scopes.tla` says what a programmer believes: every activation has a scope, a name means
its innermost binding.  `SMCalls.tla` is the machine: `frames` is all call stacks, oldest first,
and `runs` the machines alive on the C stack (`main`; `eval`, with a `setjmp` of its own,
from `sm_eval_subexpr`; `hook`, from `_usercall_hook`).  One action per kind of instruction:
`CallFunction` inside the run, `HookCall` when the call stack is full or for APPLY, `CallExpression`
and `Eval` for EVAL of an expression, `Return`, `Halt`, `Error`.  `Environment` is the refinement
mapping: the binding of a name at depth k is what the first frame above k saved of it.

* `ImplementsScopes`: every step opens a scope, assigns one binding, closes the innermost scope, or
  (`Cut`) ends several at once; a cut leaks the values of abandoned scopes in the way `Abandoned`
  says, and changes nothing else.
* `OnlyErrorsCutScopes`: only an error and END in a nested run may cut.
* `OperandsPresent`: no instruction finds the operand stack shorter than it was compiled for
  (`sm_pop` aborts the process), wherever an error, an early end or a return has put the machine.

Behaviours the model has because the code does: an error in the main run is taken up at a statement
found by scanning from one instruction past the failing one, so a whole statement is skipped when
the failing instruction ends its statement; END in a nested run ends that run only; a function
whose entry label is not its name, called through APPLY or with a full call stack, makes
`_usercall_hook` and `APPLY_fn` call one another until the process dies (`status = "crashed"`);
under the JIT a return without a call goes on with the next instruction.

`SMCompiled.tla` says what the machine relies on in the programs it is given, and does not test: labels
that are led to are there, a statement begins with an empty operand stack, and each instruction has
a height, a number of operands on the stack on every way to it, that covers what it takes.  It is an
assumption on the constants `Programs` and `Height`, evaluated by TLC for every program of `sm_calls`;
the proofs are for all programs that satisfy it.

`SMRunners.tla` runs two machines side by side and compares them after each statement as
`sync_monitor.c` does: interpreter and JIT, and a machine that takes calls in its call stack with
one that runs them nested.  `MCSMPrograms.tla` holds SM code as `lower()` emits it for small sources.

### 2.5 SyncStep, Lockstep: several run times held in step

`SyncStep.tla` is the wire protocol of the sync-step monitor, both sides of it.  A participant is
`comm_var` and its relatives with `mw_write_record` and `mon_wait_ack`: `Emit` interns the name and
prepares the record that announces it and the event's own; `WriteBlocking` (piece by piece),
`WriteWhole` and `WriteTorn` (what fits, and no answer is read) are what `writev` may do with a record,
a pipe of `PipeCap` tokens and the `O_NONBLOCK` flag that is or is not left set (`OpenReady`: it is when
the controller came first);
`Kill` is the `timeout` the harness wraps each participant in.  The controller is
`monitor_sync_bin.py`: it opens the pairs one after the other, reads header and value of a record
(blocking), resolves ids through the participant's own table, compares with the oracle, may skip
keyword events on one side, answers, and ends with 0, 1, 2, 3 or an exception.

`Lockstep.tla` is the promise: programs say events, none says its next before its last one is
accounted for, events are accounted for together when they agree, or alone when skipped, and a
verdict is justified by what was said.  `Implements` is the refinement (`said`, `pos`, `torn` and
`killed` are history variables; a participant whose record was cut short is `torn`, the abstract
`loose`).  `AheadByOne` says no participant is more than one event ahead, `HeldIsSaid` that what
the controller compares is what was said, though names travel as private numbers announced by a
separate record; `ControllerEnds` and `ParticipantsReleased` are the liveness of either side.

Left out: the name wildcards (off unless an environment variable is set), the sidecar file of names
for participants that cannot announce them, libraries loaded into a participant
(`monitor_ipc_bin_csn.c` opens its go FIFO without waiting), the older text controller.

### 2.6 PlGraph, PlProgram, PlEngine, PlSLD, PlConform: the Prolog boxes

`PlGraph.tla` has the nodes and what a lowered program keeps to (`IsLowered`), which is all that the engine
and its proofs need; `PlProgram.tla` is `lower_pl.c`: slots, argument nodes, one graph per predicate, a
choice node only when there are several clauses.  `PlEngine.tla` executes such graphs as `ir_exec.c` (1715-2003)
does: `k` is the C stack of `bb_exec_node`, and node state belongs to the graph, so two live calls
of a predicate have one state between them.  One action per kind of node and direction; the pump
that goes back to the last goal that can be resumed; environments given up and kept; the trail.
`PlSLD.tla` is what the program means: resolution depth first, clauses from the top, cut.

The two agree on part of the language only, and `PlConform` says which part.  `Exact(q)` are programs
run exactly as Prolog runs them (`ExactAnswers`, `ExactEnds`); `Sound(q)` those that may lose
answers or repeat them but write nothing Prolog could not (`SoundAnswers`).  Each conjunct of the two
names something a program has to keep clear of:

* predicates called from several live places share state; one clause means no choice node, and the
  clause is run again when resumed (with `q(1).`, `q(X), write(X), fail` does not end);
* a clause that succeeded is not resumed, the choice goes on with the next one, and a cut in it
  is forgotten;
* slots are overwritten by calls and by `is`, without a record on the trail: with `f(1). f(2).`,
  `X=2, f(Y), t(X), write(X), fail` writes a value that `X=2` excludes;
* the right branch of an alternative starts with what the left branch bound.

What holds of every program is that the state stays well typed.  What holds of every program without
recursion (`Recursive`: predicates that call each other in a circle) is that a goal runs in the environment
its own call made and never in one that was given back (`EnvIsOwn`), and that resuming a call takes back every
binding made since, to the letter of the trail (`ResumeRestores`).  All three are proved (4).

With recursion the last two do not hold, which the attempt to prove them showed.  A conjunction inside an
alternative has a frame on the C stack but its goals have one node for all activations.  In

    q(1). q(2).  p(0).  p(X) :- X > 0, X1 is X-1, W = 5, ( q(Y), p(X1) ; true ), fail.
    main :- p(2), write(7).  main :- write(9).

the inner `p` leaves the node of `q(Y)` marked as resumable, with its own environments, fails, and gives its
environment back; the conjunction of the outer `p`, whose goal has failed, then finds that node and resumes
it: in an environment that is freed, back to a mark of the inner call.  TLC finds the state, and the
program built from this source crashes on it; `p(1)`, and the same without recursion, print 9.

Not modelled: atoms and compound terms as data (numbers take the same path), the other comparisons
and arithmetic operators (likewise), `nl` and `writeln`.

### 2.7 IcnProgram, IcnGraph, IcnEngine, IcnReference, IcnConform: Icon expressions

`IcnProgram.tla` has the trees and `lower_icn.c`'s translation of them: most trees become one node of
the same kind, `to` between literals keeps its bounds in the node, an operator becomes `BINOP_GEN`
when `is_suspendable` says so, `&` becomes an `if`, `x +:= e` reads `x` in a node of its own.

`IcnGraph.tla` has what comes out: nodes by id (procedure and path), the scope of each procedure in order
of its slots, and the statements of generators.  `IsLowered` is what the engine relies on: operands there,
as many as the kind takes, names declared.  It also has the two tests that decide how a node is driven,
`ir_is_single_shot` and `GenKind`, the list of kinds that the code spells out three times
(`ir_exec.c:306`, 582, 1541).  The engine and its proofs know programs only as `IsLowered` has them; that
those of the run are the translations of their sources is an assumption of `IcnConform` that TLC evaluates.

`IcnEngine.tla` is `bb_exec_node` in small steps.  `m` is what the nodes hold (value, state, counter,
and the fields no reset or snapshot knows), one copy for all activations; `k` is the C stack, one
entry for each node whose evaluation is in progress, with the operand it waits for; `frames` and
`depth` are `frame_stack` and `frame_depth`.  Operators, calls and assignments share two actions,
`ExecStrict` and `StrictOperand`, for what they do alike (operands left to right, out at the first
failure), and have an `Apply...` each.  `CallProc` pushes a frame, takes the snapshot and resets the
graph of the procedure; `CallReturns` puts it back.  A procedure with a `suspend` in it has no graph:
`StartGenerator`, `ResumeGenerator`, `GeneratorSuspends` and `GeneratorEnds` are
`generator_state_new_proc` and `bb_broker_drive_sm_one`, whose frame stays on the frame stack while it
is suspended.  The body of a generator is limited to assignments and suspends in a row.

To ask for another result is to evaluate the node once more, and nothing says whether it is meant
to be evaluated once more or anew: that depends on what the last evaluation left in it.
`IcnReference.tla` is Icon itself: an expression has results one after the other, what surrounds it
takes one and may ask for the next (continuations, a definition without node state).
`IcnConform.tla` says where the two agree.  `Exact(q)` are the programs run as Icon runs them, by
syntax alone; each of its conditions names something a program has to keep clear of:

* `Several`: expressions that may be asked for more.  Operands of `BINOP_GEN` and arms of `|` must be
  of the listed kinds, or simple; a limit, a call or a block there is not asked for more.
  Bounds of `to` have one result, or are read once.
* `Statement(.., again, ..)`: in a loop an expression with several results may only be where it is
  driven to its end, or where its node is set back (the head of `while`, `not`); a block may be
  the body itself, not part of it; what a `break` leaves must not be evaluated again.
* `CannotFail`: a failing statement of a block ends the block, a failing body ends `repeat`.
* `QuietAfterFirst`, `Refers`: the engine reads a variable when it is evaluated, Icon when it is used.
* `DrivesToEnd`, `HidesNothing`: a suspended generator's frame stays on the frame stack and hides the
  caller's variables.
* recursion, with the fields that the snapshot leaves out (`to` with computed bounds, `to by`, limits).

For these `ExactOutput` (what is written is what Icon writes, in order) and `ExactEnds` (the
program ends) are checked.  For every program, inside the class and outside, and proved for any:
`CallsRestoreState`, when a call returns every node of every graph has the value, the state and the
counter it had before, at any depth of recursion (and of the fields of a node only these: bounds, limit and
generator are not in the snapshot, `scrip_ir.c:72`, and section 7 tells what becomes of them), and
`TypeOK`, by which no node keeps a generator that is over and each call has a frame of its own.  For every
program whose generators are driven to their end where they were started (`DrivesToEnd`), whatever else
it does: `FramesBalance`, when no generator is suspended, the frame in use is that of the innermost call.

The model of the engine was compared with the program built from this source: the programs of the
run, and some 1200 more drawn at random from the same trees, write the same.

Not modelled: strings, reals, csets, lists, records, scanning, keywords; the other arithmetic and
comparison operators (they take the same path); the cap of 1,000,000 turns at which `every`, `while`,
`until` and `repeat` end (`ir_exec.c:470`, `493`, `514`, `536`: a loop that the model turns for ever ends there);
`to by` lowered without a step (`ir_exec.c:625` then steps by one; `ToBy` always has one); the limit of 64 variables
of a procedure (`FRAME_SLOT_MAX`, beyond which `scope_add` gives no slot); generators with control
structures of their own.

## 3. The runs

| Run | Question | Bounds |
|---|---|---|
| `pool` | Does any order of builds, overflows, hits, nested matches and errors lose track of code? | 3 patterns with operands, 6 pages, buffers of 2, child cache of 2, 2 nested entries: exhaustion, overflow at both levels, the cache limit and a reset under an outer match all occur |
| `pool_lifo` (violation) | Is `bb_free` called on the topmost buffer only, as it asserts? | the same |
| `pat_fragment` | In the fragment, is the first way of the leftmost start found, with its captures and replacement? | 1485 patterns of the fragment over 13 one-way boxes, 2 generators, 3 alternations; all subjects over {a, b} up to 3 characters, anchored and not: 44,550 matches |
| `pat_wide` | Whatever is composed: cursor, ARBNO positions, termination | 19 boxes and boxes in boxes, alone and before one and two more, grouped either way: 1074 patterns, 358 of them steady, 5 subjects, two bytes in front of them; budget `n*4+16` and 2 kept positions, so that both run out |
| `pat_alternation` (violation) | Is README right on alternation? | 3 patterns, subjects over {a, b, c} up to 3 |
| `pl_trail` | Trail, marks and the meaning of unification | 3 variables (one anonymous), 2 atoms, 5 compounds, 9 goals, 3 marks, an agenda of 4 |
| `sm_calls` | Calls, nested runs, errors: operands and scopes, on both runners | 216 programs of a recursive function with a doubled local, a function, an alias of it, EVAL, APPLY, errors, END; call stack of 2, 3 nested runs, 40 statements |
| `sm_runners` | Do interpreter and JIT, and deep and shallow call stacks, do the same? | 540 programs less those of the next run; call stacks of 2 and 2, and of 8 and 1 |
| `sm_runners_error` (violation) | And after an error in a function called from the main program? | the rest |
| `pl_engine` | Which programs do the shared clause graphs run as Prolog does, and what holds of all? | 1420 programs: every main of an opener, a middle and a closer from lists of 7, 15 and 7 goals, asked for all answers; some for one answer; every rule of two goals from 12 in 4 uses; a recursive predicate, an aliased call, an `is` undone.  444 are `Exact`, 665 `Sound`; at most 3 slots, 20 variables, 18 values written |
| `icn_engine` | Which programs do the shared nodes run as Icon does, and what holds of all? | 1288 programs: 25 expressions with several results, each with each of 16 loop bodies, in nested loops, alone, in `if` and `while`; 16 of them combined pairwise in an operator, an alternation and a limit; `until`, `repeat`; recursion with generators, statics, suspending procedures; a recursion that fills the frame stack.  865 are `Exact`.  16 frames (256 in the code), 6 generators, numbers up to 200, 70 values written; `Fuel` 90 loop steps and calls in the reference |
| `sync_step` | Do processes in lock step stay so, is each verdict justified, does everyone end? | 2 participants of at most 2 events, one longer than a pipe of 2 tokens, `PIPE_BUF` 2, one skip per step, any of them killed at any point; skipping on and off |

`pl_trail` compares what a finished unification left with the least congruence of its goal, a
definition that knows neither bindings nor an order of work (`MCPlTrail.tla`).

Deadlock is checked for the call runs and `pl_trail` only.  Elsewhere the system really stops: a match,
a query or a program is done, the controller and every participant have ended, or an error that
nobody catches has ended the process that the pool is in.

Why the bounds are enough: the pool run needs a parent, an operand and an operand's operand to have
code on three levels, and one buffer too few for a fourth.  The stack of `sm_calls` is one call
short of what its programs use, so each of them also runs nested; a doubled local and a result
variable that is another function's name are the cases in which the order of restoring matters; a
third nested run adds no pair of kinds that two do not have.  `&STLIMIT` 40 is beyond the longest
terminating program (programs that loop reach it and are ended by it, as in the code).

### Fairness

`pat_wide`, `pl_engine` and `icn_engine` assume `WF_vars(Next)`: they are loops of one thread that nothing outside
can stop or delay, so as long as some step is enabled one is taken.  `sync_step` assumes weak
fairness of the controller and of each participant, which is the operating system running every
process that can run: a process blocked in an open, a read or a write of a FIFO goes on once the
other side has made that possible.  Nothing is assumed of `Kill`.

## 4. What is proved

The eight proof modules hold for every value of the constants that satisfies the named assumptions, which
TLC evaluates for the constants of the runs.

`BBPoolProofs` (from `PoolAssumption`: sizes are naturals, a buffer has a page, the two null values
are no addresses).  `PoolInv` is inductive: `TypeOK`, `Buffers` and `Pointers`.  The checked
properties alone are not inductive; what is added is `Geometry` (the operand being emitted has the
topmost buffer and lies above its parent, so that writing one does not touch the other or
sealed code) and `ChildrenAreLive` (during a build the child cache names live code only; between
builds it may name dead code, because `BuildRoot` empties it).  The one lemma everything rests on is
`PointersKept`: a step that leaves sealed pages alone leaves pointers into them good.

* `PoolInvariant`: `Spec => []PoolInv`
* `PoolTypes`, `EmitterAlwaysWrites`, `CachedCodeAlwaysLive`, `EmbeddedCallsAlwaysLive`,
  `RunningCodeAlwaysExecutable`: all the properties of the run; and `FreePagesAlwaysWritable`

`PlTrailProofs` (from `TermAssumption`: constants are disjoint, arguments are terms, goals are
sequences of pairs of terms).  `TrailInv` is inductive: types, `TrailRecordsBindings` (a named
variable is bound exactly while it is on the trail, where it is once) and `MarksNested`.  The
refinement is then a statement about `Undone`: binding an unbound variable changes no older copy
because it is recorded above every mark (`BindKeepsUndone`), and unwinding to a mark yields exactly
its copy (`UnwindIsUndone`).

* `TrailTypes`, `MarksAlwaysNested`, and `TrailIsExact`: `Spec => [](TrailRecordsBindings /\ MarksNested)`
* `BacktrackingIsExact`: `Spec => BacktrackingRestores`, the refinement of `PlStore`

What unification computes is in the same module, from the same assumption.  A substitution, by
finite or infinite terms, is known by what it makes equal (`Substitution`: an atom equals itself only,
compounds are equal exactly when functor and arguments are).  `SolutionsKept` is the invariant: the store
and the agenda together have the solutions that the store before and the goal had.  An agenda that is
empty then means a most general unifier, a pair that clashes means that there is none.  A variable
without a name is never unbound again, so one that was bound in an earlier, failed unification counts as
found (`Before`), which is what the code does.

* `ReferencesNeverRing`: `Spec => []NoRefRing`
* `UnifyKeepsSolutions`: `Spec => []SolutionsKept`
* `UnifyIsRight`: `Spec => [](MostGeneral /\ NoUnifier)`

`SyncStepProofs` (from `SyncAssumption`: sizes are naturals, records have a length, `END` and
`NAME_DEF` are no events of a program).  `AheadByOne` counts events on the two sides of two pipes, and is
not inductive: it has to be known where in its exchange each participant is.  `SyncInv` says so.
`ControllerOK` ties the controller's place in its loop to whether it is skipping; for each participant
that is not torn, `ParticipantOK(p)` says that its records are well formed, that what it still has to
send is an event or an announcement and its event, and which of six situations it is in, each fixing
the content of both its pipes and how far `said` is ahead of `pos`: `Quiet` (nothing under way),
`Writing` (its record is partly in the pipe), `OnItsWay` (wholly in the pipe, or being read),
`InHand` (the controller holds it), `Answered` (the answer is in the go pipe), `Abandoned` (the
controller has ended).  Each action moves one participant from one situation to another, or all
those in hand at once, and the proof has one lemma per action on that pattern.  Torn participants
are excluded: one whose record was cut short no longer waits for its answers.

* `SyncInvariant`: `Spec => []SyncInv`, for any number of participants, events and pipe sizes
* `NobodyRunsAhead`: `Spec => []AheadByOne`

* `StateIsTyped`: `Spec => []TypeOK`

Its second part goes on from there.  What each participant's content is worth is `Talk(p)`: names are
announced before they are referred to and the controller's table agrees with the participant's own as far
as it has been told (`Knows`); a record in the pipe is the beginning of one that says what the program said
last (`Partly`); what the controller holds resolves to it (`Holds`); who is gone has left the beginning of
a record, its END, or nothing.  `Round` says that a go is given in agreement and that a round of skipping in
which nothing moved leaves the disagreement; `Verdict` says what stands behind a verdict under way.  With
`Shapes` they make `TalkInv`, inductive relative to `SyncInv`, with one lemma per action.

* `TalkInvariant`: `Spec => [](SyncInv /\ TalkInv)`
* `ControllerHoldsWhatWasSaid`: `Spec => []HeldIsSaid`
* `VerdictsAreLocksteps`: `Spec => Implements`, the refinement of `Lockstep`: each action is a step of the
  abstract monitor or none

`SMCallsProofs` (from `SMAssumption` and `CompiledAssumption`).  `SMInv` is inductive: `Typed`; every frame can be
put back and its caller go on (`FrameOK`); every run lies above the frames of the runs below, with a hook's
own frame between (`Layered`); a run that waits can go on when it gets its value (`Waits`); the one that runs
has what its instruction takes (`Ready`).  The last is what needs the others: where an error, an END or a
return goes on is found in the frames and runs, not in the code that follows.

* `StateIsTyped`: `Spec => []TypeOK`
* `OperandsArePresent`: `Spec => []OperandsPresent`

`SMScopesProofs` is the refinement of `Scopes`.  `Env(F, S, m)` is the environment that `m` frames and a store
stand for; a name's binding at a depth is what the first frame above saved of it.  Calling is `Enter` because
the values saved are those the scopes below had, storing changes the innermost scope of the name (`HomeIs`),
and returning is `Leave` because putting values back, last one first, leaves each name what the first
frame that saved it holds (`PutBack`), duplicate names included.  An error puts back some frames and not others,
and `AbandonedEnv` says that this is the environment of those kept, in the store that was left.

* `CallsImplementScopes`: `Spec => ImplementsScopes`
* `OnlyErrorsCut`: `Spec => OnlyErrorsCutScopes`

`PatEngineProofs` (from `BudgetAssumption` and `MatchAssumption`: graphs are finite, ports lead to boxes of
the same graph, an ARBNO has a graph below it).  `PatInv` adds to `TypeOK` that walks lie ever deeper in the
tree (`Nested`), so no box is being executed twice, and that a walk that waits has safety and room left.  For
steady graphs `SteadyInv` says where the boxes that can still move the cursor lie: control is beyond each of
them (`Passed`), what a span or ARB that control can come back to would give up does not reach before its walk
(`Anchored`), a walk starts no earlier than the one that waits for it (`From`, `Begun`), and kept positions
rise.  What control can still come to is defined by the sets of boxes no port leads out of, which needs no
recursion; four lemmas (`AheadOwn`, `AheadOn`, `AheadBack`, `SteadyMeans`) are all that is used of it.

* `StateIsTyped`: `Spec => []TypeOK`
* `CursorStays`: `Spec => []CursorInAttempt`
* `PositionsKept`: `Spec => []ArbnoKeepsItsPositions`

`PlEngineProofs` (from `PlEngineAssumption`: programs are lowered ones, with slots for their variables).  There
are two invariants.  `AnyInv` is of every program: the frames are a path in the clause graphs, each waiting
for the node the next one executes; every term, environment and mark that a frame, a node or the trail
holds is there; references go from younger variables to older values in no circle, which is what makes
dereferencing end; marks grow along the stack.  `OwnInv` is of programs without recursion, and has
five parts, each of which needs the others: `PathOf` (the predicates on the stack are all different, so a node
that is executed is executed once), `OwnOK` (each frame has the environment that the call below it made),
`KeepOK` (so has what a resumable node kept, as long as its graph is in use), `LiveIn` (none of these was given
back: an environment is given back when its call fails, and by then no resumable node of a graph in use
has it), and `ResumeOK` (below the mark a node kept, the trail and the variables are those of the
time the call was made).  That all the nodes an activation left behind lie in graphs that are not in use
when it has ended is where recursion breaks it.  There is one lemma per action for each of the two.

* `AnyProgram`: `Spec => []AnyInv`, and `TypeCorrect`: `Spec => []TypeOK`, with recursion too
* `Always`: `Spec => []Inv`, where `Inv` is `AnyInv` and, without recursion, `OwnInv`
* `EnvironmentsAreOwn`: `Spec => []EnvIsOwn`
* `ResumingRestores`: `Spec => []ResumeRestores`

`IcnEngineProofs` (from `IcnAssumption`: programs are lowered ones, bounds are naturals; nothing is asked of what
they do, so recursion, `break` and abandoned generators are included).  A call saves value, state and
counter of the nodes of the procedure called only, and yet gives back those of every procedure that was called meanwhile, since each
of these calls did so for its own; the same is true when procedures call each other in turn.  `IInv` says why:

* `StackOK`: each evaluation in progress lies in the procedure of the innermost call below it and waits
  for an operand or for that call; since a call was made, what runs is a procedure that was called
  since (`HomeOK`)
* `SnapsOK`: a node of a procedure not called since has, in every later snapshot and now, the value, state and
  counter that the call found.
  With `HomeOK` this is what `CallsRestoreState` needs when the call returns
* `OwnOK`: a generator that is not over belongs to one node
* `DeepOK`: a generator that can be resumed, now or once a call has returned and put its node's state back, has its
  frame above those of the calls that will be in progress then.  A generator that ends takes the frame
  stack down to that frame, so without this it could take it below the frame of a call in progress

There is one lemma per action and part.

* `AlwaysIInv`: `Spec => []IInv`
* `TypeCorrect`: `Spec => []TypeOK`
* `CallsRestore`: `Spec => CallsRestoreState`

Only model-checked, and why:

* Liveness: `Terminates`, `ExactEnds`, `ControllerEnds`, `ParticipantsReleased`.
* What compares with a recursive definition: `MatchesReference`, `CapturesMatchReference` (the ways of a
  pattern), `SuccessIsMostGeneral`, `FailureMeansNoUnifier` (the congruence; what they say of unification is
  proved in another form as `MostGeneral` and `NoUnifier`), `RunnersAgree`, `StatementsAgree` (two machines,
  on the programs for which they agree), `ExactAnswers` and `SoundAnswers` (Prolog's search), and `ExactOutput`
  (Icon's results).
* `FramesBalance`: which programs drive their generators to the end is told by walking their trees, with
  recursive operators (`DrivesToEnd`); of the others it does not hold (section 7).
* That `build_node` makes graphs as `MatchAssumption` has them, and `lower()` programs as
  `CompiledAssumption` has them, `lower_pl_predicate` clause graphs as `PlEngineAssumption` has them,
  `lower_icn_proc_body` nodes as `IcnAssumption` has them: evaluated for the graphs and programs of the runs.

## 5. What is not modelled, and why

* Front ends, AST tools, emitters, the other targets: pure translations or I/O; their correctness
  is a matter of one input and one output.
* The builtin library: functions of their arguments.
* The contents of strings, tables and arrays beyond what the properties tell apart.
* Icon beyond expressions over integers (2.7), and Raku, which shares the nodes and adds its own
  builtins.
* Garbage collection: addresses in the models are never reused while reachable.
* The AST walker as third runner of the monitor: a stub in this commit
  (`driver/interp_ast_stubs.c`).

## 6. Plan

What is left, in this order; each module with a run, and with the theorem named.

1. **NameStack**: the contexts of `snobol4_nmd.c`, nested matches and errors between them;
   abstractly, a match assigns its conditional captures if and only if it succeeds.
2. **Broker**: `bb_broker` and `bb_broker_drive_sm`, abstractly a sequence of results; generators with
   loops in them; string scanning, whose subject and position are saved around each scan.
3. Statement lowering: that patched jumps of `lower.c` go to the labels they name, as an operator on
   small trees checked against `MCSMPrograms`; and `lower_stmt`'s split of subject and pattern
   (`lower.c` 1642-1665), which takes `S LEN(1) . V 'x'` for a concatenation.
4. Proofs: that the clause graphs give Prolog's answers for a class of programs, which needs a reference
   without recursion; and `FramesBalance`, which needs `DrivesToEnd` as a property of nodes.

## 7. Where the code and its documents part

| Run | What |
|---|---|
| `pool_lifo` | `bb_pool.c:55` treats a free that is not topmost as fatal; operands are built above their parent, so a parent that overflows aborts the process instead of yielding NULL |
| `pat_alternation` | README.md:53: alternation restores the cursor; no node saves it |
| `sm_runners_error` | `scripts/test_smoke_snobol4_jit.sh:4`: what passes interpreted passes under `--run`; after an error in a function the JIT has no call to return from |

Shown by no run of their own, but seen while modelling, each tried with the program where it can be:

* DESIGN.md:10: α enters a box fresh; an exhausted generator of a pattern concedes when it is
  entered again (`ir_exec.c:1378`).
* README.md:49: what fails resumes, through β, the box before it.  `'xxb' ? LEN(1) ARB() 'b'` fails and
  `'xxb' ? LEN(1) (ARB() 'b')` succeeds: the last element of an unparenthesised sequence fails back into the
  first (`lower_pat_dcg.c`, TT_SEQ).
* README.md:51: a box that fails restores the cursor.  With `&ANCHOR = 1` and `S = 'abbbbb'`,
  `S ? ARBNO('a') LEN(3) 'a' = '*'` should fail, but reports a match and makes `S` `*bbbbb`: the ARBNO drops to
  no repetition, LEN, still holding its match, steps back three from there, and both are entered
  afresh three characters before the subject (`ir_exec.c:1418`, `1519`).
* DESIGN.md:380: a conditional assignment waits for the match; it is made at once
  (`ir_exec.c:1469`), so `'abc' ? LEN(1) . V 'x'` fails and assigns `V`.
* `main :- X=2, f(Y), t(X), write(X), fail.` writes 2, 2, 3, with `f(1). f(2). t(2). t(3).`: resuming
  `f` restores a slot to a fresh variable (`ir_exec.c:1774`).
* `p(1,X)` called as `p(1,7)` fails: head constants and variables share slots (`lower_pl.c:153`).
* `monitor_sync_bin.py:29` has 0 mean agreement; it is also the answer when every participant was
  killed before the same step (`PassMeansEnd` in SyncStep says what would be needed).
* `EVENT_TIMEOUT_S` and exit code 2 (`monitor_sync_bin.py:123`) do not fire while a read blocks.
* A value longer than the room in a pipe that is still non-blocking is cut short
  (`snobol4.c:255`): the same program ends in agreement or in a protocol error, by who opens first.

What a program outside `Exact` may meet, each tried with the program built from this source:

* Left half-way.  A generator that `break`, a bounded operand or a call left goes on where it was:
  `every i := 1 to 4 do write(f(i) + 1)` writes for the odd `i` only, and a block inside a loop body runs
  only its last statement from its second time on (`ir_exec.c:251`).
* Not asked again.  `ir_exec.c:553` says a limit is in the lists of generator kinds; it is not, nor are
  calls and blocks, so `(e \ 3) | 9` gives one result of the limit.  `(1 | 2) & (3 | 4)` gives 3, 4;
  `every (i := 1 to 3) & (i > 1) & write(i)` writes nothing; `write(1 to 2, ",", 3 to 4)` goes through
  both in step; `(3 to 4) to (1 to 3)` is empty.
* Asked for ever.  `every` of an expression that neither ends nor counts as single repeats a million
  times.  `repeat` ends when its body fails, or at `next`.
* Recursion, Prolog: a conjunction inside an alternative resumes what an inner activation left (2.6).
* Recursion, Icon.  Within `every i := a to b` a recursive call leaves its own bounds; recursion inside
  `every x := g(n)`, with a suspending `g`, does not end.  Calls beyond 256 frames fail silently.
* Frames.  While `g` is suspended its variables hide the caller's: after `b := a`,
  `every x := g(a) do write(x + b)` adds to `g`'s `b`.  A generator that ends takes the frame stack back to
  below its own frame, whatever was started since (`sm_interp.c:1781`): when of two that are suspended
  the first one started ends first, the other's end leaves the stack one too high.  With

      procedure h()  suspend 1; end      procedure g()  suspend 1; suspend 2; end
      procedure main()  a := 8;
        every i := 1 to 3 do { if i < 3 then (if h() then 1 else 1) else 1; if g() then 1 else 1; 1 };
        write(a); end

  the last line writes an empty line, without the part with `h` it writes 8.
* Statics of two procedures with one name are one variable; `fail` does not end a procedure; a failing
  `return` returns null; `break | write(1)` writes; an `if` that fails ends the block it is in; a
  variable in an alternation is read at once; a failing case key matches a null selector; a bound of
  `to` that is null or a string is read as an address.

Hazards seen and left without a property: the 512 slots of the statement cache that are never given
up (`stmt_exec.c:84`); variables of slot -1 bound and never recorded (`prolog_unify.c:34`); no occurs
check (`prolog_unify.c:39`); the nesting depth of deferred variables not counted down after an error
(`stmt_exec.c:131`); walks cut short by the safety budget (`ir_exec.c:2005`); the hook and `APPLY_fn`
calling each other (`interp_hooks.c:66`, ends as `crashed` in SMCalls); a call that succeeded and is
entered again (`ir_exec.c:1894`); nested contexts of conditional assignments (`snobol4_nmd.c:105`).

## 8. Running

    tlc -config MCBBPool.cfg MCBBPool          # likewise the other MC modules; the pool and
    tlapm BBPoolProofs.tla                     # MCSMRunners have two configurations each
    tlapm PlTrailProofs.tla                    # likewise SyncStepProofs,
                                               # SMCallsProofs, SMScopesProofs,
                                               # PatEngineProofs, IcnEngineProofs,
                                               # PlEngineProofs (the longest)

Operators whose comment begins with "Mutant:" are plausible mistakes in the code; each replaces
the definition that follows it in one of the experiments listed in `PROJECT.json`, to show that
the property checked there can fail.
