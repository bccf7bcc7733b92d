------------------------------ MODULE IcnEngine ------------------------------
(***************************************************************************)
(* Icon expressions on the graph walker (src/lower/ir_exec.c).  One        *)
(* function, bb_exec_node, evaluates a node: it evaluates operands by      *)
(* calling itself and leaves the result in the node.  To ask for another   *)
(* result is to evaluate the node once more; a node that can have several  *)
(* keeps its place in itself (state, counter, ...), one copy for all       *)
(* activations of the procedure, which a call saves and puts back.         *)
(*                                                                         *)
(* The C stack is k; Top.nd is the node whose evaluation is in progress,   *)
(* Top.j the operand it waits for and Top.ph what it wants it for.         *)
(* Procedures that suspend are code of the stack machine, run until the    *)
(* next suspend (src/processor/sm_interp.c).                               *)
(***************************************************************************)
EXTENDS IcnGraph, FiniteSets

CONSTANTS
    Codes,          \* the programs that are run, lowered
    MaxFrames,      \* FRAME_STACK_MAX
    MaxInt,         \* bound: a run that computes a larger number is given up
    MaxGens,        \* bound: ... that starts more generators
    MaxOut          \* bound: ... that writes more values

ASSUME IcnAssumption ==
    /\ MaxFrames \in Nat \ {0} /\ MaxInt \in Nat /\ MaxGens \in Nat /\ MaxOut \in Nat
    /\ \A c \in Codes : IsLowered(c)

VARIABLES
    code,           \* the program that is run
    m,              \* what each node holds
    frames, depth,  \* frame_stack and frame_depth; frames above keep what they had
    glob, retval,   \* global variables by name; g_ir_return_val
    gens,           \* the generators that were started
    k, ctl,         \* the C stack and what happens next
    out             \* what was written

envs == <<frames, depth, glob, retval>>
vars == <<code, m, envs, gens, k, ctl, out>>

INTVAL(n) == [t |-> "int", n |-> n]
NULVCL == [t |-> "null", n |-> 0]
FAIL   == [t |-> "fail", n |-> 0]
Fails(v) == v.t = "fail"

\* value, state, counter; and what no reset or snapshot knows: ival, ival2, opaque, ival3.
Fresh(nd) == [val |-> FAIL, st |-> 0, cnt |-> 0, lo |-> nd.lo, hi |-> nd.hi, gen |-> 0, once |-> FALSE]

\* The nodes of a procedure are set back, or put back as they were.
bb_reset(mem, f) ==
    [id \in DOMAIN mem |-> IF id[1] = f THEN [mem[id] EXCEPT !.val = FAIL, !.st = 0, !.cnt = 0]
                                        ELSE mem[id]]
\* Mutant: counters are not put back.
RestoreNoCounters(mem, snap, f) ==
    [id \in DOMAIN mem |-> IF id[1] = f THEN [mem[id] EXCEPT !.val = snap[id].val, !.st = snap[id].st]
                                        ELSE mem[id]]
IR_restore_state(mem, snap, f) ==
    [id \in DOMAIN mem |->
        IF id[1] = f THEN [mem[id] EXCEPT !.val = snap[id].val, !.st = snap[id].st, !.cnt = snap[id].cnt]
                     ELSE mem[id]]

-----------------------------------------------------------------------------
(* Variables.                                                              *)

\* Slots start without a value, those of the parameters with the arguments there are.
NewFrame(p, args) ==
    [sc  |-> p.sc,
     env |-> [i \in 1 .. (IF p.sc = <<>> THEN 1 ELSE Len(p.sc)) |->
                 IF i <= p.nparams /\ i <= Len(args) THEN args[i] ELSE NULVCL],
     returning |-> FALSE, loop_break |-> FALSE, loop_next |-> FALSE]

FRAME == frames[depth]

\* The slots of a name in the frame: one or none.
scope_get(x) == {i \in 1 .. Len(FRAME.sc) : FRAME.sc[i] = x /\ i <= Len(FRAME.env)}
Local(x) == scope_get(x) # {}
SlotOf(x) == CHOOSE i \in scope_get(x) : TRUE

\* A variable of the frame that has no value yet is the global one of that name.
Read(x) == IF Local(x) /\ FRAME.env[SlotOf(x)] # NULVCL THEN FRAME.env[SlotOf(x)] ELSE glob[x]

Put(env, x, v)  == IF Local(x) THEN [env EXCEPT ![SlotOf(x)] = v] ELSE env
Rest(vals, x, v) == IF Local(x) THEN vals ELSE [vals EXCEPT ![x] = v]
Store(x, v) == /\ frames' = [frames EXCEPT ![depth].env = Put(@, x, v)]
               /\ glob' = Rest(glob, x, v)

\* What icn_binop_apply returns, and when it does so because a relation does not hold.
Holds(o, l, r) == (o = "<" /\ l.n < r.n) \/ (o = ">" /\ l.n > r.n) \/ (o = "=" /\ l.n = r.n)
icn_binop_apply(o, l, r) ==
    IF Fails(l) \/ Fails(r) THEN FAIL
    ELSE IF o = "+" THEN INTVAL(l.n + r.n)
    ELSE IF o = "-" THEN INTVAL(l.n - r.n)
    ELSE IF Holds(o, l, r) THEN r ELSE FAIL
rel_fail(o, l, r) == ~Fails(l) /\ ~Fails(r) /\ o \notin {"+", "-"} /\ ~Holds(o, l, r)

-----------------------------------------------------------------------------
(* Control.                                                                *)

Activity(j, ph) == [nd |-> ctl.nd, j |-> j, ph |-> ph, args |-> <<>>, gen |-> 0,
                        loop_break |-> FRAME.loop_break, loop_next |-> FRAME.loop_next, snap |-> <<>>]
Top == k[Len(k)]
Entered == code.at[ctl.nd]
Owner   == code.at[Top.nd]
SetTop(f) == k' = [k EXCEPT ![Len(k)] = f]
Pop       == k' = SubSeq(k, 1, Len(k) - 1)

Exec(id)  == ctl' = [at |-> "exec", nd |-> id]
Go(where) == ctl' = [at |-> where, nd |-> <<>>]

Entering(op) == ctl.at = "exec" /\ Entered.op = op
Here == m[ctl.nd]                            \* what the node entered holds
In(op) == ctl.at = "back" /\ k # <<>> /\ Owner.op = op
At(op, j) == In(op) /\ Top.j = j
Operand(j) == Below(ctl.nd, j)                \* of the node entered
Child(j)   == Below(Top.nd, j)
Got == m[Child(Top.j)].val                      \* the result of the operand waited for

\* Enter a node by evaluating operand j: as it stands, or from its first result.
Enter(j, ph)      == k' = Append(k, Activity(j, ph)) /\ Exec(Operand(j)) /\ UNCHANGED m
EnterFresh(j, ph) == /\ k' = Append(k, Activity(j, ph)) /\ Exec(Operand(j))
                     /\ m' = [m EXCEPT ![Operand(j)].st = 0]
\* On to operand j.
Ask(j, ph)      == SetTop([Top EXCEPT !.j = j, !.ph = ph]) /\ Exec(Child(j)) /\ UNCHANGED m
AskFresh(j, ph) == /\ SetTop([Top EXCEPT !.j = j, !.ph = ph]) /\ Exec(Child(j))
                   /\ m' = [m EXCEPT ![Child(j)].st = 0]

\* The node has its result; its state stays, or becomes s.
Leaf(v)    == m' = [m EXCEPT ![ctl.nd].val = v] /\ Go("back") /\ UNCHANGED k
Over       == m' = [m EXCEPT ![ctl.nd].val = FAIL, ![ctl.nd].st = 0] /\ Go("back") /\ UNCHANGED k
Give(v)    == m' = [m EXCEPT ![Top.nd].val = v] /\ Pop /\ Go("back")
Done(v, s) == m' = [m EXCEPT ![Top.nd].val = v, ![Top.nd].st = s] /\ Pop /\ Go("back")

Init ==
    /\ code \in Codes
    /\ m = [id \in DOMAIN code.at |-> Fresh(code.at[id])]
    /\ frames = <<NewFrame(code.proc["main"], <<>>)>> /\ depth = 1
    /\ glob = [x \in code.names |-> NULVCL] /\ retval = NULVCL
    /\ gens = <<>> /\ k = <<>> /\ ctl = [at |-> "exec", nd |-> Root("main")] /\ out = <<>>

-----------------------------------------------------------------------------
(* Leaves.                                                                 *)

ExecLeaf ==
    /\ \/ Entering("LIT_I")   /\ Leaf(INTVAL(Entered.n))
       \/ Entering("SUCCEED") /\ Leaf(NULVCL)
       \/ Entering("FAIL")    /\ Leaf(FAIL)
       \/ Entering("VAR")     /\ Leaf(Read(Entered.x))
    /\ UNCHANGED <<code, envs, gens, out>>

ExecBreak ==
    /\ Entering("BREAK") /\ frames' = [frames EXCEPT ![depth].loop_break = TRUE]
    /\ Leaf(FAIL)
    /\ UNCHANGED <<code, depth, glob, retval, gens, out>>

ExecNext ==
    /\ Entering("NEXT") /\ frames' = [frames EXCEPT ![depth].loop_next = TRUE]
    /\ Leaf(FAIL)
    /\ UNCHANGED <<code, depth, glob, retval, gens, out>>

-----------------------------------------------------------------------------
(* Nodes that evaluate their operands from left to right, fail with the    *)
(* first that fails, and then do what they do.  Another result is had by   *)
(* evaluating all the operands once more.                                  *)

Suspended == Entered.op = "CALL" /\ Here.st = 1 /\ Here.gen # 0

ExecStrict ==
    /\ ctl.at = "exec" /\ Entered.op \in Strict /\ ~Suspended
    /\ LET first == IF Entered.op = "ASSIGN" THEN 2 ELSE 1
       IN IF Entered.kids > 0 THEN Enter(first, "operand")
          ELSE k' = Append(k, Activity(0, "operand")) /\ Go("apply") /\ UNCHANGED m
    /\ UNCHANGED <<code, envs, gens, out>>

StrictOperand ==
    /\ ctl.at = "back" /\ k # <<>> /\ Owner.op \in Strict /\ Top.ph = "operand"
    /\ LET f == [Top EXCEPT !.args = Append(@, Got)]
       IN \/ Fails(Got) /\ Give(FAIL)
          \/ /\ ~Fails(Got) /\ Top.j < Owner.kids
             /\ SetTop([f EXCEPT !.j = @ + 1]) /\ Exec(Child(Top.j + 1)) /\ UNCHANGED m
          \/ /\ ~Fails(Got) /\ Top.j = Owner.kids
             /\ SetTop(f) /\ Go("apply") /\ UNCHANGED m
    /\ UNCHANGED <<code, envs, gens, out>>

Applying(op) == ctl.at = "apply" /\ Owner.op = op
Arg(i) == Top.args[i]

ApplyAssign ==
    /\ Applying("ASSIGN") /\ Store(code.at[Child(1)].x, Arg(1)) /\ Give(Arg(1))
    /\ UNCHANGED <<code, depth, retval, gens, out>>

ApplySwap ==
    /\ Applying("SWAP")
    /\ LET x == code.at[Child(1)].x
           y == code.at[Child(2)].x
       IN /\ frames' = [frames EXCEPT ![depth].env = Put(Put(@, x, Arg(2)), y, Arg(1))]
          /\ glob' = Rest(Rest(glob, x, Arg(2)), y, Arg(1))
    /\ Give(Arg(2))
    /\ UNCHANGED <<code, depth, retval, gens, out>>

ApplyBinop ==
    /\ Applying("BINOP")
    /\ LET r == icn_binop_apply(Owner.x, Arg(1), Arg(2))
       IN r.n \in -MaxInt .. MaxInt /\ Give(r)
    /\ UNCHANGED <<code, envs, gens, out>>

ApplyNonNull ==
    /\ Applying("NONNULL") /\ Give(IF Arg(1) = NULVCL THEN FAIL ELSE Arg(1))
    /\ UNCHANGED <<code, envs, gens, out>>

\* write: each value that is not null is written; the last argument is the result.  A generator of
\* that name comes first, while there is a frame for it; any other procedure does not.
ApplyWrite ==
    /\ Applying("CALL") /\ Owner.x = "write" /\ (Suspends(code, "write") => depth >= MaxFrames)
    /\ Len(out) < MaxOut /\ out' = Append(out, Top.args)
    /\ Give(IF Top.args = <<>> THEN NULVCL ELSE Arg(Len(Top.args)))
    /\ UNCHANGED <<code, envs, gens>>

-----------------------------------------------------------------------------
(* Procedures with a graph.                                                *)

Push(f) == /\ depth' = depth + 1
           /\ frames' = LET new == NewFrame(code.proc[f], Top.args)
                        IN IF depth < Len(frames) THEN [frames EXCEPT ![depth + 1] = new]
                                                  ELSE Append(frames, new)

CallProc ==
    /\ Applying("CALL") /\ Owner.x # "write" /\ HasGraph(code, Owner.x) /\ depth < MaxFrames
    /\ Push(Owner.x)
    /\ m' = bb_reset(m, Owner.x)
    /\ SetTop([Top EXCEPT !.ph = "call", !.snap = m]) /\ Exec(Root(Owner.x))
    /\ UNCHANGED <<code, glob, retval, gens, out>>

\* The frame stack is full, or there is no procedure of that name.
CallFails ==
    /\ Applying("CALL") /\ Owner.x # "write"
    /\ Owner.x \in DOMAIN code.proc => depth >= MaxFrames
    /\ Give(FAIL)
    /\ UNCHANGED <<code, envs, gens, out>>

CallReturns ==
    /\ In("CALL") /\ Top.ph = "call"
    /\ LET f == Owner.x
           v == IF FRAME.returning THEN retval ELSE m[Root(f)].val
       IN m' = [IR_restore_state(m, Top.snap, f) EXCEPT ![Top.nd].val = v]
    /\ frames' = [frames EXCEPT ![depth].returning = FALSE] /\ depth' = depth - 1
    /\ Pop /\ Go("back")
    /\ UNCHANGED <<code, glob, retval, gens, out>>

-----------------------------------------------------------------------------
(* Generators: procedures that suspend.  The frame of one that is          *)
(* suspended stays on the frame stack.                                     *)

Drive(f, g) == k' = [f EXCEPT ![Len(f)].ph = "gen", ![Len(f)].gen = g] /\ Go("run")

StartGenerator ==
    /\ Applying("CALL") /\ Suspends(code, Owner.x) /\ depth < MaxFrames /\ Len(gens) < MaxGens
    /\ Push(Owner.x)
    /\ gens' = Append(gens, [proc |-> Owner.x, pc |-> 1, saved_frame_depth |-> depth + 1, over |-> FALSE])
    /\ Drive(k, Len(gens) + 1)
    /\ UNCHANGED <<code, m, glob, retval, out>>

ResumeGenerator ==
    /\ Entering("CALL") /\ Suspended
    /\ depth' = gens[Here.gen].saved_frame_depth
    /\ Drive(Append(k, Activity(0, "gen")), Here.gen)
    /\ UNCHANGED <<code, m, frames, glob, retval, gens, out>>

\* The machine's own evaluation of a small expression, by slots of the frame in use.
SmLoad(a) == IF a.slot = NoSlot THEN INTVAL(a.n) ELSE IF a.slot <= Len(FRAME.env) THEN FRAME.env[a.slot] ELSE FAIL
SmValue(s) == IF Len(s.c) = 1 THEN SmLoad(s.c[1]) ELSE icn_binop_apply(s.x, SmLoad(s.c[1]), SmLoad(s.c[2]))

\* The frame gets as many slots as are needed; what failed is not kept.
SmStore(env, s, v) == IF Fails(v) THEN env
                      ELSE [i \in 1 .. (IF s <= Len(env) THEN Len(env) ELSE s) |->
                               IF i = s THEN v ELSE IF i <= Len(env) THEN env[i] ELSE NULVCL]

Running == ctl.at = "run"
Gen == gens[Top.gen]
Body == code.proc[Gen.proc].body
Stmt == Body[Gen.pc]
Advance == gens' = [gens EXCEPT ![Top.gen].pc = @ + 1]

GeneratorAssigns ==
    /\ Running /\ Gen.pc <= Len(Body) /\ Stmt.op = "ASSIGN"
    /\ LET v == SmValue(Stmt)
       IN v.n \in -MaxInt .. MaxInt /\ frames' = [frames EXCEPT ![depth].env = SmStore(@, Stmt.slot, v)]
    /\ Advance
    /\ UNCHANGED <<code, m, depth, glob, retval, k, ctl, out>>

GeneratorSuspends ==
    /\ Running /\ Gen.pc <= Len(Body) /\ Stmt.op = "SUSPEND"
    /\ m' = [m EXCEPT ![Top.nd].val = SmValue(Stmt), ![Top.nd].st = 1, ![Top.nd].gen = Top.gen]
    /\ Advance /\ Pop /\ Go("back")
    /\ UNCHANGED <<code, envs, out>>

\* Mutant: the node keeps the generator.
NotForgotten(r) == [r EXCEPT !.val = FAIL, !.st = 0]
Forgotten(r) == [r EXCEPT !.val = FAIL, !.st = 0, !.gen = 0]

\* Mutant: the frame of the generator stays on the stack.
GeneratorEndsInItsFrame ==
    /\ Running /\ Gen.pc > Len(Body)
    /\ gens' = [gens EXCEPT ![Top.gen].over = TRUE]
    /\ depth' = Gen.saved_frame_depth
    /\ m' = [m EXCEPT ![Top.nd] = Forgotten(@)]
    /\ Pop /\ Go("back")
    /\ UNCHANGED <<code, frames, glob, retval, out>>

GeneratorEnds ==
    /\ Running /\ Gen.pc > Len(Body)
    /\ gens' = [gens EXCEPT ![Top.gen].over = TRUE]
    /\ depth' = Gen.saved_frame_depth - 1
    /\ m' = [m EXCEPT ![Top.nd] = Forgotten(@)]
    /\ Pop /\ Go("back")
    /\ UNCHANGED <<code, frames, glob, retval, out>>

-----------------------------------------------------------------------------
(* Sequences of statements, return, initial.                               *)

ExecSeq == Entering("SEQ") /\ Enter(1, "") /\ UNCHANGED <<code, envs, gens, out>>

SeqStatement ==
    /\ In("SEQ")
    /\ IF FRAME.returning \/ Top.j = Owner.kids THEN Give(FAIL) ELSE Ask(Top.j + 1, "")
    /\ UNCHANGED <<code, envs, gens, out>>

\* A block: entered again it evaluates its last expression only.
ExecBlock ==
    /\ Entering("SEQ_EXPR")
    /\ LET last == Entered.kids
       IN \/ Here.st = 0 /\ last > 1 /\ Enter(1, "")
          \/ Here.st = 0 /\ last = 1 /\ EnterFresh(1, "")
          \/ Here.st # 0 /\ Enter(last, "")
    /\ UNCHANGED <<code, envs, gens, out>>

BlockExpression ==
    /\ In("SEQ_EXPR")
    /\ LET last == Owner.kids
       IN \/ FRAME.returning /\ Give(Got)
          \/ ~FRAME.returning /\ Fails(Got) /\ Done(FAIL, 0)
          \/ /\ ~FRAME.returning /\ ~Fails(Got)
             /\ \/ Top.j = last /\ Done(Got, 1)
                \/ Top.j + 1 = last /\ AskFresh(last, "")
                \/ Top.j + 1 < last /\ Ask(Top.j + 1, "")
    /\ UNCHANGED <<code, envs, gens, out>>

ExecReturn == Entering("RETURN") /\ Enter(1, "") /\ UNCHANGED <<code, envs, gens, out>>

Returns ==
    /\ In("RETURN")
    /\ retval' = IF Fails(Got) THEN NULVCL ELSE Got
    /\ frames' = [frames EXCEPT ![depth].returning = TRUE]
    /\ Give(retval')
    /\ UNCHANGED <<code, depth, glob, gens, out>>

ExecInitial ==
    /\ Entering("INITIAL")
    /\ IF Here.once THEN Leaf(NULVCL)
       ELSE /\ m' = [m EXCEPT ![ctl.nd].once = TRUE]
            /\ k' = Append(k, Activity(1, "")) /\ Exec(Operand(1))
    /\ UNCHANGED <<code, envs, gens, out>>

InitialDone ==
    /\ In("INITIAL") /\ Give(IF Fails(Got) THEN FAIL ELSE NULVCL)
    /\ UNCHANGED <<code, envs, gens, out>>

-----------------------------------------------------------------------------
(* Choice.                                                                 *)

ExecIf == Entering("IF") /\ Enter(1, "") /\ UNCHANGED <<code, envs, gens, out>>

IfChooses ==
    /\ At("IF", 1)
    /\ \/ ~Fails(Got) /\ Ask(2, "")
       \/ Fails(Got) /\ Owner.kids >= 3 /\ Ask(3, "")
       \/ Fails(Got) /\ Owner.kids < 3 /\ Give(FAIL)
    /\ UNCHANGED <<code, envs, gens, out>>

IfDone ==
    /\ In("IF") /\ Top.j > 1 /\ Give(Got)
    /\ UNCHANGED <<code, envs, gens, out>>

ExecNot == Entering("NOT") /\ EnterFresh(1, "") /\ UNCHANGED <<code, envs, gens, out>>

NotDone ==
    /\ In("NOT") /\ Give(IF Fails(Got) THEN NULVCL ELSE FAIL)
    /\ UNCHANGED <<code, envs, gens, out>>

\* case: a selector, pairs of a key and a value, perhaps a default.
ExecCase == Entering("CASE") /\ Enter(1, "select") /\ UNCHANGED <<code, envs, gens, out>>

\* On to the key at j, or to the default, or out.
TryKey(f, j) ==
    IF j <= Owner.kids THEN /\ SetTop([f EXCEPT !.j = j, !.ph = IF j = Owner.kids THEN "value" ELSE "key"])
                            /\ Exec(Child(j)) /\ UNCHANGED m
                       ELSE Give(FAIL)

CaseSelects ==
    /\ At("CASE", 1)
    /\ IF Fails(Got) THEN Give(FAIL) ELSE TryKey([Top EXCEPT !.args = <<Got>>], 2)
    /\ UNCHANGED <<code, envs, gens, out>>

\* Numbers are compared as such, all else as strings: no value and no result are both empty.
SameKey(sel, key) == sel = key \/ (sel.t # "int" /\ key.t # "int")

CaseKey ==
    /\ In("CASE") /\ Top.ph = "key"
    /\ IF SameKey(Arg(1), Got) THEN Ask(Top.j + 1, "value") ELSE TryKey(Top, Top.j + 2)
    /\ UNCHANGED <<code, envs, gens, out>>

CaseDone ==
    /\ In("CASE") /\ Top.ph = "value" /\ Give(Got)
    /\ UNCHANGED <<code, envs, gens, out>>

-----------------------------------------------------------------------------
(* Loops: the flags of the frame are put aside, and put back at the end.   *)

InLoop == ctl.at = "back" /\ k # <<>> /\ Owner.op \in Loops
Flags(b, n) == frames' = [frames EXCEPT ![depth].loop_break = b, ![depth].loop_next = n]

ExecLoop ==
    /\ ctl.at = "exec" /\ Entered.op \in Loops
    /\ Flags(FALSE, FALSE)
    /\ IF Entered.op = "EVERY" THEN Enter(1, "head") ELSE EnterFresh(1, "head")
    /\ UNCHANGED <<code, depth, glob, retval, gens, out>>

LoopEnds == Flags(Top.loop_break, Top.loop_next) /\ Give(NULVCL)

HeadEnds == IF Owner.op = "UNTIL" THEN ~Fails(Got) \/ FRAME.loop_break
            ELSE Fails(Got) \/ (Owner.op # "REPEAT" /\ FRAME.loop_break)

\* After the body: once more from the top, unless it broke or returned.
Again ==
    IF \/ FRAME.loop_break \/ FRAME.returning
       \/ Owner.op = "EVERY" /\ ir_is_single_shot(code, Child(1))
    THEN LoopEnds
    ELSE /\ Flags(FRAME.loop_break, FALSE)
         /\ IF Owner.op = "EVERY" THEN Ask(1, "head") ELSE AskFresh(1, "head")

LoopHead ==
    /\ InLoop /\ Top.ph = "head"
    /\ \/ HeadEnds /\ LoopEnds
       \/ ~HeadEnds /\ Owner.kids > 1 /\ AskFresh(2, "body") /\ UNCHANGED frames
       \/ ~HeadEnds /\ Owner.kids = 1 /\ Again
    /\ UNCHANGED <<code, depth, glob, retval, gens, out>>

LoopBody ==
    /\ InLoop /\ Top.ph = "body" /\ Again
    /\ UNCHANGED <<code, depth, glob, retval, gens, out>>

-----------------------------------------------------------------------------
(* Generators of values.  `lo to hi': the bounds may be generators         *)
(* themselves; a number only, since another value's number is not one.     *)

Number(v) == v.t = "int"

\* The counter stands at n: give it, or go on with the next pair of bounds.
CountFrom(id, mem, n, hi) ==
    IF n <= hi THEN m' = [mem EXCEPT ![id].val = INTVAL(n), ![id].st = 1, ![id].cnt = n]
               ELSE m' = [mem EXCEPT ![id].val = FAIL, ![id].st = 0, ![id].cnt = n]

\* The first time, and as long as the counter is within bounds.
ExecTo ==
    /\ Entering("TO")
    /\ LET n == IF Here.st = 0 THEN Here.lo ELSE Here.cnt + 1
           seeds == Here.st = 0 /\ Entered.kids > 0
           g(j) == Entered.kids > 0 /\ GenKind(code.at[Operand(j)])
           next(j, ph) == /\ m' = [m EXCEPT ![ctl.nd].st = 1, ![ctl.nd].cnt = n]
                          /\ k' = Append(k, Activity(j, ph)) /\ Exec(Operand(j))
           past == ~seeds /\ n > Here.hi
       IN \/ seeds /\ Enter(1, "seed")
          \/ past /\ g(2) /\ next(2, "hi")
          \/ past /\ ~g(2) /\ g(1) /\ next(1, "lo")
          \/ /\ ~seeds /\ ~(past /\ (g(1) \/ g(2)))
             /\ CountFrom(ctl.nd, m, n, Here.hi) /\ Go("back") /\ UNCHANGED k
    /\ UNCHANGED <<code, envs, gens, out>>

Bounds(lo, hi) == [m EXCEPT ![Top.nd].lo = lo, ![Top.nd].hi = hi]
Val(j) == m[Child(j)].val
Self == m[Top.nd]
More(j) == GenKind(code.at[Child(j)])         \* may give another value

ToSeed ==
    /\ In("TO") /\ Top.ph = "seed"
    /\ LET lo == Val(1).n
           hi == Val(2).n
           mem == Bounds(lo, hi)
           next(j, ph) == /\ m' = [mem EXCEPT ![Top.nd].st = 1, ![Top.nd].cnt = lo]
                          /\ SetTop([Top EXCEPT !.j = j, !.ph = ph]) /\ Exec(Child(j))
       IN \/ Fails(Got) /\ Give(FAIL)
          \/ ~Fails(Got) /\ Top.j = 1 /\ Ask(2, "seed")
          \/ /\ ~Fails(Got) /\ Top.j # 1 /\ Number(Val(1)) /\ Number(Val(2))
             /\ \/ lo > hi /\ More(2) /\ next(2, "hi")
                \/ lo > hi /\ ~More(2) /\ More(1) /\ next(1, "lo")
                \/ ~(lo > hi /\ (More(1) \/ More(2))) /\ CountFrom(Top.nd, mem, lo, hi) /\ Pop /\ Go("back")
    /\ UNCHANGED <<code, envs, gens, out>>

\* A new upper bound, or a new lower one; with a new lower one the upper one starts again.
ToNext ==
    /\ In("TO") /\ Top.ph # "seed"
    /\ LET count(lo, hi) == CountFrom(Top.nd, Bounds(lo, hi), lo, hi) /\ Pop /\ Go("back")
       IN \/ Fails(Got) /\ IF Top.ph = "hi" /\ More(1) THEN Ask(1, "both") ELSE Done(FAIL, 0)
          \/ ~Fails(Got) /\ Top.ph = "both" /\ AskFresh(2, "hiboth")
          \/ /\ Number(Got)
             /\ \/ Top.ph = "hi"     /\ count(Self.lo, Got.n)
                \/ Top.ph = "lo"     /\ count(Got.n, Self.hi)
                \/ Top.ph = "hiboth" /\ count(Val(1).n, Got.n)
    /\ UNCHANGED <<code, envs, gens, out>>

\* `lo to hi by step': the upper bound is evaluated each time.
ExecToBy ==
    /\ Entering("TO_BY") /\ IF Here.st = 0 THEN Enter(1, "from") ELSE Enter(2, "to")
    /\ UNCHANGED <<code, envs, gens, out>>

ToByStep ==
    /\ In("TO_BY")
    /\ LET id == Top.nd
           by == IF Got.n = 0 THEN 1 ELSE Got.n
       IN \/ Top.ph = "from" /\ Ask(3, "by")
          \/ /\ Top.ph = "by"
             /\ m' = [m EXCEPT ![id].cnt = Val(1).n, ![id].lo = by, ![id].st = 1]
             /\ SetTop([Top EXCEPT !.j = 2, !.ph = "to"]) /\ Exec(Child(2))
          \/ /\ Top.ph = "to" /\ Number(Got)
             /\ IF (Self.lo >= 0 /\ Self.cnt > Got.n) \/ (Self.lo < 0 /\ Self.cnt < Got.n)
                THEN Done(FAIL, 0)
                ELSE /\ m' = [m EXCEPT ![id].val = INTVAL(Self.cnt), ![id].cnt = @ + Self.lo]
                     /\ Pop /\ Go("back")
    /\ UNCHANGED <<code, envs, gens, out>>

\* e \ n
ExecLimit ==
    /\ Entering("LIMIT")
    /\ \/ Here.st = 0 /\ Enter(2, "max")
       \/ Here.st # 0 /\ Here.cnt < Here.lo /\ Enter(1, "pump")
       \/ Here.st # 0 /\ Here.cnt >= Here.lo /\ Over
    /\ UNCHANGED <<code, envs, gens, out>>

LimitMax ==
    /\ In("LIMIT") /\ Top.ph = "max"
    /\ IF Fails(Got) \/ Got.n <= 0 THEN Give(FAIL)
       ELSE /\ m' = [m EXCEPT ![Top.nd].lo = Got.n, ![Top.nd].cnt = 0, ![Top.nd].st = 1,
                              ![Child(1)].st = 0]
            /\ SetTop([Top EXCEPT !.j = 1, !.ph = "pump"]) /\ Exec(Child(1))
    /\ UNCHANGED <<code, envs, gens, out>>

LimitPump ==
    /\ In("LIMIT") /\ Top.ph = "pump"
    /\ IF Fails(Got) THEN Done(FAIL, 0)
       ELSE m' = [m EXCEPT ![Top.nd].val = Got, ![Top.nd].cnt = @ + 1] /\ Pop /\ Go("back")
    /\ UNCHANGED <<code, envs, gens, out>>

\* e1 | e2 | ...: the counter is the arm whose result was last; an arm that has one result only
\* must not be entered again, it would give it once more.
\* Mutant: any arm is entered again.
ALT_IS_ANY(nd) == TRUE
ALT_IS_GEN(nd) == GenKind(nd)

ExecAlt ==
    /\ Entering("ALT")
    /\ LET i == Here.cnt
       IN \/ Here.st = 0 /\ EnterFresh(1, "")
          \/ Here.st # 0 /\ ALT_IS_GEN(code.at[Operand(i)]) /\ Enter(i, "")
          \/ /\ Here.st # 0 /\ ~ALT_IS_GEN(code.at[Operand(i)])
             /\ IF i < Entered.kids THEN EnterFresh(i + 1, "") ELSE Over
    /\ UNCHANGED <<code, envs, gens, out>>

AltArm ==
    /\ In("ALT")
    /\ \/ /\ ~Fails(Got)
          /\ m' = [m EXCEPT ![Top.nd].val = Got, ![Top.nd].cnt = Top.j, ![Top.nd].st = 1]
          /\ Pop /\ Go("back")
       \/ Fails(Got) /\ Top.j < Owner.kids /\ AskFresh(Top.j + 1, "")
       \/ Fails(Got) /\ Top.j = Owner.kids /\ Done(FAIL, 0)
    /\ UNCHANGED <<code, envs, gens, out>>

-----------------------------------------------------------------------------
(* An operation on generators: all pairs, the right operand the faster.    *)

ExecBinopGen ==
    /\ Entering("BINOP_GEN")
    /\ LET g(j) == GenKind(code.at[Operand(j)])
       IN \/ /\ Here.st = 0
             /\ m' = [m EXCEPT ![Operand(1)].st = 0, ![Operand(2)].st = 0]
             /\ k' = Append(k, Activity(1, "first")) /\ Exec(Operand(1))
          \/ Here.st # 0 /\ g(2) /\ Enter(2, "next")
          \/ Here.st # 0 /\ ~g(2) /\ g(1) /\ Enter(1, "next")
          \/ Here.st # 0 /\ ~g(2) /\ ~g(1) /\ Over
    /\ UNCHANGED <<code, envs, gens, out>>

Pair == Go("apply") /\ UNCHANGED <<m, k>>

\* With one operand a generator, the other is read again if it is a variable ("next" only).
BinopOperand ==
    /\ In("BINOP_GEN")
    /\ LET left == Top.j = 1
           other == IF left THEN 2 ELSE 1
           reread == Top.ph = "next" /\ code.at[Child(other)].op = "VAR"
       IN \/ /\ Fails(Got)
             /\ IF ~left /\ Top.ph \in {"next", "retry"} /\ More(1) THEN Ask(1, "carry") ELSE Done(FAIL, 0)
          \/ /\ ~Fails(Got) /\ Top.ph = "first"
             /\ IF left THEN Ask(2, "first")
                ELSE m' = [m EXCEPT ![Top.nd].st = 1] /\ Go("apply") /\ UNCHANGED k
          \/ /\ ~Fails(Got) /\ Top.ph = "carry"
             /\ IF left THEN AskFresh(2, "carry") ELSE Pair
          \/ /\ ~Fails(Got) /\ Top.ph \notin {"first", "carry"}
             /\ IF reread THEN Ask(other, "reread") ELSE Pair
    /\ UNCHANGED <<code, envs, gens, out>>

\* A relation that does not hold asks for the next pair.
ApplyBinopGen ==
    /\ Applying("BINOP_GEN")
    /\ LET v == icn_binop_apply(Owner.x, Val(1), Val(2))
           retry == rel_fail(Owner.x, Val(1), Val(2))
       IN /\ v.n \in -MaxInt .. MaxInt
          /\ \/ ~Fails(v) /\ Give(v)
             \/ Fails(v) /\ retry /\ More(2) /\ Ask(2, "retry")
             \/ Fails(v) /\ retry /\ ~More(2) /\ More(1) /\ Ask(1, "retry")
             \/ Fails(v) /\ ~(retry /\ (More(1) \/ More(2))) /\ Done(FAIL, 0)
    /\ UNCHANGED <<code, envs, gens, out>>

-----------------------------------------------------------------------------
Next ==
    \/ ExecLeaf \/ ExecBreak \/ ExecNext
    \/ ExecStrict \/ StrictOperand
    \/ ApplyAssign \/ ApplySwap \/ ApplyBinop \/ ApplyNonNull \/ ApplyWrite
    \/ CallProc \/ CallFails \/ CallReturns
    \/ StartGenerator \/ ResumeGenerator
    \/ GeneratorAssigns \/ GeneratorSuspends \/ GeneratorEnds
    \/ ExecSeq \/ SeqStatement \/ ExecBlock \/ BlockExpression
    \/ ExecReturn \/ Returns \/ ExecInitial \/ InitialDone
    \/ ExecIf \/ IfChooses \/ IfDone \/ ExecNot \/ NotDone
    \/ ExecCase \/ CaseSelects \/ CaseKey \/ CaseDone
    \/ ExecLoop \/ LoopHead \/ LoopBody
    \/ ExecTo \/ ToSeed \/ ToNext \/ ExecToBy \/ ToByStep
    \/ ExecLimit \/ LimitMax \/ LimitPump \/ ExecAlt \/ AltArm
    \/ ExecBinopGen \/ BinopOperand \/ ApplyBinopGen

Spec == Init /\ [][Next]_vars
FairSpec == Spec /\ WF_vars(Next)

Ended == k = <<>> /\ ctl.at = "back"

-----------------------------------------------------------------------------
Values == [t : {"int", "null", "fail"}, n : Int]

\* Types, and two things that are more: no node keeps a generator that is over; every call in progress
\* has a frame of its own on the stack.
TypeOK ==
    /\ \A id \in DOMAIN m :
          /\ m[id].val \in Values /\ m[id].st \in {0, 1} /\ {m[id].cnt, m[id].lo, m[id].hi} \subseteq Int
          /\ m[id].gen \in 0 .. Len(gens) /\ (m[id].gen # 0 => ~gens[m[id].gen].over)
    /\ depth \in 1 + Cardinality({i \in DOMAIN k : k[i].ph = "call"}) .. Len(frames)
    /\ Len(frames) <= MaxFrames
    /\ \A i \in DOMAIN frames : \A s \in DOMAIN frames[i].env : frames[i].env[s] \in Values
    /\ \A i \in DOMAIN k : /\ k[i].j <= code.at[k[i].nd].kids
                           /\ \A n \in DOMAIN k[i].args : k[i].args[n] \in Values
    /\ ctl.at \in {"exec", "back", "apply", "run"} /\ (ctl.at \in {"apply", "run"} => k # <<>>)

\* When a call returns, every node of every graph has the value, the state and the counter it had when
\* the call was made, however deep the recursion and whatever was abandoned meanwhile; the node of the
\* call itself gets the result.  These three are what IR_snapshot_state keeps.  The bounds of a to, the
\* limit of a limitation and the generator of a call are not given back: inner activations may have
\* changed them.
CallsRestoreState ==
    [][CallReturns => \A id \in DOMAIN m \ {Top.nd} :
                          /\ m'[id].val = Top.snap[id].val
                          /\ m'[id].st = Top.snap[id].st /\ m'[id].cnt = Top.snap[id].cnt]_vars
=============================================================================
