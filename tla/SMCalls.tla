---- MODULE SMCalls ----
(***************************************************************************)
(* Function calls, nested runs and error recovery of the stack machine     *)
(* that runs SNOBOL4 (processor/sm_interp.c, processor/sm_jit_interp.c,    *)
(* driver/scrip_sm.c, driver/interp_hooks.c).  There is one value per      *)
(* variable; a call saves the values of the names its function declares    *)
(* and a return puts them back.  An EVAL, an APPLY and a call that finds   *)
(* the call stack full run the machine again, nested on the C stack; an    *)
(* error jumps out of all runs down to the innermost one that set a jump   *)
(* buffer.                                                                 *)
(*                                                                         *)
(* An instruction is [op, x, n]: x is a variable, function, label or       *)
(* value, n a number of arguments.  Jumps name the label they were patched *)
(* with.  Builtins that matter here are instructions: IDENT, EVAL, APPLY,  *)
(* and ERROR, any instruction that raises a recoverable runtime error.     *)
(***************************************************************************)
EXTENDS Integers, Sequences, FiniteSetsExt

CONSTANTS Names,        \* the variables
          Literals,     \* the strings a program stores
          NoName,       \* no variable: the frame of an expression thunk returns none
          Functions,    \* the DEFINEd functions, each one of Names
          Entry,        \* the entry label of each function
          Params,       \* the parameters of each function, a sequence of Names
          Locals,       \* the locals of each function, a sequence of Names
          Programs,     \* the SM instruction sequences that may run, a function
          Machines,     \* [runner, callMax]: "interp" or "jit", and SM_CALL_STACK_MAX
          SavedMax,     \* SM_SAVED_NV_MAX, and the clamp on parameters and on locals
          HookSavedMax, \* the size of saved_names in _usercall_hook
          StLimit,      \* &STLIMIT
          NestMax       \* bound of the model: nested runs alive at once

Null == <<"lit", "">>
Fail == <<"fail", "">>
Values == ({"lit"} \X (Literals \union {""})) \union ({"name"} \X Names)
Operands == Values \union {Fail}

ASSUME SMAssumption ==
    /\ Functions \subseteq Names /\ NoName \notin Names
    /\ Params \in [Functions -> Seq(Names)] /\ Locals \in [Functions -> Seq(Names)]
    /\ \A m \in Machines : m.runner \in {"interp", "jit"} /\ m.callMax \in Nat
    /\ {SavedMax, HookSavedMax, StLimit, NestMax} \subseteq Nat

VARIABLES prog,     \* which of the programs runs
          machine,  \* which of the machines runs it
          nv,       \* the value of each variable
          frames,   \* the saved values of all active calls, of all runs, oldest first
          runs,     \* the machine's state in each run, the innermost last
          rtntype,  \* kw_rtntype: how the last function returned
          stcount,  \* kw_stcount
          status    \* "running", "stopped", "aborted" or "crashed"
setup == <<prog, machine>>
vars == <<setup, nv, frames, runs, rtntype, stcount, status>>

Min2(a, b) == IF a < b THEN a ELSE b
Prefix(s, n) == SubSeq(s, 1, Min2(n, Len(s)))
Last1(s) == s[Len(s)]
Drop(s, n) == SubSeq(s, 1, Len(s) - n)
TopOr(s, v) == IF s = <<>> THEN v ELSE Last1(s)

Run == Last1(runs)
Nested == Len(runs) > 1
Depth == Len(frames) - Run.base
Code == Programs[prog]
Ins == Code[Run.pc]
At(op) == status = "running" /\ Ins.op = op

LabelPc(l) == CHOOSE p \in 1..Len(Code) : Code[p].op = "LABEL" /\ Code[p].x = l
HasLabel(l) == \E p \in 1..Len(Code) : Code[p].op = "LABEL" /\ Code[p].x = l

\* The innermost run goes on at pc with this operand stack and success flag.
Goes(pc, stack, ok) ==
    runs' = [runs EXCEPT ![Len(runs)] = [@ EXCEPT !.pc = pc, !.stack = stack, !.ok = ok]]
Pushes(v, stack) == Goes(Run.pc + 1, Append(stack, v), v # Fail)

\* A variable named by v is read, as the code does with a call's result.
Deref(store, v) == IF v[1] = "name" THEN store[v[2]] ELSE v

(***************************************************************************)
(* Saving, binding and restoring the names a function declares.            *)
(***************************************************************************)
\* The variable that carries the result: the entry label when that is a function too.
RetName(f) == IF Entry[f] # f /\ Entry[f] \in Functions THEN Entry[f] ELSE f

Declared(f, max) ==
    Prefix(<<RetName(f)>> \o Prefix(Params[f], SavedMax) \o Prefix(Locals[f], SavedMax), max)

\* What the k-th declared name is set to: the result and the locals to the null string.
Bound(f, args, k) ==
    IF k \in 2..(1 + Min2(Len(Params[f]), SavedMax)) /\ k - 1 <= Len(args)
    THEN args[k - 1] ELSE Null

Places(names, x) == {k \in 1..Len(names) : names[k] = x}

\* The names are saved and set one at a time, so a name declared twice is saved again after
\* it was set.
SavedVals(names, f, args) ==
    [k \in 1..Len(names) |->
        LET before == {j \in Places(names, names[k]) : j < k}
        IN IF before = {} THEN nv[names[k]] ELSE Bound(f, args, Max(before))]
Binds(names, f, args) ==
    [x \in Names |-> IF Places(names, x) = {} THEN nv[x] ELSE Bound(f, args, Max(Places(names, x)))]

\* Mutant: put back first to last.
RestoreForward(store, fr) ==
    [x \in Names |-> IF Places(fr.names, x) = {} THEN store[x] ELSE fr.vals[Max(Places(fr.names, x))]]

\* The saved values are put back last first: the first save of a name has the last word.
SavedOf(fr, x) == fr.vals[Min(Places(fr.names, x))]
Restore(store, fr) ==
    [x \in Names |-> IF Places(fr.names, x) = {} THEN store[x] ELSE SavedOf(fr, x)]

\* Mutant: popped oldest first.
RestoreNewestLast(store, n) ==
    [x \in Names |->
        LET savers == {k \in 1..n : Places(frames[k].names, x) # {}}
        IN IF savers = {} THEN store[x] ELSE SavedOf(frames[Max(savers)], x)]

\* The bottom n frames are popped one by one, restoring each: of several saves of a name the
\* oldest has the last word.
RestoreAll(store, n) ==
    [x \in Names |->
        LET savers == {k \in 1..n : Places(frames[k].names, x) # {}}
        IN IF savers = {} THEN store[x] ELSE SavedOf(frames[Min(savers)], x)]

Frame(f, args, max) ==
    [retPc |-> Run.pc + 1, ret |-> RetName(f), names |-> Declared(f, max),
     vals |-> SavedVals(Declared(f, max), f, args), stack |-> Drop(Run.stack, Ins.n)]

MainRun == [kind |-> "main", pc |-> 1, stack |-> <<>>, ok |-> TRUE, floor |-> 0, base |-> 0]
NestedRun(kind, pc, base) ==
    [kind |-> kind, pc |-> pc, stack |-> <<>>, ok |-> TRUE, floor |-> Len(frames), base |-> base]

Init ==
    /\ prog \in DOMAIN Programs
    /\ machine \in Machines
    /\ nv = [x \in Names |-> Null]
    /\ frames = <<>>
    /\ runs = <<MainRun>>
    /\ rtntype = ""
    /\ stcount = 0
    /\ status = "running"

(***************************************************************************)
(* Statements, values and jumps.                                           *)
(***************************************************************************)
\* A statement begins: the operand stack is emptied.  One statement too many is a terminal error.
Stno ==
    /\ At("STNO")
    /\ stcount' = stcount + 1
    /\ IF stcount' > StLimit THEN status' = "aborted" /\ UNCHANGED runs
                             ELSE Goes(Run.pc + 1, <<>>, Run.ok) /\ UNCHANGED status
    /\ UNCHANGED <<setup, nv, frames, rtntype>>

Label == At("LABEL") /\ Goes(Run.pc + 1, Run.stack, Run.ok)
Lit == At("LIT") /\ Goes(Run.pc + 1, Append(Run.stack, Ins.x), Run.ok)
Var == At("VAR") /\ Pushes(nv[Ins.x], Run.stack)
VoidPop == At("POP") /\ Goes(Run.pc + 1, Drop(Run.stack, 1), Run.ok)
Jump == At("JUMP") /\ Goes(LabelPc(Ins.x), Run.stack, Run.ok)
JumpS == At("JUMP_S") /\ Goes(IF Run.ok THEN LabelPc(Ins.x) ELSE Run.pc + 1, Run.stack, Run.ok)
JumpF == At("JUMP_F") /\ Goes(IF Run.ok THEN Run.pc + 1 ELSE LabelPc(Ins.x), Run.stack, Run.ok)

\* IDENT(a, b): the null string if they are the same, failure if not or if either failed.
Ident ==
    /\ At("IDENT")
    /\ LET a == Last1(Drop(Run.stack, 1))  b == Last1(Run.stack)
       IN Pushes(IF a = b /\ a # Fail THEN Null ELSE Fail, Drop(Run.stack, 2))

\* The handlers that touch the operand stack and the flow of control only.
Plain ==
    /\ Label \/ Lit \/ Var \/ VoidPop \/ Jump \/ JumpS \/ JumpF \/ Ident
    /\ UNCHANGED <<setup, nv, frames, rtntype, stcount, status>>

\* An assignment: a failed value is left on the stack and nothing is stored.
Store ==
    /\ At("STORE")
    /\ LET v == Last1(Run.stack)
       IN /\ Pushes(v, Drop(Run.stack, 1))
          /\ nv' = IF v = Fail THEN nv ELSE [nv EXCEPT ![Ins.x] = v]
    /\ UNCHANGED <<setup, frames, rtntype, stcount, status>>

(***************************************************************************)
(* Calls.                                                                  *)
(***************************************************************************)
Args == SubSeq(Run.stack, Len(Run.stack) - Ins.n + 1, Len(Run.stack))
Calls(op) == At(op) /\ \A k \in 1..Ins.n : Args[k] # Fail

\* A call with a failed argument fails without calling.
CallFails ==
    /\ \E op \in {"CALL", "APPLY"} : At(op)
    /\ \E k \in 1..Ins.n : Args[k] = Fail
    /\ Pushes(Fail, Drop(Run.stack, Ins.n))
    /\ UNCHANGED <<setup, nv, frames, rtntype, stcount, status>>

\* A DEFINEd function is called within the run: its names are saved and bound, and the run goes
\* on at its label with an empty operand stack.
CallFunction ==
    /\ Calls("CALL")
    /\ Depth < machine.callMax
    /\ frames' = Append(frames, Frame(Ins.x, Args, SavedMax))
    /\ nv' = Binds(Declared(Ins.x, SavedMax), Ins.x, Args)
    /\ Goes(LabelPc(IF HasLabel(Ins.x) THEN Ins.x ELSE Entry[Ins.x]), <<>>, Run.ok)
    /\ UNCHANGED <<setup, rtntype, stcount, status>>

\* The call stack is full, or the call is an APPLY: _usercall_hook runs the function in a
\* machine of its own.  A function whose label is not its name makes the hook and APPLY_fn call
\* each other until the C stack is exhausted.
HookCall ==
    /\ \/ Calls("CALL") /\ Depth >= machine.callMax
       \/ Calls("APPLY")
    /\ Len(runs) <= NestMax
    /\ IF HasLabel(Ins.x)
       THEN /\ frames' = Append(frames, Frame(Ins.x, Args, HookSavedMax))
            /\ nv' = Binds(Declared(Ins.x, HookSavedMax), Ins.x, Args)
            /\ runs' = Append([runs EXCEPT ![Len(runs)].stack = Drop(@, Ins.n)],
                              NestedRun("hook", LabelPc(Ins.x), Len(frames) + 1))
            /\ UNCHANGED status
       ELSE status' = "crashed" /\ UNCHANGED <<frames, nv, runs>>
    /\ UNCHANGED <<setup, rtntype, stcount>>

\* EVAL(*expr): the expression's code is called within the run; it declares no names.
CallExpression ==
    /\ At("CALL_EXPRESSION")
    /\ IF Depth < machine.callMax
       THEN /\ frames' = Append(frames, [retPc |-> Run.pc + 1, ret |-> NoName, names |-> <<>>,
                                         vals |-> <<>>, stack |-> Run.stack])
            /\ Goes(LabelPc(Ins.x), <<>>, Run.ok)
       ELSE Pushes(Fail, Run.stack) /\ UNCHANGED frames
    /\ UNCHANGED <<setup, nv, rtntype, stcount, status>>

\* EVAL of an expression held in a variable: sm_eval_subexpr sets a jump buffer of its own and
\* runs the expression's code in a machine of its own.
Eval ==
    /\ At("EVAL")
    /\ Len(runs) <= NestMax
    /\ rtntype' = ""
    /\ runs' = Append(runs, NestedRun("eval", LabelPc(Ins.x), Len(frames)))
    /\ UNCHANGED <<setup, nv, frames, stcount, status>>

(***************************************************************************)
(* Returns.                                                                *)
(***************************************************************************)
\* A nested run is over and how is the last return's kind: its result goes to the run below.
\* The frames it leaves behind are forgotten; the hook restores what it saved itself.
EndRun(how) ==
    LET below == runs[Len(runs) - 1]
        hook == frames[Run.base]
        result == IF how = "FRETURN" THEN Fail
                  ELSE IF Run.kind = "hook" THEN nv[hook.ret]
                  ELSE TopOr(Run.stack, Fail)
        v == Deref(nv', result)
    IN /\ nv' = IF Run.kind = "hook" THEN Restore(nv, hook) ELSE nv
       /\ frames' = SubSeq(frames, 1, Run.floor)
       /\ runs' = Append(SubSeq(runs, 1, Len(runs) - 2),
                         [below EXCEPT !.pc = @ + 1, !.stack = Append(@, v), !.ok = v # Fail])

\* Mutant: the result is read after the names are restored.
ReturnFromLate(fr, kind) ==
    LET retval == IF fr.ret = NoName THEN TopOr(Run.stack, Fail) ELSE nv'[fr.ret]
        v == IF kind = "FRETURN" THEN Fail ELSE IF kind = "NRETURN" THEN Deref(nv', retval) ELSE retval
    IN /\ nv' = Restore(nv, fr)
       /\ frames' = Drop(frames, 1)
       /\ rtntype' = kind
       /\ Goes(fr.retPc, Append(fr.stack, v), kind = "NRETURN" \/ v # Fail)

\* The result is read before the names are restored.
ReturnFrom(fr, kind) ==
    LET retval == IF fr.ret = NoName THEN TopOr(Run.stack, Fail) ELSE nv[fr.ret]
        v == CASE kind = "FRETURN" -> Fail
               [] kind = "NRETURN" -> Deref(nv', retval)
               [] OTHER -> retval
    IN /\ nv' = Restore(nv, fr)
       /\ frames' = Drop(frames, 1)
       /\ rtntype' = kind
       /\ Goes(fr.retPc, Append(fr.stack, v), kind = "NRETURN" \/ v # Fail)

\* RETURN, FRETURN and NRETURN, unconditional or on success or failure.  With no call to return
\* from, an interpreted run is over; the JIT marks itself halted, which nothing reads, and the
\* program goes on with the next instruction.
Return ==
    /\ At("RETURN")
    /\ CASE (Ins.x[2] = "S" /\ ~Run.ok) \/ (Ins.x[2] = "F" /\ Run.ok) ->
              Goes(Run.pc + 1, Run.stack, Run.ok) /\ UNCHANGED <<nv, frames, rtntype, status>>
         [] OTHER ->
              \/ Depth > 0 /\ ReturnFrom(Last1(frames), Ins.x[1]) /\ UNCHANGED status
              \/ Depth = 0 /\ Nested /\ EndRun(Ins.x[1]) /\ rtntype' = Ins.x[1] /\ UNCHANGED status
              \/ /\ Depth = 0 /\ ~Nested /\ machine.runner = "interp"
                 /\ rtntype' = Ins.x[1] /\ status' = "stopped" /\ UNCHANGED <<nv, frames, runs>>
              \/ /\ Depth = 0 /\ ~Nested /\ machine.runner = "jit"
                 /\ Goes(Run.pc + 1, Run.stack, Run.ok)
                 /\ UNCHANGED <<nv, frames, rtntype, status>>
    /\ UNCHANGED <<setup, stcount>>

\* END: the run is over, the program only if the run is the main one.
Halt ==
    /\ At("HALT")
    /\ IF Nested THEN EndRun(rtntype) /\ UNCHANGED status
                 ELSE status' = "stopped" /\ UNCHANGED <<nv, frames, runs>>
    /\ UNCHANGED <<setup, rtntype, stcount>>

(***************************************************************************)
(* Errors.                                                                 *)
(***************************************************************************)
\* The innermost run with a jump buffer of its own.
Catcher == Max({k \in 1..Len(runs) : runs[k].kind # "hook"})
\* The frames of run k.
RunTop(k) == IF k < Len(runs) THEN runs[k + 1].floor ELSE Len(frames)

\* The error ends an EVAL: the EVAL fails, and the run that called it goes on.
EvalFails(k) ==
    LET below == runs[k - 1]
    IN /\ runs' = Append(SubSeq(runs, 1, k - 2),
                         [below EXCEPT !.pc = @ + 1, !.stack = Append(@, Fail), !.ok = FALSE])
       /\ frames' = SubSeq(frames, 1, runs[k].floor)
       /\ UNCHANGED nv

\* Mutant: the main run goes on with the next instruction.
RecoverInPlace(p) == p + 1

\* Where the main run goes on after an error at p: the first statement, or END, from the second
\* instruction after p on (sm_run_with_recovery steps over one instruction before it looks).
RecoverPc(p) ==
    LET from == IF p + 1 <= Len(Code) THEN p + 2 ELSE p + 1
        starts == {j \in from..Len(Code) : Code[j].op \in {"STNO", "HALT"}}
    IN IF starts = {} THEN Len(Code) ELSE Min(starts)

\* Mutant: the nested runs are not discarded.
MainRecoversNested ==
    /\ runs' = [runs EXCEPT ![1] = [@ EXCEPT !.pc = RecoverPc(@), !.stack = <<>>, !.ok = FALSE]]
    /\ frames' = SubSeq(frames, 1, RunTop(1))
    /\ UNCHANGED nv

\* The error reaches the main run.  The JIT pops all its calls, restoring what they saved, but
\* goes on in the body the error occurred in, as the interpreter does with its calls kept.
MainRecovers ==
    /\ runs' = <<[runs[1] EXCEPT !.pc = RecoverPc(@), !.stack = <<>>, !.ok = FALSE]>>
    /\ IF machine.runner = "jit"
       THEN frames' = <<>> /\ nv' = RestoreAll(nv, RunTop(1))
       ELSE frames' = SubSeq(frames, 1, RunTop(1)) /\ UNCHANGED nv

Error ==
    /\ At("ERROR")
    /\ IF Catcher > 1 THEN EvalFails(Catcher) ELSE MainRecovers
    /\ UNCHANGED <<setup, rtntype, stcount, status>>

Ended == status # "running" /\ UNCHANGED vars

Next ==
    \/ Stno \/ Plain \/ Store
    \/ CallFails \/ CallFunction \/ HookCall \/ CallExpression \/ Eval
    \/ Return \/ Halt \/ Error
    \/ Ended

Spec == Init /\ [][Next]_vars

(***************************************************************************)
(* Properties.                                                             *)
(***************************************************************************)
FrameType ==
    [retPc : Nat, ret : Names \union {NoName}, names : Seq(Names), vals : Seq(Values),
     stack : Seq(Operands)]
RunType ==
    [kind : {"main", "eval", "hook"}, pc : Nat, stack : Seq(Operands), ok : BOOLEAN,
     floor : Nat, base : Nat]

\* The state is well formed: the main run is the oldest one, a frame has one value per saved
\* name, and the frames of the runs lie one above the other, a hook's own frame below its run's.
TypeOK ==
    /\ prog \in DOMAIN Programs /\ machine \in Machines
    /\ nv \in [Names -> Values]
    /\ \A k \in 1..Len(frames) : frames[k] \in FrameType /\ Len(frames[k].names) = Len(frames[k].vals)
    /\ \A k \in 1..Len(runs) : runs[k] \in RunType /\ (runs[k].kind = "main" <=> k = 1)
    /\ runs # <<>> /\ runs[1].base = 0
    /\ \A k \in 2..Len(runs) :
          /\ runs[k].base = runs[k].floor + (IF runs[k].kind = "hook" THEN 1 ELSE 0)
          /\ runs[k - 1].base <= runs[k].floor
    /\ Run.base <= Len(frames)
    /\ rtntype \in {"", "RETURN", "FRETURN", "NRETURN"}
    /\ stcount \in Nat
    /\ status \in {"running", "stopped", "aborted", "crashed"}

\* How many operands an instruction takes.
Takes(i) ==
    CASE i.op \in {"CALL", "APPLY"} -> i.n
      [] i.op \in {"STORE", "POP"} -> 1
      [] i.op = "IDENT" -> 2
      [] OTHER -> 0

\* No instruction finds the operand stack too short (sm_pop would abort the process): neither a
\* return, nor an error caught in the middle of a statement, nor a nested run that ends early
\* leaves the stack with less than the instruction that comes next was compiled for.
OperandsPresent == status = "running" => Run.pc <= Len(Code) /\ Len(Run.stack) >= Takes(Ins)

(***************************************************************************)
(* The environment the saved values stand for: the binding of x at depth k *)
(* is what the first frame above saved of x, or else the variable's value. *)
(***************************************************************************)
Saves(j, x) == Places(frames[j].names, x) # {}
SavedAbove(k, x) == {j \in (k + 1)..Len(frames) : Saves(j, x)}
BindingAt(k, x) == IF SavedAbove(k, x) = {} THEN nv[x] ELSE SavedOf(frames[Min(SavedAbove(k, x))], x)
ScopeNames(k) == IF k = 0 THEN Names ELSE {x \in Names : Saves(k, x)}
Environment ==
    [d \in 1..(Len(frames) + 1) |-> [x \in ScopeNames(d - 1) |-> BindingAt(d - 1, x)]]

Scoped == INSTANCE Scopes WITH env <- Environment

\* Saving and restoring one value per variable implements scopes: an instruction opens a scope,
\* closes the innermost, assigns the innermost binding of one variable, or, where an error or
\* END cuts runs short, closes several, and changes no other binding that some active call will
\* get back.
ImplementsScopes == Scoped!Spec

\* An error and END in a nested run are the only exceptions: every other instruction, in
\* programs that raise errors as well, treats the bindings of the active calls as scopes do.
OnlyErrorsCutScopes ==
    [][At("ERROR") \/ (At("HALT") /\ Nested)
       \/ Scoped!Enter \/ Scoped!Assign \/ Scoped!Leave]_Environment
====
