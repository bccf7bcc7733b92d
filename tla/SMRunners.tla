---- MODULE SMRunners ----
(***************************************************************************)
(* Two stack machines run the same program side by side, statement by      *)
(* statement, as driver/sync_monitor.c does with the interpreter and the   *)
(* JIT: after each statement the monitor compares the values of the        *)
(* variables and the success flag, and the first statement after which     *)
(* they differ is its answer.                                              *)
(***************************************************************************)
EXTENDS Naturals, Sequences

CONSTANTS Names, Literals, NoName, Functions, Entry, Params, Locals, Programs, SavedMax,
          HookSavedMax, StLimit, NestMax, Machines,
          Pairings     \* the programs and the two machines to run each on

VARIABLES prog, machineA, machineB,
          nvA, framesA, runsA, rtntypeA, stcountA, statusA,
          nvB, framesB, runsB, rtntypeB, stcountB, statusB
varsA == <<nvA, framesA, runsA, rtntypeA, stcountA, statusA>>
varsB == <<nvB, framesB, runsB, rtntypeB, stcountB, statusB>>
vars == <<prog, machineA, machineB, varsA, varsB>>

A == INSTANCE SMCalls WITH
        machine <- machineA, nv <- nvA, frames <- framesA, runs <- runsA,
        rtntype <- rtntypeA, stcount <- stcountA, status <- statusA
B == INSTANCE SMCalls WITH
        machine <- machineB, nv <- nvB, frames <- framesB, runs <- runsB,
        rtntype <- rtntypeB, stcount <- stcountB, status <- statusB

Init ==
    /\ \E pairing \in Pairings : prog = pairing[1] /\ machineA = pairing[2] /\ machineB = pairing[3]
    /\ A!Init /\ B!Init

\* Each machine runs to its next statement, or to its end, in turn.
StepA == statusA = "running" /\ (stcountA <= stcountB \/ statusB # "running") /\ A!Next /\ UNCHANGED <<machineB, varsB>>
StepB == statusB = "running" /\ (stcountA > stcountB \/ statusA # "running") /\ B!Next /\ UNCHANGED <<machineA, varsA>>
BothEnded == statusA # "running" /\ statusB # "running" /\ UNCHANGED vars

Next == StepA \/ StepB \/ BothEnded

Spec == Init /\ [][Next]_vars

\* A machine has just begun a statement: the monitor stops it there.
Stopped(runs) ==
    LET run == runs[Len(runs)]
    IN run.pc > 1 /\ Programs[prog][run.pc - 1].op = "STNO"

RunA == runsA[Len(runsA)]
RunB == runsB[Len(runsB)]

\* Both machines have begun their n-th statement.
InStep ==
    /\ stcountA = stcountB /\ statusA = "running" /\ statusB = "running"
    /\ Stopped(runsA) /\ Stopped(runsB)

\* Whenever both machines have begun their n-th statement they stand at the same statement with
\* the same values, and when both have ended they ended alike: neither which machine ran the
\* program nor how large its call stack is can be told from what the program did.
StatementsAgree ==
    /\ InStep => nvA = nvB /\ RunA.pc = RunB.pc
    /\ statusA # "running" /\ statusB # "running" => nvA = nvB /\ statusA = statusB

\* The monitor compares the success flag too, which the next statement may test: it is the same
\* under the interpreter and the JIT.  (With call stacks of different sizes it is not: a nested
\* machine begins with the flag set, a call inherits it.)
FlagsAgree == InStep /\ machineA.callMax = machineB.callMax => RunA.ok = RunB.ok

\* What the monitor compares after every statement is the same under both machines.
RunnersAgree == StatementsAgree /\ FlagsAgree
====
