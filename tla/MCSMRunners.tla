---- MODULE MCSMRunners ----
(***************************************************************************)
(* The interpreter beside the JIT, and a machine with a large call stack   *)
(* beside one with a small one.                                            *)
(***************************************************************************)
EXTENDS SMRunners, MCSMPrograms

Mains == <<Call("F", "a"), EvalVar("*F"), EvalThunk("*F"), Apply("F", "a"),
           ErrLast \o Set("V", "b") \o Call("F", "a")>>
Firsts == <<Call("F", "b"), Twice("G", "c"), Call("H", "c"), Apply("G", "c"), EvalVar("*G"), EvalThunk("*G")>>
Seconds == <<Set("X", "c"), Call("G", "b") \o OnFailure("F3") \o Apply("H", "c")>>
GBodies == <<Set("X", "b") \o Set("L", "c"), Err, Exit>>
Returns == <<Set("G", "a") \o <<Ret("RETURN", "S")>>, Set("G", "a") \o <<Ret("FRETURN", "")>>,
             SetName("G", "L") \o <<Ret("NRETURN", "S")>>>>
Sources == (DOMAIN Mains) \X (DOMAIN Firsts) \X (DOMAIN Seconds) \X (DOMAIN GBodies) \X (DOMAIN Returns)
MCPrograms ==
    [c \in Sources |-> Program(Mains[c[1]], Firsts[c[2]], Seconds[c[3]], GBodies[c[4]] \o Returns[c[5]])]

\* Errors are caught by an EVAL's run, or occur in the main program.
Contained == {c \in Sources : c[4] # 2 \/ c[1] = 2}
\* An error is raised in a function's body.
InCall == {c \in Sources : c[4] = 2}
\* G returns, no EVAL(*expr), every function's label is its name, and no call is made just
\* after an error.
Deep == {c \in Sources : c[1] \notin {3, 5} /\ c[2] \notin {3, 6} /\ c[3] = 1 /\ c[4] = 1}

Sized(runner, max) == [runner |-> runner, callMax |-> max]
MCMachines == {Sized("interp", 1), Sized("interp", 2), Sized("interp", 8), Sized("jit", 2)}
BesideJit(programs) == programs \X {Sized("interp", 2)} \X {Sized("jit", 2)}
MCPairings == BesideJit(Contained) \union (Deep \X {Sized("interp", 8)} \X {Sized("interp", 1)})
ErrorPairings == BesideJit(InCall)
====
