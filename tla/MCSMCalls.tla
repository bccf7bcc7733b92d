---- MODULE MCSMCalls ----
(***************************************************************************)
(* The interpreter and the JIT on programs that call, recur, evaluate,     *)
(* apply, fail and end in every combination of the statements below.       *)
(***************************************************************************)
EXTENDS SMCompiled, MCSMPrograms

Mains == <<Call("F", "a"), EvalVar("*F"), Apply("F", "a")>>
Firsts == <<Call("F", "b"), Twice("G", "c"), Call("H", "c"), Apply("G", "c"), EvalVar("*G"), EvalThunk("*G")>>
Seconds == <<Set("X", "c"), ErrLast, Call("G", "b") \o OnFailure("F3") \o Apply("H", "c")>>
GBodies == <<Set("X", "b") \o Set("L", "c"), Err, Exit>>
Returns == <<Set("G", "a") \o <<Ret("RETURN", "S")>>, Set("G", "b") \o <<Ret("RETURN", "F"), Ret("FRETURN", "S")>>,
             SetName("G", "L") \o <<Ret("NRETURN", "S")>>, SetName("G", "L")>>

Sources ==
    (DOMAIN Mains) \X (DOMAIN Firsts) \X (DOMAIN Seconds) \X (DOMAIN GBodies) \X (DOMAIN Returns)
MCPrograms ==
    [c \in Sources |-> Program(Mains[c[1]], Firsts[c[2]], Seconds[c[3]], GBodies[c[4]] \o Returns[c[5]])]

\* Counted along the code from the last label or beginning of a statement.
MCHeight ==
    [c \in Sources |->
        LET code == MCPrograms[c]
            height[p \in 1 .. Len(code)] ==
                IF p = 1 \/ code[p].op \in {"LABEL", "STNO", "HALT"} THEN 0
                ELSE height[p - 1] - Takes(code[p - 1]) + Gives(code[p - 1])
        IN height]
MCMachines == [runner : {"interp", "jit"}, callMax : {2}]
====
