---- MODULE MCSMPrograms ----
(***************************************************************************)
(* SM programs as lower() emits them for small SNOBOL4 sources: a main     *)
(* program, the functions F(X)L,L and G(X), a second name H for G, and the *)
(* code of two unevaluated expressions, *F('a') and *G('c').               *)
(***************************************************************************)
EXTENDS Sequences, Naturals

VarNames == {"F", "G", "H", "X", "L", "V"}
Texts == {"a", "b", "c"}
DefinedFunctions == {"F", "G", "H"}
Labels == [f \in DefinedFunctions |-> IF f = "H" THEN "G" ELSE f]
LocalLL == [f \in DefinedFunctions |-> IF f = "F" THEN <<"L", "L">> ELSE <<>>]
OneParam == [f \in DefinedFunctions |-> <<"X">>]

I(op, x, n) == [op |-> op, x |-> x, n |-> n]
Begin == I("STNO", "", 0)
PushLit(v) == I("LIT", <<"lit", v>>, 0)
Ret(kind, cond) == I("RETURN", <<kind, cond>>, 0)

\* Statements.
Set(x, v) == <<Begin, PushLit(v), I("STORE", x, 0)>>
SetName(x, y) == <<Begin, I("LIT", <<"name", y>>, 0), I("STORE", x, 0)>>
Call(f, v) == <<Begin, PushLit(v), I("CALL", f, 1), I("STORE", "V", 0)>>
Twice(f, v) == <<Begin, PushLit(v), I("CALL", f, 1), I("CALL", f, 1), I("STORE", "V", 0)>>
Apply(f, v) == <<Begin, PushLit(v), I("APPLY", f, 1), I("STORE", "V", 0)>>
EvalVar(e) == <<Begin, I("EVAL", e, 0), I("STORE", "V", 0)>>
EvalThunk(e) == <<Begin, I("CALL_EXPRESSION", e, 0), I("STORE", "V", 0)>>
Err == <<Begin, PushLit("a"), I("ERROR", "", 0), I("POP", "", 0)>>
ErrLast == <<Begin, PushLit("a"), I("ERROR", "", 0)>>
OnFailure(l) == <<I("JUMP_F", l, 0)>>
Exit == <<Begin, I("JUMP", "END", 0)>>
IfSame(x, v, l) == <<Begin, I("VAR", x, 0), PushLit(v), I("IDENT", "", 0), I("POP", "", 0), I("JUMP_S", l, 0)>>

Here(l) == <<I("LABEL", l, 0)>>
Expression(e, f, v) == Here(e) \o <<PushLit(v), I("CALL", f, 1), Ret("RETURN", "")>>

\* F recurs at most once: called with 'b' it returns at once.
Program(main, f1, f2, g) ==
    <<Begin, I("JUMP", "MAIN", 0)>>
    \o Here("F") \o IfSame("X", "b", "F2") \o f1 \o Here("F2") \o f2 \o Here("F3") \o Set("F", "c")
    \o <<Ret("RETURN", "")>>
    \o Here("G") \o g \o <<Ret("RETURN", "")>>
    \o Expression("*F", "F", "a") \o Expression("*G", "G", "c")
    \o Here("MAIN") \o Set("X", "a") \o Set("L", "b") \o main \o Set("G", "c")
    \o Here("END") \o <<Begin, I("HALT", "", 0)>>
====
