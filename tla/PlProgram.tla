----------------------------- MODULE PlProgram -----------------------------
(***************************************************************************)
(* Prolog clauses as the parser leaves them, and the Byrd-box nodes        *)
(* prolog_lower.c and lower_pl.c make of them: variables become slots of   *)
(* the clause's environment, a clause a sequence that first unifies the    *)
(* argument slots with the head, a predicate of several clauses a choice   *)
(* between their graphs.                                                   *)
(*                                                                         *)
(* Terms are variables and integers: others are not lowered, and their     *)
(* predicate then does not exist.                                          *)
(***************************************************************************)
EXTENDS PlGraph, FiniteSets

\* Terms and goals of the source.  A literal has no variable name.
Var(x) == [v |-> x, n |-> 0]
Lit(i) == [v |-> "", n |-> i]
IsVar(t) == t.v # ""

Goal(op, pred, args, sub) == [op |-> op, pred |-> pred, args |-> args, sub |-> sub]
Call(p, args) == Goal("CALL", p, args, <<>>)
Eq(a, b)      == Goal("UNIFY", "", <<a, b>>, <<>>)
Write(a)      == Goal("WRITE", "", <<a>>, <<>>)
Is(x, a, d)   == Goal("IS", "", <<x, a, d>>, <<>>)     \* x is a - d
Gt(a, b)      == Goal("GT", "", <<a, b>>, <<>>)
Cut           == Goal("CUT", "", <<>>, <<>>)
Succeed       == Goal("SUCCEED", "", <<>>, <<>>)
Fail          == Goal("FAIL", "", <<>>, <<>>)
Or(g, h)      == Goal("ALT", "", <<>>, <<g, h>>)
And(g, h)     == Goal("SEQ", "", <<>>, <<g, h>>)

Clause(head, body) == [head |-> head, body |-> body]

RECURSIVE TermsOf(_)
\* The terms of some goals in the order the tree is walked in.
TermsOf(goals) ==
    IF goals = <<>> THEN <<>>
    ELSE Head(goals).args \o TermsOf(Head(goals).sub) \o TermsOf(Tail(goals))

Terms(cl) == cl.head \o TermsOf(cl.body)

\* tr_assign_slots: variables are numbered as they are first met, the head's first.
SlotOf(cl, x) ==
    LET ts    == Terms(cl)
        first == CHOOSE i \in DOMAIN ts : ts[i].v = x /\ \A j \in 1 .. i - 1 : ts[j].v # x
    IN Cardinality({ts[j].v : j \in {i \in 1 .. first - 1 : IsVar(ts[i])}})

-----------------------------------------------------------------------------
LowerTerm(cl, t) == IF IsVar(t) THEN Slot(SlotOf(cl, t.v)) ELSE Literal(t.n)

RECURSIVE LowerGoal(_, _, _, _)
LowerGoal(cl, g, p, path) ==
    Node(g.op, <<p, path>>, g.pred, [i \in DOMAIN g.args |-> LowerTerm(cl, g.args[i])],
         [i \in DOMAIN g.sub |-> LowerGoal(cl, g.sub[i], p, Append(path, i))])

\* lower_pl_clause_body: slot i - 1 holds the i-th argument of the call, whatever variable of the
\* clause has that slot too.
LowerClause(cl, p, c) ==
    LET arity == Len(cl.head)
        n     == arity + Len(cl.body)
        goal(j) == IF j <= arity
                   THEN Node("UNIFY", <<p, <<c, j>>>>, "",
                             <<Slot(j - 1), LowerTerm(cl, cl.head[j])>>, <<>>)
                   ELSE LowerGoal(cl, cl.body[j - arity], p, <<c, j>>)
    IN Node("SEQ", <<p, <<c>>>>, p, <<>>,
            IF n = 0 THEN <<Node("SUCCEED", <<p, <<c, 1>>>>, "", <<>>, <<>>)>>
            ELSE [j \in 1 .. n |-> goal(j)])

lower_pl_predicate(clauses, p) ==
    LET bodies == [c \in DOMAIN clauses |-> LowerClause(clauses[c], p, c)]
    IN IF Len(clauses) = 1 THEN bodies[1] ELSE Node("CHOICE", <<p, <<>>>>, p, <<>>, bodies)

RECURSIVE Nodes(_)
Nodes(nd) == {nd} \cup UNION {Nodes(nd.c[i]) : i \in DOMAIN nd.c}

\* Of a program, the clauses of each predicate.
Lower(preds) ==
    LET entry == [p \in DOMAIN preds |-> lower_pl_predicate(preds[p], p)]
    IN Lowered(preds, entry, UNION {Nodes(entry[p]) : p \in DOMAIN entry})
=============================================================================
