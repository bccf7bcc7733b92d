------------------------------- MODULE PlSLD -------------------------------
(***************************************************************************)
(* What a Prolog program means: depth-first resolution, clauses and goals  *)
(* in the order they are written, a cut that removes the other clauses of  *)
(* its predicate and what its clause has left to try.                      *)
(*                                                                         *)
(* A variable is a name in a clause instance; b maps the bound ones to     *)
(* terms [v, n, d], d the instance the term's variable belongs to.         *)
(***************************************************************************)
EXTENDS PlProgram

At(t, d) == [v |-> t.v, n |-> t.n, d |-> IF IsVar(t) THEN d ELSE 0]

RECURSIVE Walk(_, _)
Walk(t, b) == IF IsVar(t) /\ t \in DOMAIN b THEN Walk(b[t], b) ELSE t

Bind(b, x, t) == [y \in DOMAIN b \cup {x} |-> IF y = x THEN t ELSE b[y]]

\* The bindings under which two terms are the same, or none.
Unify(s, t, b) ==
    LET u == Walk(s, b)
        v == Walk(t, b)
    IN IF u = v THEN {b} ELSE IF IsVar(u) THEN {Bind(b, u, v)}
       ELSE IF IsVar(v) THEN {Bind(b, v, u)} ELSE {}

RECURSIVE UnifyHead(_, _, _, _, _)
UnifyHead(args, da, head, dh, b) ==
    IF args = <<>> THEN {b}
    ELSE UNION {UnifyHead(Tail(args), da, Tail(head), dh, c) :
                    c \in Unify(At(Head(args), da), At(Head(head), dh), b)}

Goals(body, d) == [i \in DOMAIN body |-> [g |-> body[i], d |-> d]]

\* What a derivation comes to: what it writes, whether it succeeds, the clause instance a cut
\* goes back to, and whether it meets an arithmetic goal on a variable without a value.
Result(out, ok, cutto, err) == [out |-> out, ok |-> ok, cutto |-> cutto, err |-> err]
Failure == Result(<<>>, FALSE, 0, FALSE)
Wrote(o, r) == [r EXCEPT !.out = o \o @]
Stops(r) == r.ok \/ r.err \/ r.cutto # 0

RECURSIVE Solve(_, _, _, _, _), TryClauses(_, _, _, _, _, _, _)

\* The first success of goals under b; every one is gone past when `all' is set.
Solve(q, goals, b, next, all) ==
    IF goals = <<>> THEN Result(<<>>, ~all, 0, FALSE)
    ELSE LET g    == Head(goals).g
             d    == Head(goals).d
             rest == Tail(goals)
             val(i) == Walk(At(g.args[i], d), b)
             on(c)  == Solve(q, rest, c, next, all)
             first(c) == IF c = {} THEN Failure ELSE on(CHOOSE x \in c : TRUE)
         IN CASE g.op = "SUCCEED" -> on(b)
              [] g.op = "FAIL"    -> Failure
              [] g.op = "UNIFY"   -> first(Unify(At(g.args[1], d), At(g.args[2], d), b))
              [] g.op = "WRITE"   -> Wrote(<<val(1).n>>, on(b))
              [] g.op = "GT"      -> IF IsVar(val(1)) \/ IsVar(val(2)) THEN [Failure EXCEPT !.err = TRUE]
                                     ELSE IF val(1).n > val(2).n THEN on(b) ELSE Failure
              [] g.op = "IS"      -> IF IsVar(val(2)) \/ IsVar(val(3)) THEN [Failure EXCEPT !.err = TRUE]
                                     ELSE first(Unify(At(g.args[1], d),
                                                      At(Lit(val(2).n - val(3).n), d), b))
              [] g.op = "CUT"     -> LET r == on(b) IN IF Stops(r) THEN r ELSE [r EXCEPT !.cutto = d]
              [] g.op = "SEQ"     -> Solve(q, Goals(g.sub, d) \o rest, b, next, all)
              [] g.op = "ALT"     -> LET r == Solve(q, <<[g |-> g.sub[1], d |-> d]>> \o rest, b, next, all)
                                     IN IF Stops(r) THEN r
                                        ELSE Wrote(r.out, Solve(q, <<[g |-> g.sub[2], d |-> d]>> \o rest,
                                                                b, next, all))
              [] g.op = "CALL"    -> IF g.pred \notin DOMAIN q THEN Failure
                                     ELSE TryClauses(q, q[g.pred], Head(goals), rest, b, next, all)

TryClauses(q, clauses, goal, rest, b, next, all) ==
    IF clauses = <<>> THEN Failure
    ELSE LET cl == Head(clauses)
             bs == UnifyHead(goal.g.args, goal.d, cl.head, next, b)
             r  == IF bs = {} THEN Failure
                   ELSE Solve(q, Goals(cl.body, next) \o rest, CHOOSE c \in bs : TRUE, next + 1, all)
         IN IF r.ok \/ r.err THEN r
            ELSE IF r.cutto = next THEN [r EXCEPT !.cutto = 0]
            ELSE IF r.cutto # 0 THEN r
            ELSE Wrote(r.out, TryClauses(q, Tail(clauses), goal, rest, b, next, all))

Run(q, all) == Solve(q, <<[g |-> Call("main", <<>>), d |-> 0]>>, <<>>, 1, all)

\* What main writes until its first success, and what it could ever write.
Meaning(q) == Run(q, FALSE)
Answers(q) == Run(q, TRUE).out
=============================================================================
