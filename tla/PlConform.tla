----------------------------- MODULE PlConform -----------------------------
(***************************************************************************)
(* How far the engine computes what a program means.  The nodes are shared *)
(* by all calls, a predicate of one clause is run again when it is         *)
(* resumed, a clause that has succeeded is left for the next one, slots    *)
(* are overwritten: for many programs the engine's answers are not         *)
(* Prolog's.  Exact and Sound name the programs for which they are; they   *)
(* are what the run is about, and their conditions are what a program has  *)
(* to keep to.                                                             *)
(***************************************************************************)
EXTENDS PlEngine, PlProgram


ASSUME LoweredPrograms == \A c \in Codes : c = Lower(c.source)

src == code.source

M == INSTANCE PlSLD

Elements(s) == LET t == s IN {t[i] : i \in DOMAIN t}

RECURSIVE SubGoals(_)
SubGoals(goals) == UNION {{g} \cup SubGoals(Elements(g.sub)) : g \in goals}

Clauses(q) == UNION {{<<p, c>> : c \in DOMAIN q[p]} : p \in DOMAIN q}
Cl(q, x) == q[x[1]][x[2]]
AllGoals(cl) == SubGoals(Elements(cl.body))
Calls(cl) == {g \in AllGoals(cl) : g.op = "CALL"}
Names(s) == {s[i].v : i \in {j \in DOMAIN s : IsVar(s[j])}}

\* Every variable of the head has the slot its argument is passed in, and no other variable has one.
Aligned(cl) ==
    \A x \in Names(Terms(cl)) :
        LET at == {i \in DOMAIN cl.head : cl.head[i].v = x}
        IN IF at = {} THEN SlotOf(cl, x) >= Len(cl.head) ELSE at = {SlotOf(cl, x) + 1}

\* No variable is passed twice to a call, or unified with another.
Unaliased(cl) ==
    \A g \in AllGoals(cl) :
        /\ g.op = "CALL" => \A i, j \in DOMAIN g.args : i # j /\ IsVar(g.args[i]) => g.args[i] # g.args[j]
        /\ g.op = "UNIFY" => ~IsVar(g.args[1]) \/ ~IsVar(g.args[2])

\* `is' is given a variable that no goal before it has, nor the head.
IsOnNew(cl) ==
    \A g \in AllGoals(cl) : g.op = "IS" =>
        \E j \in DOMAIN cl.body : /\ cl.body[j] = g /\ IsVar(g.args[1])
                                  /\ g.args[1].v \notin {g.args[2].v, g.args[3].v}
                                  /\ g.args[1].v \notin Names(cl.head \o TermsOf(SubSeq(cl.body, 1, j - 1)))

Binds(g) == g.op \notin {"WRITE", "GT", "SUCCEED", "FAIL"}

\* The left branch of an alternative binds nothing, nor does what follows the alternative.
AlternativesBindNothing(cl) ==
    \A j \in DOMAIN cl.body : LET g == cl.body[j] IN
        /\ g.op # "SEQ"
        /\ g.op = "ALT" => /\ ~Binds(g.sub[1])
                           /\ g.sub[2].op = "UNIFY" \/ ~Binds(g.sub[2])
                           /\ \A i \in j + 1 .. Len(cl.body) : ~Binds(cl.body[i])

\* A variable that has a value when a call is made is passed to that call, or to none after it:
\* passing it puts a new variable in its slot, and resuming the call would take its value away.
ValuesKept(cl) ==
    \A i, j \in DOMAIN cl.body : i < j /\ cl.body[i].op = "CALL" =>
        \A g \in SubGoals({cl.body[j]}) : g.op = "CALL" =>
            Names(g.args) \cap Names(cl.head \o TermsOf(SubSeq(cl.body, 1, i - 1)))
                \subseteq Names(cl.body[i].args)

Plain(cl) == /\ Aligned(cl) /\ Unaliased(cl) /\ IsOnNew(cl)
             /\ AlternativesBindNothing(cl) /\ ValuesKept(cl)

\* A clause that others follow keeps the variables of its head to itself, or has no way back from
\* the call it passes one to: the next clause would find a new variable in the slot.
HeadKept(clauses) ==
    \A c \in 1 .. Len(clauses) - 1 : LET body == clauses[c].body IN
        \A j \in DOMAIN body : \A g \in SubGoals({body[j]}) :
            g.op = "CALL" => \/ Names(g.args) \cap Names(clauses[c].head) = {}
                             \/ g = body[j] /\ j < Len(body) /\ body[j + 1] = Cut

PlainProgram(q) == /\ \A x \in Clauses(q) : Plain(Cl(q, x))
                   /\ \A p \in DOMAIN q : HeadKept(q[p])

HasCut(cl) == \E g \in AllGoals(cl) : g.op = "CUT"

\* Programs whose answers are Prolog's, though some may be missing or come again.
Sound(q) ==
    /\ ~Recursive(code)
    /\ PlainProgram(q)
    /\ \A x \in Clauses(q) : ~HasCut(Cl(q, x))

\* A clause that can be left when it has succeeded once, or that never succeeds: p :- goals, !, fail.
OneWay(cl) == \A g \in AllGoals(cl) : g.op \notin {"CALL", "ALT", "CUT"}
Denies(cl) == LET n == Len(cl.body) IN
    /\ n > 1 /\ cl.body[n - 1] = Cut /\ cl.body[n] = Fail
    /\ \A j \in 1 .. n - 2 : cl.body[j].op \in {"CALL", "UNIFY", "GT", "SUCCEED", "FAIL"}

\* Programs that are run as Prolog does: each predicate is called from one place, and has several
\* clauses that are one-way or deny.
Exact(q) ==
    /\ ~Recursive(code)
    /\ PlainProgram(q)
    /\ \A x \in Clauses(q) : x[1] = "main" => ~HasCut(Cl(q, x))
    /\ \A p \in DOMAIN q \ {"main"} :
          /\ Len(q[p]) > 1
          /\ \A cl \in Elements(q[p]) : OneWay(cl) \/ Denies(cl)
          /\ LET sites == {<<x, j>> \in Clauses(q) \X (1 .. 9) :
                             j \in DOMAIN Cl(q, x).body /\ Cl(q, x).body[j].op = "CALL"
                                                        /\ Cl(q, x).body[j].pred = p}
             IN Cardinality(sites) <= 1

-----------------------------------------------------------------------------
\* A program of the exact kind writes what Prolog writes, in that order, and main succeeds or
\* fails as it should: the pump goes back to the right call, clauses are resumed in order, and what
\* was bound is taken back.
ExactAnswers ==
    Done /\ Exact(src) =>
        LET m == M!Meaning(src) IN m.err \/ (out = m.out /\ (ctl.at = "ok") = m.ok)

\* ... and it ends.
ExactEnds == (k = <<>> /\ Exact(src)) ~> Done

\* Programs of the sound kind may lose answers or repeat them, since nodes are shared and clauses
\* left, but each value they write is one Prolog could write.
SoundAnswers ==
    In("SEQ", "ok") /\ Top.mode = "go" /\ Top.nd.c[Top.j].op = "WRITE" /\ Sound(src) =>
        M!Run(src, TRUE).err \/ out[Len(out)] \in Elements(M!Answers(src))
=============================================================================
