----------------------------- MODULE MCPlEngine -----------------------------
(***************************************************************************)
(* The programs of the engine's run: a library of small predicates and     *)
(* every main made of goals from a list, ended by fail (so that each       *)
(* solution is asked for) and followed by a clause that writes 9; then     *)
(* programs of their own, for what the lists do not reach.                 *)
(***************************************************************************)
EXTENDS PlConform, TLC

X == Var("X")
Y == Var("Y")
Z == Var("Z")
U == Var("U")
Fact(n) == Clause(<<Lit(n)>>, <<>>)

Library ==
    [f |-> <<Fact(1), Fact(2)>>,
     g |-> <<Clause(<<Lit(1), Lit(2)>>, <<>>), Clause(<<Lit(2), Lit(1)>>, <<>>)>>,
     s |-> <<Fact(1)>>,
     h |-> <<Clause(<<X>>, <<Gt(X, Lit(1))>>), Clause(<<X>>, <<Eq(Y, Lit(3)), Eq(X, Lit(2))>>),
             Clause(<<Lit(1)>>, <<>>)>>,
     n |-> <<Clause(<<X>>, <<Call("t", <<X>>), Cut, Fail>>), Clause(<<X>>, <<>>)>>,
     t |-> <<Fact(2), Fact(3)>>,
     c |-> <<Clause(<<X>>, <<Call("t", <<X>>), Cut>>), Fact(8)>>,
     p |-> <<Clause(<<X>>, <<Call("f", <<X>>)>>), Fact(3)>>,
     e |-> <<Fact(0), Clause(<<X>>, <<Gt(X, Lit(0)), Is(Z, X, Lit(1)), Eq(U, Lit(5)),
                                      Or(And(Call("f", <<Y>>), Call("e", <<Z>>)), Succeed), Fail>>)>>,
     r |-> <<Fact(0), Clause(<<X>>, <<Gt(X, Lit(0)), Call("f", <<Y>>), Is(Z, X, Lit(1)),
                                      Call("r", <<Z>>), Write(Y)>>)>>]

Called(clauses) == {g.pred : g \in UNION {Calls(cl) : cl \in Elements(clauses)}} \cap DOMAIN Library

\* Some clauses of main and of w, with what they need of the library.
Program(main, w) ==
    LET direct == Called(main \o w)
        preds  == direct \cup UNION {Called(Library[p]) : p \in direct}
        lib    == ("main" :> main) @@ [p \in preds |-> Library[p]]
    IN IF w = <<>> THEN lib ELSE ("w" :> w) @@ lib

Two(body) == <<Clause(<<>>, body), Clause(<<>>, <<Write(Lit(9))>>)>>
Main(body) == Program(Two(body), <<>>)

Openers == <<Call("f", <<X>>), Call("g", <<X, Y>>), Call("h", <<X>>), Call("s", <<X>>), Eq(X, Lit(2)),
             Call("c", <<X>>), Call("p", <<X>>)>>
Middles == <<Call("f", <<Y>>), Call("g", <<Y, X>>), Call("h", <<X>>), Call("n", <<X>>), Call("t", <<X>>),
             Call("u", <<X>>), Eq(X, Lit(2)), Eq(X, Y), Eq(Y, Lit(1)), Is(Z, X, Lit(1)), Gt(X, Lit(1)),
             Write(X), Or(Call("f", <<Y>>), Eq(Y, Lit(3))),
             Or(And(Call("t", <<Y>>), Write(Y)), Succeed), Cut>>
Closers == <<Call("f", <<X>>), Call("n", <<X>>), Gt(X, Lit(1)), Eq(X, Lit(2)), Write(Y),
             Or(Write(X), Succeed), Or(Fail, Eq(Z, Lit(4)))>>

\* One program for each choice of an opener, a middle and a closer.
Pick(s, i) == s[1 + (i % Len(s))]
Mains ==
    [i \in 1 .. Len(Openers) * Len(Middles) * Len(Closers) |->
        LET j == i \div Len(Openers)
        IN Main(<<Pick(Openers, i), Pick(Middles, j), Pick(Closers, j \div Len(Middles)), Write(X), Fail>>)]

\* ... and some that end with their first answer.
Singles ==
    [i \in 1 .. Len(Openers) * Len(Middles) |->
        Main(<<Pick(Openers, i), Pick(Middles, i \div Len(Openers)), Write(Y)>>)]

\* A rule of two goals, after another goal or alone.
Parts == <<Call("f", <<X>>), Call("t", <<X>>), Call("g", <<X, Y>>), Call("g", <<Y, X>>), Call("s", <<Y>>),
           Call("n", <<X>>), Gt(X, Lit(1)), Eq(X, Lit(2)), Eq(Y, Lit(1)), Is(Y, X, Lit(1)), Write(X), Fail>>
Uses  == <<<<Call("w", <<X>>)>>, <<Call("w", <<X>>), Call("h", <<X>>)>>,
           <<Eq(X, Lit(2)), Call("w", <<X>>)>>, <<Call("w", <<X>>), Call("t", <<Y>>), Write(Y)>>>>
Rules ==
    [i \in 1 .. Len(Parts) * Len(Parts) * Len(Uses) |->
        LET j    == i \div Len(Parts)
            rule == Clause(<<X>>, <<Pick(Parts, i), Pick(Parts, j)>>)
        IN Program(Two(Pick(Uses, j \div Len(Parts)) \o <<Write(X), Fail>>),
                   IF (i + j) % 2 = 0 THEN <<rule, Fact(3)>> ELSE <<Fact(3), rule>>)]

Others == <<Main(<<Call("r", <<Lit(2)>>), Fail>>), Main(<<Call("e", <<Lit(2)>>), Write(Lit(7))>>), Main(<<Call("g", <<X, X>>), Write(X)>>),
            Main(<<Or(And(Is(X, Lit(1), Lit(0)), Fail), Eq(X, Lit(2))), Write(X)>>)>>

MCPrograms == Mains \o Singles \o Rules \o Others
MCCodes == {Lower(q) : q \in Elements(MCPrograms)}
=============================================================================
