---------------------------- MODULE MCIcnEngine ----------------------------
(***************************************************************************)
(* The programs of the engine's run: every combination of an expression    *)
(* with several results and a body, in loops, in procedures and alone;     *)
(* expressions in each other; then programs of their own, for what the     *)
(* lists do not reach.                                                     *)
(***************************************************************************)
EXTENDS IcnConform, TLC

A == Var("a")
B == Var("b")
X == Var("x")
Y == Var("y")
N == Var("n")
One  == Lit(1)
Two  == Lit(2)
Plus(e, d) == Bin("+", e, d)
Less(e, d) == Bin("<", e, d)
Same(e, d) == Bin("=", e, d)

\* f adds ten; r counts down and uses its own result; s counts its calls; g suspends two results.
Library ==
    [f |-> Proc(<<"u">>, <<Ret(Plus(Var("u"), Lit(10)))>>),
     r |-> Proc(<<"v">>, <<When(Less(Var("v"), One), Ret(Lit(0))),
                           EveryOf(Write(To(One, Two))),
                           Ret(Plus(Var("v"), Fnc("r", <<Bin("-", Var("v"), One)>>)))>>),
     s |-> Proc(<<>>, <<Initially(Assign("c", Lit(5))), Aug("+", "c", One), Ret(Var("c"))>>),
     t |-> Proc(<<"w">>, <<Every(Assign("i", To(One, Lit(4))),
                                 Block(<<Write(Var("i")), If(Same(Var("i"), Var("w")), Ret(Lit(7)), Null)>>)),
                           ProcFail>>),
     g |-> Proc(<<"p">>, <<Suspend(Var("p")), Assign("o", Plus(Var("p"), One)), Suspend(Var("o"))>>)]

Called(body) == {e.x : e \in {d \in AllOf(body) : d.op = "CALL"}} \cap DOMAIN Library
Program(body) ==
    ("main" :> Proc(<<>>, body)) @@ [f \in Called(body) |-> Library[f]]

Start == <<Assign("a", Two), Assign("b", Lit(3))>>
Main(body) == Program(Start \o body \o <<Write(A)>>)

\* Expressions with several results.
Heads == {
    To(One, Lit(3)), To(A, B), To(B, A), ToBy(A, Lit(6), Two), Alt(<<A, Lit(7)>>),
    Alt(<<To(One, Two), Lit(5), ToBy(One, Lit(3), Two)>>), Alt(<<Less(B, A), Alt(<<B, A>>)>>),
    Limit(To(One, Lit(5)), Two), Limit(Alt(<<A, To(A, B)>>), Lit(3)), Limit(To(One, Two), Lit(0)),
    Plus(A, To(One, Two)), Plus(To(One, Two), A), Plus(To(One, Two), Alt(<<Lit(4), B>>)),
    Less(To(One, Lit(3)), To(Two, Lit(3))), Less(A, To(One, Lit(4))), Less(To(One, Lit(4)), B),
    Limit(Plus(Alt(<<A, B>>), To(One, Two)), Lit(3)), Assign("y", To(One, Two)), Aug("+", "a", To(One, Two)),
    NonNull(To(One, Two)), Fnc("f", <<To(One, Two)>>), Fnc("f", <<Alt(<<A, B>>)>>),
    Block(<<Aug("+", "a", One), To(A, Lit(5))>>), Plus(Fnc("f", <<A>>), One), Less(One, Two)}

\* Bodies of a loop over x.
Bodies == {
    Write(X), Block(<<Write(X), Aug("+", "a", One)>>), Assign("a", X), Swap("a", "b"),
    If(Less(X, Two), Write(X), Write(A)), If(Same(X, Two), Break, Write(X)),
    Block(<<If(Same(X, Two), NextLoop, Null), Write(X)>>), Case(<<X, One, Write(A), Two, Write(B), Write(X)>>),
    Every(Assign("y", To(One, Two)), Write(Plus(X, Y))), EveryOf(Write(Alt(<<X, A>>))),
    Block(<<Assign("n", Lit(0)), While(Less(N, Two), Block(<<Aug("+", "n", One), Write(N)>>))>>),
    Block(<<Write(X), If(Less(Two, X), Ret(X), Null), Write(A)>>), Write(Fnc("r", <<X>>)),
    Aug("+", "a", Fnc("s", <<>>)), Not(Write(Less(X, Two))), Write(Fnc("t", <<X>>))}

Small == {h \in Heads : \A e \in Subtrees(h) : e.op \notin {"CALL", "AUGOP", "LIMIT"}}

Loops1   == {Main(<<Every(Assign("x", h), b), Write(X)>>) : h \in Heads, b \in Bodies}
Nested   == {Main(<<Every(Assign("n", To(One, Two)), Every(Assign("x", h), If(Less(X, B), Write(X), b)))>>) :
                h \in Heads, b \in {Break, Write(N)}}
Single1  == {Main(<<Write(h), If(h, Write(h), Write(Lit(9))), Assign("n", Lit(0)),
                    While(Less(N, Two), Block(<<Aug("+", "n", One), Write(h)>>))>>) : h \in Heads}
InEach   == {Main(<<EveryOf(Write(e))>>) :
                e \in {Plus(h, i) : h, i \in Small} \cup {Alt(<<h, i>>) : h, i \in Small}
                      \cup {Limit(Less(h, i), Two) : h, i \in Small}}
Until1   == {Main(<<Assign("x", Lit(0)), Until(Less(Two, X), Block(<<Aug("+", "x", One), b>>))>>) : b \in Bodies}
Repeat1  == {Main(<<Assign("x", Lit(0)),
                    Repeat(Block(<<Aug("+", "x", One), If(Less(Two, X), Break, Null), Write(X), b>>))>>) :
                b \in Bodies}
Suspending == {Program(<<Every(Assign("x", Fnc("g", <<One>>)), b), Write(X)>>) :
                b \in {Write(X), Write(Plus(X, One)), Break, Write(Fnc("f", <<X>>)),
                       Block(<<Write(X), Write(Lit(5))>>), EveryOf(Write(Fnc("g", <<X>>)))}}

Others == {
    Main(<<EveryOf(Write(To(Alt(<<One, Two>>), Alt(<<Two, B>>))))>>),
    Main(<<EveryOf(Write(To(Alt(<<One, Two>>), A)))>>),
    Main(<<EveryOf(Write(And(A, To(One, Two))))>>),
    Main(<<Write(Fnc("u", <<A>>)), Write(And(A, B))>>),
    Main(<<Write(Fnc("r", <<Lit(3)>>)), Write(Fnc("s", <<>>)), Write(Fnc("s", <<>>))>>),
    Program(<<Write(Fnc("g", <<One>>)), Write(A)>>),
    [main |-> Proc(<<>>, <<Limit(Fnc("main", <<>>), One)>>)]}

MCPrograms == Loops1 \cup Nested \cup Single1 \cup InEach \cup Until1 \cup Repeat1 \cup Suspending \cup Others
MCCodes == {Code(q) : q \in MCPrograms}
=============================================================================
