----------------------------- MODULE MCPatWide -----------------------------
(***************************************************************************)
(* Patterns of every box, and of boxes in boxes, inside and outside the    *)
(* exact fragment.  The safety budget and the positions of an ARBNO are    *)
(* small here, so that both run out.                                       *)
(***************************************************************************)
EXTENDS PatCases

a  == Lit(<<"a">>)
b  == Lit(<<"b">>)
Sp == Span({"a"})
Boxes == <<a, PLen(1), Sp, Arb, Tab(1), Fence, Abort, Cond(PLen(1), "V"), Imm(Arb, "V"),
           Arbno(a), Arbno(Sp), Arbno(Arb), Fence1(Sp), Cond(Arbno(PLen(1)), "V"),
           Arbno(Cond(PLen(1), "V")), Arbno(Or(Cat(PLen(1), a), Arb)),
           Or(a, Lit(<<"a", "b">>)), Or(Sp, PLen(2)), Or(Cat(a, Arb), Cat(a, Sp))>>
Second == <<b, Sp, Arb, Cond(Sp, "W"), Or(Cat(PLen(1), a), a)>>

\* Boxes of which the first is entered again when what follows the second fails.
Wild == <<Cat(Cat(Arb, Tab(2)), b), Cat(Cat(Arbno(a), PLen(2)), b), Cat(Cat(Sp, Arb), b),
          Arbno(Cat(Cat(Arb, PLen(1)), b)), Cat(Imm(Cat(Arbno(a), PLen(2)), "V"), b)>>

Pairs   == Cats(Boxes, Second)
Seconds == Cats(Second, Second)
Tried   == Boxes \o Pairs \o Cats(Pairs, Second) \o Cats(Boxes, Seconds)
           \o Wild \o Cats(<<Arbno(a)>>, Wild)
Graphs  == Lowered(Tried)
Matches == AllCases(Tried, {<<"a">>, <<"a", "b">>, <<"b", "a">>, <<"a", "b", "a">>, <<"a", "a", "b", "b">>},
                    {FALSE}, {NoValue}, {"a", "?"})

\* TLC evaluates a definition once, but what a configuration substitutes at every use.
MCPatterns == Tried
MCGraph == Graphs
MCCases == Matches
=============================================================================
