--------------------------- MODULE MCPatFragment ---------------------------
(***************************************************************************)
(* The fragment in which the static wiring is exact: one-way boxes, bare   *)
(* or captured, then at most one generator, then one more bare box; or     *)
(* one-way boxes and then an alternation or a captured box.                *)
(***************************************************************************)
EXTENDS PatCases

a  == Lit(<<"a">>)
OneWays  == <<a, Lit(<<"a", "b">>), AnyOf({"a"}), Notany({"a"}), PLen(2), Rem, Break({"b"}),
              Tab(1), Rtab(1), Pos(1), Rpos(0)>>
Captured == <<Cond(AnyOf({"a", "b"}), "V"), Imm(Break({"b"}), "W")>>
Gens     == <<Arb, Span({"a"})>>
Alts     == <<Or(a, Notany({"a"})), Or(PLen(2), a), Or(Or(Pos(1), PLen(1)), Rem)>>
Ends     == Alts \o Captured \o <<Cond(Arb, "V"), Imm(Span({"a"}), "V"), Cond(Alts[1], "V")>>
Middles  == <<a, Tab(1), Captured[1]>>
Heads    == OneWays \o Captured
Begun    == Cats(Heads, Middles)
Ended    == Cats(Captured \o Gens, OneWays \o Gens)

Tried ==
    Cats(Heads \o Gens, OneWays \o Gens) \o Cats(Heads, Ends)
    \o Cats(Begun, Middles \o Gens \o Ends) \o Cats(Heads, Ended)
    \o <<Cat(Arbno(a), Pos(1)), Cat(Cat(PLen(1), a), Arbno(a)), Cat(PLen(1), Cat(Arbno(a), Rpos(0)))>>
Graphs  == Lowered(Tried)
Matches == AllCases(Tried, Subjects({"a", "b"}, 3), BOOLEAN, {<<"c">>}, {"?"})

\* TLC evaluates a definition once, but what a configuration substitutes at every use.
MCPatterns == Tried
MCGraph == Graphs
MCCases == Matches
=============================================================================
