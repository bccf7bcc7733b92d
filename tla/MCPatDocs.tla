----------------------------- MODULE MCPatDocs -----------------------------
(***************************************************************************)
(* Alternations on which the engine and the documents part.                *)
(***************************************************************************)
EXTENDS PatCases

a == Lit(<<"a">>)
b == Lit(<<"b">>)
c == Lit(<<"c">>)
ab == Lit(<<"a", "b">>)

MCPatterns == << Cat(Or(a, ab), c), Cat(Or(ab, a), b), Or(Cat(a, b), Cat(a, c)) >>
MCGraph == Lowered(MCPatterns)
AltCases == AllCases(MCPatterns, Subjects({"a", "b", "c"}, 3), BOOLEAN, {NoValue}, {"?"})
=============================================================================
