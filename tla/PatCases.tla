------------------------------ MODULE PatCases ------------------------------
(***************************************************************************)
(* The patterns and subjects the PatEngine runs are given, and the         *)
(* properties they check.                                                  *)
(***************************************************************************)
EXTENDS PatEngine, PatLower, PatReference

Lit(s)     == Pat("LIT", s, <<>>)
AnyOf(cs)    == Pat("ANY", cs, <<>>)
Notany(cs) == Pat("NOTANY", cs, <<>>)
Break(cs)  == Pat("BREAK", cs, <<>>)
Span(cs)   == Pat("SPAN", cs, <<>>)
Rem        == Pat("REM", 0, <<>>)
Arb        == Pat("ARB", 0, <<>>)
Fence      == Pat("FENCE", 0, <<>>)
Abort      == Pat("ABORT", 0, <<>>)
PLen(n)    == Pat("LEN", n, <<>>)
Tab(n)     == Pat("TAB", n, <<>>)
Rtab(n)    == Pat("RTAB", n, <<>>)
Pos(n)     == Pat("POS", n, <<>>)
Rpos(n)    == Pat("RPOS", n, <<>>)
Fence1(p)  == Pat("FENCE", 0, <<p>>)
Arbno(p)   == Pat("ARBNO", 0, <<p>>)
Cond(p, v) == Pat("COND", v, <<p>>)
Imm(p, v)  == Pat("IMM", v, <<p>>)

\* The parsers (snobol4.y:135-139) build sequences and alternations of two: p1 p2 p3 is
\* Cat(Cat(p1, p2), p3), and Cat(p1, Cat(p2, p3)) is written p1 (p2 p3).
Cat(p, q) == Pat("SEQ", 0, <<p, q>>)
Or(p, q)  == Pat("ALT", 0, <<p, q>>)

\* An element of each list in turn, concatenated.
Cats(xs, ys) == [k \in 1 .. Len(xs) * Len(ys) |->
                    Cat(xs[1 + ((k - 1) \div Len(ys))], ys[1 + ((k - 1) % Len(ys))])]

\* The subjects over an alphabet, up to a length.
Subjects(alphabet, n) == UNION {[1 .. k -> alphabet] : k \in 0 .. n}

\* Every pattern of a list with every subject; before is what the bytes before a subject are.
AllCases(pats, subjs, anchors, repls, befores) ==
    {[pat |-> p, subj |-> s, anchor |-> a, repl |-> r, before |-> b] :
        p \in DOMAIN pats, s \in subjs, a \in anchors, r \in repls, b \in befores}
Lowered(pats) == [p \in DOMAIN pats |-> BB_lower_pat(pats[p])]
-----------------------------------------------------------------------------
CONSTANT Patterns     \* the list Graph was lowered from

ThePattern == Patterns[case.pat]

\* What the four ports promise for the match being run.
Promised ==
    LET from == Starts(ThePattern, subj, case.anchor)
    IN IF from = {} THEN Pending
       ELSE LET s == Leftmost(from)
            IN [ok |-> TRUE, start |-> s, end |-> Ways(ThePattern, subj, s)[1].end]

\* A finished match is the leftmost start position at which the boxes have a
\* way to succeed, with the first of those ways: the ports lower_pat_dcg.c
\* wires and the per-node state ir_exec.c keeps find it, lose none before it
\* and leave nothing over from the start positions that failed.
MatchesReference == phase = "done" => result = Promised

\* Whatever start positions and alternatives were tried and given up, a
\* capture variable ends with the span its operand has in the match found,
\* and the subject has only that match's span replaced.
CapturesMatchReference ==
    phase = "done" =>
        /\ result.ok => \A v \in Vars :
                captured[v] = LastCapture(Ways(ThePattern, subj, result.start)[1].caps, v, captured[v])
        /\ subject = IF Promised.ok /\ case.repl # NoValue
                     THEN Chars(0, Promised.start) \o case.repl \o Chars(Promised.end, Slen)
                     ELSE subj

\* IR_exec_pat returns: though an ARBNO that has dropped to no repetition, or
\* a capture entered through a beta, can send control around the same ports
\* for ever, every walk runs out of safety.
Terminates == <>(phase = "done")

=============================================================================
