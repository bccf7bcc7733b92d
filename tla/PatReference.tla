---------------------------- MODULE PatReference ----------------------------
(***************************************************************************)
(* What composing Byrd boxes promises, without the graph.  A box standing  *)
(* at a cursor yields its ways to succeed, in the order in which backing   *)
(* up into it produces them: the cursor it leaves and the captures made.   *)
(* Each box's own ways are those of its code in lower/ir_exec.c; how ways  *)
(* compose is what README.md ("The Architecture") says of the four ports:  *)
(* a sequence backs up into its latest element first, every element enters *)
(* fresh, an alternative starts where the alternation started.             *)
(***************************************************************************)
EXTENDS Integers, Sequences, FiniteSets
LOCAL INSTANCE SequencesExt

Way(end, caps) == [end |-> end, caps |-> caps]
One(end) == <<Way(end, <<>>)>>
Nothing == <<>>

\* The ways Op(x) of the elements x of a sequence, one after the other.
FlatMap(Op(_), s) == FlattenSeq([k \in DOMAIN s |-> Op(s[k])])

\* Length of the run of characters satisfying the test after cursor i.
RunLength(s, i, chars, within) ==
    CHOOSE k \in 0 .. Len(s) - i :
        /\ \A j \in i + 1 .. i + k : (s[j] \in chars) = within
        /\ i + k < Len(s) => (s[i + k + 1] \in chars) # within

RECURSIVE Ways(_, _, _), SeqWays(_, _, _, _), ArbnoEnds(_, _, _)
Ways(p, s, i) ==
    LET n == Len(s) IN
    CASE p.t = "LIT" ->
            IF i + Len(p.arg) <= n /\ SubSeq(s, i + 1, i + Len(p.arg)) = p.arg
            THEN One(i + Len(p.arg)) ELSE Nothing
      [] p.t = "ANY" -> IF i < n /\ s[i + 1] \in p.arg THEN One(i + 1) ELSE Nothing
      [] p.t = "NOTANY" -> IF i < n /\ s[i + 1] \notin p.arg THEN One(i + 1) ELSE Nothing
      [] p.t = "LEN" -> IF i + p.arg <= n THEN One(i + p.arg) ELSE Nothing
      [] p.t = "REM" -> One(n)
      [] p.t = "BREAK" -> One(i + RunLength(s, i, p.arg, FALSE))
      [] p.t = "TAB" -> IF p.arg \in i .. n THEN One(p.arg) ELSE Nothing
      [] p.t = "RTAB" -> IF n - p.arg >= i THEN One(n - p.arg) ELSE Nothing
      [] p.t = "POS" -> IF i = p.arg THEN One(i) ELSE Nothing
      [] p.t = "RPOS" -> IF i = n - p.arg THEN One(i) ELSE Nothing
      [] p.t = "ARB" -> [k \in 1 .. n - i + 1 |-> Way(i + k - 1, <<>>)]
      [] p.t = "SPAN" ->
            LET k == RunLength(s, i, p.arg, TRUE) IN [j \in 1 .. k |-> Way(i + k - j + 1, <<>>)]
      [] p.t = "ARBNO" ->
            LET ends == ArbnoEnds(p.kids[1], s, i)
            IN [k \in 1 .. Len(ends) |-> Way(ends[Len(ends) - k + 1], <<>>)]
      [] p.t \in {"COND", "IMM"} ->
            LET ws == Ways(p.kids[1], s, i)
            IN [k \in DOMAIN ws |->
                  Way(ws[k].end, Append(ws[k].caps, <<p.arg, SubSeq(s, i + 1, ws[k].end)>>))]
      [] p.t = "FENCE" -> IF p.kids = <<>> THEN One(i) ELSE Ways(p.kids[1], s, i)
      [] p.t = "ABORT" -> Nothing
      [] p.t = "SEQ" -> SeqWays(p, 1, s, i)
      [] p.t = "ALT" -> FlatMap(LAMBDA k : Ways(k, s, i), p.kids)

SeqWays(p, e, s, i) ==
    IF e > Len(p.kids) THEN One(i)
    ELSE FlatMap(LAMBDA w :
                   LET rest == SeqWays(p, e + 1, s, w.end)
                   IN [k \in DOMAIN rest |-> Way(rest[k].end, w.caps \o rest[k].caps)],
                 Ways(p.kids[e], s, i))

\* The cursors after 0, 1, 2 ... repetitions that each advance.
ArbnoEnds(p, s, i) ==
    LET ws == Ways(p, s, i)
    IN IF ws = <<>> \/ ws[1].end = i THEN <<i>> ELSE <<i>> \o ArbnoEnds(p, s, ws[1].end)

\* The leftmost start position at which the pattern has a way.
Starts(p, s, anchor) ==
    {i \in 0 .. (IF anchor THEN 0 ELSE Len(s)) : Ways(p, s, i) # <<>>}

Leftmost(S) == CHOOSE i \in S : \A j \in S : i <= j

\* The value the captures of a way leave in a variable, last one first.
LastCapture(caps, v, default) ==
    LET k == SelectLastInSeq(caps, LAMBDA c : c[1] = v)
    IN IF k = 0 THEN default ELSE caps[k][2]
=============================================================================
