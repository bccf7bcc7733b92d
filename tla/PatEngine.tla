----------------------------- MODULE PatEngine -----------------------------
(***************************************************************************)
(* lower/ir_exec.c: IR_exec_pat tries a lowered pattern at each start      *)
(* position; bb_exec_once walks the graph, one bb_exec_node a step, until  *)
(* a node returns a NULL port.  An ARBNO node runs bb_exec_once on its own *)
(* graph while its caller waits, so the walks form a stack.                *)
(***************************************************************************)
EXTENDS PatGraph

CONSTANTS
    Cases,           \* the matches to run: records [pat, subj, anchor, repl, before]
    Graph,           \* Graph[pat]: the lowered pattern, BB_lower_pat of each
    SafetyPerNode,   \* 64:  bb_exec_once gives up after cfg->n * 64 + 256 nodes
    SafetyBase,      \* 256
    ArbnoCap,        \* 64:  the positions an ARBNO node can keep
    NoValue          \* a capture variable that was never assigned, or no replacement

ASSUME BudgetAssumption ==
    SafetyPerNode \in Nat /\ SafetyBase \in Nat /\ ArbnoCap \in Nat \ {0}

\* The patterns of the matches have been lowered.
ASSUME MatchAssumption ==
    /\ {c.pat : c \in Cases} \subseteq DOMAIN Graph
    /\ \A c \in Cases : Len(c.subj) \in Nat
    /\ \A p \in DOMAIN Graph : IsGraph(Graph[p])

VARIABLES
    case,            \* the match being run
    cfg,             \* its graph
    phase,           \* "scan": about to try start; "run"; "done"
    start,           \* the start position being tried
    delta,           \* the cursor
    nstate, ncount,  \* nd->state, nd->counter
    posStack,        \* the positions each ARBNO node keeps
    walks,           \* the active bb_exec_once calls, innermost last
    captured,        \* the value of each capture variable
    subject,         \* the value of the subject variable
    result           \* what IR_exec_pat returned, with the span matched

vars == <<case, cfg, phase, start, delta, nstate, ncount, posStack, walks, captured, subject, result>>

G       == cfg.nodes
subj    == case.subj
Slen    == Len(subj)

\* Sigma[i - 1].  What lies before the subject in memory is not the subject's: the bytes there are
\* any, and case.before stands for each of them.
Char(i)     == IF i \in 1 .. Slen THEN subj[i] ELSE case.before
Chars(i, j) == [k \in 1 .. j - i |-> Char(i + k)]     \* the characters between two cursors
Walk    == walks[Len(walks)]
BlockNodes(blk) == {n \in DOMAIN G : G[n].blk = blk}
Vars    == {G[n].arg : n \in {m \in DOMAIN G : G[m].t \in {"COND", "IMM"}}}
Pending == [ok |-> FALSE, start |-> -1, end |-> -1]

\* bb_reset of one graph.
bb_reset(blk) ==
    /\ nstate' = [n \in DOMAIN G |-> IF G[n].blk = blk THEN 0 ELSE nstate[n]]
    /\ ncount' = [n \in DOMAIN G |-> IF G[n].blk = blk THEN 0 ELSE ncount[n]]

\* A call of bb_exec_once on the graph blk.
NewWalk(blk, entry) ==
    [blk |-> blk, cur |-> entry, fail |-> FALSE, pre |-> delta,
     safety |-> Cardinality(BlockNodes(blk)) * SafetyPerNode + SafetyBase]

Init ==
    /\ case \in Cases
    /\ cfg = Graph[case.pat]
    /\ phase = "scan"
    /\ start = 0
    /\ delta = 0
    /\ nstate = [n \in DOMAIN G |-> 0]
    /\ ncount = [n \in DOMAIN G |-> 0]
    /\ posStack = [n \in DOMAIN G |-> <<>>]
    /\ walks = <<>>
    /\ captured = [v \in Vars |-> NoValue]
    /\ subject = case.subj
    /\ result = Pending

-----------------------------------------------------------------------------
(* IR_exec_pat                                                             *)

max_start == IF case.anchor THEN 0 ELSE Slen

\* Try the next start position with the whole graph reset.
TryStart ==
    /\ phase = "scan" /\ start <= max_start
    /\ phase' = "run"
    /\ delta' = start
    /\ bb_reset(TopGraph)
    /\ walks' = <<[NewWalk(TopGraph, cfg.entry) EXCEPT !.pre = start]>>
    /\ UNCHANGED <<case, cfg, start, posStack, captured, subject, result>>

\* No start position is left: the statement fails.
NoMatch ==
    /\ phase = "scan" /\ start > max_start
    /\ phase' = "done"
    /\ UNCHANGED <<case, cfg, start, delta, nstate, ncount, posStack, walks, captured, subject, result>>

\* The outermost walk has ended: keep the span and splice the replacement, or
\* go on to the next start position.
EndAttempt ==
    /\ phase = "run" /\ Len(walks) = 1 /\ Walk.cur = NullNode
    /\ walks' = <<>>
    /\ IF Walk.fail
       THEN /\ phase' = "scan" /\ start' = start + 1
            /\ UNCHANGED <<subject, result>>
       ELSE /\ phase' = "done" /\ UNCHANGED start
            /\ result' = [ok |-> TRUE, start |-> start, end |-> delta]
            /\ subject' = IF case.repl = NoValue THEN subject
                          ELSE Chars(0, start) \o case.repl \o Chars(delta, Slen)
    /\ UNCHANGED <<case, cfg, delta, nstate, ncount, posStack, captured>>

-----------------------------------------------------------------------------
(* bb_exec_node.  A node is executed when it is current and the walk has   *)
(* safety left; it leaves through gamma or alpha (it did not fail) or      *)
(* through omega (it failed).                                              *)

At(t) == /\ phase = "run" /\ Walk.cur # NullNode /\ Walk.safety > 0
         /\ G[Walk.cur].t = t
nd    == G[Walk.cur]
state == nstate[Walk.cur]
count == ncount[Walk.cur]

\* A walk leaves the box it stands at.
Left(w, next, fail) == [w EXCEPT !.cur = next, !.fail = fail, !.safety = @ - 1]

\* The current node goes to next with a new cursor, state and counter.
GoTo(next, fail, d, s, c) ==
    /\ walks' = [walks EXCEPT ![Len(walks)] = Left(Walk, next, fail)]
    /\ delta' = d
    /\ nstate' = [nstate EXCEPT ![Walk.cur] = s]
    /\ ncount' = [ncount EXCEPT ![Walk.cur] = c]
    /\ UNCHANGED <<case, cfg, phase, start, subject, result>>

Succeed(d, s, c) == GoTo(nd.ga, FALSE, d, s, c)
Concede(d, s, c) == GoTo(nd.om, TRUE, d, s, c)
Keep == UNCHANGED <<posStack, captured>>

\* The boxes that match one way: the cursor each leaves, if any.
LitReach(lit)      == {e \in {delta + Len(lit)} : e <= Slen /\ Chars(delta, e) = lit}
AnyReach(chars)    == {e \in {delta + 1} : e <= Slen /\ Char(e) \in chars}
NotanyReach(chars) == {e \in {delta + 1} : e <= Slen /\ Char(e) \notin chars}
LenReach(n)        == {e \in {delta + n} : n >= 0 /\ e <= Slen}
TabReach(pos)      == {e \in {pos} : pos \in 0 .. Slen /\ delta <= pos}
PosReach(pos)      == {e \in {pos} : pos \in 0 .. Slen /\ delta = pos}

\* Where the characters after the cursor stop to be, or not to be, in a set.
RunEnd(chars, within) ==
    CHOOSE e \in delta .. Slen : /\ \A k \in delta + 1 .. e : (Char(k) \in chars) = within
                                /\ e < Slen => (Char(e + 1) \in chars) # within

SpanEnd == RunEnd(nd.arg, TRUE)

Reach(n) ==
    CASE n.t = "LIT"    -> LitReach(n.arg)
      [] n.t = "ANY"    -> AnyReach(n.arg)
      [] n.t = "NOTANY" -> NotanyReach(n.arg)
      [] n.t = "BREAK"  -> {RunEnd(n.arg, FALSE)}
      [] n.t = "LEN"    -> LenReach(n.arg)
      [] n.t = "REM"    -> {Slen}
      [] n.t = "TAB"    -> TabReach(n.arg)
      [] n.t = "RTAB"   -> TabReach(Slen - n.arg)
      [] n.t = "POS"    -> PosReach(n.arg)
      [] n.t = "RPOS"   -> PosReach(Slen - n.arg)

OneWay == {"LIT", "ANY", "NOTANY", "LEN", "REM", "BREAK", "TAB", "RTAB", "POS", "RPOS"}

\* What a box notes when it moves from d to e.
Noted(t, d, e, c) == CASE t \in {"TAB", "RTAB"} -> d
                       [] t \in {"POS", "RPOS", "ANY", "NOTANY"} -> c
                       [] OTHER -> e - d

\* Fresh: match or concede with the cursor untouched.
ExecOneWay ==
    /\ \E t \in OneWay : At(t)
    /\ state = 0
    /\ Keep
    /\ \/ \E e \in Reach(nd) : Succeed(e, 1, Noted(nd.t, delta, e, count))
       \/ Reach(nd) = {} /\ Concede(delta, 0, count)

\* Entered again after its match: step the cursor back and concede.
RetreatOneWay ==
    /\ \E t \in OneWay : At(t)
    /\ state # 0
    /\ Keep
    /\ Concede(CASE nd.t \in {"TAB", "RTAB"} -> count
                 [] nd.t \in {"POS", "RPOS"} -> delta
                 [] nd.t \in {"ANY", "NOTANY"} -> delta - 1
                 [] OTHER -> delta - count,
               0, count)

\* Mutant: an exhausted span steps back by its old count.
ExecSpanOff ==
    /\ At("SPAN")
    /\ Keep
    /\ CASE state = 0 ->
              IF SpanEnd = delta THEN Concede(delta, 0, count) ELSE Succeed(SpanEnd, 1, SpanEnd - delta)
         [] state = 1 ->
              IF count - 1 < 1 THEN Concede(delta - count - 1, 2, count - 1)
              ELSE Succeed(delta - 1, 1, count - 1)
         [] OTHER -> Concede(delta, state, count)

\* The longest run of characters of the set, and one less at each re-entry.
ExecSpan ==
    /\ At("SPAN")
    /\ Keep
    /\ CASE state = 0 ->
              IF SpanEnd = delta THEN Concede(delta, 0, count) ELSE Succeed(SpanEnd, 1, SpanEnd - delta)
         [] state = 1 ->
              IF count - 1 < 1 THEN Concede(delta - count, 2, count - 1)
              ELSE Succeed(delta - 1, 1, count - 1)
         [] OTHER -> Concede(delta, state, count)

\* Mutant: the end of the subject is tested before the step.
ExecArbPast ==
    /\ At("ARB")
    /\ Keep
    /\ CASE state = 0 -> Succeed(delta, 1, 0)
         [] state = 1 ->
              IF delta > Slen THEN Concede(delta - count, 2, count + 1)
              ELSE Succeed(delta + 1, 1, count + 1)
         [] OTHER -> Concede(delta, state, count)

\* The empty string, and one character more at each re-entry.
ExecArb ==
    /\ At("ARB")
    /\ Keep
    /\ CASE state = 0 -> Succeed(delta, 1, 0)
         [] state = 1 ->
              IF delta + 1 > Slen THEN Concede(delta - count, 2, count + 1)
              ELSE Succeed(delta + 1, 1, count + 1)
         [] OTHER -> Concede(delta, state, count)

\* FENCE lets control through once.
ExecFence ==
    /\ At("FENCE")
    /\ Keep
    /\ IF state = 0 THEN Succeed(delta, 1, count) ELSE Concede(delta, state, count)

ExecAbort == At("ABORT") /\ Keep /\ Concede(delta, state, count)

\* Mutant: the span captured begins where the match does.
ExecCaptureFromStart ==
    /\ At("COND") \/ At("IMM")
    /\ UNCHANGED posStack
    /\ IF state = 0
       THEN /\ GoTo(nd.al, FALSE, delta, 1, delta)
            /\ UNCHANGED captured
       ELSE /\ Succeed(delta, 0, count)
            /\ captured' = [captured EXCEPT ![nd.arg] = Chars(start, delta)]

\* Captures: note the cursor and enter the operand; when the operand has
\* succeeded, assign what lies between.  The two kinds do the same.
ExecCapture ==
    /\ At("COND") \/ At("IMM")
    /\ UNCHANGED posStack
    /\ IF state = 0
       THEN /\ GoTo(nd.al, FALSE, delta, 1, delta)
            /\ UNCHANGED captured
       ELSE /\ Succeed(delta, 0, count)
            /\ captured' = [captured EXCEPT ![nd.arg] =
                               IF delta < count THEN <<>> ELSE Chars(count, delta)]

\* ARBNO, fresh: note the cursor and run its graph from the start.
EnterArbno ==
    /\ At("ARBNO") /\ state = 0
    /\ posStack' = [posStack EXCEPT ![Walk.cur] = <<>>]
    /\ nstate' = [n \in DOMAIN G |-> IF G[n].blk = Walk.cur THEN 0 ELSE nstate[n]]
    /\ ncount' = [n \in DOMAIN G |-> IF n = Walk.cur THEN delta
                                     ELSE IF G[n].blk = Walk.cur THEN 0 ELSE ncount[n]]
    /\ walks' = Append(walks, NewWalk(Walk.cur, nd.inner))
    /\ UNCHANGED <<case, cfg, phase, start, delta, captured, subject, result>>

\* Mutant: a repetition that advances nothing is kept.
ArbnoTurnEmpty ==
    /\ phase = "run" /\ Len(walks) > 1 /\ Walk.cur = NullNode
    /\ LET a     == Walk.blk
           kept  == IF ~Walk.fail THEN Append(posStack[a], delta) ELSE posStack[a]
           outer == Len(walks) - 1
       IN /\ posStack' = [posStack EXCEPT ![a] = kept]
          /\ IF ~Walk.fail /\ Len(kept) < ArbnoCap
             THEN /\ bb_reset(a)
                  /\ walks' = [walks EXCEPT ![Len(walks)] = NewWalk(a, G[a].inner)]
             ELSE /\ nstate' = [nstate EXCEPT ![a] = Len(kept)]
                  /\ walks' = [SubSeq(walks, 1, outer) EXCEPT ![outer] = Left(walks[outer], G[a].ga, FALSE)]
                  /\ UNCHANGED ncount
    /\ UNCHANGED <<case, cfg, phase, start, delta, captured, subject, result>>

\* Mutant: the walk that waited starts with a new safety count.
ArbnoTurnRefill ==
    /\ phase = "run" /\ Len(walks) > 1 /\ Walk.cur = NullNode
    /\ LET a     == Walk.blk
           again == ~Walk.fail /\ delta # Walk.pre
           kept  == IF again THEN Append(posStack[a], delta) ELSE posStack[a]
           outer == Len(walks) - 1
       IN /\ posStack' = [posStack EXCEPT ![a] = kept]
          /\ IF again /\ Len(kept) < ArbnoCap
             THEN /\ bb_reset(a)
                  /\ walks' = [walks EXCEPT ![Len(walks)] = NewWalk(a, G[a].inner)]
             ELSE /\ nstate' = [nstate EXCEPT ![a] = Len(kept)]
                  /\ walks' = [SubSeq(walks, 1, outer) EXCEPT ![outer] =
                                 [@ EXCEPT !.cur = G[a].ga, !.fail = FALSE, !.safety = NewWalk(G[a].blk, a).safety]]
                  /\ UNCHANGED ncount
    /\ UNCHANGED <<case, cfg, phase, start, delta, captured, subject, result>>

\* One run of the operand has ended.  Go on while it succeeds and advances
\* and there is room; then the ARBNO node succeeds with all of them.
ArbnoTurn ==
    /\ phase = "run" /\ Len(walks) > 1 /\ Walk.cur = NullNode
    /\ LET a     == Walk.blk
           again == ~Walk.fail /\ delta # Walk.pre
           kept  == IF again THEN Append(posStack[a], delta) ELSE posStack[a]
           outer == Len(walks) - 1
       IN /\ posStack' = [posStack EXCEPT ![a] = kept]
          /\ IF again /\ Len(kept) < ArbnoCap
             THEN /\ bb_reset(a)
                  /\ walks' = [walks EXCEPT ![Len(walks)] = NewWalk(a, G[a].inner)]
             ELSE /\ nstate' = [nstate EXCEPT ![a] = Len(kept)]
                  /\ walks' = [SubSeq(walks, 1, outer) EXCEPT ![outer] = Left(walks[outer], G[a].ga, FALSE)]
                  /\ UNCHANGED ncount
    /\ UNCHANGED <<case, cfg, phase, start, delta, captured, subject, result>>

\* ARBNO, entered again: drop the last repetition and succeed with the rest.
ArbnoDrop ==
    /\ At("ARBNO") /\ state # 0
    /\ Keep
    /\ Succeed(IF state > 1 THEN posStack[Walk.cur][state - 1] ELSE count, state - 1, count)

\* bb_exec_once runs out of safety: the walk fails where it stands.
OutOfSafety ==
    /\ phase = "run" /\ Walk.cur # NullNode /\ Walk.safety = 0
    /\ walks' = [walks EXCEPT ![Len(walks)] = [@ EXCEPT !.cur = NullNode, !.fail = TRUE]]
    /\ UNCHANGED <<case, cfg, phase, start, delta, nstate, ncount, posStack, captured, subject, result>>

Next ==
    \/ TryStart \/ NoMatch \/ EndAttempt
    \/ ExecOneWay \/ RetreatOneWay \/ ExecSpan \/ ExecArb \/ ExecFence \/ ExecAbort
    \/ ExecCapture \/ EnterArbno \/ ArbnoTurn \/ ArbnoDrop \/ OutOfSafety

Spec == Init /\ [][Next]_vars
FairSpec == Spec /\ WF_vars(Next)
-----------------------------------------------------------------------------
\* The state is well typed, whatever is composed: node states and kept positions stay in the ranges
\* the code's fields are used for, every walk stands at a box of its own graph or at none, each
\* but the outermost inside the ARBNO it was entered for, and no box moves past the end of the
\* subject.
Cursor       == {d \in Int : d <= Slen}
CountsCursor == {"TAB", "RTAB", "ARBNO", "COND", "IMM"}     \* what nd->counter is a cursor of
WalkOK(k) ==
    /\ walks[k].cur \in BlockNodes(walks[k].blk) \cup {NullNode}
    /\ k = 1 => walks[k].blk = TopGraph
    /\ k > 1 => /\ walks[k].blk = walks[k - 1].cur /\ walks[k].blk # NullNode
                /\ G[walks[k].blk].t = "ARBNO" /\ nstate[walks[k].blk] = 0
NodeOK(n) ==
    /\ nstate[n] \in 0 .. (IF G[n].t = "ARBNO" THEN ArbnoCap ELSE 2)
    /\ ncount[n] \in (IF G[n].t \in CountsCursor THEN Cursor ELSE Nat)
    /\ posStack[n] \in Seq(Cursor)
TypeOK ==
    /\ case \in Cases /\ cfg = Graph[case.pat] /\ phase \in {"scan", "run", "done"}
    /\ start \in 0 .. Slen + 1 /\ delta \in Cursor
    /\ DOMAIN nstate = DOMAIN G /\ DOMAIN ncount = DOMAIN G /\ DOMAIN posStack = DOMAIN G
    /\ \A n \in DOMAIN G : NodeOK(n)
    /\ phase = "run" <=> walks # <<>>
    /\ walks \in Seq([blk : Seq(Int), cur : Seq(Int), fail : BOOLEAN, pre : Cursor, safety : Nat])
    /\ \A k \in DOMAIN walks : WalkOK(k)

\* However the boxes back up into one another - a one-way box steps back by what it advanced, a span
\* or ARB by its own count, ARBNO to a kept position, and an alternative that fails restores
\* nothing - the cursor leaves what lies between the start position of the attempt and the end of
\* the subject in patterns that are not steady only: elsewhere a match never has a negative length
\* and no box reads outside the subject.
CursorInAttempt == phase = "run" /\ delta \notin start .. Slen => ~Steady(G)

\* The positions an ARBNO drops back to are its own: it never goes back to more repetitions than it
\* kept, nor keeps more than there is room for; and in a steady pattern each one kept lies beyond
\* the one before it, the first beyond where the ARBNO was entered.
Ascends(from, kept) ==
    /\ kept # <<>> => from < kept[1]
    /\ \A k \in 1 .. Len(kept) - 1 : kept[k] < kept[k + 1]
ArbnoKeepsItsPositions ==
    \A n \in DOMAIN G : G[n].t = "ARBNO" /\ nstate[n] > 0 =>
        /\ nstate[n] <= Len(posStack[n]) /\ Len(posStack[n]) <= ArbnoCap
        /\ ~Ascends(ncount[n], posStack[n]) => ~Steady(G)
=============================================================================
