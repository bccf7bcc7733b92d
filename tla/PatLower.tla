------------------------------ MODULE PatLower ------------------------------
(***************************************************************************)
(* lower/lower_pat_dcg.c: a pattern tree becomes a graph of Byrd boxes     *)
(* whose ports alpha, beta, gamma, omega are wired while the tree is walked *)
(* with the node to succeed to (sp) and the node to fail to (fp).          *)
(***************************************************************************)
EXTENDS PatGraph, TLC

\* The port wiring shared by every leaf of build_node; inner is the entry of
\* the graph an ARBNO repeats.
Leaf(p, path, blk, sp, fp, inner) ==
    path :> [t |-> p.t, arg |-> p.arg, blk |-> blk, inner |-> inner,
             al |-> path,
             be |-> IF p.t \in Resumable THEN path ELSE fp,
             ga |-> IF p.t = "ABORT" THEN fp ELSE sp,
             om |-> fp]

\* Mutant: the failure of an element is left at the failure of the sequence.
RewireNone(g, entries, fp) == g

\* TT_SEQ after its elements are built: an element whose entry fails where
\* the sequence fails is made to fail into the beta of the element before it.
Rewire(g, entries, fp) ==
    [n \in DOMAIN g |->
        IF \E i \in 1 .. Len(entries) - 1 : entries[i + 1] = n /\ g[n].om = fp
        THEN LET i == CHOOSE i \in 1 .. Len(entries) - 1 : entries[i + 1] = n
                 be == g[entries[i]].be
             IN [g[n] EXCEPT !.om = IF be # NullNode THEN be ELSE fp]
        ELSE g[n]]

\* build_node: the nodes of the pattern and the node that enters it.
RECURSIVE build_node(_, _, _, _, _), BuildSeq(_, _, _, _, _, _), BuildAlt(_, _, _, _, _, _)
build_node(p, path, blk, sp, fp) ==
    CASE p.t = "SEQ" ->
            LET s == BuildSeq(p, Len(p.kids), path, blk, sp, fp)
            IN [entry |-> s.entries[1], g |-> Rewire(s.g, s.entries, fp)]
      [] p.t = "ALT" ->
            BuildAlt(p, Len(p.kids), path, blk, sp, fp)
      [] p.t \in {"COND", "IMM"} ->
            LET inner == build_node(p.kids[1], Append(path, 1), blk, path, fp)
                nd == [t |-> p.t, arg |-> p.arg, blk |-> blk, inner |-> NullNode,
                       al |-> inner.entry, be |-> inner.g[inner.entry].be, ga |-> sp, om |-> fp]
            IN [entry |-> path, g |-> inner.g @@ (path :> nd)]
      [] p.t = "FENCE" /\ p.kids # <<>> ->
            LET inner == build_node(p.kids[1], Append(path, 1), blk, sp, fp)
            IN [entry |-> path, g |-> inner.g @@ Leaf(p, path, blk, inner.entry, fp, NullNode)]
      [] p.t = "ARBNO" ->
            LET inner == build_node(p.kids[1], Append(path, 1), path, NullNode, NullNode)
            IN [entry |-> path, g |-> inner.g @@ Leaf(p, path, blk, sp, fp, inner.entry)]
      [] OTHER -> [entry |-> path, g |-> Leaf(p, path, blk, sp, fp, NullNode)]

\* Elements i .. 1 of a sequence, last one first, each succeeding into the
\* entry of the one after it and failing where the sequence fails.
BuildSeq(p, i, path, blk, chain, fp) ==
    LET e == build_node(p.kids[i], Append(path, i), blk, chain, fp)
    IN IF i = 1 THEN [entries |-> <<e.entry>>, g |-> e.g]
       ELSE LET rest == BuildSeq(p, i - 1, path, blk, e.entry, fp)
            IN [entries |-> Append(rest.entries, e.entry), g |-> rest.g @@ e.g]

\* Alternatives i .. 1, last one first, each failing into the one after it.
BuildAlt(p, i, path, blk, sp, alt_fail) ==
    LET e == build_node(p.kids[i], Append(path, i), blk, sp, alt_fail)
    IN IF i = 1 THEN e
       ELSE LET rest == BuildAlt(p, i - 1, path, blk, sp, e.entry)
            IN [entry |-> rest.entry, g |-> rest.g @@ e.g]

\* BB_lower_pat: the whole graph and the entry of each of its blocks.
BB_lower_pat(p) ==
    LET r == build_node(p, RootPath, TopGraph, NullNode, NullNode)
    IN [nodes |-> r.g, entry |-> r.entry]
=============================================================================
