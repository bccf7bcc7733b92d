-------------------------- MODULE PatEngineProofs --------------------------
(***************************************************************************)
(* For any graphs, subjects, safety and room for positions: the state of   *)
(* the pattern engine is well typed, and in a steady pattern the cursor    *)
(* stays in the attempt and an ARBNO keeps its positions.                  *)
(***************************************************************************)
EXTENDS PatEngine, FiniteSetTheorems, SequenceTheorems, WellFoundedInduction, TLAPS

WalkType == [blk : Seq(Int), cur : Seq(Int), fail : BOOLEAN, pre : Cursor, safety : Nat]

\* The graph of each walk lies deeper in the tree than those of the walks that wait for it.
Nested == \A i, j \in DOMAIN walks : i < j => Len(walks[i].blk) < Len(walks[j].blk)

\* A walk that waits may go on, and its ARBNO has room for one more position.
Waits == \A k \in DOMAIN walks :
            k > 1 => walks[k - 1].safety > 0 /\ Len(posStack[walks[k].blk]) < ArbnoCap

\* An ARBNO has kept as many positions as it may go back to, a span has characters to give up.
Bounded == \A n \in DOMAIN G :
    /\ G[n].t = "ARBNO" /\ nstate[n] > 0 =>
            nstate[n] <= Len(posStack[n]) /\ Len(posStack[n]) <= ArbnoCap
    /\ G[n].t = "SPAN" /\ nstate[n] = 1 => ncount[n] > 0

PatInv == TypeOK /\ Nested /\ Waits /\ Bounded /\ (phase = "run" => start <= Slen)

-----------------------------------------------------------------------------
(* Sequences.                                                              *)

LEMMA TopReplaced ==
    ASSUME NEW S, NEW ws \in Seq(S), ws # <<>>, NEW w \in S, NEW vs, vs = [ws EXCEPT ![Len(ws)] = w]
    PROVE  /\ vs \in Seq(S) /\ vs # <<>> /\ Len(vs) = Len(ws) /\ DOMAIN vs = DOMAIN ws
           /\ vs[Len(vs)] = w /\ \A i \in DOMAIN ws : i # Len(ws) => vs[i] = ws[i]
<1>1. Len(ws) \in Nat \ {0} /\ DOMAIN ws = 1 .. Len(ws) /\ Len(ws) \in 1 .. Len(ws)
  BY EmptySeq, LenProperties
<1>2. vs \in Seq(S) /\ Len(vs) = Len(ws)
  BY <1>1, ExceptSeq
<1>3. DOMAIN vs = 1 .. Len(vs)
  BY <1>2, LenProperties
<1>4. vs # <<>>
  BY <1>1, <1>2, EmptySeq
<1>5. QED BY <1>1, <1>2, <1>3, <1>4

LEMMA TopDropped ==
    ASSUME NEW S, NEW ws \in Seq(S), Len(ws) > 1, NEW vs, vs = SubSeq(ws, 1, Len(ws) - 1)
    PROVE  /\ vs \in Seq(S) /\ vs # <<>> /\ Len(vs) = Len(ws) - 1 /\ DOMAIN vs = 1 .. Len(ws) - 1
           /\ \A i \in DOMAIN vs : vs[i] = ws[i]
<1>1. Len(ws) \in Nat /\ Len(ws) - 1 \in Nat \ {0} /\ Len(ws) - 1 <= Len(ws)
      /\ \A i \in 1 .. Len(ws) : ws[i] \in S
  BY LenProperties, ElementOfSeq
<1>2. \A i \in 1 .. Len(ws) - 1 : ws[i] \in S
  BY <1>1
<1>3. vs \in Seq(S) /\ Len(vs) = (IF 1 <= Len(ws) - 1 THEN Len(ws) - 1 - 1 + 1 ELSE 0)
      /\ \A i \in 1 .. Len(ws) - 1 - 1 + 1 : vs[i] = ws[1 + i - 1]
  BY <1>1, <1>2, SubSeqProperties
<1>4. Len(vs) = Len(ws) - 1
  BY <1>1, <1>3
<1>5. DOMAIN vs = 1 .. Len(vs)
  BY <1>3, LenProperties
<1>6. vs # <<>>
  BY <1>1, <1>4, <1>3, EmptySeq
<1>7. \A i \in DOMAIN vs : vs[i] = ws[i]
  BY <1>1, <1>3, <1>4, <1>5
<1>8. QED BY <1>3, <1>4, <1>5, <1>6, <1>7

-----------------------------------------------------------------------------
(* What the invariant says of the walks and of the graph.                  *)

LEMMA Shape ==
    ASSUME TypeOK
    PROVE  /\ IsGraph(cfg) /\ Slen \in Nat
           /\ walks \in Seq(WalkType) /\ Len(walks) \in Nat /\ DOMAIN walks = 1 .. Len(walks)
           /\ \A k \in DOMAIN walks : walks[k] \in WalkType
<1>1. case \in Cases /\ cfg = Graph[case.pat]
  BY DEF TypeOK
<1>2. case.pat \in DOMAIN Graph /\ Len(case.subj) \in Nat
  BY <1>1, MatchAssumption
<1>3. IsGraph(cfg) /\ Slen \in Nat
  BY <1>1, <1>2, MatchAssumption DEF Slen, subj
<1>4. walks \in Seq(WalkType)
  BY DEF TypeOK, WalkType
<1>5. QED BY <1>3, <1>4, LenProperties, ElementOfSeq

LEMMA Boxes ==
    ASSUME IsGraph(cfg), NEW n \in DOMAIN G
    PROVE  /\ n \in Seq(Int) /\ n # NullNode /\ G[n].blk \in Seq(Int)
           /\ Len(G[n].blk) \in Nat /\ Len(n) \in Nat /\ Len(G[n].blk) < Len(n) /\ G[n].blk # n
           /\ n \in BlockNodes(G[n].blk)
           /\ \A p \in PortsOf(G[n]) : p \in BlockNodes(G[n].blk) \cup {NullNode}
           /\ G[n].t = "ARBNO" => G[n].inner \in BlockNodes(n)
           /\ G[n].t = "LIT" => Len(G[n].arg) \in Nat
           /\ G[n].t \in {"LEN", "TAB", "RTAB", "POS", "RPOS"} => G[n].arg \in Int
<1>1. n \in Seq(Int) /\ n # NullNode /\ G[n].blk \in Seq(Int) /\ Len(G[n].blk) < Len(n)
  BY DEF IsGraph, G
<1>2. Len(G[n].blk) \in Nat /\ Len(n) \in Nat
  BY <1>1, LenProperties
<1>3. G[n].blk # n
  BY <1>1, <1>2
<1>4. /\ PortsOf(G[n]) \subseteq BoxesOf(G, G[n].blk) \cup {NullNode}
      /\ G[n].t = "ARBNO" => G[n].inner \in BoxesOf(G, n)
      /\ G[n].t = "LIT" => Len(G[n].arg) \in Nat
      /\ G[n].t \in {"LEN", "TAB", "RTAB", "POS", "RPOS"} => G[n].arg \in Int
  BY DEF IsGraph, G
<1>5. QED BY <1>1, <1>2, <1>3, <1>4 DEF BlockNodes, BoxesOf

LEMMA Standing ==
    ASSUME PatInv, phase = "run"
    PROVE  /\ Len(walks) \in Nat \ {0} /\ Len(walks) \in DOMAIN walks
           /\ Walk \in WalkType /\ WalkOK(Len(walks))
           /\ Walk.cur # NullNode => /\ Walk.cur \in DOMAIN G /\ G[Walk.cur].blk = Walk.blk
                                     /\ NodeOK(Walk.cur) /\ nd = G[Walk.cur]
                                     /\ state = nstate[Walk.cur] /\ count = ncount[Walk.cur]
<1>1. TypeOK /\ walks # <<>>
  BY DEF PatInv, TypeOK
<1>2. Len(walks) \in Nat \ {0}
  BY <1>1, Shape, EmptySeq
<1>3. Len(walks) \in DOMAIN walks
  BY <1>1, <1>2, Shape
<1>4. Walk \in WalkType /\ WalkOK(Len(walks))
  BY <1>1, <1>3, Shape DEF Walk, TypeOK
<1>5. ASSUME Walk.cur # NullNode PROVE Walk.cur \in DOMAIN G /\ G[Walk.cur].blk = Walk.blk
  BY <1>4, <1>5 DEF WalkOK, Walk, BlockNodes
<1>6. ASSUME Walk.cur # NullNode PROVE NodeOK(Walk.cur)
  BY <1>1, <1>5, <1>6 DEF TypeOK
<1>7. QED BY <1>2, <1>3, <1>4, <1>5, <1>6 DEF nd, state, count

LEMMA Waiting ==
    ASSUME PatInv, NEW k \in DOMAIN walks, k > 1
    PROVE  /\ k \in Nat /\ k - 1 \in DOMAIN walks /\ k - 1 < k
           /\ walks[k].blk = walks[k - 1].cur /\ walks[k].blk \in DOMAIN G
           /\ G[walks[k].blk].blk = walks[k - 1].blk
           /\ G[walks[k].blk].t = "ARBNO" /\ nstate[walks[k].blk] = 0
           /\ walks[k - 1].safety > 0 /\ Len(posStack[walks[k].blk]) < ArbnoCap
           /\ \A j \in DOMAIN walks : j >= k => walks[j].blk # walks[k - 1].blk
<1>1. DOMAIN walks = 1 .. Len(walks) /\ Len(walks) \in Nat /\ WalkOK(k) /\ \A j \in DOMAIN walks : walks[j] \in WalkType
  BY Shape DEF PatInv, TypeOK
<1>2. k \in Nat /\ k - 1 \in DOMAIN walks /\ k - 1 < k
  BY <1>1
<1>3. WalkOK(k - 1)
  BY <1>2 DEF PatInv, TypeOK
<1>4. /\ walks[k].blk = walks[k - 1].cur /\ walks[k].blk # NullNode
      /\ G[walks[k].blk].t = "ARBNO" /\ nstate[walks[k].blk] = 0
  BY <1>1 DEF WalkOK
<1>5. walks[k].blk \in DOMAIN G /\ G[walks[k].blk].blk = walks[k - 1].blk
  BY <1>3, <1>4 DEF WalkOK, BlockNodes
<1>6. ASSUME NEW j \in DOMAIN walks, j >= k PROVE walks[j].blk # walks[k - 1].blk
  <2>1. k - 1 < j
    BY <1>1, <1>2, <1>6
  <2>2. Len(walks[k - 1].blk) < Len(walks[j].blk)
    BY <1>2, <2>1 DEF PatInv, Nested
  <2>3. walks[j].blk \in Seq(Int) /\ Len(walks[j].blk) \in Nat
    BY <1>1, LenProperties DEF WalkType
  <2>4. QED BY <2>2, <2>3
<1>7. walks[k - 1].safety > 0 /\ Len(posStack[walks[k].blk]) < ArbnoCap
  BY DEF PatInv, Waits
<1>8. QED BY <1>2, <1>4, <1>5, <1>6, <1>7

-----------------------------------------------------------------------------
(* The stack of walks.                                                     *)

Stacked == /\ walks \in Seq(WalkType) /\ walks # <<>>
           /\ \A k \in DOMAIN walks : WalkOK(k)
           /\ Nested /\ Waits

LEMMA SameMatch ==
    ASSUME UNCHANGED <<case, cfg>>
    PROVE  /\ Slen' = Slen /\ Cursor' = Cursor /\ WalkType' = WalkType /\ G' = G
           /\ \A blk : BlockNodes(blk)' = BlockNodes(blk)
           /\ max_start' = max_start /\ subj' = subj
BY DEF Slen, subj, Cursor, WalkType, G, BlockNodes, max_start

\* The innermost walk moves within its graph.
LEMMA SameStack ==
    ASSUME PatInv, phase = "run", UNCHANGED <<case, cfg>>,
           NEW w \in WalkType, w.blk = Walk.blk, w.cur \in BlockNodes(Walk.blk) \cup {NullNode},
           walks' = [walks EXCEPT ![Len(walks)] = w],
           \A k \in DOMAIN walks : k > 1 =>
                nstate'[walks[k].blk] = 0 /\ Len(posStack'[walks[k].blk]) < ArbnoCap
    PROVE  Stacked'
<1>1. TypeOK /\ Len(walks) \in DOMAIN walks /\ walks \in Seq(WalkType) /\ walks # <<>>
      /\ DOMAIN walks = 1 .. Len(walks) /\ Len(walks) \in Nat
  BY Standing, Shape DEF PatInv, TypeOK
<1> DEFINE vs == walks'
<1>2. /\ vs \in Seq(WalkType) /\ vs # <<>> /\ Len(vs) = Len(walks) /\ DOMAIN vs = DOMAIN walks
      /\ vs[Len(vs)] = w /\ \A i \in DOMAIN walks : i # Len(walks) => vs[i] = walks[i]
  BY <1>1, TopReplaced
<1> HIDE DEF vs
<1>3. \A i \in DOMAIN walks : vs[i].blk = walks[i].blk
  BY <1>1, <1>2 DEF Walk
<1>4. ASSUME NEW k \in DOMAIN walks PROVE WalkOK(k)'
  <2>1. vs[k].cur \in BlockNodes(vs[k].blk) \cup {NullNode}
    <3>1. CASE k = Len(walks)
      BY <1>2, <3>1 DEF Walk
    <3>2. CASE k # Len(walks)
      BY <1>1, <1>2, <3>2 DEF TypeOK, WalkOK
    <3>3. QED BY <3>1, <3>2
  <2>2. k = 1 => vs[k].blk = TopGraph
    BY <1>1, <1>3 DEF TypeOK, WalkOK
  <2>3. ASSUME k > 1
        PROVE  /\ vs[k].blk = vs[k - 1].cur /\ vs[k].blk # NullNode
               /\ G[vs[k].blk].t = "ARBNO" /\ nstate'[vs[k].blk] = 0
    <3>1. k - 1 \in DOMAIN walks /\ k - 1 # Len(walks)
      BY <1>1, <2>3
    <3>2. vs[k - 1] = walks[k - 1]
      BY <1>2, <3>1
    <3>3. /\ walks[k].blk = walks[k - 1].cur /\ walks[k].blk # NullNode
          /\ G[walks[k].blk].t = "ARBNO"
      BY <1>1, <2>3 DEF TypeOK, WalkOK
    <3>4. QED BY <1>3, <2>3, <3>2, <3>3
  <2>4. QED BY <2>1, <2>2, <2>3, SameMatch DEF WalkOK, vs
<1>5. Nested'
  BY <1>2, <1>3 DEF PatInv, Nested, vs
<1>6. ASSUME NEW k \in DOMAIN walks, k > 1
      PROVE  vs[k - 1].safety > 0 /\ Len(posStack'[vs[k].blk]) < ArbnoCap
  <2>1. k - 1 \in DOMAIN walks /\ k - 1 # Len(walks)
    BY <1>1, <1>6
  <2>2. vs[k - 1] = walks[k - 1]
    BY <1>2, <2>1
  <2>3. QED BY <1>3, <1>6, <2>2 DEF PatInv, Waits
<1>7. Waits'
  BY <1>2, <1>6 DEF Waits, vs
<1>8. QED BY <1>2, <1>4, <1>5, <1>7, SameMatch DEF Stacked, vs

\* The innermost walk is given up and the one below it replaced.
LEMMA Popped ==
    ASSUME TypeOK, Len(walks) > 1, NEW w \in WalkType,
           walks' = [SubSeq(walks, 1, Len(walks) - 1) EXCEPT ![Len(walks) - 1] = w]
    PROVE  /\ walks' \in Seq(WalkType) /\ walks' # <<>> /\ Len(walks') = Len(walks) - 1
           /\ DOMAIN walks' = 1 .. Len(walks) - 1 /\ walks'[Len(walks) - 1] = w
           /\ \A i \in DOMAIN walks' : i \in DOMAIN walks /\ i # Len(walks)
           /\ \A i \in DOMAIN walks' : i # Len(walks) - 1 => walks'[i] = walks[i]
<1> DEFINE us == SubSeq(walks, 1, Len(walks) - 1)
           vs == walks'
<1>1. walks \in Seq(WalkType) /\ DOMAIN walks = 1 .. Len(walks) /\ Len(walks) \in Nat
  BY Shape
<1>2. /\ us \in Seq(WalkType) /\ us # <<>> /\ Len(us) = Len(walks) - 1
      /\ DOMAIN us = 1 .. Len(walks) - 1 /\ \A i \in DOMAIN us : us[i] = walks[i]
  BY <1>1, TopDropped
<1> HIDE DEF us
<1>3. vs = [us EXCEPT ![Len(us)] = w]
  BY <1>2 DEF us
<1> HIDE DEF vs
<1>4. /\ vs \in Seq(WalkType) /\ vs # <<>> /\ Len(vs) = Len(us) /\ DOMAIN vs = DOMAIN us
      /\ vs[Len(vs)] = w /\ \A i \in DOMAIN us : i # Len(us) => vs[i] = us[i]
  BY <1>2, <1>3, TopReplaced
<1>5. Len(walks) - 1 \in Nat /\ DOMAIN vs = 1 .. Len(walks) - 1 /\ vs[Len(walks) - 1] = w
  BY <1>1, <1>2, <1>4
<1>6. ASSUME NEW i \in DOMAIN vs PROVE i \in DOMAIN walks /\ i # Len(walks)
  BY <1>1, <1>5
<1>7. ASSUME NEW i \in DOMAIN vs, i # Len(walks) - 1 PROVE vs[i] = walks[i]
  BY <1>2, <1>4, <1>7
<1>8. QED BY <1>2, <1>4, <1>5, <1>6, <1>7 DEF vs

\* The ARBNO whose graph the innermost walk runs is done: the walk that waited goes on.
LEMMA PoppedStack ==
    ASSUME PatInv, phase = "run", Len(walks) > 1, UNCHANGED <<case, cfg>>,
           NEW w \in WalkType, w.blk = walks[Len(walks) - 1].blk,
           w.cur \in BlockNodes(w.blk) \cup {NullNode},
           walks' = [SubSeq(walks, 1, Len(walks) - 1) EXCEPT ![Len(walks) - 1] = w],
           \A k \in DOMAIN walks : k > 1 /\ k # Len(walks) =>
                nstate'[walks[k].blk] = 0 /\ Len(posStack'[walks[k].blk]) < ArbnoCap
    PROVE  Stacked'
<1> DEFINE vs == walks'
<1>1. TypeOK /\ walks \in Seq(WalkType) /\ DOMAIN walks = 1 .. Len(walks) /\ Len(walks) \in Nat
  BY Shape DEF PatInv
<1>2. /\ vs \in Seq(WalkType) /\ vs # <<>> /\ DOMAIN vs = 1 .. Len(walks) - 1 /\ vs[Len(walks) - 1] = w
      /\ \A i \in DOMAIN vs : i \in DOMAIN walks /\ i # Len(walks)
      /\ \A i \in DOMAIN vs : i # Len(walks) - 1 => vs[i] = walks[i]
  BY <1>1, Popped
<1> HIDE DEF vs
<1>3. /\ DOMAIN vs = 1 .. Len(walks) - 1 /\ vs[Len(walks) - 1] = w
      /\ \A i \in DOMAIN vs : i \in DOMAIN walks /\ i # Len(walks) /\ vs[i].blk = walks[i].blk
      /\ \A i \in DOMAIN vs : i # Len(walks) - 1 => vs[i] = walks[i]
  BY <1>2
<1>4. ASSUME NEW k \in DOMAIN vs PROVE WalkOK(k)'
  <2>1. k \in DOMAIN walks /\ k # Len(walks) /\ WalkOK(k)
    BY <1>1, <1>3 DEF TypeOK
  <2>2. vs[k].cur \in BlockNodes(vs[k].blk) \cup {NullNode}
    <3>1. CASE k = Len(walks) - 1
      BY <1>3, <3>1
    <3>2. CASE k # Len(walks) - 1
      BY <1>3, <2>1, <3>2 DEF WalkOK
    <3>3. QED BY <3>1, <3>2
  <2>3. k = 1 => vs[k].blk = TopGraph
    BY <1>3, <2>1 DEF WalkOK
  <2>4. ASSUME k > 1
        PROVE  /\ vs[k].blk = vs[k - 1].cur /\ vs[k].blk # NullNode
               /\ G[vs[k].blk].t = "ARBNO" /\ nstate'[vs[k].blk] = 0
    <3>1. k - 1 \in DOMAIN vs /\ k - 1 # Len(walks) - 1
      BY <1>1, <1>3, <2>4
    <3>2. vs[k - 1] = walks[k - 1]
      BY <1>3, <3>1
    <3>3. /\ walks[k].blk = walks[k - 1].cur /\ walks[k].blk # NullNode
          /\ G[walks[k].blk].t = "ARBNO"
      BY <2>1, <2>4 DEF WalkOK
    <3>4. QED BY <1>3, <2>1, <2>4, <3>2, <3>3
  <2>5. QED BY <2>2, <2>3, <2>4, SameMatch DEF WalkOK, vs
<1>5. Nested'
  BY <1>3 DEF PatInv, Nested, vs
<1>6. ASSUME NEW k \in DOMAIN vs, k > 1
      PROVE  vs[k - 1].safety > 0 /\ Len(posStack'[vs[k].blk]) < ArbnoCap
  <2>1. k - 1 \in DOMAIN vs /\ k - 1 # Len(walks) - 1 /\ k \in DOMAIN walks /\ k # Len(walks)
    BY <1>1, <1>3, <1>6
  <2>2. vs[k - 1] = walks[k - 1]
    BY <1>3, <2>1
  <2>3. QED BY <1>3, <1>6, <2>1, <2>2 DEF PatInv, Waits
<1>7. Waits'
  BY <1>6 DEF Waits, vs
<1>8. QED BY <1>2, <1>4, <1>7, <1>5, SameMatch DEF Stacked, vs

\* An ARBNO is entered: a walk of its own graph begins.
LEMMA PushedStack ==
    ASSUME PatInv, phase = "run", Walk.cur # NullNode, G[Walk.cur].t = "ARBNO", Walk.safety > 0,
           UNCHANGED <<case, cfg>>,
           NEW w \in WalkType, w.blk = Walk.cur, w.cur \in BlockNodes(w.blk) \cup {NullNode},
           walks' = Append(walks, w),
           \A k \in DOMAIN walks : k > 1 =>
                nstate'[walks[k].blk] = 0 /\ Len(posStack'[walks[k].blk]) < ArbnoCap,
           nstate'[Walk.cur] = 0, Len(posStack'[Walk.cur]) < ArbnoCap
    PROVE  Stacked'
<1> DEFINE vs == walks'
<1>1. PICK n \in {Len(walks)} : TRUE
  OBVIOUS
<1>2. TypeOK /\ walks \in Seq(WalkType) /\ DOMAIN walks = 1 .. n /\ n \in Nat \ {0} /\ n \in DOMAIN walks
      /\ IsGraph(cfg) /\ Walk.cur \in DOMAIN G /\ G[Walk.cur].blk = Walk.blk /\ Walk = walks[n]
  BY <1>1, Shape, Standing DEF PatInv, Walk
<1>3. /\ vs \in Seq(WalkType) /\ vs # <<>> /\ Len(vs) = n + 1 /\ vs[n + 1] = w
      /\ \A i \in DOMAIN walks : vs[i] = walks[i]
  <2>1. n = Len(walks)
    BY <1>1
  <2>2. QED BY <1>2, <2>1, AppendProperties
<1>4. DOMAIN vs = 1 .. n + 1
  BY <1>3, LenProperties
<1> HIDE DEF vs
<1>5. \A k \in DOMAIN vs : k \in DOMAIN walks \/ k = n + 1
  BY <1>2, <1>4
<1>6. ASSUME NEW k \in DOMAIN walks PROVE WalkOK(k)'
  <2>1. WalkOK(k) /\ vs[k] = walks[k]
    BY <1>2, <1>3 DEF TypeOK
  <2>2. k > 1 => vs[k - 1] = walks[k - 1]
    BY <1>2, <1>3
  <2>3. QED BY <2>1, <2>2, SameMatch DEF WalkOK, vs
<1>7. WalkOK(n + 1)'
  <2>1. vs[n + 1 - 1] = Walk /\ n + 1 > 1 /\ n + 1 # 1
    BY <1>2, <1>3
  <2>2. vs[n + 1].blk = vs[n + 1 - 1].cur /\ vs[n + 1].blk # NullNode
    BY <1>3, <2>1
  <2>3. G[vs[n + 1].blk].t = "ARBNO" /\ nstate'[vs[n + 1].blk] = 0
        /\ vs[n + 1].cur \in BlockNodes(vs[n + 1].blk) \cup {NullNode}
    BY <1>3
  <2>4. QED BY <2>1, <2>2, <2>3, SameMatch DEF WalkOK, vs
<1>8. ASSUME NEW i \in DOMAIN vs, NEW j \in DOMAIN vs, i < j
      PROVE  Len(vs[i].blk) < Len(vs[j].blk)
  <2>1. i \in DOMAIN walks
    BY <1>2, <1>4, <1>8
  <2>2. CASE j \in DOMAIN walks
    BY <1>3, <1>8, <2>1, <2>2 DEF PatInv, Nested
  <2>3. CASE j = n + 1
    <3>1. Len(Walk.blk) < Len(w.blk) /\ Len(Walk.blk) \in Nat /\ Len(w.blk) \in Nat
      BY <1>2, Boxes
    <3>2. i = n \/ i < n
      BY <1>2, <2>1
    <3>3. i < n => Len(walks[i].blk) < Len(Walk.blk)
      BY <1>2, <2>1 DEF PatInv, Nested
    <3>4. Len(walks[i].blk) \in Nat
      <4>1. walks[i].blk \in Seq(Int)
        BY <1>2, <2>1, Shape DEF WalkType
      <4>2. QED BY <4>1, LenProperties
    <3>5. Len(walks[i].blk) < Len(w.blk)
      BY <1>2, <3>1, <3>2, <3>3, <3>4
    <3>6. QED BY <1>3, <2>1, <2>3, <3>5
  <2>4. QED BY <1>5, <2>2, <2>3
<1>9. ASSUME NEW k \in DOMAIN vs, k > 1
      PROVE  vs[k - 1].safety > 0 /\ Len(posStack'[vs[k].blk]) < ArbnoCap
  <2>1. CASE k \in DOMAIN walks
    <3>1. k - 1 \in DOMAIN walks
      BY <1>2, <1>9, <2>1
    <3>2. QED BY <1>3, <1>9, <2>1, <3>1 DEF PatInv, Waits
  <2>2. CASE k = n + 1
    <3>1. k - 1 = n
      BY <1>2, <2>2
    <3>2. QED BY <1>2, <1>3, <2>2, <3>1
  <2>3. QED BY <1>5, <2>1, <2>2
<1>10. Nested' /\ Waits'
  BY <1>8, <1>9 DEF Nested, Waits, vs
<1>11. \A k \in DOMAIN vs : WalkOK(k)'
  BY <1>5, <1>6, <1>7
<1>12. QED BY <1>3, <1>10, <1>11, SameMatch DEF Stacked, vs

-----------------------------------------------------------------------------
(* One box executed.                                                       *)

LEMMA InRun ==
    ASSUME PatInv, phase = "run", UNCHANGED <<case, cfg, phase, start>>, Stacked', delta' \in Cursor,
           DOMAIN nstate' = DOMAIN G, DOMAIN ncount' = DOMAIN G, DOMAIN posStack' = DOMAIN G,
           \A n \in DOMAIN G : NodeOK(n)', Bounded'
    PROVE  PatInv'
<1>1. TypeOK'
  <2>1. case \in Cases /\ cfg = Graph[case.pat] /\ start \in 0 .. Slen + 1
    BY DEF PatInv, TypeOK
  <2>2. walks' \in Seq(WalkType) /\ walks' # <<>> /\ \A k \in DOMAIN walks' : WalkOK(k)'
    BY SameMatch DEF Stacked
  <2>3. QED BY <2>1, <2>2, SameMatch DEF TypeOK, WalkType
<1>2. QED BY <1>1, SameMatch DEF PatInv, Stacked

LEMMA LeftTyped ==
    ASSUME NEW w \in WalkType, w.safety > 0, NEW next \in Seq(Int), NEW fail \in BOOLEAN
    PROVE  /\ Left(w, next, fail) \in WalkType /\ Left(w, next, fail).blk = w.blk
           /\ Left(w, next, fail).cur = next /\ Left(w, next, fail).fail = fail
           /\ Left(w, next, fail).pre = w.pre
<1>1. /\ DOMAIN w = {"blk", "cur", "fail", "pre", "safety"} /\ w.blk \in Seq(Int) /\ w.pre \in Cursor
      /\ w.safety - 1 \in Nat
  BY DEF WalkType
<1>2. QED BY <1>1 DEF Left, WalkType

LEMMA Moved ==
    ASSUME PatInv, phase = "run", Walk.cur # NullNode, Walk.safety > 0,
           NEW next \in PortsOf(nd), NEW fail \in BOOLEAN, NEW d \in Cursor, NEW s, NEW c,
           s \in 0 .. (IF nd.t = "ARBNO" THEN ArbnoCap ELSE 2),
           c \in (IF nd.t \in CountsCursor THEN Cursor ELSE Nat),
           nd.t = "ARBNO" => state # 0 /\ s <= state,
           nd.t = "SPAN" /\ s = 1 => c > 0,
           GoTo(next, fail, d, s, c), UNCHANGED posStack
    PROVE  PatInv'
<1> DEFINE n == Walk.cur
           w == Left(Walk, next, fail)
<1>1. /\ TypeOK /\ IsGraph(cfg) /\ n \in DOMAIN G /\ G[n].blk = Walk.blk /\ nd = G[n]
      /\ Walk \in WalkType /\ state = nstate[n]
  BY Shape, Standing DEF PatInv
<1>2. next \in BlockNodes(Walk.blk) \cup {NullNode} /\ next \in Seq(Int)
  <2>1. next \in BlockNodes(Walk.blk) \cup {NullNode}
    BY <1>1, Boxes
  <2>2. next \in DOMAIN G \cup {NullNode}
    BY <2>1 DEF BlockNodes
  <2>3. NullNode \in Seq(Int)
    BY DEF NullNode
  <2>4. QED BY <1>1, <2>1, <2>2, <2>3, Boxes
<1>3. w \in WalkType /\ w.blk = Walk.blk /\ w.cur = next
  BY <1>1, <1>2, LeftTyped
<1>4. /\ walks' = [walks EXCEPT ![Len(walks)] = w] /\ delta' = d
      /\ nstate' = [nstate EXCEPT ![n] = s] /\ ncount' = [ncount EXCEPT ![n] = c]
      /\ UNCHANGED <<case, cfg, phase, start>>
  BY DEF GoTo
<1> HIDE DEF w
<1>5. ASSUME NEW k \in DOMAIN walks, k > 1
      PROVE  nstate'[walks[k].blk] = 0 /\ Len(posStack'[walks[k].blk]) < ArbnoCap
  <2>1. walks[k].blk # n
    <3>1. Len(walks) \in DOMAIN walks /\ Len(walks) >= k
      BY <1>1, <1>5, Shape, Standing
    <3>2. QED BY <1>1, <1>5, <3>1, Waiting DEF Walk
  <2>2. QED BY <1>4, <1>5, <2>1, Waiting
<1>6. Stacked'
  BY <1>2, <1>3, <1>4, <1>5, SameStack
<1>7. /\ DOMAIN nstate = DOMAIN G /\ DOMAIN ncount = DOMAIN G /\ DOMAIN posStack = DOMAIN G
      /\ \A m \in DOMAIN G : NodeOK(m)
  BY <1>1 DEF TypeOK
<1>8. /\ nstate'[n] = s /\ ncount'[n] = c
      /\ \A m \in DOMAIN G : m # n => nstate'[m] = nstate[m] /\ ncount'[m] = ncount[m]
      /\ DOMAIN nstate' = DOMAIN G /\ DOMAIN ncount' = DOMAIN G
  BY <1>1, <1>4, <1>7
<1>9. ASSUME NEW m \in DOMAIN G PROVE NodeOK(m)'
  <2>1. CASE m = n
    BY <1>1, <1>4, <1>7, <1>8, <2>1, SameMatch DEF NodeOK
  <2>2. CASE m # n
    BY <1>4, <1>7, <1>8, <2>2, SameMatch DEF NodeOK
  <2>3. QED BY <2>1, <2>2
<1>10. Bounded'
  <2>1. ASSUME NEW m \in DOMAIN G, G[m].t = "ARBNO", nstate'[m] > 0
        PROVE  nstate'[m] <= Len(posStack[m]) /\ Len(posStack[m]) <= ArbnoCap
    <3>1. CASE m = n
      <4>1. state \in 0 .. ArbnoCap /\ state # 0 /\ s <= state /\ s \in 0 .. ArbnoCap
        BY <1>1, <1>7, <2>1, <3>1 DEF NodeOK
      <4>2. state <= Len(posStack[n]) /\ Len(posStack[n]) <= ArbnoCap
        BY <1>1, <2>1, <3>1, <4>1 DEF PatInv, Bounded
      <4>3. Len(posStack[n]) \in Nat
        BY <1>1, <1>7, LenProperties DEF NodeOK
      <4>4. s <= Len(posStack[n])
        BY <4>1, <4>2, <4>3, BudgetAssumption
      <4>5. QED BY <1>8, <3>1, <4>2, <4>4
    <3>2. CASE m # n
      BY <1>8, <2>1, <3>2 DEF PatInv, Bounded
    <3>3. QED BY <3>1, <3>2
  <2>2. ASSUME NEW m \in DOMAIN G, G[m].t = "SPAN", nstate'[m] = 1 PROVE ncount'[m] > 0
    <3>1. CASE m = n
      BY <1>1, <1>8, <2>2, <3>1
    <3>2. CASE m # n
      BY <1>8, <2>2, <3>2 DEF PatInv, Bounded
    <3>3. QED BY <3>1, <3>2
  <2>3. QED BY <1>4, <2>1, <2>2, SameMatch DEF Bounded
<1>11. QED BY <1>4, <1>6, <1>7, <1>8, <1>9, <1>10, InRun

\* A run of characters that are, or are not, in a set ends somewhere.
LEMMA RunEnds ==
    ASSUME NEW chars, NEW within, Slen \in Nat, delta \in Cursor
    PROVE  RunEnd(chars, within) \in delta .. Slen
<1> DEFINE R == {ss \in Nat \X Nat : ss[1] < ss[2]}
           Stops(e) == e = Slen \/ (Char(e + 1) \in chars) # within
           T == {i \in Nat : delta + i <= Slen /\ Stops(delta + i)}
           IsEnd(e) == /\ \A k \in delta + 1 .. e : (Char(k) \in chars) = within
                       /\ e < Slen => (Char(e + 1) \in chars) # within
<1>1. delta \in Int /\ delta <= Slen
  BY DEF Cursor
<1> HIDE DEF Stops
<1>2. Slen - delta \in T
  <2>1. Slen - delta \in Nat /\ delta + (Slen - delta) = Slen
    BY <1>1
  <2>2. QED BY <2>1 DEF Stops
<1>3. IsWellFoundedOn(R, Nat)
  BY NatLessThanWellFounded DEF OpToRel
<1>4. PICK i \in T : \A j \in T : ~(<<j, i>> \in R)
  BY <1>2, <1>3, WFMin
<1>5. i \in Nat /\ delta + i \in delta .. Slen /\ Stops(delta + i)
  BY <1>1
<1>6. ASSUME NEW k \in delta + 1 .. delta + i PROVE (Char(k) \in chars) = within
  <2>1. k - 1 - delta \in Nat /\ k - 1 - delta < i /\ delta + (k - 1 - delta) = k - 1
        /\ k - 1 <= Slen /\ k - 1 # Slen /\ k - 1 + 1 = k
    BY <1>1, <1>5
  <2>2. <<k - 1 - delta, i>> \in R
    BY <1>5, <2>1
  <2>3. k - 1 - delta \notin T
    BY <1>4, <2>2
  <2>4. ~Stops(k - 1)
    BY <2>1, <2>3
  <2>5. QED BY <2>1, <2>4 DEF Stops
<1>7. IsEnd(delta + i)
  <2>1. delta + i < Slen => (Char(delta + i + 1) \in chars) # within
    BY <1>1, <1>5 DEF Stops
  <2>2. QED BY <1>6, <2>1
<1> HIDE DEF IsEnd
<1>8. (CHOOSE e \in delta .. Slen : IsEnd(e)) \in delta .. Slen
  BY <1>5, <1>7
<1>9. QED BY <1>8 DEF RunEnd, IsEnd

\* A box that matches one way never leaves the cursor before where it was.
LEMMA Reached ==
    ASSUME PatInv, phase = "run", Walk.cur # NullNode, nd.t \in OneWay, NEW e \in Reach(nd)
    PROVE  /\ e \in Cursor /\ delta <= e
           /\ Noted(nd.t, delta, e, count) \in (IF nd.t \in CountsCursor THEN Cursor ELSE Nat)
<1>1. /\ Slen \in Nat /\ delta \in Cursor /\ IsGraph(cfg) /\ Walk.cur \in DOMAIN G /\ nd = G[Walk.cur]
      /\ count \in (IF nd.t \in CountsCursor THEN Cursor ELSE Nat)
  BY Shape, Standing DEF PatInv, TypeOK, NodeOK
<1>2. /\ nd.t = "LIT" => Len(nd.arg) \in Nat
      /\ nd.t \in {"LEN", "TAB", "RTAB", "POS", "RPOS"} => nd.arg \in Int
  BY <1>1, Boxes
<1>3. RunEnd(nd.arg, FALSE) \in delta .. Slen
  BY <1>1, RunEnds
<1>4. delta \in Int /\ delta <= Slen
  BY <1>1 DEF Cursor
<1>5. e \in Int /\ delta <= e /\ e <= Slen
  <2>1. CASE nd.t = "LIT"
    BY <1>1, <1>2, <1>4, <2>1 DEF Reach, LitReach
  <2>2. CASE nd.t \in {"ANY", "NOTANY"}
    <3>1. e \in AnyReach(nd.arg) \/ e \in NotanyReach(nd.arg)
      BY <2>2 DEF Reach
    <3>2. QED BY <1>1, <1>4, <3>1 DEF AnyReach, NotanyReach
  <2>3. CASE nd.t = "BREAK"
    <3>1. e = RunEnd(nd.arg, FALSE)
      BY <2>3 DEF Reach
    <3>2. e \in delta .. Slen
      BY <1>3, <3>1
    <3>3. QED BY <1>1, <1>4, <3>2
  <2>4. CASE nd.t \in {"LEN", "REM"}
    <3>1. (nd.t = "LEN" /\ e \in LenReach(nd.arg)) \/ e = Slen
      BY <2>4 DEF Reach
    <3>2. QED BY <1>1, <1>2, <1>4, <3>1 DEF LenReach
  <2>5. CASE nd.t \in {"TAB", "RTAB"}
    <3>1. e \in TabReach(nd.arg) \/ e \in TabReach(Slen - nd.arg)
      BY <2>5 DEF Reach
    <3>2. QED BY <1>1, <1>4, <3>1 DEF TabReach
  <2>6. CASE nd.t \in {"POS", "RPOS"}
    <3>1. e \in PosReach(nd.arg) \/ e \in PosReach(Slen - nd.arg)
      BY <2>6 DEF Reach
    <3>2. QED BY <1>1, <1>4, <3>1 DEF PosReach
  <2>7. QED BY <2>1, <2>2, <2>3, <2>4, <2>5, <2>6 DEF OneWay
<1>6. e - delta \in Nat /\ e \in Cursor
  BY <1>4, <1>5 DEF Cursor
<1>7. Noted(nd.t, delta, e, count) \in (IF nd.t \in CountsCursor THEN Cursor ELSE Nat)
  <2>1. CASE nd.t \in {"TAB", "RTAB"}
    BY <1>1, <2>1 DEF Noted, CountsCursor
  <2>2. CASE nd.t \in {"POS", "RPOS", "ANY", "NOTANY"}
    BY <1>1, <2>2 DEF Noted, CountsCursor
  <2>3. CASE nd.t \in {"LIT", "LEN", "REM", "BREAK"}
    BY <1>6, <2>3 DEF Noted, CountsCursor
  <2>4. QED BY <2>1, <2>2, <2>3 DEF OneWay
<1>8. QED BY <1>5, <1>6, <1>7

-----------------------------------------------------------------------------
(* Every step keeps the invariant.                                         *)

\* What the box a walk stands at has noted.
LEMMA BoxTyped ==
    ASSUME PatInv, phase = "run", Walk.cur # NullNode
    PROVE  /\ delta \in Int /\ delta <= Slen /\ Slen \in Nat /\ delta \in Cursor
           /\ state \in 0 .. (IF nd.t = "ARBNO" THEN ArbnoCap ELSE 2)
           /\ count \in (IF nd.t \in CountsCursor THEN Cursor ELSE Nat)
           /\ nd.ga \in PortsOf(nd) /\ nd.om \in PortsOf(nd) /\ nd.al \in PortsOf(nd)
           /\ ncount[Walk.cur] = count /\ nstate[Walk.cur] = state
<1>1. NodeOK(Walk.cur) /\ nd = G[Walk.cur] /\ state = nstate[Walk.cur] /\ count = ncount[Walk.cur]
  BY Standing
<1>2. delta \in Cursor /\ Slen \in Nat
  BY Shape DEF PatInv, TypeOK
<1>3. QED BY <1>1, <1>2 DEF NodeOK, Cursor, PortsOf

LEMMA Stepped ==
    ASSUME PatInv, phase = "run", Walk.cur # NullNode, Walk.safety > 0, nd.t # "ARBNO",
           NEW d \in Cursor, NEW s \in 0 .. 2, NEW c,
           c \in (IF nd.t \in CountsCursor THEN Cursor ELSE Nat), nd.t = "SPAN" /\ s = 1 => c > 0,
           Succeed(d, s, c) \/ Concede(d, s, c), UNCHANGED posStack
    PROVE  PatInv'
<1>1. nd.ga \in PortsOf(nd) /\ nd.om \in PortsOf(nd) /\ TRUE \in BOOLEAN /\ FALSE \in BOOLEAN
  BY DEF PortsOf
<1>2. CASE Succeed(d, s, c)
  <2>1. GoTo(nd.ga, FALSE, d, s, c)
    BY <1>2 DEF Succeed
  <2>2. QED BY <1>1, <2>1, Moved
<1>3. CASE Concede(d, s, c)
  <2>1. GoTo(nd.om, TRUE, d, s, c)
    BY <1>3 DEF Concede
  <2>2. QED BY <1>1, <2>1, Moved
<1>4. QED BY <1>2, <1>3

LEMMA OneWayKeeps ==
    ASSUME PatInv, ExecOneWay \/ RetreatOneWay
    PROVE  PatInv'
<1>1. /\ phase = "run" /\ Walk.cur # NullNode /\ Walk.safety > 0 /\ nd.t \in OneWay
      /\ UNCHANGED posStack
  BY DEF ExecOneWay, RetreatOneWay, At, Keep, nd
<1>2. nd.t \notin {"ARBNO", "SPAN"} /\ (nd.t \in CountsCursor <=> nd.t \in {"TAB", "RTAB"})
  BY <1>1 DEF OneWay, CountsCursor
<1>3. ASSUME NEW e \in Reach(nd), Succeed(e, 1, Noted(nd.t, delta, e, count)) PROVE PatInv'
  <2>1. e \in Cursor /\ Noted(nd.t, delta, e, count) \in (IF nd.t \in CountsCursor THEN Cursor ELSE Nat)
    BY <1>1, Reached
  <2>2. QED BY <1>1, <1>2, <1>3, <2>1, Stepped
<1>4. ASSUME Concede(delta, 0, count) PROVE PatInv'
  <2>1. delta \in Cursor /\ count \in (IF nd.t \in CountsCursor THEN Cursor ELSE Nat)
    BY <1>1, BoxTyped
  <2>2. QED BY <1>1, <1>2, <1>4, <2>1, Stepped
<1>5. CASE RetreatOneWay
  <2> DEFINE d == CASE nd.t \in {"TAB", "RTAB"} -> count
                    [] nd.t \in {"POS", "RPOS"} -> delta
                    [] nd.t \in {"ANY", "NOTANY"} -> delta - 1
                    [] OTHER -> delta - count
  <2>1. d \in Cursor
    <3>1. CASE nd.t \in {"TAB", "RTAB"}
      BY <1>1, <1>2, <3>1, BoxTyped
    <3>2. CASE nd.t \in {"POS", "RPOS"}
      BY <1>1, <3>2, BoxTyped
    <3>3. CASE nd.t \in {"ANY", "NOTANY"}
      BY <1>1, <3>3, BoxTyped DEF Cursor
    <3>4. CASE nd.t \in {"LIT", "LEN", "REM", "BREAK"}
      <4>1. count \in Nat
        BY <1>1, <1>2, <3>4, BoxTyped
      <4>2. delta - count \in Cursor
        BY <1>1, <4>1, BoxTyped DEF Cursor
      <4>3. QED BY <3>4, <4>2
    <3>5. QED BY <1>1, <3>1, <3>2, <3>3, <3>4 DEF OneWay
  <2>2. Concede(d, 0, count)
    BY <1>5 DEF RetreatOneWay
  <2> HIDE DEF d
  <2>3. count \in (IF nd.t \in CountsCursor THEN Cursor ELSE Nat)
    BY <1>1, BoxTyped
  <2>4. QED BY <1>1, <1>2, <2>1, <2>2, <2>3, Stepped
<1>6. CASE ExecOneWay
  BY <1>3, <1>4, <1>6 DEF ExecOneWay
<1>7. QED BY <1>5, <1>6

LEMMA GeneratorKeeps ==
    ASSUME PatInv, ExecSpan \/ ExecArb
    PROVE  PatInv'
<1>1. /\ phase = "run" /\ Walk.cur # NullNode /\ Walk.safety > 0 /\ nd.t \in {"SPAN", "ARB"}
      /\ UNCHANGED posStack
  BY DEF ExecSpan, ExecArb, At, Keep, nd
<1>2. nd.t # "ARBNO" /\ nd.t \notin CountsCursor
  BY <1>1 DEF CountsCursor
<1>3. /\ delta \in Int /\ delta <= Slen /\ Slen \in Nat /\ state \in 0 .. 2 /\ count \in Nat
      /\ nd.ga \in PortsOf(nd) /\ nd.om \in PortsOf(nd)
  BY <1>1, <1>2, BoxTyped
<1>4. ASSUME NEW d \in Int, d <= Slen, NEW s \in 0 .. 2, NEW c \in Nat,
             Succeed(d, s, c) \/ Concede(d, s, c), nd.t = "SPAN" /\ s = 1 => c > 0
      PROVE  PatInv'
  <2>1. d \in Cursor
    BY <1>4 DEF Cursor
  <2>2. QED BY <1>1, <1>2, <1>4, <2>1, Stepped
<1>5. CASE ExecSpan
  <2>1. nd.t = "SPAN" /\ SpanEnd \in delta .. Slen
    BY <1>3, <1>5, RunEnds DEF ExecSpan, At, nd, SpanEnd, Cursor
  <2>2. SpanEnd \in Int /\ SpanEnd <= Slen /\ SpanEnd - delta \in Nat
        /\ (SpanEnd # delta => SpanEnd - delta > 0)
    BY <1>3, <2>1
  <2>3. state = 1 => count > 0
    BY <1>1, <2>1, Standing DEF PatInv, Bounded
  <2>4. CASE state = 0
    <3>1. Concede(delta, 0, count) \/ (SpanEnd # delta /\ Succeed(SpanEnd, 1, SpanEnd - delta))
      BY <1>5, <2>4 DEF ExecSpan
    <3>2. QED BY <1>3, <1>4, <2>2, <3>1
  <2>5. CASE state = 1
    <3>1. \/ Concede(delta - count, 2, count - 1)
          \/ ~(count - 1 < 1) /\ Succeed(delta - 1, 1, count - 1)
      BY <1>5, <2>5 DEF ExecSpan
    <3>2. /\ delta - count \in Int /\ delta - count <= Slen /\ count - 1 \in Nat
          /\ delta - 1 \in Int /\ delta - 1 <= Slen /\ (~(count - 1 < 1) => count - 1 > 0)
      BY <1>3, <2>3, <2>5
    <3>3. QED BY <1>3, <1>4, <3>1, <3>2
  <2>6. CASE state = 2
    <3>1. Concede(delta, state, count)
      BY <1>5, <2>6 DEF ExecSpan
    <3>2. QED BY <1>3, <1>4, <2>6, <3>1
  <2>7. QED BY <1>3, <2>4, <2>5, <2>6
<1>6. CASE ExecArb
  <2>1. nd.t = "ARB"
    BY <1>6 DEF ExecArb, At, nd
  <2>2. /\ state = 0 => Succeed(delta, 1, 0)
        /\ state = 1 => \/ delta + 1 > Slen /\ Concede(delta - count, 2, count + 1)
                        \/ ~(delta + 1 > Slen) /\ Succeed(delta + 1, 1, count + 1)
        /\ state = 2 => Concede(delta, state, count)
    BY <1>6 DEF ExecArb
  <2>3. CASE state = 0
    BY <1>3, <1>4, <2>1, <2>2, <2>3
  <2>4. CASE state = 1
    BY <1>3, <1>4, <2>1, <2>2, <2>4
  <2>5. CASE state = 2
    BY <1>3, <1>4, <2>1, <2>2, <2>5
  <2>6. QED BY <1>3, <2>3, <2>4, <2>5
<1>7. QED BY <1>5, <1>6

LEMMA PlainKeeps ==
    ASSUME PatInv, ExecFence \/ ExecAbort \/ ExecCapture
    PROVE  PatInv'
<1>1. /\ phase = "run" /\ Walk.cur # NullNode /\ Walk.safety > 0
      /\ nd.t \in {"FENCE", "ABORT", "COND", "IMM"} /\ UNCHANGED posStack
  BY DEF ExecFence, ExecAbort, ExecCapture, At, Keep, nd
<1>2. nd.t \notin {"ARBNO", "SPAN"} /\ (nd.t \in CountsCursor <=> nd.t \in {"COND", "IMM"})
  BY <1>1 DEF CountsCursor
<1>3. ASSUME NEW next \in PortsOf(nd), NEW fail \in BOOLEAN, NEW s \in 0 .. 2, NEW c,
             c \in (IF nd.t \in CountsCursor THEN Cursor ELSE Nat), GoTo(next, fail, delta, s, c)
      PROVE  PatInv'
  BY <1>1, <1>2, <1>3, BoxTyped, Moved
<1>4. state \in 0 .. 2 /\ count \in (IF nd.t \in CountsCursor THEN Cursor ELSE Nat) /\ delta \in Cursor
      /\ nd.ga \in PortsOf(nd) /\ nd.om \in PortsOf(nd) /\ nd.al \in PortsOf(nd)
  BY <1>1, <1>2, BoxTyped
<1>5. CASE ExecFence
  <2>1. Succeed(delta, 1, count) \/ Concede(delta, state, count)
    BY <1>5 DEF ExecFence
  <2>2. GoTo(nd.ga, FALSE, delta, 1, count) \/ GoTo(nd.om, TRUE, delta, state, count)
    BY <2>1 DEF Succeed, Concede
  <2>3. 1 \in 0 .. 2 /\ TRUE \in BOOLEAN /\ FALSE \in BOOLEAN
    OBVIOUS
  <2>4. QED BY <1>3, <1>4, <2>2, <2>3
<1>6. CASE ExecAbort
  BY <1>3, <1>4, <1>6 DEF ExecAbort, Concede
<1>7. CASE ExecCapture
  <2>1. nd.t \in CountsCursor
    BY <1>7 DEF ExecCapture, At, CountsCursor, nd
  <2>2. GoTo(nd.al, FALSE, delta, 1, delta) \/ GoTo(nd.ga, FALSE, delta, 0, count)
    BY <1>7 DEF ExecCapture, Succeed
  <2>3. 0 \in 0 .. 2 /\ 1 \in 0 .. 2 /\ FALSE \in BOOLEAN
    OBVIOUS
  <2>4. QED BY <1>3, <1>4, <2>1, <2>2, <2>3
<1>8. QED BY <1>5, <1>6, <1>7

LEMMA DropKeeps ==
    ASSUME PatInv, ArbnoDrop
    PROVE  PatInv'
<1> DEFINE d == IF state > 1 THEN posStack[Walk.cur][state - 1] ELSE count
<1>1. /\ phase = "run" /\ Walk.cur # NullNode /\ Walk.safety > 0 /\ nd.t = "ARBNO" /\ state # 0
      /\ UNCHANGED posStack /\ Succeed(d, state - 1, count)
  BY DEF ArbnoDrop, At, Keep, nd
<1>2. nd.t \in CountsCursor /\ count \in Cursor /\ state \in 0 .. ArbnoCap /\ nd.ga \in PortsOf(nd)
      /\ state = nstate[Walk.cur]
  BY <1>1, BoxTyped DEF CountsCursor
<1>3. d \in Cursor
  <2>1. Walk.cur \in DOMAIN G /\ nd = G[Walk.cur] /\ posStack[Walk.cur] \in Seq(Cursor)
    BY <1>1, Standing DEF NodeOK
  <2>2. state > 0
    BY <1>1, <1>2, BudgetAssumption
  <2>3. state <= Len(posStack[Walk.cur]) /\ Len(posStack[Walk.cur]) \in Nat
    BY <1>1, <1>2, <2>1, <2>2, LenProperties DEF PatInv, Bounded
  <2>4. ASSUME state > 1 PROVE posStack[Walk.cur][state - 1] \in Cursor
    <3>1. state - 1 \in 1 .. Len(posStack[Walk.cur])
      BY <1>2, <2>3, <2>4
    <3>2. QED BY <2>1, <3>1, ElementOfSeq
  <2>5. QED BY <1>2, <2>4
<1> HIDE DEF d
<1>4. state - 1 \in 0 .. ArbnoCap /\ state - 1 <= state
  BY <1>1, <1>2, BudgetAssumption
<1>5. QED BY <1>1, <1>2, <1>3, <1>4, Moved DEF Succeed

LEMMA Budget ==
    ASSUME NEW n \in Nat, NEW m \in Nat, NEW b \in Nat
    PROVE  n * m + b \in Nat
<1>1. n * m \in Nat
  OBVIOUS
<1>2. QED BY <1>1

LEMMA NewWalkTyped ==
    ASSUME TypeOK, NEW blk \in Seq(Int), NEW entry \in Seq(Int)
    PROVE  /\ NewWalk(blk, entry) \in WalkType
           /\ NewWalk(blk, entry).blk = blk /\ NewWalk(blk, entry).cur = entry
           /\ NewWalk(blk, entry).pre = delta
<1>1. IsFiniteSet(DOMAIN G)
  BY Shape DEF IsGraph, G
<1>2. BlockNodes(blk) \subseteq DOMAIN G
  BY DEF BlockNodes
<1>3. Cardinality(BlockNodes(blk)) \in Nat
  BY <1>1, <1>2, FS_Subset, FS_CardinalityType
<1>4. Cardinality(BlockNodes(blk)) * SafetyPerNode + SafetyBase \in Nat
  BY <1>3, Budget, BudgetAssumption
<1>5. delta \in Cursor
  BY DEF TypeOK
<1>6. QED BY <1>4, <1>5 DEF NewWalk, WalkType

LEMMA ResetTyped ==
    ASSUME PatInv, NEW blk, NEW n \in DOMAIN G, G[n].blk = blk, nstate'[n] = 0, ncount'[n] = 0,
           posStack'[n] = posStack[n], UNCHANGED <<case, cfg>>
    PROVE  NodeOK(n)'
<1>1. Slen \in Nat /\ NodeOK(n)
  BY Shape DEF PatInv, TypeOK
<1>2. 0 \in Cursor /\ 0 \in Nat
  BY <1>1 DEF Cursor
<1>3. QED BY <1>1, <1>2, SameMatch, BudgetAssumption DEF NodeOK

LEMMA EnterKeeps ==
    ASSUME PatInv, EnterArbno
    PROVE  PatInv'
<1> DEFINE w == NewWalk(Walk.cur, nd.inner)
<1>1. /\ phase = "run" /\ Walk.cur # NullNode /\ Walk.safety > 0 /\ nd.t = "ARBNO" /\ state = 0
      /\ UNCHANGED <<case, cfg, phase, start, delta>> /\ walks' = Append(walks, w)
      /\ posStack' = [posStack EXCEPT ![Walk.cur] = <<>>]
      /\ nstate' = [n \in DOMAIN G |-> IF G[n].blk = Walk.cur THEN 0 ELSE nstate[n]]
      /\ ncount' = [n \in DOMAIN G |-> IF n = Walk.cur THEN delta
                                       ELSE IF G[n].blk = Walk.cur THEN 0 ELSE ncount[n]]
  BY DEF EnterArbno, At, nd
<1>2. /\ TypeOK /\ IsGraph(cfg) /\ Walk.cur \in DOMAIN G /\ nd = G[Walk.cur] /\ NodeOK(Walk.cur)
      /\ nstate[Walk.cur] = 0 /\ delta \in Cursor
      /\ DOMAIN nstate = DOMAIN G /\ DOMAIN ncount = DOMAIN G /\ DOMAIN posStack = DOMAIN G
      /\ \A n \in DOMAIN G : NodeOK(n)
  BY <1>1, Shape, Standing DEF PatInv, TypeOK
<1>3. /\ Walk.cur \in Seq(Int) /\ nd.inner \in BlockNodes(Walk.cur) /\ nd.inner \in Seq(Int)
      /\ G[Walk.cur].blk # Walk.cur
  <2>1. nd.inner \in BlockNodes(Walk.cur)
    BY <1>1, <1>2, Boxes
  <2>2. nd.inner \in DOMAIN G
    BY <2>1 DEF BlockNodes
  <2>3. QED BY <1>2, <2>1, <2>2, Boxes
<1>4. w \in WalkType /\ w.blk = Walk.cur /\ w.cur = nd.inner
  BY <1>2, <1>3, NewWalkTyped
<1> HIDE DEF w
<1>5. /\ posStack'[Walk.cur] = <<>> /\ Len(posStack'[Walk.cur]) = 0 /\ DOMAIN posStack' = DOMAIN G
      /\ \A n \in DOMAIN G : n # Walk.cur => posStack'[n] = posStack[n]
      /\ nstate'[Walk.cur] = 0 /\ ncount'[Walk.cur] = delta
      /\ \A n \in DOMAIN G : G[n].blk = Walk.cur => nstate'[n] = 0 /\ ncount'[n] = 0
      /\ \A n \in DOMAIN G : G[n].blk # Walk.cur /\ n # Walk.cur =>
                                nstate'[n] = nstate[n] /\ ncount'[n] = ncount[n]
      /\ DOMAIN nstate' = DOMAIN G /\ DOMAIN ncount' = DOMAIN G
  BY <1>1, <1>2, <1>3
<1>6. ASSUME NEW k \in DOMAIN walks, k > 1
      PROVE  nstate'[walks[k].blk] = 0 /\ Len(posStack'[walks[k].blk]) < ArbnoCap
  <2>1. /\ walks[k].blk \in DOMAIN G /\ nstate[walks[k].blk] = 0
        /\ Len(posStack[walks[k].blk]) < ArbnoCap
    BY <1>6, Waiting
  <2>2. 0 < ArbnoCap
    BY BudgetAssumption
  <2>3. QED BY <1>5, <2>1, <2>2
<1>7. Stacked'
  <2>1. 0 < ArbnoCap
    BY BudgetAssumption
  <2>2. QED BY <1>1, <1>2, <1>3, <1>4, <1>5, <1>6, <2>1, PushedStack
<1>8. ASSUME NEW n \in DOMAIN G PROVE NodeOK(n)'
  <2>1. CASE n = Walk.cur
    <3>1. <<>> \in Seq(Cursor) /\ G[n].t = "ARBNO" /\ G[n].t \in CountsCursor
      BY <1>1, <1>2, <2>1, EmptySeq DEF CountsCursor
    <3>2. QED BY <1>1, <1>2, <1>5, <2>1, <3>1, SameMatch, BudgetAssumption DEF NodeOK
  <2>2. CASE n # Walk.cur /\ G[n].blk = Walk.cur
    BY <1>1, <1>5, <2>2, ResetTyped
  <2>3. CASE n # Walk.cur /\ G[n].blk # Walk.cur
    BY <1>1, <1>2, <1>5, <2>3, SameMatch DEF NodeOK
  <2>4. QED BY <2>1, <2>2, <2>3
<1>9. Bounded'
  <2>1. ASSUME NEW n \in DOMAIN G, nstate'[n] # 0
        PROVE  nstate'[n] = nstate[n] /\ ncount'[n] = ncount[n] /\ posStack'[n] = posStack[n]
    BY <1>5, <2>1
  <2>2. QED BY <1>1, <2>1, SameMatch DEF PatInv, Bounded
<1>10. QED BY <1>1, <1>2, <1>5, <1>7, <1>8, <1>9, InRun

\* What one run of the operand of the ARBNO a adds to its positions.
Again == ~Walk.fail /\ delta # Walk.pre
Kept  == IF Again THEN Append(posStack[Walk.blk], delta) ELSE posStack[Walk.blk]

LEMMA Turns ==
    ASSUME PatInv, ArbnoTurn
    PROVE  /\ phase = "run" /\ Len(walks) > 1 /\ Walk.cur = NullNode
           /\ UNCHANGED <<case, cfg, phase, start, delta>>
           /\ posStack' = [posStack EXCEPT ![Walk.blk] = Kept]
           /\ \/ /\ Again /\ Len(Kept) < ArbnoCap /\ bb_reset(Walk.blk)
                 /\ walks' = [walks EXCEPT ![Len(walks)] = NewWalk(Walk.blk, G[Walk.blk].inner)]
              \/ /\ ~(Again /\ Len(Kept) < ArbnoCap)
                 /\ nstate' = [nstate EXCEPT ![Walk.blk] = Len(Kept)] /\ UNCHANGED ncount
                 /\ walks' = [SubSeq(walks, 1, Len(walks) - 1) EXCEPT ![Len(walks) - 1] =
                                  Left(walks[Len(walks) - 1], G[Walk.blk].ga, FALSE)]
BY DEF ArbnoTurn, Again, Kept

LEMMA TurnKeeps ==
    ASSUME PatInv, ArbnoTurn
    PROVE  PatInv'
<1> DEFINE a == Walk.blk
           n == Len(walks)
           o == walks[Len(walks) - 1]
           w == NewWalk(a, G[a].inner)
           u == Left(o, G[a].ga, FALSE)
<1>1. /\ phase = "run" /\ n > 1 /\ UNCHANGED <<case, cfg, phase, start, delta>>
      /\ posStack' = [posStack EXCEPT ![a] = Kept]
      /\ \/ /\ Again /\ Len(Kept) < ArbnoCap /\ bb_reset(a)
            /\ walks' = [walks EXCEPT ![n] = w]
         \/ /\ ~(Again /\ Len(Kept) < ArbnoCap)
            /\ nstate' = [nstate EXCEPT ![a] = Len(Kept)] /\ UNCHANGED ncount
            /\ walks' = [SubSeq(walks, 1, n - 1) EXCEPT ![n - 1] = u]
  BY Turns
<1>2. /\ TypeOK /\ IsGraph(cfg) /\ delta \in Cursor /\ n \in DOMAIN walks /\ n \in Nat
      /\ DOMAIN nstate = DOMAIN G /\ DOMAIN ncount = DOMAIN G /\ DOMAIN posStack = DOMAIN G
      /\ \A m \in DOMAIN G : NodeOK(m)
      /\ \A k \in DOMAIN walks : k <= n /\ k \in Nat
      /\ \A k \in DOMAIN walks : walks[k] \in WalkType
      /\ walks[n] = Walk
  BY <1>1, Shape, Standing DEF PatInv, TypeOK, Walk
<1>3. /\ n - 1 \in DOMAIN walks /\ a = o.cur /\ a \in DOMAIN G /\ G[a].blk = o.blk
      /\ G[a].t = "ARBNO" /\ nstate[a] = 0 /\ o.safety > 0 /\ Len(posStack[a]) < ArbnoCap
  BY <1>1, <1>2, Waiting
<1>4. /\ posStack[a] \in Seq(Cursor) /\ Len(posStack[a]) \in Nat
      /\ a \in Seq(Int) /\ G[a].blk # a /\ G[a].inner \in BlockNodes(a) /\ G[a].inner \in Seq(Int)
  <2>1. posStack[a] \in Seq(Cursor)
    BY <1>2, <1>3 DEF NodeOK
  <2>2. a \in Seq(Int) /\ G[a].blk # a /\ G[a].inner \in BlockNodes(a)
    BY <1>2, <1>3, Boxes
  <2>3. G[a].inner \in DOMAIN G
    BY <2>2 DEF BlockNodes
  <2>4. QED BY <1>2, <2>1, <2>2, <2>3, Boxes, LenProperties
<1>5. Kept \in Seq(Cursor) /\ Len(Kept) \in Nat /\ Len(Kept) <= ArbnoCap
  <2>1. CASE Again
    <3>1. Kept = Append(posStack[a], delta)
      BY <2>1 DEF Kept
    <3>2. Kept \in Seq(Cursor) /\ Len(Kept) = Len(posStack[a]) + 1
      BY <1>2, <1>4, <3>1, AppendProperties
    <3>3. QED BY <1>3, <1>4, <3>2, BudgetAssumption
  <2>2. CASE ~Again
    BY <1>3, <1>4, <2>2, BudgetAssumption DEF Kept
  <2>3. QED BY <2>1, <2>2
<1>6. /\ posStack'[a] = Kept /\ DOMAIN posStack' = DOMAIN G
      /\ \A m \in DOMAIN G : m # a => posStack'[m] = posStack[m]
  BY <1>1, <1>2, <1>3
<1>7. ASSUME NEW k \in DOMAIN walks, k > 1
      PROVE  /\ walks[k].blk \in DOMAIN G /\ nstate[walks[k].blk] = 0
             /\ Len(posStack[walks[k].blk]) < ArbnoCap
             /\ k # n => walks[k].blk # a /\ G[walks[k].blk].blk # a
  <2>1. ASSUME k # n PROVE walks[k].blk # a /\ G[walks[k].blk].blk # a
    <3>1. k - 1 \in DOMAIN walks /\ G[walks[k].blk].blk = walks[k - 1].blk
          /\ Walk.blk # walks[k - 1].blk
      BY <1>2, <1>7, Waiting
    <3>2. k + 1 \in DOMAIN walks /\ k + 1 > 1 /\ n >= k + 1
      BY <1>2, <2>1, Shape
    <3>3. walks[n].blk # walks[k + 1 - 1].blk
      BY <1>2, <3>2, Waiting
    <3>4. QED BY <1>2, <3>1, <3>3
  <2>2. QED BY <1>7, <2>1, Waiting
<1> HIDE DEF a, n, o, w, u
<1>8. CASE Again /\ Len(Kept) < ArbnoCap /\ bb_reset(a) /\ walks' = [walks EXCEPT ![n] = w]
  <2>1. w \in WalkType /\ w.blk = a /\ w.cur = G[a].inner
    BY <1>2, <1>4, NewWalkTyped DEF w
  <2>2. /\ \A m \in DOMAIN G : G[m].blk = a => nstate'[m] = 0 /\ ncount'[m] = 0
        /\ \A m \in DOMAIN G : G[m].blk # a => nstate'[m] = nstate[m] /\ ncount'[m] = ncount[m]
        /\ DOMAIN nstate' = DOMAIN G /\ DOMAIN ncount' = DOMAIN G
    BY <1>8 DEF bb_reset
  <2>3. ASSUME NEW k \in DOMAIN walks, k > 1
        PROVE  nstate'[walks[k].blk] = 0 /\ Len(posStack'[walks[k].blk]) < ArbnoCap
    <3>1. nstate'[walks[k].blk] = 0
      BY <1>7, <2>2, <2>3
    <3>2. CASE k = n
      BY <1>2, <1>6, <1>8, <3>1, <3>2 DEF a
    <3>3. CASE k # n
      BY <1>6, <1>7, <2>3, <3>1, <3>3
    <3>4. QED BY <3>2, <3>3
  <2>4. Stacked'
    BY <1>1, <1>4, <1>8, <2>1, <2>3, SameStack DEF a, n
  <2>5. ASSUME NEW m \in DOMAIN G PROVE NodeOK(m)'
    <3>1. CASE m = a
      BY <1>1, <1>2, <1>4, <1>5, <1>6, <2>2, <3>1, SameMatch DEF NodeOK
    <3>2. CASE m # a /\ G[m].blk = a
      BY <1>1, <1>6, <2>2, <3>2, ResetTyped
    <3>3. CASE m # a /\ G[m].blk # a
      BY <1>1, <1>2, <1>6, <2>2, <3>3, SameMatch DEF NodeOK
    <3>4. QED BY <3>1, <3>2, <3>3
  <2>6. Bounded'
    <3>1. ASSUME NEW m \in DOMAIN G, nstate'[m] # 0
          PROVE  nstate'[m] = nstate[m] /\ ncount'[m] = ncount[m] /\ posStack'[m] = posStack[m]
      BY <1>3, <1>4, <1>6, <2>2, <3>1
    <3>2. QED BY <1>1, <3>1, SameMatch DEF PatInv, Bounded
  <2>7. QED BY <1>1, <1>2, <1>6, <2>2, <2>4, <2>5, <2>6, InRun
<1>9. CASE /\ nstate' = [nstate EXCEPT ![a] = Len(Kept)] /\ UNCHANGED ncount
           /\ walks' = [SubSeq(walks, 1, n - 1) EXCEPT ![n - 1] = u]
  <2>1. G[a].ga \in BlockNodes(o.blk) \cup {NullNode} /\ G[a].ga \in Seq(Int)
    <3>1. G[a].ga \in BlockNodes(o.blk) \cup {NullNode}
      BY <1>2, <1>3, Boxes DEF PortsOf
    <3>2. G[a].ga \in DOMAIN G \cup {NullNode} /\ NullNode \in Seq(Int)
      BY <3>1 DEF BlockNodes, NullNode
    <3>3. QED BY <1>2, <3>1, <3>2, Boxes
  <2>2. u \in WalkType /\ u.blk = o.blk /\ u.cur = G[a].ga
    BY <1>2, <1>3, <2>1, LeftTyped DEF u, o, n
  <2>3. /\ nstate'[a] = Len(Kept) /\ ncount' = ncount /\ DOMAIN nstate' = DOMAIN G
        /\ \A m \in DOMAIN G : m # a => nstate'[m] = nstate[m]
    BY <1>2, <1>3, <1>9
  <2>4. ASSUME NEW k \in DOMAIN walks, k > 1 /\ k # n
        PROVE  nstate'[walks[k].blk] = 0 /\ Len(posStack'[walks[k].blk]) < ArbnoCap
    BY <1>6, <1>7, <2>3, <2>4
  <2>5. Stacked'
    BY <1>1, <1>9, <2>1, <2>2, <2>4, PoppedStack DEF n, o
  <2>6. ASSUME NEW m \in DOMAIN G PROVE NodeOK(m)'
    <3>1. CASE m = a
      BY <1>1, <1>2, <1>3, <1>5, <1>6, <2>3, <3>1, SameMatch DEF NodeOK
    <3>2. CASE m # a
      BY <1>1, <1>2, <1>6, <2>3, <3>2, SameMatch DEF NodeOK
    <3>3. QED BY <3>1, <3>2
  <2>7. Bounded'
    <3>1. ASSUME NEW m \in DOMAIN G, m # a
          PROVE  nstate'[m] = nstate[m] /\ ncount'[m] = ncount[m] /\ posStack'[m] = posStack[m]
      BY <1>6, <2>3, <3>1
    <3>2. nstate'[a] <= Len(posStack'[a]) /\ Len(posStack'[a]) <= ArbnoCap /\ G[a].t # "SPAN"
      BY <1>3, <1>5, <1>6, <2>3
    <3>3. QED BY <1>1, <3>1, <3>2, SameMatch DEF PatInv, Bounded
  <2>8. QED BY <1>1, <1>2, <1>6, <2>3, <2>5, <2>6, <2>7, InRun
<1>10. QED BY <1>1, <1>8, <1>9

LEMMA SafetyKeeps ==
    ASSUME PatInv, OutOfSafety
    PROVE  PatInv'
<1> DEFINE w == [Walk EXCEPT !.cur = NullNode, !.fail = TRUE]
<1>1. /\ phase = "run" /\ UNCHANGED <<case, cfg, phase, start, delta, nstate, ncount, posStack>>
      /\ walks' = [walks EXCEPT ![Len(walks)] = w]
  BY DEF OutOfSafety, Walk
<1>2. w \in WalkType /\ w.blk = Walk.blk /\ w.cur = NullNode
  <2>1. Walk \in WalkType /\ NullNode \in Seq(Int)
    BY <1>1, Standing DEF NullNode
  <2>2. DOMAIN Walk = {"blk", "cur", "fail", "pre", "safety"}
    BY <2>1 DEF WalkType
  <2>3. QED BY <2>1, <2>2 DEF WalkType
<1> HIDE DEF w
<1>3. \A k \in DOMAIN walks : k > 1 => nstate'[walks[k].blk] = 0 /\ Len(posStack'[walks[k].blk]) < ArbnoCap
  BY <1>1, Waiting
<1>4. Stacked'
  BY <1>1, <1>2, <1>3, SameStack
<1>5. /\ (\A n \in DOMAIN G : NodeOK(n)') /\ Bounded' /\ delta' \in Cursor
      /\ DOMAIN nstate' = DOMAIN G /\ DOMAIN ncount' = DOMAIN G /\ DOMAIN posStack' = DOMAIN G
  BY <1>1, SameMatch DEF PatInv, TypeOK, NodeOK, Bounded
<1>6. QED BY <1>1, <1>4, <1>5, InRun

LEMMA TryKeeps ==
    ASSUME PatInv, TryStart
    PROVE  PatInv'
<1> DEFINE w == [NewWalk(TopGraph, cfg.entry) EXCEPT !.pre = start]
<1>1. /\ start <= max_start /\ phase' = "run" /\ delta' = start /\ bb_reset(TopGraph)
      /\ walks' = <<w>> /\ UNCHANGED <<case, cfg, start, posStack>>
  BY DEF TryStart
<1>2. /\ TypeOK /\ IsGraph(cfg) /\ Slen \in Nat /\ start \in 0 .. Slen + 1
      /\ DOMAIN nstate = DOMAIN G /\ DOMAIN ncount = DOMAIN G /\ DOMAIN posStack = DOMAIN G
      /\ \A n \in DOMAIN G : NodeOK(n)
  BY Shape DEF PatInv, TypeOK
<1>3. start <= Slen /\ start \in Cursor
  BY <1>1, <1>2 DEF max_start, Cursor
<1>4. /\ cfg.entry \in BlockNodes(TopGraph) /\ cfg.entry \in Seq(Int) /\ TopGraph \in Seq(Int)
  <2>1. cfg.entry \in BlockNodes(TopGraph)
    BY <1>2 DEF IsGraph, BoxesOf, BlockNodes, G
  <2>2. cfg.entry \in DOMAIN G /\ TopGraph \in Seq(Int)
    BY <2>1, EmptySeq DEF BlockNodes, TopGraph
  <2>3. QED BY <1>2, <2>1, <2>2, Boxes
<1>5. w \in WalkType /\ w.blk = TopGraph /\ w.cur = cfg.entry
  <2>1. /\ NewWalk(TopGraph, cfg.entry) \in WalkType
        /\ NewWalk(TopGraph, cfg.entry).blk = TopGraph /\ NewWalk(TopGraph, cfg.entry).cur = cfg.entry
    BY <1>2, <1>4, NewWalkTyped
  <2>2. DOMAIN NewWalk(TopGraph, cfg.entry) = {"blk", "cur", "fail", "pre", "safety"}
    BY DEF NewWalk
  <2>3. QED BY <1>3, <2>1, <2>2 DEF WalkType
<1> HIDE DEF w
<1>6. walks' \in Seq(WalkType) /\ walks' # <<>> /\ DOMAIN walks' = {1} /\ walks'[1] = w
  BY <1>1, <1>5
<1>7. ASSUME NEW k \in DOMAIN walks' PROVE WalkOK(k)'
  BY <1>1, <1>4, <1>5, <1>6, SameMatch DEF WalkOK
<1>8. Nested' /\ Waits'
  BY <1>6 DEF Nested, Waits
<1>9. /\ \A n \in DOMAIN G : G[n].blk = TopGraph => nstate'[n] = 0 /\ ncount'[n] = 0
      /\ \A n \in DOMAIN G : G[n].blk # TopGraph => nstate'[n] = nstate[n] /\ ncount'[n] = ncount[n]
      /\ DOMAIN nstate' = DOMAIN G /\ DOMAIN ncount' = DOMAIN G
  BY <1>1 DEF bb_reset
<1>10. ASSUME NEW n \in DOMAIN G PROVE NodeOK(n)'
  <2>1. CASE G[n].blk = TopGraph
    BY <1>1, <1>9, <2>1, ResetTyped
  <2>2. CASE G[n].blk # TopGraph
    BY <1>1, <1>2, <1>9, <2>2, SameMatch DEF NodeOK
  <2>3. QED BY <2>1, <2>2
<1>11. Bounded'
  <2>1. ASSUME NEW n \in DOMAIN G, nstate'[n] # 0
        PROVE  nstate'[n] = nstate[n] /\ ncount'[n] = ncount[n] /\ posStack'[n] = posStack[n]
    BY <1>1, <1>9, <2>1
  <2>2. QED BY <1>1, <2>1, SameMatch DEF PatInv, Bounded
<1>12. TypeOK'
  <2>1. case \in Cases /\ cfg = Graph[case.pat]
    BY DEF PatInv, TypeOK
  <2>2. QED BY <1>1, <1>2, <1>3, <1>6, <1>7, <1>9, <1>10, <2>1, SameMatch DEF TypeOK, WalkType
<1>13. QED BY <1>1, <1>3, <1>8, <1>11, <1>12, SameMatch DEF PatInv

LEMMA EndKeeps ==
    ASSUME PatInv, NoMatch \/ EndAttempt
    PROVE  PatInv'
<1>1. /\ UNCHANGED <<case, cfg, delta, nstate, ncount, posStack>> /\ walks' = <<>>
      /\ phase' \in {"scan", "done"} /\ start' \in {start, start + 1}
      /\ start' # start => start <= Slen
  <2>1. CASE NoMatch
    <3>1. phase = "scan" /\ walks = <<>>
      BY <2>1 DEF NoMatch, PatInv, TypeOK
    <3>2. QED BY <2>1, <3>1 DEF NoMatch
  <2>2. CASE EndAttempt
    BY <2>2 DEF EndAttempt, PatInv
  <2>3. QED BY <2>1, <2>2
<1>2. start' \in 0 .. Slen + 1
  BY <1>1, Shape DEF PatInv, TypeOK
<1>3. walks' \in Seq(WalkType) /\ DOMAIN walks' = {}
  BY <1>1, EmptySeq
<1>4. \A n \in DOMAIN G : NodeOK(n)'
  BY <1>1, SameMatch DEF PatInv, TypeOK, NodeOK
<1>5. TypeOK'
  BY <1>1, <1>2, <1>3, <1>4, SameMatch DEF PatInv, TypeOK, WalkType
<1>6. Nested' /\ Waits'
  BY <1>3 DEF Nested, Waits
<1>7. Bounded'
  BY <1>1, SameMatch DEF PatInv, Bounded
<1>8. QED BY <1>1, <1>5, <1>6, <1>7, SameMatch DEF PatInv

LEMMA Initially ==
    ASSUME Init
    PROVE  PatInv
<1>1. case \in Cases /\ cfg = Graph[case.pat] /\ Slen \in Nat
  BY MatchAssumption DEF Init, Slen, subj
<1>2. 0 \in Cursor /\ 0 \in Nat /\ <<>> \in Seq(Cursor)
  BY <1>1, EmptySeq DEF Cursor
<1>3. walks = <<>> /\ DOMAIN walks = {} /\ walks \in Seq(WalkType)
  BY EmptySeq DEF Init
<1>4. /\ \A n \in DOMAIN G : nstate[n] = 0 /\ ncount[n] = 0 /\ posStack[n] = <<>>
      /\ DOMAIN nstate = DOMAIN G /\ DOMAIN ncount = DOMAIN G /\ DOMAIN posStack = DOMAIN G
  BY DEF Init
<1>5. ASSUME NEW n \in DOMAIN G PROVE NodeOK(n)
  <2>1. 0 \in 0 .. (IF G[n].t = "ARBNO" THEN ArbnoCap ELSE 2)
    BY BudgetAssumption
  <2>2. QED BY <1>2, <1>4, <2>1 DEF NodeOK
<1>6. phase = "scan" /\ start = 0 /\ delta = 0
  BY DEF Init
<1>7. TypeOK
  BY <1>1, <1>2, <1>3, <1>4, <1>5, <1>6 DEF TypeOK, WalkType
<1>8. Nested /\ Waits /\ Bounded
  BY <1>3, <1>4 DEF Nested, Waits, Bounded
<1>9. QED BY <1>6, <1>7, <1>8 DEF PatInv

LEMMA StepKeeps ==
    ASSUME PatInv, [Next]_vars
    PROVE  PatInv'
<1>1. CASE UNCHANGED vars
  BY <1>1, SameMatch DEF vars, PatInv, TypeOK, WalkOK, NodeOK, Nested, Waits, Bounded, WalkType
<1>2. CASE Next
  BY <1>2, OneWayKeeps, GeneratorKeeps, PlainKeeps, DropKeeps, EnterKeeps, TurnKeeps, SafetyKeeps,
     TryKeeps, EndKeeps DEF Next
<1>3. QED BY <1>1, <1>2

\* The state of the engine is well typed whatever patterns are composed, steady or not: the
\* positions, states and walks of bb_exec_once and its ARBNO stay in range, and no box moves the
\* cursor past the end of the subject.
THEOREM StateIsTyped == Spec => []TypeOK
<1>1. Init => PatInv
  BY Initially
<1>2. PatInv /\ [Next]_vars => PatInv'
  BY StepKeeps
<1>3. PatInv => TypeOK
  BY DEF PatInv
<1>4. QED BY <1>1, <1>2, <1>3, PTL DEF Spec

-----------------------------------------------------------------------------
(* Steady patterns.                                                        *)

\* The boxes of a graph that control can still come to from a port, and from where n succeeded to.
Ahead(blk, port) == Beyond(ClosedSets(G, blk), port)
After(n) == Ahead(G[n].blk, G[n].ga)

\* A box that moves the cursor when it is entered again.
Live(n) == /\ G[n].t \in Movers
           /\ IF G[n].t \in {"SPAN", "ARB"} THEN nstate[n] = 1 ELSE nstate[n] # 0

\* Control stands beyond every box that would move the cursor.
Passed(k) == walks[k].cur # NullNode =>
    \A n \in BlockNodes(walks[k].blk) : Live(n) => walks[k].cur \in After(n)

\* An ARBNO goes back to where it began at most, and that is beyond where its walk did.
Rises(from, kept) == Ascends(from, kept) /\ \A i \in 1 .. Len(kept) : from < kept[i]
Holds(n) == G[n].t = "ARBNO" /\ nstate[n] > 0
From(k) == start <= walks[k].pre /\ \A n \in BlockNodes(walks[k].blk) : Holds(n) => walks[k].pre <= ncount[n]

\* A run of the operand of an ARBNO begins where the one before it ended.
Latest(a) == IF posStack[a] = <<>> THEN ncount[a] ELSE posStack[a][Len(posStack[a])]
Begun(k) == k > 1 => /\ walks[k - 1].pre <= ncount[walks[k].blk]
                     /\ Rises(ncount[walks[k].blk], posStack[walks[k].blk])
                     /\ walks[k].pre = Latest(walks[k].blk)

\* A span or an ARB that control can come back to takes the cursor back to no earlier than the
\* walk began.
Anchored == \A n \in BlockNodes(Walk.blk) :
    Live(n) /\ G[n].t \in {"SPAN", "ARB"} /\ n \in Ahead(Walk.blk, Walk.cur) => Walk.pre <= delta - ncount[n]

SteadyInv ==
    /\ \A n \in DOMAIN G : Holds(n) => Rises(ncount[n], posStack[n])
    /\ \A k \in DOMAIN walks : Passed(k) /\ From(k) /\ Begun(k)
    /\ phase = "run" => Walk.pre <= delta /\ Anchored

\* A port of a box leads no further than the box itself.
LEMMA AheadOwn ==
    ASSUME IsGraph(cfg), NEW n \in DOMAIN G
    PROVE  n \in Ahead(G[n].blk, n)
<1> DEFINE B == BoxesOf(G, G[n].blk)
           Cs == ClosedSets(G, G[n].blk)
<1>1. n \in B /\ n # NullNode
  BY Boxes DEF BoxesOf
<1>2. ASSUME NEW m \in B PROVE PortsOf(G[m]) \ {NullNode} \subseteq B
  BY <1>2, Boxes DEF BoxesOf, BlockNodes
<1>3. B \in Cs
  BY <1>2 DEF ClosedSets
<1>4. n \in UNION Cs
  BY <1>1, <1>3
<1> HIDE DEF Cs
<1>5. n \in Beyond(Cs, n)
  BY <1>1, <1>4 DEF Beyond
<1>6. QED BY <1>5 DEF Ahead, Cs

LEMMA AheadOn ==
    ASSUME NEW blk, NEW port, NEW n \in Ahead(blk, port), NEW q \in PortsOf(G[n]), q # NullNode
    PROVE  q \in Ahead(blk, port)
<1> DEFINE Cs == ClosedSets(G, blk)
<1>1. port # NullNode /\ n \in UNION Cs /\ \A C \in Cs : port \in C => n \in C
  BY DEF Ahead, Beyond
<1>2. ASSUME NEW C \in Cs, n \in C PROVE q \in C
  BY <1>2 DEF ClosedSets
<1> HIDE DEF Cs
<1>3. q \in UNION Cs
  BY <1>1, <1>2
<1>4. q \in Beyond(Cs, port)
  BY <1>1, <1>2, <1>3 DEF Beyond
<1>5. QED BY <1>4 DEF Ahead, Cs

LEMMA AheadBack ==
    ASSUME NEW blk, NEW n, n # NullNode, NEW q \in PortsOf(G[n]), NEW m \in Ahead(blk, q)
    PROVE  m \in Ahead(blk, n)
<1> DEFINE Cs == ClosedSets(G, blk)
<1>1. q # NullNode /\ m \in UNION Cs /\ \A C \in Cs : q \in C => m \in C
  BY DEF Ahead, Beyond
<1>2. ASSUME NEW C \in Cs, n \in C PROVE q \in C
  BY <1>1, <1>2 DEF ClosedSets
<1> HIDE DEF Cs
<1>3. m \in Beyond(Cs, n)
  BY <1>1, <1>2 DEF Beyond
<1>4. QED BY <1>3 DEF Ahead, Cs

LEMMA SteadyMeans ==
    ASSUME IsGraph(cfg), Steady(G), NEW n \in DOMAIN G, G[n].t \in Movers
    PROVE  /\ G[n].t \notin Resumable => n \notin After(n)
           /\ \A m \in After(n) : m \in DOMAIN G /\ G[m].blk = G[n].blk
           /\ \A m \in After(n) : m # n /\ G[m].t \in Movers =>
                /\ n \notin After(m)
                /\ G[m].t \in Resumable => n \notin Ahead(G[n].blk, G[m].om)
<1> DEFINE Cs == ClosedSets(G, G[n].blk)
<1>1. SteadyBoxes(G, Cs)
  BY DEF Steady
<1>2. n \in UNION Cs
  BY AheadOwn, Boxes DEF Ahead, Beyond
<1>3. \A m \in After(n) : m \in DOMAIN G /\ G[m].blk = G[n].blk
  BY DEF After, Ahead, Beyond, ClosedSets, BoxesOf
<1> HIDE DEF Cs
<1>4. /\ G[n].t \notin Resumable => n \notin Beyond(Cs, G[n].ga)
      /\ \A m \in Beyond(Cs, G[n].ga) : m # n /\ G[m].t \in Movers =>
            /\ n \notin Beyond(Cs, G[m].ga)
            /\ G[m].t \in Resumable => n \notin Beyond(Cs, G[m].om)
  BY <1>1, <1>2 DEF SteadyBoxes
<1>5. QED BY <1>3, <1>4 DEF After, Ahead, Cs

-----------------------------------------------------------------------------
(* In a steady pattern every step keeps the cursor and the positions.      *)

LEMMA SameGraph ==
    ASSUME UNCHANGED <<case, cfg>>
    PROVE  /\ \A blk, port : Ahead(blk, port)' = Ahead(blk, port)
           /\ \A n : After(n)' = After(n)
BY DEF Ahead, After, G

\* The innermost walk moves within its graph.
LEMMA MovedSteady ==
    ASSUME PatInv, SteadyInv, Steady(G), phase = "run", Walk.cur # NullNode, Walk.safety > 0,
           NEW next \in PortsOf(nd), NEW fail \in BOOLEAN, NEW d \in Int, NEW s, NEW c,
           GoTo(next, fail, d, s, c), UNCHANGED posStack,
           Walk.pre <= d,
           d = delta \/ (nd.t \in Movers /\ (next = nd.ga \/ (nd.t \in Resumable /\ next = nd.om))),
           nd.t \in Movers /\ (IF nd.t \in {"SPAN", "ARB"} THEN s = 1 ELSE s # 0) => next = nd.ga,
           nd.t \in {"SPAN", "ARB"} /\ s = 1 => Walk.pre <= d - c,
           nd.t = "ARBNO" => state > 0 /\ c = count
    PROVE  SteadyInv'
<1> DEFINE w == Left(Walk, next, fail)
           vs == walks'
<1>1. PICK n \in {Walk.cur} : TRUE
  OBVIOUS
<1>2. /\ n = Walk.cur /\ TypeOK /\ IsGraph(cfg) /\ n \in DOMAIN G /\ G[n].blk = Walk.blk /\ nd = G[n]
      /\ Walk \in WalkType /\ state = nstate[n] /\ count = ncount[n] /\ n # NullNode
      /\ walks \in Seq(WalkType) /\ walks # <<>> /\ Len(walks) \in DOMAIN walks
      /\ DOMAIN walks = 1 .. Len(walks) /\ Len(walks) \in Nat
      /\ DOMAIN nstate = DOMAIN G /\ DOMAIN ncount = DOMAIN G
      /\ walks[Len(walks)] = Walk
  BY <1>1, Shape, Standing DEF PatInv, TypeOK, Walk
<1>3. next \in BlockNodes(Walk.blk) \cup {NullNode} /\ next \in Seq(Int)
  <2>1. next \in BlockNodes(Walk.blk) \cup {NullNode}
    BY <1>2, Boxes
  <2>2. next \in DOMAIN G \cup {NullNode} /\ NullNode \in Seq(Int)
    BY <2>1 DEF BlockNodes, NullNode
  <2>3. QED BY <1>2, <2>1, <2>2, Boxes
<1>4. w \in WalkType /\ w.blk = Walk.blk /\ w.cur = next /\ w.pre = Walk.pre
  BY <1>2, <1>3, LeftTyped
<1>5. /\ vs = [walks EXCEPT ![Len(walks)] = w] /\ delta' = d
      /\ nstate' = [nstate EXCEPT ![n] = s] /\ ncount' = [ncount EXCEPT ![n] = c]
      /\ UNCHANGED <<case, cfg, phase, start, posStack>>
  BY <1>2 DEF GoTo
<1> HIDE DEF w, vs
<1>6. /\ Len(vs) = Len(walks) /\ DOMAIN vs = DOMAIN walks /\ vs[Len(walks)] = w
      /\ \A k \in DOMAIN walks : k # Len(walks) => vs[k] = walks[k]
  BY <1>2, <1>4, <1>5, TopReplaced
<1>7. /\ \A k \in DOMAIN walks : vs[k].blk = walks[k].blk /\ vs[k].pre = walks[k].pre
      /\ Walk' = w
  BY <1>2, <1>4, <1>6 DEF Walk, vs
<1>8. /\ nstate'[n] = s /\ ncount'[n] = c
      /\ \A m \in DOMAIN G : m # n => nstate'[m] = nstate[m] /\ ncount'[m] = ncount[m]
  BY <1>2, <1>5
<1>9. /\ G' = G /\ \A blk : BlockNodes(blk)' = BlockNodes(blk)
      /\ \A blk, port : Ahead(blk, port)' = Ahead(blk, port)
      /\ \A m : After(m)' = After(m)
  BY <1>5, SameMatch, SameGraph
<1>10. \A m \in DOMAIN G : m # n => Live(m)' = Live(m) /\ Holds(m)' = Holds(m)
  BY <1>8, <1>9 DEF Live, Holds
<1>11. Live(n)' => next = nd.ga
  BY <1>2, <1>8, <1>9 DEF Live
<1>12. ASSUME NEW m \in DOMAIN G, Holds(m)'
       PROVE  Holds(m) /\ ncount'[m] = ncount[m]
  BY <1>2, <1>8, <1>9, <1>10, <1>12 DEF Holds
<1>13. \A blk : BlockNodes(blk) \subseteq DOMAIN G
  BY DEF BlockNodes
<1>14. ASSUME NEW m \in BlockNodes(Walk.blk), m # n, Live(m)
       PROVE  n \in After(m) /\ G[m].blk = Walk.blk
  BY <1>2, <1>14 DEF SteadyInv, Passed, BlockNodes
<1>15. ASSUME NEW k \in DOMAIN walks PROVE Passed(k)'
  <2>1. CASE k # Len(walks)
    <3>1. vs[k] = walks[k] /\ Passed(k) /\ walks[k].blk # Walk.blk
      <4>1. k + 1 \in DOMAIN walks /\ k + 1 > 1 /\ Len(walks) >= k + 1 /\ k + 1 - 1 = k
        BY <1>2, <2>1
      <4>2. walks[Len(walks)].blk # walks[k + 1 - 1].blk
        BY <1>2, <4>1, Waiting
      <4>3. QED BY <1>2, <1>6, <2>1, <4>1, <4>2 DEF SteadyInv
    <3>2. \A m \in BlockNodes(walks[k].blk) : m # n /\ m \in DOMAIN G
      BY <1>2, <3>1 DEF BlockNodes
    <3>3. QED BY <1>9, <1>10, <3>1, <3>2 DEF Passed, vs
  <2>2. CASE k = Len(walks)
    <3>1. ASSUME next # NullNode, NEW m \in BlockNodes(Walk.blk), Live(m)' PROVE next \in After(m)
      <4>1. CASE m = n
        <5>1. next = nd.ga /\ next \in DOMAIN G /\ G[next].blk = Walk.blk
          BY <1>3, <1>11, <3>1, <4>1 DEF BlockNodes
        <5>2. QED BY <1>2, <4>1, <5>1, AheadOwn DEF After
      <4>2. CASE m # n
        <5>1. n \in After(m)
          BY <1>10, <1>13, <1>14, <3>1, <4>2
        <5>2. QED BY <1>2, <3>1, <5>1, AheadOn DEF After
      <4>3. QED BY <4>1, <4>2
    <3>2. QED BY <1>4, <1>6, <1>9, <2>2, <3>1 DEF Passed, vs
  <2>3. QED BY <2>1, <2>2
<1>16. ASSUME NEW k \in DOMAIN walks PROVE From(k)'
  <2>1. From(k)
    BY <1>16 DEF SteadyInv
  <2>2. QED BY <1>5, <1>7, <1>9, <1>12, <1>13, <2>1 DEF From, vs
<1>17. ASSUME NEW k \in DOMAIN walks PROVE Begun(k)'
  <2>1. CASE k > 1
    <3>1. k - 1 \in DOMAIN walks /\ walks[k].blk \in DOMAIN G /\ walks[k].blk # n
      <4>1. Len(walks) >= k
        BY <1>2, <1>17
      <4>2. k - 1 \in DOMAIN walks /\ walks[k].blk \in DOMAIN G
            /\ G[walks[k].blk].blk = walks[k - 1].blk /\ Walk.blk # walks[k - 1].blk
        BY <1>2, <1>17, <2>1, <4>1, Waiting
      <4>3. QED BY <1>2, <4>2
    <3>2. Begun(k)
      BY <1>17 DEF SteadyInv
    <3>3. QED BY <1>5, <1>7, <1>8, <1>17, <2>1, <3>1, <3>2 DEF Begun, Latest, vs
  <2>2. CASE ~(k > 1)
    BY <2>2 DEF Begun
  <2>3. QED BY <2>1, <2>2
<1>18. Anchored'
  <2>1. ASSUME NEW m \in BlockNodes(Walk.blk), Live(m)', G[m].t \in {"SPAN", "ARB"}, m \in Ahead(Walk.blk, next)
        PROVE  Walk.pre <= d - ncount'[m]
    <3>1. CASE m = n
      BY <1>2, <1>8, <1>9, <2>1, <3>1 DEF Live
    <3>2. CASE m # n
      <4>1. Live(m) /\ m \in DOMAIN G /\ ncount'[m] = ncount[m] /\ n \in After(m) /\ G[m].t \in Movers
        BY <1>8, <1>10, <1>13, <1>14, <2>1, <3>2 DEF Live
      <4>2. CASE d = delta
        <5>1. m \in Ahead(Walk.blk, n)
          BY <1>2, <2>1, AheadBack
        <5>2. QED BY <2>1, <4>1, <4>2, <5>1 DEF SteadyInv, Anchored
      <4>3. CASE nd.t \in Movers /\ (next = nd.ga \/ (nd.t \in Resumable /\ next = nd.om))
        <5>1. m \notin After(n) /\ (nd.t \in Resumable => m \notin Ahead(G[m].blk, nd.om))
          BY <1>2, <3>2, <4>1, <4>3, SteadyMeans
        <5>2. G[m].blk = Walk.blk
          BY <2>1 DEF BlockNodes
        <5>3. QED BY <1>2, <2>1, <4>3, <5>1, <5>2 DEF After
      <4>4. QED BY <4>2, <4>3
    <3>3. QED BY <3>1, <3>2
  <2>2. QED BY <1>4, <1>5, <1>7, <1>9, <2>1 DEF Anchored
<1>19. \A m \in DOMAIN G : Holds(m)' => Rises(ncount'[m], posStack'[m])
  BY <1>5, <1>12 DEF SteadyInv
<1>20. QED BY <1>4, <1>5, <1>6, <1>7, <1>9, <1>15, <1>16, <1>17, <1>18, <1>19 DEF SteadyInv, vs

\* A box that is entered again in a steady pattern is a span, an ARB or an ARBNO.
LEMMA LiveHere ==
    ASSUME PatInv, SteadyInv, Steady(G), phase = "run", Walk.cur # NullNode
    PROVE  /\ Live(Walk.cur) => nd.t \in Resumable
           /\ nd.t \in {"SPAN", "ARB"} /\ state = 1 => Walk.pre <= delta - count
           /\ nd.t = "ARBNO" /\ state > 0 => /\ Walk.pre <= count
                                             /\ Rises(count, posStack[Walk.cur])
<1>1. /\ IsGraph(cfg) /\ Walk.cur \in DOMAIN G /\ G[Walk.cur].blk = Walk.blk /\ nd = G[Walk.cur]
      /\ state = nstate[Walk.cur] /\ count = ncount[Walk.cur] /\ Len(walks) \in DOMAIN walks
      /\ walks[Len(walks)] = Walk
  BY Shape, Standing DEF PatInv, Walk
<1>2. Walk.cur \in BlockNodes(Walk.blk) /\ Passed(Len(walks)) /\ From(Len(walks))
  BY <1>1 DEF BlockNodes, SteadyInv
<1>3. Live(Walk.cur) => Walk.cur \in After(Walk.cur)
  BY <1>1, <1>2 DEF Passed
<1>4. Live(Walk.cur) => nd.t \in Resumable
  BY <1>1, <1>3, SteadyMeans DEF Live
<1>5. Walk.cur \in Ahead(Walk.blk, Walk.cur)
  BY <1>1, AheadOwn
<1>6. nd.t \in {"SPAN", "ARB"} /\ state = 1 => Walk.pre <= delta - count
  BY <1>1, <1>2, <1>5 DEF SteadyInv, Anchored, Live, Movers, Resumable
<1>7. nd.t = "ARBNO" /\ state > 0 => Walk.pre <= count /\ Rises(count, posStack[Walk.cur])
  BY <1>1, <1>2 DEF SteadyInv, From, Holds
<1>8. QED BY <1>4, <1>6, <1>7

LEMMA Bearings ==
    ASSUME PatInv, SteadyInv, phase = "run"
    PROVE  /\ Walk.pre \in Int /\ delta \in Int /\ Slen \in Nat /\ delta <= Slen /\ Walk.pre <= delta
           /\ nd.ga \in PortsOf(nd) /\ nd.om \in PortsOf(nd) /\ nd.al \in PortsOf(nd)
           /\ TRUE \in BOOLEAN /\ FALSE \in BOOLEAN
<1>1. Walk \in WalkType /\ delta \in Cursor /\ Slen \in Nat
  BY Standing, Shape DEF PatInv, TypeOK
<1>2. QED BY <1>1 DEF WalkType, Cursor, PortsOf, SteadyInv

LEMMA OneWaySteady ==
    ASSUME PatInv, SteadyInv, Steady(G), ExecOneWay \/ RetreatOneWay
    PROVE  SteadyInv'
<1>1. /\ phase = "run" /\ Walk.cur # NullNode /\ Walk.safety > 0 /\ nd.t \in OneWay
      /\ UNCHANGED posStack
  BY DEF ExecOneWay, RetreatOneWay, At, Keep, nd
<1>2. /\ nd.t \notin {"ARBNO", "SPAN", "ARB"} /\ nd.t \notin Resumable
      /\ nd.t \notin {"POS", "RPOS"} => nd.t \in Movers
      /\ nd.t \in {"POS", "RPOS"} => nd.t \notin Movers
  BY <1>1 DEF OneWay, Resumable, Movers
<1>3. /\ Walk.pre \in Int /\ delta \in Int /\ Walk.pre <= delta /\ Slen \in Nat /\ delta <= Slen
      /\ nd.ga \in PortsOf(nd) /\ nd.om \in PortsOf(nd) /\ TRUE \in BOOLEAN /\ FALSE \in BOOLEAN
  BY <1>1, Bearings
<1>4. ASSUME NEW e \in Reach(nd), Succeed(e, 1, Noted(nd.t, delta, e, count)) PROVE SteadyInv'
  <2>1. e \in Int /\ delta <= e
    BY <1>1, Reached DEF Cursor
  <2>2. ASSUME nd.t \in {"POS", "RPOS"} PROVE e = delta
    <3>1. e \in PosReach(nd.arg) \/ e \in PosReach(Slen - nd.arg)
      BY <2>2 DEF Reach
    <3>2. QED BY <3>1 DEF PosReach
  <2>3. Walk.pre <= e
    BY <1>3, <2>1
  <2>4. GoTo(nd.ga, FALSE, e, 1, Noted(nd.t, delta, e, count))
    BY <1>4 DEF Succeed
  <2>5. QED BY <1>1, <1>2, <1>3, <2>1, <2>2, <2>3, <2>4, MovedSteady
<1>5. ASSUME NEW c, GoTo(nd.om, TRUE, delta, 0, c) PROVE SteadyInv'
  BY <1>1, <1>2, <1>3, <1>5, MovedSteady
<1>6. CASE ExecOneWay
  BY <1>4, <1>5, <1>6 DEF ExecOneWay, Concede
<1>7. CASE RetreatOneWay
  <2>1. nd.t \in {"POS", "RPOS"}
    <3>1. ~Live(Walk.cur) /\ nd = G[Walk.cur] /\ state = nstate[Walk.cur] /\ state # 0
      BY <1>1, <1>2, <1>7, LiveHere, Standing DEF RetreatOneWay
    <3>2. nd.t \notin Movers
      BY <1>2, <3>1 DEF Live
    <3>3. QED BY <1>2, <3>2
  <2>2. Concede(delta, 0, count)
    BY <1>7, <2>1 DEF RetreatOneWay
  <2>3. QED BY <1>5, <2>2 DEF Concede
<1>8. QED BY <1>6, <1>7

LEMMA GeneratorSteady ==
    ASSUME PatInv, SteadyInv, Steady(G), ExecSpan \/ ExecArb
    PROVE  SteadyInv'
<1>1. /\ phase = "run" /\ Walk.cur # NullNode /\ Walk.safety > 0 /\ nd.t \in {"SPAN", "ARB"}
      /\ UNCHANGED posStack
  BY DEF ExecSpan, ExecArb, At, Keep, nd
<1>2. nd.t \in Movers /\ nd.t \in Resumable /\ nd.t # "ARBNO" /\ nd.t \notin CountsCursor
  BY <1>1 DEF Resumable, Movers, CountsCursor
<1>3. /\ Walk.pre \in Int /\ delta \in Int /\ Walk.pre <= delta /\ Slen \in Nat /\ delta <= Slen
      /\ nd.ga \in PortsOf(nd) /\ nd.om \in PortsOf(nd) /\ TRUE \in BOOLEAN /\ FALSE \in BOOLEAN
      /\ state \in 0 .. 2 /\ count \in Nat /\ (state = 1 => Walk.pre <= delta - count)
  BY <1>1, <1>2, Bearings, BoxTyped, LiveHere
<1>4. ASSUME NEW d \in Int, NEW c \in Int, Succeed(d, 1, c), Walk.pre <= d, Walk.pre <= d - c PROVE SteadyInv'
  <2>1. GoTo(nd.ga, FALSE, d, 1, c)
    BY <1>4 DEF Succeed
  <2>2. QED BY <1>1, <1>2, <1>3, <1>4, <2>1, MovedSteady
<1>5. ASSUME NEW d \in Int, NEW c \in Int, NEW s \in {0, 2}, Concede(d, s, c), Walk.pre <= d PROVE SteadyInv'
  <2>1. GoTo(nd.om, TRUE, d, s, c)
    BY <1>5 DEF Concede
  <2>2. s # 1
    OBVIOUS
  <2>3. QED BY <1>1, <1>2, <1>3, <1>5, <2>1, <2>2, MovedSteady
<1>6. CASE ExecSpan
  <2>1. nd.t = "SPAN" /\ SpanEnd \in delta .. Slen
    BY <1>3, <1>6, RunEnds DEF ExecSpan, At, nd, SpanEnd, Cursor
  <2>2. state = 1 => count > 0
    BY <1>1, <2>1, Standing DEF PatInv, Bounded
  <2>3. CASE state = 0
    <3>1. Concede(delta, 0, count) \/ Succeed(SpanEnd, 1, SpanEnd - delta)
      BY <1>6, <2>3 DEF ExecSpan
    <3>2. SpanEnd \in Int /\ SpanEnd - delta \in Int /\ Walk.pre <= SpanEnd /\ Walk.pre <= SpanEnd - (SpanEnd - delta)
      BY <1>3, <2>1
    <3>3. QED BY <1>3, <1>4, <1>5, <3>1, <3>2
  <2>4. CASE state = 1
    <3>1. Concede(delta - count, 2, count - 1) \/ Succeed(delta - 1, 1, count - 1)
      BY <1>6, <2>4 DEF ExecSpan
    <3>2. /\ delta - count \in Int /\ count - 1 \in Int /\ delta - 1 \in Int
          /\ Walk.pre <= delta - count /\ Walk.pre <= delta - 1 /\ Walk.pre <= delta - 1 - (count - 1)
      BY <1>3, <2>2, <2>4
    <3>3. CASE Concede(delta - count, 2, count - 1)
      BY <1>5, <3>2, <3>3
    <3>4. CASE Succeed(delta - 1, 1, count - 1)
      BY <1>4, <3>2, <3>4
    <3>5. QED BY <3>1, <3>3, <3>4
  <2>5. CASE state = 2
    <3>1. Concede(delta, 2, count)
      BY <1>6, <2>5 DEF ExecSpan
    <3>2. QED BY <1>3, <1>5, <3>1
  <2>6. QED BY <1>3, <2>3, <2>4, <2>5
<1>7. CASE ExecArb
  <2>1. CASE state = 0
    <3>1. Succeed(delta, 1, 0)
      BY <1>7, <2>1 DEF ExecArb
    <3>2. Walk.pre <= delta - 0
      BY <1>3
    <3>3. QED BY <1>3, <1>4, <3>1, <3>2
  <2>2. CASE state = 1
    <3>1. Concede(delta - count, 2, count + 1) \/ Succeed(delta + 1, 1, count + 1)
      BY <1>7, <2>2 DEF ExecArb
    <3>2. /\ delta - count \in Int /\ count + 1 \in Int /\ delta + 1 \in Int
          /\ Walk.pre <= delta - count /\ Walk.pre <= delta + 1 /\ Walk.pre <= delta + 1 - (count + 1)
      BY <1>3, <2>2
    <3>3. CASE Concede(delta - count, 2, count + 1)
      BY <1>5, <3>2, <3>3
    <3>4. CASE Succeed(delta + 1, 1, count + 1)
      BY <1>3, <1>4, <3>2, <3>4
    <3>5. QED BY <3>1, <3>3, <3>4
  <2>3. CASE state = 2
    <3>1. Concede(delta, 2, count)
      BY <1>7, <2>3 DEF ExecArb
    <3>2. QED BY <1>3, <1>5, <3>1
  <2>4. QED BY <1>3, <2>1, <2>2, <2>3
<1>8. QED BY <1>6, <1>7

LEMMA PlainSteady ==
    ASSUME PatInv, SteadyInv, Steady(G), ExecFence \/ ExecAbort \/ ExecCapture
    PROVE  SteadyInv'
<1>1. /\ phase = "run" /\ Walk.cur # NullNode /\ Walk.safety > 0
      /\ nd.t \in {"FENCE", "ABORT", "COND", "IMM"} /\ UNCHANGED posStack
  BY DEF ExecFence, ExecAbort, ExecCapture, At, Keep, nd
<1>2. nd.t \notin Movers /\ nd.t \notin {"SPAN", "ARB"} /\ nd.t # "ARBNO"
  BY <1>1 DEF Movers, Resumable
<1>3. /\ delta \in Int /\ Walk.pre <= delta /\ TRUE \in BOOLEAN /\ FALSE \in BOOLEAN
      /\ nd.ga \in PortsOf(nd) /\ nd.om \in PortsOf(nd) /\ nd.al \in PortsOf(nd)
  BY <1>1, Bearings
<1>4. ASSUME NEW next \in PortsOf(nd), NEW fail \in BOOLEAN, NEW s, NEW c, GoTo(next, fail, delta, s, c)
      PROVE  SteadyInv'
  BY <1>1, <1>2, <1>3, <1>4, MovedSteady
<1>5. \/ GoTo(nd.ga, FALSE, delta, 1, count) \/ GoTo(nd.om, TRUE, delta, state, count)
      \/ GoTo(nd.al, FALSE, delta, 1, delta) \/ GoTo(nd.ga, FALSE, delta, 0, count)
  BY DEF ExecFence, ExecAbort, ExecCapture, Succeed, Concede
<1>6. QED BY <1>3, <1>4, <1>5

LEMMA DropSteady ==
    ASSUME PatInv, SteadyInv, Steady(G), ArbnoDrop
    PROVE  SteadyInv'
<1> DEFINE d == IF state > 1 THEN posStack[Walk.cur][state - 1] ELSE count
<1>1. /\ phase = "run" /\ Walk.cur # NullNode /\ Walk.safety > 0 /\ nd.t = "ARBNO" /\ state # 0
      /\ UNCHANGED posStack /\ GoTo(nd.ga, FALSE, d, state - 1, count)
  BY DEF ArbnoDrop, At, Keep, nd, Succeed
<1>2. nd.t \in Movers /\ nd.t \in CountsCursor /\ nd.t \notin {"SPAN", "ARB"}
  BY <1>1 DEF Movers, Resumable, CountsCursor
<1>3. /\ count \in Cursor /\ state \in 0 .. ArbnoCap /\ nd.ga \in PortsOf(nd) /\ FALSE \in BOOLEAN
      /\ Walk.pre \in Int
  BY <1>1, <1>2, BoxTyped, Bearings
<1>4. state \in Nat /\ state > 0 /\ count \in Int
  BY <1>1, <1>3, BudgetAssumption DEF Cursor
<1>5. Walk.pre <= count /\ Rises(count, posStack[Walk.cur])
  BY <1>1, <1>4, LiveHere
<1>6. ASSUME state > 1
      PROVE  posStack[Walk.cur][state - 1] \in Int /\ Walk.pre <= posStack[Walk.cur][state - 1]
  <2>1. /\ Walk.cur \in DOMAIN G /\ nd = G[Walk.cur] /\ state = nstate[Walk.cur]
        /\ posStack[Walk.cur] \in Seq(Cursor)
    BY <1>1, Standing DEF NodeOK
  <2>2. state <= Len(posStack[Walk.cur]) /\ Len(posStack[Walk.cur]) \in Nat
    BY <1>1, <1>4, <2>1, LenProperties DEF PatInv, Bounded
  <2>3. state - 1 \in 1 .. Len(posStack[Walk.cur])
    BY <1>4, <1>6, <2>2
  <2>4. posStack[Walk.cur][state - 1] \in Int
    BY <2>1, <2>3, ElementOfSeq DEF Cursor
  <2>5. count < posStack[Walk.cur][state - 1]
    BY <1>5, <2>3 DEF Rises
  <2>6. QED BY <1>3, <1>4, <1>5, <2>4, <2>5
<1>7. d \in Int /\ Walk.pre <= d
  BY <1>4, <1>5, <1>6
<1> HIDE DEF d
<1>8. QED BY <1>1, <1>2, <1>3, <1>4, <1>7, MovedSteady

LEMMA EnterSteady ==
    ASSUME PatInv, SteadyInv, Steady(G), EnterArbno
    PROVE  SteadyInv'
<1> DEFINE vs == walks'
<1>1. PICK a \in {Walk.cur}, n \in {Len(walks)}, w \in {NewWalk(Walk.cur, nd.inner)} : TRUE
  OBVIOUS
<1>2. /\ phase = "run" /\ a = Walk.cur /\ a # NullNode /\ nd.t = "ARBNO" /\ state = 0
      /\ UNCHANGED <<case, cfg, phase, start, delta>> /\ vs = Append(walks, w)
      /\ posStack' = [posStack EXCEPT ![a] = <<>>]
      /\ nstate' = [m \in DOMAIN G |-> IF G[m].blk = a THEN 0 ELSE nstate[m]]
      /\ ncount' = [m \in DOMAIN G |-> IF m = a THEN delta
                                       ELSE IF G[m].blk = a THEN 0 ELSE ncount[m]]
  BY <1>1 DEF EnterArbno, At, nd
<1>3. /\ TypeOK /\ IsGraph(cfg) /\ a \in DOMAIN G /\ nd = G[a] /\ nstate[a] = 0 /\ G[a].blk = Walk.blk
      /\ walks \in Seq(WalkType) /\ n = Len(walks) /\ n \in Nat \ {0} /\ DOMAIN walks = 1 .. n
      /\ walks[n] = Walk /\ n \in DOMAIN walks
      /\ DOMAIN nstate = DOMAIN G /\ DOMAIN ncount = DOMAIN G /\ DOMAIN posStack = DOMAIN G
  BY <1>1, <1>2, Shape, Standing DEF PatInv, TypeOK, Walk
<1>4. /\ a \in Seq(Int) /\ nd.inner \in Seq(Int) /\ G[a].blk # a
      /\ Len(Walk.blk) < Len(a) /\ Len(a) \in Nat
  <2>1. nd.inner \in BlockNodes(a)
    BY <1>2, <1>3, Boxes
  <2>2. nd.inner \in DOMAIN G
    BY <2>1 DEF BlockNodes
  <2>3. QED BY <1>3, <2>2, Boxes
<1>5. w \in WalkType /\ w.blk = a /\ w.pre = delta
  BY <1>3, <1>4, NewWalkTyped
<1>6. /\ Len(vs) = n + 1 /\ vs[n + 1] = w /\ vs \in Seq(WalkType)
      /\ \A k \in DOMAIN walks : vs[k] = walks[k]
  BY <1>2, <1>3, <1>5, AppendProperties
<1>7. DOMAIN vs = 1 .. n + 1 /\ \A k \in DOMAIN vs : k \in DOMAIN walks \/ k = n + 1
  BY <1>3, <1>6, LenProperties
<1> HIDE DEF vs
<1>8. Walk' = w
  BY <1>6 DEF Walk, vs
<1>9. /\ posStack'[a] = <<>> /\ ncount'[a] = delta /\ nstate'[a] = 0
      /\ \A m \in DOMAIN G : m # a => posStack'[m] = posStack[m]
      /\ \A m \in DOMAIN G : G[m].blk = a => nstate'[m] = 0
      /\ \A m \in DOMAIN G : G[m].blk # a /\ m # a => nstate'[m] = nstate[m] /\ ncount'[m] = ncount[m]
  BY <1>2, <1>3, <1>4
<1>10. /\ G' = G /\ \A blk : BlockNodes(blk)' = BlockNodes(blk)
      /\ \A blk, port : Ahead(blk, port)' = Ahead(blk, port)
      /\ \A m : After(m)' = After(m)
  BY <1>2, SameMatch, SameGraph
<1>11. \A blk : BlockNodes(blk) = {m \in DOMAIN G : G[m].blk = blk}
  BY DEF BlockNodes
\* Only what was live or held before is so still.
<1>12. ASSUME NEW m \in DOMAIN G, Live(m)' \/ Holds(m)'
       PROVE  /\ m # a /\ G[m].blk # a /\ ncount'[m] = ncount[m] /\ posStack'[m] = posStack[m]
              /\ (Live(m)' => Live(m)) /\ (Holds(m)' => Holds(m))
  <2>1. nstate'[m] # 0
    BY <1>12, <1>10 DEF Live, Holds
  <2>2. m # a /\ G[m].blk # a
    BY <1>9, <2>1
  <2>3. QED BY <1>9, <1>10, <2>2 DEF Live, Holds
<1>13. ASSUME NEW k \in DOMAIN walks PROVE walks[k].blk # a
  <2>1. k = n \/ k < n
    BY <1>3
  <2>2. walks[k].blk \in Seq(Int) /\ Len(walks[k].blk) \in Nat /\ Len(Walk.blk) \in Nat
    <3>1. walks[k].blk \in Seq(Int) /\ Walk.blk \in Seq(Int)
      BY <1>3, Shape DEF WalkType
    <3>2. QED BY <3>1, LenProperties
  <2>3. k < n => Len(walks[k].blk) < Len(Walk.blk)
    BY <1>3 DEF PatInv, Nested
  <2>4. Len(walks[k].blk) < Len(a)
    BY <1>3, <1>4, <2>1, <2>2, <2>3
  <2>5. QED BY <1>4, <2>2, <2>4
<1>14. delta \in Int /\ Walk.pre \in Int /\ Walk.pre <= delta /\ start <= Walk.pre /\ start \in Int
  <2>1. start <= Walk.pre
    BY <1>3 DEF SteadyInv, From
  <2>2. start \in Int
    BY <1>3, Shape DEF TypeOK
  <2>3. QED BY <1>2, <2>1, <2>2, Bearings
<1>15. ASSUME NEW k \in DOMAIN walks PROVE Passed(k)' /\ From(k)' /\ Begun(k)'
  <2>1. Passed(k) /\ From(k) /\ Begun(k) /\ vs[k] = walks[k]
    BY <1>6, <1>15 DEF SteadyInv
  <2>2. Passed(k)'
    BY <1>10, <1>11, <1>12, <2>1 DEF Passed, vs
  <2>3. From(k)'
    BY <1>2, <1>10, <1>11, <1>12, <2>1 DEF From, vs
  <2>4. Begun(k)'
    <3>1. CASE k > 1
      <4>1. /\ k - 1 \in DOMAIN walks /\ walks[k].blk \in DOMAIN G /\ walks[k].blk # a
            /\ G[walks[k].blk].blk = walks[k - 1].blk
        BY <1>13, <1>15, <3>1, Waiting
      <4>2. G[walks[k].blk].blk # a /\ vs[k - 1] = walks[k - 1]
        BY <1>6, <1>13, <4>1
      <4>3. QED BY <1>9, <2>1, <3>1, <4>1, <4>2 DEF Begun, Latest, vs
    <3>2. CASE ~(k > 1)
      BY <3>2 DEF Begun
    <3>3. QED BY <3>1, <3>2
  <2>5. QED BY <2>2, <2>3, <2>4
<1>16. Passed(n + 1)' /\ From(n + 1)' /\ Begun(n + 1)'
  <2>1. Passed(n + 1)'
    BY <1>5, <1>6, <1>10, <1>11, <1>12 DEF Passed, vs
  <2>2. From(n + 1)'
    <3>1. start <= delta
      BY <1>14
    <3>2. QED BY <1>2, <1>5, <1>6, <1>10, <1>11, <1>12, <3>1 DEF From, vs
  <2>3. Begun(n + 1)'
    <3>1. Rises(delta, <<>>)
      BY DEF Rises, Ascends
    <3>2. vs[n + 1 - 1] = Walk
      BY <1>3, <1>6
    <3>3. QED BY <1>5, <1>6, <1>9, <1>14, <3>1, <3>2 DEF Begun, Latest, vs
  <2>4. QED BY <2>1, <2>2, <2>3
<1>17. \A k \in DOMAIN vs : Passed(k)' /\ From(k)' /\ Begun(k)'
  BY <1>7, <1>15, <1>16
<1>18. Anchored' /\ Walk'.pre <= delta'
  BY <1>2, <1>5, <1>8, <1>10, <1>11, <1>12, <1>14 DEF Anchored
<1>19. \A m \in DOMAIN G : Holds(m)' => Rises(ncount'[m], posStack'[m])
  BY <1>12 DEF SteadyInv
<1>20. QED BY <1>10, <1>17, <1>18, <1>19 DEF SteadyInv, vs

\* A repetition that advanced ends beyond every position the ARBNO has kept.
LEMMA KeptRises ==
    ASSUME PatInv, SteadyInv, ArbnoTurn
    PROVE  /\ Rises(ncount[Walk.blk], Kept) /\ Kept \in Seq(Cursor)
           /\ Again => Kept # <<>> /\ Kept[Len(Kept)] = delta
           /\ walks[Len(walks) - 1].pre <= ncount[Walk.blk] /\ ncount[Walk.blk] <= Walk.pre
           /\ ncount[Walk.blk] \in Int
<1> DEFINE a == Walk.blk
           from == ncount[a]
           ps == posStack[a]
<1>1. /\ phase = "run" /\ Len(walks) > 1 /\ Len(walks) \in DOMAIN walks /\ TypeOK
      /\ walks[Len(walks)] = Walk
  BY Turns, Standing DEF PatInv, Walk
<1>2. a \in DOMAIN G /\ G[a].t = "ARBNO"
  BY <1>1, Waiting
<1>3. from \in Cursor /\ ps \in Seq(Cursor)
  BY <1>1, <1>2 DEF TypeOK, NodeOK, CountsCursor
<1>4. /\ walks[Len(walks) - 1].pre <= from /\ Rises(from, ps) /\ Walk.pre = Latest(a)
  BY <1>1 DEF SteadyInv, Begun
<1>5. Walk.pre = (IF ps = <<>> THEN from ELSE ps[Len(ps)])
  BY <1>4 DEF Latest
<1> HIDE DEF a, from, ps
<1>6. from \in Int /\ delta \in Int /\ Walk.pre \in Int /\ Walk.pre <= delta
  BY <1>1, <1>3, Bearings DEF Cursor
<1>7. /\ Len(ps) \in Nat /\ \A i \in 1 .. Len(ps) : ps[i] \in Int /\ from < ps[i]
      /\ ps # <<>> => Len(ps) \in 1 .. Len(ps)
  <2>1. Len(ps) \in Nat
    BY <1>3, LenProperties
  <2>2. ASSUME NEW i \in 1 .. Len(ps) PROVE ps[i] \in Int /\ from < ps[i]
    <3>1. ps[i] \in Cursor
      BY <1>3, ElementOfSeq
    <3>2. QED BY <1>4, <3>1 DEF Rises, Cursor
  <2>3. ASSUME ps # <<>> PROVE Len(ps) \in 1 .. Len(ps)
    <3>1. Len(ps) \in Nat \ {0}
      BY <1>3, <2>3, EmptySeq
    <3>2. QED BY <3>1
  <2>4. QED BY <2>1, <2>2, <2>3
<1>8. from <= Walk.pre
  BY <1>5, <1>6, <1>7
<1>9. CASE ~Again
  BY <1>3, <1>4, <1>6, <1>8, <1>9 DEF Kept, a, ps, from
<1>10. CASE Again
  <2> DEFINE ks == Append(ps, delta)
  <2>1. /\ ks \in Seq(Cursor) /\ ks # <<>> /\ Len(ks) = Len(ps) + 1 /\ ks[Len(ps) + 1] = delta
        /\ \A i \in 1 .. Len(ps) : ks[i] = ps[i]
    BY <1>1, <1>3, AppendProperties DEF TypeOK
  <2> HIDE DEF ks
  <2>2. Walk.pre < delta
    BY <1>6, <1>10 DEF Again
  <2>3. ASSUME NEW i \in 1 .. Len(ks) PROVE from < ks[i]
    BY <1>6, <1>7, <1>8, <2>1, <2>2, <2>3
  <2>4. ASSUME NEW i \in 1 .. Len(ks) - 1 PROVE ks[i] < ks[i + 1]
    <3>1. i \in 1 .. Len(ps) /\ ks[i] = ps[i] /\ ps # <<>>
      <4>1. i \in 1 .. Len(ps)
        BY <1>7, <2>1
      <4>2. Len(ps) # 0
        BY <1>7, <4>1
      <4>3. QED BY <2>1, <4>1, <4>2
    <3>2. CASE i = Len(ps)
      BY <1>5, <2>1, <2>2, <3>1, <3>2
    <3>3. CASE i # Len(ps)
      <4>1. i + 1 \in 1 .. Len(ps) /\ i \in 1 .. Len(ps) - 1
        BY <1>7, <3>1, <3>3
      <4>2. ps[i] < ps[i + 1]
        BY <1>4, <4>1 DEF Rises, Ascends
      <4>3. QED BY <2>1, <3>1, <4>1, <4>2
    <3>4. QED BY <3>2, <3>3
  <2>5. from < ks[1]
    BY <1>7, <2>1, <2>3
  <2>6. Rises(from, ks)
    BY <2>3, <2>4, <2>5 DEF Rises, Ascends
  <2>7. Kept = ks
    BY <1>10 DEF Kept, ks, a, ps
  <2>8. QED BY <1>4, <1>6, <1>8, <2>1, <2>6, <2>7 DEF a, from
<1>11. QED BY <1>9, <1>10

\* No two walks run the same graph.
LEMMA OwnGraphs ==
    ASSUME PatInv, NEW i \in DOMAIN walks, NEW j \in DOMAIN walks, i # j
    PROVE  walks[i].blk # walks[j].blk
<1>1. /\ i \in Int /\ j \in Int /\ walks[i].blk \in Seq(Int) /\ walks[j].blk \in Seq(Int)
  BY Shape DEF PatInv, WalkType
<1>2. Len(walks[i].blk) \in Nat /\ Len(walks[j].blk) \in Nat
  BY <1>1, LenProperties
<1>3. i < j \/ j < i
  BY <1>1
<1>4. Len(walks[i].blk) < Len(walks[j].blk) \/ Len(walks[j].blk) < Len(walks[i].blk)
  BY <1>3 DEF PatInv, Nested
<1>5. QED BY <1>2, <1>4

\* Where an ARBNO stands when a run of its operand has ended.
LEMMA TurnHere ==
    ASSUME PatInv, SteadyInv, ArbnoTurn, NEW a, a = Walk.blk, NEW n, n = Len(walks)
    PROVE  /\ TypeOK /\ IsGraph(cfg) /\ walks \in Seq(WalkType) /\ n \in Nat /\ n > 1 /\ n \in DOMAIN walks
           /\ DOMAIN walks = 1 .. n /\ walks[n] = Walk /\ phase = "run" /\ UNCHANGED <<case, cfg, phase, start, delta>>
           /\ DOMAIN nstate = DOMAIN G /\ DOMAIN ncount = DOMAIN G
           /\ n - 1 \in DOMAIN walks /\ a = walks[n - 1].cur /\ a \in DOMAIN G /\ a # NullNode
           /\ G[a].blk = walks[n - 1].blk
           /\ G[a].t = "ARBNO" /\ nstate[a] = 0 /\ G[a].blk # a
           /\ posStack'[a] = Kept /\ \A m \in DOMAIN G : m # a => posStack'[m] = posStack[m]
           /\ \A k \in DOMAIN walks : k # n => walks[k].blk # a
           /\ \A k \in DOMAIN walks : k > 1 /\ k # n => G[walks[k].blk].blk # a
           /\ start \in Int /\ delta \in Int /\ start <= delta /\ Walk.pre \in Int
<1>1. /\ phase = "run" /\ n > 1 /\ UNCHANGED <<case, cfg, phase, start, delta>>
      /\ posStack' = [posStack EXCEPT ![a] = Kept]
  BY Turns
<1>2. /\ TypeOK /\ IsGraph(cfg) /\ n \in DOMAIN walks /\ n \in Nat /\ DOMAIN walks = 1 .. n
      /\ DOMAIN nstate = DOMAIN G /\ DOMAIN ncount = DOMAIN G /\ DOMAIN posStack = DOMAIN G
      /\ walks \in Seq(WalkType) /\ walks[n] = Walk
  BY <1>1, Shape, Standing DEF PatInv, TypeOK, Walk
<1>3. /\ n - 1 \in DOMAIN walks /\ a = walks[n - 1].cur /\ a \in DOMAIN G /\ G[a].blk = walks[n - 1].blk
      /\ G[a].t = "ARBNO" /\ nstate[a] = 0
  BY <1>1, <1>2, Waiting
<1>4. G[a].blk # a /\ a # NullNode
  BY <1>2, <1>3, Boxes
<1>5. posStack'[a] = Kept /\ \A m \in DOMAIN G : m # a => posStack'[m] = posStack[m]
  BY <1>1, <1>2, <1>3
<1>6. ASSUME NEW k \in DOMAIN walks, k # n PROVE walks[k].blk # a
  BY <1>2, <1>6, OwnGraphs
<1>7. ASSUME NEW k \in DOMAIN walks, k > 1, k # n PROVE G[walks[k].blk].blk # a
  <2>1. k - 1 \in DOMAIN walks /\ G[walks[k].blk].blk = walks[k - 1].blk /\ k - 1 # n
    BY <1>2, <1>7, Waiting
  <2>2. QED BY <1>6, <2>1
<1>8. start \in Int /\ delta \in Int /\ start <= delta /\ Walk.pre \in Int
  <2>1. start <= Walk.pre
    BY <1>2 DEF SteadyInv, From
  <2>2. start \in Int
    BY <1>2, Shape DEF TypeOK
  <2>3. QED BY <1>1, <2>1, <2>2, Bearings
<1>9. QED BY <1>1, <1>2, <1>3, <1>4, <1>5, <1>6, <1>7, <1>8

\* Another run of the operand begins where the last one ended.
LEMMA AgainSteady ==
    ASSUME PatInv, SteadyInv, ArbnoTurn, Again, bb_reset(Walk.blk),
           walks' = [walks EXCEPT ![Len(walks)] = NewWalk(Walk.blk, G[Walk.blk].inner)]
    PROVE  SteadyInv'
<1> DEFINE vs == walks'
<1>1. PICK a \in {Walk.blk}, n \in {Len(walks)}, w \in {NewWalk(Walk.blk, G[Walk.blk].inner)} : TRUE
  OBVIOUS
<1>2. /\ TypeOK /\ IsGraph(cfg) /\ walks \in Seq(WalkType) /\ n \in Nat /\ n > 1 /\ n \in DOMAIN walks
      /\ DOMAIN walks = 1 .. n /\ walks[n] = Walk /\ phase = "run" /\ UNCHANGED <<case, cfg, phase, start, delta>>
      /\ n - 1 \in DOMAIN walks /\ a \in DOMAIN G /\ G[a].blk = walks[n - 1].blk
      /\ G[a].t = "ARBNO" /\ nstate[a] = 0 /\ G[a].blk # a
      /\ posStack'[a] = Kept /\ \A m \in DOMAIN G : m # a => posStack'[m] = posStack[m]
      /\ \A k \in DOMAIN walks : k # n => walks[k].blk # a
      /\ \A k \in DOMAIN walks : k > 1 /\ k # n => G[walks[k].blk].blk # a
      /\ start \in Int /\ delta \in Int /\ start <= delta /\ walks # <<>>
      /\ a = Walk.blk /\ n = Len(walks)
  BY <1>1, TurnHere, EmptySeq
<1>3. w \in WalkType /\ w.blk = a /\ w.pre = delta
  <2>1. a \in Seq(Int) /\ G[a].inner \in BlockNodes(a)
    BY <1>2, Boxes
  <2>2. G[a].inner \in DOMAIN G
    BY <2>1 DEF BlockNodes
  <2>3. G[a].inner \in Seq(Int)
    BY <1>2, <2>2, Boxes
  <2>4. QED BY <1>1, <1>2, <2>1, <2>3, NewWalkTyped
<1>4. vs = [walks EXCEPT ![Len(walks)] = w]
  BY <1>1
<1> HIDE DEF vs
<1>5. /\ Len(vs) = n /\ DOMAIN vs = DOMAIN walks /\ vs[n] = w
      /\ \A k \in DOMAIN walks : k # n => vs[k] = walks[k]
  BY <1>2, <1>3, <1>4, TopReplaced
<1>6. Walk' = w
  BY <1>5 DEF Walk, vs
<1>7. /\ \A m \in DOMAIN G : G[m].blk = a => nstate'[m] = 0
      /\ \A m \in DOMAIN G : G[m].blk # a => nstate'[m] = nstate[m] /\ ncount'[m] = ncount[m]
  BY <1>2 DEF bb_reset
<1>8. /\ G' = G /\ \A blk : BlockNodes(blk)' = BlockNodes(blk)
      /\ \A blk, port : Ahead(blk, port)' = Ahead(blk, port)
      /\ \A m : After(m)' = After(m)
  BY <1>2, SameMatch, SameGraph
<1>9. \A blk : BlockNodes(blk) = {m \in DOMAIN G : G[m].blk = blk}
  BY DEF BlockNodes
\* Only what was live or held before is so still.
<1>10. ASSUME NEW m \in DOMAIN G, Live(m)' \/ Holds(m)'
       PROVE  /\ m # a /\ G[m].blk # a /\ ncount'[m] = ncount[m] /\ posStack'[m] = posStack[m]
              /\ (Live(m)' => Live(m)) /\ (Holds(m)' => Holds(m))
  <2>1. nstate'[m] # 0
    BY <1>8, <1>10 DEF Live, Holds
  <2>2. m # a /\ G[m].blk # a
    BY <1>2, <1>7, <2>1
  <2>3. QED BY <1>2, <1>7, <1>8, <2>2 DEF Live, Holds
<1>11. ASSUME NEW k \in DOMAIN walks, k # n PROVE Passed(k)' /\ From(k)' /\ Begun(k)'
  <2>1. Passed(k) /\ From(k) /\ Begun(k) /\ vs[k] = walks[k]
    BY <1>5, <1>11 DEF SteadyInv
  <2>2. Passed(k)'
    BY <1>8, <1>9, <1>10, <2>1 DEF Passed, vs
  <2>3. From(k)'
    BY <1>2, <1>8, <1>9, <1>10, <2>1 DEF From, vs
  <2>4. CASE k > 1
    <3>1. /\ k - 1 \in DOMAIN walks /\ k - 1 # n /\ walks[k].blk \in DOMAIN G
          /\ walks[k].blk # a /\ G[walks[k].blk].blk # a
      BY <1>2, <1>11, <2>4, Waiting
    <3>2. vs[k - 1] = walks[k - 1]
      BY <1>5, <3>1
    <3>3. Begun(k)'
      BY <1>2, <1>7, <2>1, <2>4, <3>1, <3>2 DEF Begun, Latest, vs
    <3>4. QED BY <2>2, <2>3, <3>3
  <2>5. CASE ~(k > 1)
    BY <2>2, <2>3, <2>5 DEF Begun
  <2>6. QED BY <2>4, <2>5
<1>12. Passed(n)' /\ From(n)' /\ Begun(n)'
  <2>1. Passed(n)'
    BY <1>3, <1>5, <1>8, <1>9, <1>10 DEF Passed, vs
  <2>2. From(n)'
    BY <1>2, <1>3, <1>5, <1>8, <1>9, <1>10 DEF From, vs
  <2>3. /\ Rises(ncount[a], Kept) /\ Kept # <<>> /\ Kept[Len(Kept)] = delta
        /\ walks[n - 1].pre <= ncount[a]
    BY <1>2, KeptRises
  <2>4. ncount'[a] = ncount[a] /\ vs[n - 1] = walks[n - 1]
    BY <1>2, <1>5, <1>7
  <2>5. Begun(n)'
    BY <1>2, <1>3, <1>5, <2>3, <2>4 DEF Begun, Latest, vs
  <2>6. QED BY <2>1, <2>2, <2>5
<1>13. \A k \in DOMAIN vs : Passed(k)' /\ From(k)' /\ Begun(k)'
  BY <1>5, <1>11, <1>12
<1>14. Anchored' /\ Walk'.pre <= delta'
  BY <1>2, <1>3, <1>6, <1>8, <1>9, <1>10 DEF Anchored
<1>15. \A m \in DOMAIN G : Holds(m)' => Rises(ncount'[m], posStack'[m])
  BY <1>10 DEF SteadyInv
<1>16. QED BY <1>8, <1>13, <1>14, <1>15 DEF SteadyInv, vs

\* The ARBNO succeeds with the positions it has kept, and the walk that waited goes on.
LEMMA DoneSteady ==
    ASSUME PatInv, SteadyInv, Steady(G), ArbnoTurn,
           nstate' = [nstate EXCEPT ![Walk.blk] = Len(Kept)], UNCHANGED ncount,
           walks' = [SubSeq(walks, 1, Len(walks) - 1) EXCEPT ![Len(walks) - 1] =
                         Left(walks[Len(walks) - 1], G[Walk.blk].ga, FALSE)]
    PROVE  SteadyInv'
<1> DEFINE vs == walks'
<1>1. PICK a \in {Walk.blk}, n \in {Len(walks)}, o \in {walks[Len(walks) - 1]},
           next \in {G[Walk.blk].ga} : TRUE
  OBVIOUS
<1>2. PICK u \in {Left(o, next, FALSE)} : TRUE
  OBVIOUS
<1>3. /\ TypeOK /\ IsGraph(cfg) /\ walks \in Seq(WalkType) /\ n \in Nat /\ n > 1
      /\ DOMAIN walks = 1 .. n /\ phase = "run" /\ UNCHANGED <<case, cfg, phase, start, delta>>
      /\ DOMAIN nstate = DOMAIN G /\ DOMAIN ncount = DOMAIN G
      /\ n - 1 \in DOMAIN walks /\ a = o.cur /\ a \in DOMAIN G /\ a # NullNode /\ G[a].blk = o.blk
      /\ o = walks[n - 1]
      /\ G[a].t = "ARBNO" /\ nstate[a] = 0 /\ G[a].blk # a
      /\ posStack'[a] = Kept /\ \A m \in DOMAIN G : m # a => posStack'[m] = posStack[m]
      /\ \A k \in DOMAIN walks : k # n => walks[k].blk # a
      /\ delta \in Int /\ Walk.pre \in Int
      /\ a = Walk.blk /\ n = Len(walks) /\ next = G[a].ga
  BY <1>1, TurnHere
<1>4. o \in WalkType /\ o.pre \in Int /\ next \in PortsOf(G[a]) /\ next \in Seq(Int)
      /\ next \in BlockNodes(o.blk) \cup {NullNode}
  <2>1. o \in WalkType /\ o.pre \in Int
    BY <1>3, Shape DEF WalkType, Cursor
  <2>2. next \in PortsOf(G[a])
    BY <1>3 DEF PortsOf
  <2>3. next \in BlockNodes(o.blk) \cup {NullNode}
    BY <1>3, <2>2, Boxes
  <2>4. next \in DOMAIN G \cup {NullNode} /\ NullNode \in Seq(Int)
    BY <2>3 DEF BlockNodes, NullNode
  <2>5. QED BY <1>3, <2>1, <2>2, <2>3, <2>4, Boxes
<1>5. u \in WalkType /\ u.blk = o.blk /\ u.cur = next /\ u.pre = o.pre
  <2>1. o.safety > 0 /\ FALSE \in BOOLEAN
    BY <1>3, Waiting
  <2>2. u = Left(o, next, FALSE)
    BY <1>2
  <2>3. QED BY <1>4, <2>1, <2>2, LeftTyped
<1>6. walks' = [SubSeq(walks, 1, Len(walks) - 1) EXCEPT ![Len(walks) - 1] = u]
  BY <1>1, <1>2
<1>7. /\ Len(vs) = n - 1 /\ DOMAIN vs = 1 .. n - 1 /\ vs[n - 1] = u
      /\ \A k \in DOMAIN vs : k \in DOMAIN walks /\ k # n
      /\ \A k \in DOMAIN vs : k # n - 1 => vs[k] = walks[k]
  BY <1>3, <1>5, <1>6, Popped
<1> HIDE DEF vs
<1>8. \A k \in DOMAIN vs : k > 1 => k - 1 \in DOMAIN vs /\ k - 1 # n - 1
  BY <1>3, <1>7
<1>9. Walk' = u /\ \A k \in DOMAIN vs : vs[k].blk = walks[k].blk /\ vs[k].pre = walks[k].pre
  BY <1>3, <1>5, <1>7, <1>8 DEF Walk, vs
<1>10. /\ nstate'[a] = Len(Kept) /\ ncount' = ncount
       /\ \A m \in DOMAIN G : m # a => nstate'[m] = nstate[m]
  BY <1>3
<1>11. /\ G' = G /\ \A blk : BlockNodes(blk)' = BlockNodes(blk)
       /\ \A blk, port : Ahead(blk, port)' = Ahead(blk, port)
       /\ \A m : After(m)' = After(m)
  BY <1>3, SameMatch, SameGraph
<1>12. \A blk : BlockNodes(blk) = {m \in DOMAIN G : G[m].blk = blk}
  BY DEF BlockNodes
<1>13. \A m \in DOMAIN G : m # a => Live(m)' = Live(m) /\ Holds(m)' = Holds(m)
  BY <1>10, <1>11 DEF Live, Holds
<1>14. /\ Rises(ncount[a], Kept) /\ o.pre <= ncount[a] /\ ncount[a] <= Walk.pre /\ ncount[a] \in Int
       /\ Walk.pre <= delta
  BY <1>3, KeptRises, Bearings
<1>15. Passed(n - 1) /\ From(n - 1)
  BY <1>3 DEF SteadyInv
\* Control was at the ARBNO, beyond every box of its graph that would move the cursor.
<1>16. ASSUME NEW m \in BlockNodes(o.blk), m # a, Live(m) PROVE a \in After(m) /\ G[m].blk = o.blk
  BY <1>3, <1>12, <1>15, <1>16 DEF Passed
<1>17. ASSUME NEW k \in DOMAIN vs PROVE Passed(k)'
  <2>1. CASE k # n - 1
    <3>1. walks[k].blk # o.blk
      BY <1>3, <1>7, <1>8, <2>1, OwnGraphs
    <3>2. vs[k] = walks[k] /\ Passed(k)
      BY <1>7, <1>8, <2>1 DEF SteadyInv
    <3>3. \A m \in BlockNodes(walks[k].blk) : m # a /\ m \in DOMAIN G
      BY <1>3, <1>12, <3>1
    <3>4. QED BY <1>11, <1>13, <3>2, <3>3 DEF Passed, vs
  <2>2. CASE k = n - 1
    <3>1. ASSUME next # NullNode, NEW m \in BlockNodes(o.blk), Live(m)' PROVE next \in After(m)
      <4>1. CASE m = a
        <5>1. next \in DOMAIN G /\ G[next].blk = o.blk
          BY <1>4, <1>12, <3>1
        <5>2. QED BY <1>3, <4>1, <5>1, AheadOwn DEF After
      <4>2. CASE m # a
        <5>1. a \in After(m)
          BY <1>12, <1>13, <1>16, <3>1, <4>2
        <5>2. QED BY <1>4, <3>1, <5>1, AheadOn DEF After
      <4>3. QED BY <4>1, <4>2
    <3>2. QED BY <1>5, <1>7, <1>8, <1>11, <2>2, <3>1 DEF Passed, vs
  <2>3. QED BY <2>1, <2>2
<1>18. ASSUME NEW k \in DOMAIN vs PROVE From(k)'
  <2>1. From(k)
    BY <1>7, <1>8 DEF SteadyInv
  <2>2. ASSUME NEW m \in BlockNodes(walks[k].blk), Holds(m)' PROVE walks[k].pre <= ncount[m]
    <3>1. CASE m = a
      <4>1. walks[k].blk = o.blk
        BY <1>3, <1>12, <2>2, <3>1
      <4>2. k = n - 1
        BY <1>3, <1>7, <1>8, <4>1, OwnGraphs
      <4>3. QED BY <1>3, <1>14, <3>1, <4>2
    <3>2. CASE m # a
      BY <1>12, <1>13, <2>1, <2>2, <3>2 DEF From
    <3>3. QED BY <3>1, <3>2
  <2>3. QED BY <1>3, <1>9, <1>10, <1>11, <2>1, <2>2 DEF From, vs
<1>19. ASSUME NEW k \in DOMAIN vs PROVE Begun(k)'
  <2>1. CASE k > 1
    <3>1. k - 1 \in DOMAIN vs /\ k \in DOMAIN walks /\ k # n /\ Begun(k)
      BY <1>7, <1>8, <2>1 DEF SteadyInv
    <3>2. walks[k].blk \in DOMAIN G /\ walks[k].blk # a
      BY <1>3, <2>1, <3>1, Waiting
    <3>3. posStack'[walks[k].blk] = posStack[walks[k].blk]
      BY <1>3, <3>2
    <3>4. /\ vs[k - 1].pre = walks[k - 1].pre /\ vs[k].blk = walks[k].blk /\ vs[k].pre = walks[k].pre
      BY <1>9, <3>1
    <3>5. QED BY <1>10, <2>1, <3>1, <3>3, <3>4 DEF Begun, Latest, vs
  <2>2. CASE ~(k > 1)
    BY <2>2 DEF Begun
  <2>3. QED BY <2>1, <2>2
\* No span or ARB that the ARBNO has moved the cursor past is ahead of it.
<1>20. Anchored'
  <2>1. ASSUME NEW m \in BlockNodes(o.blk), Live(m)', G[m].t \in {"SPAN", "ARB"}, m \in Ahead(o.blk, next)
        PROVE  FALSE
    <3>1. m # a /\ m \in DOMAIN G /\ G[m].t \in Movers
      BY <1>3, <1>12, <2>1 DEF Movers, Resumable
    <3>2. Live(m) /\ a \in After(m) /\ G[m].blk = o.blk
      BY <1>12, <1>13, <1>16, <2>1, <3>1
    <3>3. m \notin After(a)
      BY <1>3, <3>1, <3>2, SteadyMeans DEF Movers, Resumable
    <3>4. QED BY <1>3, <2>1, <3>3 DEF After
  <2>2. QED BY <1>5, <1>9, <1>11, <2>1 DEF Anchored
<1>21. Walk'.pre <= delta'
  <2>1. o.pre <= delta
    BY <1>3, <1>4, <1>14
  <2>2. Walk'.pre = o.pre /\ delta' = delta
    BY <1>3, <1>5, <1>9
  <2>3. QED BY <2>1, <2>2
<1>22. ASSUME NEW m \in DOMAIN G, Holds(m)' PROVE Rises(ncount'[m], posStack'[m])
  <2>1. CASE m = a
    BY <1>3, <1>10, <1>14, <2>1
  <2>2. CASE m # a
    BY <1>3, <1>10, <1>13, <1>22, <2>2 DEF SteadyInv
  <2>3. QED BY <2>1, <2>2
<1>23. QED BY <1>11, <1>17, <1>18, <1>19, <1>20, <1>21, <1>22 DEF SteadyInv, vs

LEMMA TurnSteady ==
    ASSUME PatInv, SteadyInv, Steady(G), ArbnoTurn
    PROVE  SteadyInv'
BY Turns, AgainSteady, DoneSteady

LEMMA SafetySteady ==
    ASSUME PatInv, SteadyInv, OutOfSafety
    PROVE  SteadyInv'
<1> DEFINE vs == walks'
<1>1. PICK w \in {[Walk EXCEPT !.cur = NullNode, !.fail = TRUE]} : TRUE
  OBVIOUS
<1>2. /\ phase = "run" /\ UNCHANGED <<case, cfg, phase, start, delta, nstate, ncount, posStack>>
      /\ vs = [walks EXCEPT ![Len(walks)] = w]
  BY <1>1 DEF OutOfSafety, Walk
<1>3. /\ TypeOK /\ walks \in Seq(WalkType) /\ walks # <<>> /\ Len(walks) \in DOMAIN walks
      /\ walks[Len(walks)] = Walk /\ Walk \in WalkType
  BY <1>2, Shape, Standing DEF PatInv, TypeOK, Walk
<1>4. w \in WalkType /\ w.blk = Walk.blk /\ w.pre = Walk.pre /\ w.cur = NullNode
  <2>1. NullNode \in Seq(Int)
    BY DEF NullNode
  <2>2. DOMAIN Walk = {"blk", "cur", "fail", "pre", "safety"}
    BY <1>3 DEF WalkType
  <2>3. QED BY <1>1, <1>3, <2>1, <2>2 DEF WalkType
<1> HIDE DEF vs
<1>5. /\ Len(vs) = Len(walks) /\ DOMAIN vs = DOMAIN walks /\ vs[Len(walks)] = w
      /\ \A k \in DOMAIN walks : k # Len(walks) => vs[k] = walks[k]
  BY <1>2, <1>3, <1>4, TopReplaced
<1>6. Walk' = w /\ \A k \in DOMAIN walks : vs[k].blk = walks[k].blk /\ vs[k].pre = walks[k].pre
  BY <1>3, <1>4, <1>5 DEF Walk, vs
<1>7. /\ G' = G /\ \A blk : BlockNodes(blk)' = BlockNodes(blk)
      /\ \A blk, port : Ahead(blk, port)' = Ahead(blk, port)
      /\ \A m : After(m)' = After(m) /\ Live(m)' = Live(m) /\ Holds(m)' = Holds(m)
  BY <1>2, SameMatch, SameGraph DEF Live, Holds
<1>8. ASSUME NEW k \in DOMAIN walks PROVE Passed(k)' /\ From(k)' /\ Begun(k)'
  <2>1. Passed(k) /\ From(k) /\ Begun(k)
    BY <1>8 DEF SteadyInv
  <2>2. Passed(k)'
    BY <1>4, <1>5, <1>7, <2>1 DEF Passed, vs
  <2>3. From(k)'
    BY <1>2, <1>6, <1>7, <2>1 DEF From, vs
  <2>4. Begun(k)'
    <3>1. CASE k > 1
      <4>1. k - 1 \in DOMAIN walks
        BY <1>8, <3>1, Waiting
      <4>2. QED BY <1>2, <1>6, <2>1, <3>1, <4>1 DEF Begun, Latest, vs
    <3>2. CASE ~(k > 1)
      BY <3>2 DEF Begun
    <3>3. QED BY <3>1, <3>2
  <2>5. QED BY <2>2, <2>3, <2>4
\* A walk that has ended has nothing ahead of it.
<1>9. Anchored' /\ Walk'.pre <= delta'
  <2>1. \A blk : Ahead(blk, NullNode) = {}
    BY DEF Ahead, Beyond
  <2>2. Walk.pre <= delta
    BY <1>2 DEF SteadyInv
  <2>3. QED BY <1>2, <1>4, <1>6, <1>7, <2>1, <2>2 DEF Anchored
<1>10. \A m \in DOMAIN G : Holds(m)' => Rises(ncount'[m], posStack'[m])
  BY <1>2, <1>7 DEF SteadyInv
<1>11. QED BY <1>5, <1>7, <1>8, <1>9, <1>10 DEF SteadyInv, vs

\* A new attempt begins with no box of the pattern entered.
LEMMA TrySteady ==
    ASSUME PatInv, SteadyInv, TryStart
    PROVE  SteadyInv'
<1>1. PICK w \in {[NewWalk(TopGraph, cfg.entry) EXCEPT !.pre = start]} : TRUE
  OBVIOUS
<1>2. /\ phase' = "run" /\ delta' = start /\ bb_reset(TopGraph) /\ walks' = <<w>>
      /\ UNCHANGED <<case, cfg, start, posStack>>
  BY <1>1 DEF TryStart
<1>3. TypeOK /\ start \in Int
  BY Shape DEF PatInv, TypeOK
<1>4. w.blk = TopGraph /\ w.pre = start
  <2>1. DOMAIN NewWalk(TopGraph, cfg.entry) = {"blk", "cur", "fail", "pre", "safety"}
        /\ NewWalk(TopGraph, cfg.entry).blk = TopGraph
    BY DEF NewWalk
  <2>2. QED BY <1>1, <2>1
<1>5. DOMAIN walks' = {1} /\ walks'[1] = w /\ Walk' = w
  BY <1>2 DEF Walk
<1>6. /\ \A n \in DOMAIN G : G[n].blk = TopGraph => nstate'[n] = 0
      /\ \A n \in DOMAIN G : G[n].blk # TopGraph => nstate'[n] = nstate[n] /\ ncount'[n] = ncount[n]
  BY <1>2 DEF bb_reset
<1>7. G' = G /\ \A blk : BlockNodes(blk)' = {n \in DOMAIN G : G[n].blk = blk}
  BY <1>2, SameMatch DEF BlockNodes
<1>8. \A n \in DOMAIN G : G[n].blk = TopGraph => ~Live(n)' /\ ~Holds(n)'
  BY <1>6, <1>7 DEF Live, Holds
<1>9. Passed(1)' /\ From(1)' /\ Begun(1)'
  <2>1. Passed(1)'
    BY <1>4, <1>5, <1>7, <1>8 DEF Passed
  <2>2. From(1)'
    BY <1>2, <1>3, <1>4, <1>5, <1>7, <1>8 DEF From
  <2>3. Begun(1)'
    BY DEF Begun
  <2>4. QED BY <2>1, <2>2, <2>3
<1>10. Anchored' /\ Walk'.pre <= delta'
  BY <1>2, <1>3, <1>4, <1>5, <1>7, <1>8 DEF Anchored
<1>11. ASSUME NEW n \in DOMAIN G, Holds(n)' PROVE Rises(ncount'[n], posStack'[n])
  <2>1. G[n].blk # TopGraph
    BY <1>8, <1>11
  <2>2. Holds(n) /\ ncount'[n] = ncount[n] /\ posStack'[n] = posStack[n]
    BY <1>2, <1>6, <1>7, <1>11, <2>1 DEF Holds
  <2>3. QED BY <2>2 DEF SteadyInv
<1>12. QED BY <1>5, <1>7, <1>9, <1>10, <1>11 DEF SteadyInv

LEMMA EndSteady ==
    ASSUME PatInv, SteadyInv, NoMatch \/ EndAttempt
    PROVE  SteadyInv'
<1>1. /\ UNCHANGED <<case, cfg, nstate, ncount, posStack>> /\ walks' = <<>>
      /\ phase' # "run"
  <2>1. CASE NoMatch
    <3>1. phase = "scan" /\ walks = <<>>
      BY <2>1 DEF NoMatch, PatInv, TypeOK
    <3>2. QED BY <2>1, <3>1 DEF NoMatch
  <2>2. CASE EndAttempt
    BY <2>2 DEF EndAttempt
  <2>3. QED BY <2>1, <2>2
<1>2. DOMAIN walks' = {}
  BY <1>1
<1>3. QED BY <1>1, <1>2, SameMatch DEF SteadyInv, Holds

\* What every step keeps: of the state always, of the cursor in a steady pattern.
EngineInv == PatInv /\ (Steady(G) => SteadyInv)

LEMMA EngineBegins ==
    ASSUME Init
    PROVE  EngineInv
<1>1. PatInv
  BY Initially
<1>2. DOMAIN walks = {} /\ phase = "scan" /\ \A n \in DOMAIN G : nstate[n] = 0
  BY DEF Init
<1>3. SteadyInv
  BY <1>2 DEF SteadyInv, Holds
<1>4. QED BY <1>1, <1>3 DEF EngineInv

LEMMA EngineKeeps ==
    ASSUME EngineInv, [Next]_vars
    PROVE  EngineInv'
<1>1. PatInv /\ PatInv'
  BY StepKeeps DEF EngineInv
<1>2. UNCHANGED <<case, cfg>>
  <2>1. CASE UNCHANGED vars
    BY <2>1 DEF vars
  <2>2. CASE Next
    BY <2>2 DEF Next, TryStart, NoMatch, EndAttempt, ExecOneWay, RetreatOneWay, ExecSpan, ExecArb, ExecFence,
       ExecAbort, ExecCapture, EnterArbno, ArbnoTurn, ArbnoDrop, OutOfSafety, Succeed, Concede, GoTo
  <2>3. QED BY <2>1, <2>2
<1>3. G' = G
  BY <1>2, SameMatch
<1>4. ASSUME Steady(G) PROVE SteadyInv'
  <2>1. SteadyInv
    BY <1>4 DEF EngineInv
  <2>2. CASE UNCHANGED vars
    BY <2>1, <2>2, SameMatch, SameGraph DEF vars, SteadyInv, Passed, From, Begun, Anchored, Latest, Live, Holds, Walk
  <2>3. CASE Next
    BY <1>1, <1>4, <2>1, <2>3, OneWaySteady, GeneratorSteady, PlainSteady, DropSteady, EnterSteady, TurnSteady,
       SafetySteady, TrySteady, EndSteady DEF Next
  <2>4. QED BY <2>2, <2>3
<1>5. QED BY <1>1, <1>3, <1>4 DEF EngineInv

\* In a steady pattern the cursor stays between the start position of the attempt and the end of
\* the subject, whatever the boxes back up into: no box reads outside the subject and no match has a
\* negative length.
THEOREM CursorStays == Spec => []CursorInAttempt
<1>1. Init => EngineInv
  BY EngineBegins
<1>2. EngineInv /\ [Next]_vars => EngineInv'
  BY EngineKeeps
<1>3. ASSUME EngineInv, phase = "run", Steady(G) PROVE delta \in start .. Slen
  <2>1. PatInv /\ SteadyInv
    BY <1>3 DEF EngineInv
  <2>2. Walk.pre \in Int /\ delta \in Int /\ delta <= Slen /\ Walk.pre <= delta
    BY <1>3, <2>1, Bearings
  <2>3. Len(walks) \in DOMAIN walks
    BY <1>3, <2>1, Standing
  <2>4. start <= Walk.pre
    BY <2>1, <2>3 DEF SteadyInv, From, Walk
  <2>5. start \in Int /\ Slen \in Nat
    BY <2>1, Shape DEF PatInv, TypeOK
  <2>6. QED BY <2>2, <2>4, <2>5
<1>4. EngineInv => CursorInAttempt
  BY <1>3 DEF CursorInAttempt
<1>5. QED BY <1>1, <1>2, <1>4, PTL DEF Spec

\* An ARBNO never goes back to more repetitions than it has kept nor keeps more than there is room
\* for, in any pattern; in a steady one the positions it goes back to ascend, from where it was
\* entered on.
THEOREM PositionsKept == Spec => []ArbnoKeepsItsPositions
<1>1. Init => EngineInv
  BY EngineBegins
<1>2. EngineInv /\ [Next]_vars => EngineInv'
  BY EngineKeeps
<1>3. ASSUME EngineInv, NEW n \in DOMAIN G, G[n].t = "ARBNO", nstate[n] > 0
      PROVE  /\ nstate[n] <= Len(posStack[n]) /\ Len(posStack[n]) <= ArbnoCap
             /\ Steady(G) => Ascends(ncount[n], posStack[n])
  <2>1. nstate[n] <= Len(posStack[n]) /\ Len(posStack[n]) <= ArbnoCap
    BY <1>3 DEF EngineInv, PatInv, Bounded
  <2>2. Steady(G) => Ascends(ncount[n], posStack[n])
    BY <1>3 DEF EngineInv, SteadyInv, Holds, Rises
  <2>3. QED BY <2>1, <2>2
<1>4. EngineInv => ArbnoKeepsItsPositions
  BY <1>3 DEF ArbnoKeepsItsPositions
<1>5. QED BY <1>1, <1>2, <1>4, PTL DEF Spec
=============================================================================
