-------------------------- MODULE PlEngineProofs ---------------------------
(***************************************************************************)
(* For any lowered programs and any bounds: the state of the Prolog engine *)
(* is well typed; and when no predicates call each other in a circle, the  *)
(* engine runs each clause in the environment of its own call, never in    *)
(* one it gave back, and resuming a call takes back what was bound since.  *)
(***************************************************************************)
EXTENDS PlEngine, FiniteSetTheorems, SequenceTheorems, WellFoundedInduction, TLAPS

\* Terms as a slot may hold them or a variable be bound to them, when there are n variables.
Term == [ref : Int, n : Int]
TermsUpTo(n) == {t \in [ref : -1 .. n, n : Int] : t.ref # 0 => t.n = 0}

Kept  == [cenv : Nat, senv : Nat, mark : Nat, store : Seq(Term)]

\* Variables that are bound to each other never form a ring.
NoRing == \A S \in SUBSET DOMAIN ref : S # {} => \E i \in S : ref[i].ref \notin S

TermsOK ==
    /\ ref \in Seq(TermsUpTo(Len(ref)))
    /\ trail \in Seq(Nat)
    /\ \A i \in DOMAIN trail : trail[i] \in DOMAIN ref /\ ref[trail[i]] # NULL
    /\ \A i, j \in DOMAIN trail : trail[i] = trail[j] => i = j

EnvsOK ==
    /\ env \in Seq([0 .. MaxSlot -> TermsUpTo(Len(ref))])
    /\ genv \in DOMAIN env /\ freed \subseteq DOMAIN env /\ cut \in BOOLEAN

Live(s, es) == s.cenv \in es /\ s.senv \in es

StatesOK ==
    /\ st \in [Ids -> Nat] /\ saved \in [Ids -> Kept]
    /\ \A id \in Ids : saved[id] # NoCall => Live(saved[id], DOMAIN env)
    /\ \A nd \in code.nodes : nd.op = "CALL" =>
          /\ st[nd.id] = 1 => saved[nd.id] # NoCall
          /\ saved[nd.id] # NoCall => nd.pred \in DOMAIN code.entry
    /\ \A nd \in code.nodes : nd.op = "CHOICE" => st[nd.id] <= Len(nd.c)

\* The frames of a program, with environments es.
FramesOf(c) == [nd : c.nodes, j : Nat, mark : Nat, env : Nat, cenv : Nat, cut : BOOLEAN,
                mode : {"go", "call", "alt"}, cs : Kept]
Child(f) == f.nd.c[f.j]
IsFrame(f, c, es) ==
    /\ f \in FramesOf(c) /\ f.nd.op \in Inner /\ f.nd.id[1] \in DOMAIN c.entry
    /\ f.env \in es
    /\ f.nd.op = "CALL" => f.cenv \in es /\ f.nd.pred \in DOMAIN c.entry
    /\ f.nd.op # "CALL" => f.j \in 1 .. Len(f.nd.c) + 1
    /\ f.mode # "go" => f.nd.op = "SEQ" /\ f.j <= Len(f.nd.c)
    /\ f.mode = "call" => Child(f).op = "CALL" /\ Child(f).pred \in DOMAIN c.entry /\ Live(f.cs, es)
    /\ f.mode = "alt" => Child(f).op = "ALT"
InRange(f) == f.nd.op # "CALL" => f.j <= Len(f.nd.c)

\* What a frame runs.
Cur(f, c) == IF f.nd.op = "CALL" THEN c.entry[f.nd.pred]
             ELSE IF f.mode = "call" THEN c.entry[Child(f).pred]
             ELSE IF f.mode = "alt" THEN Child(f).c[2] ELSE Child(f)

StackOK ==
    /\ k \in Seq(FramesOf(code))
    /\ \A i \in DOMAIN k : /\ IsFrame(k[i], code, DOMAIN env)
                           /\ k[i].nd = IF i = 1 THEN code.entry["main"] ELSE Cur(k[i - 1], code)
                           /\ i < Len(k) \/ ctl.at # "try" => InRange(k[i])
    /\ ctl.at \in {"exec", "ok", "fail", "back", "try"}
    /\ ctl.at = "exec" => ctl.nd = IF k = <<>> THEN code.entry["main"] ELSE Cur(Top, code)
    /\ ctl.at = "try" => k # <<>> /\ Top.nd.op = "CHOICE"
    /\ ctl.at = "back" => k # <<>> /\ Top.nd.op = "SEQ" /\ Top.mode = "go"

\* The calls of a sequence that have been passed: what they kept is what they may be resumed with.
Gone(f, done) ==
    {m \in 1 .. Len(f.nd.c) : /\ f.nd.op = "SEQ" /\ f.nd.c[m].op = "CALL"
                              /\ m < f.j \/ (m = f.j /\ (f.mode = "call" \/ done))}
Passed(i) == Gone(k[i], i = Len(k) /\ ctl.at = "ok")

MarksOK ==
    /\ \A i \in DOMAIN k : k[i].mark <= Len(trail)
    /\ \A i, l \in DOMAIN k : i <= l => k[i].mark <= k[l].mark
    /\ \A i \in DOMAIN k : \A m \in Passed(i) :
          LET s == saved[k[i].nd.c[m].id] IN s = NoCall \/ k[i].mark <= s.mark

AnyInv == /\ code \in Codes
          /\ TermsOK /\ NoRing /\ EnvsOK /\ StatesOK /\ StackOK /\ MarksOK

-----------------------------------------------------------------------------
(* Numbers and sequences.                                                  *)

\* A set of numbers that is not empty has a least one.
LEMMA LeastNat ==
    ASSUME NEW T \in SUBSET Nat, T # {}
    PROVE  \E n \in T : \A m \in T : n <= m
<1> DEFINE R == {ss \in Nat \X Nat : ss[1] < ss[2]}
<1>1. IsWellFoundedOn(R, Nat)
  BY NatLessThanWellFounded DEF OpToRel
<1>2. PICK n \in T : \A m \in T : ~(<<m, n>> \in R)
  BY <1>1, WFMin
<1>3. ASSUME NEW m \in T PROVE n <= m
  <2>1. m \in Nat /\ n \in Nat /\ <<m, n>> \notin R
    BY <1>2
  <2>2. ~(m < n)
    BY <2>1
  <2>3. QED BY <2>1, <2>2
<1>4. QED BY <1>3

\* What holds at 0 and of each number's successor up to N holds up to N.
LEMMA UpTo ==
    ASSUME NEW N \in Nat, NEW G \in SUBSET (0 .. N), 0 \in G,
           \A n \in 0 .. N - 1 : n \in G => n + 1 \in G
    PROVE  G = 0 .. N
<1> DEFINE T == (0 .. N) \ G
<1> SUFFICES ASSUME T # {} PROVE FALSE
  OBVIOUS
<1>1. T \in SUBSET Nat
  OBVIOUS
<1>2. PICK n \in T : \A m \in T : n <= m
  BY <1>1, LeastNat
<1>3. n - 1 \in 0 .. N - 1 /\ n - 1 \notin T
  BY <1>2
<1>4. n - 1 \in G /\ n - 1 + 1 = n
  BY <1>3
<1>5. QED BY <1>2, <1>3, <1>4

\* d is a in the beginning, and what F makes of it in each step.
Stepwise(d, N, a, F) == d[0] = a /\ \A n \in 1 .. N : d[n] = F[n][d[n - 1]]

\* There is a function defined from its value one step before.
LEMMA Recursion ==
    ASSUME NEW N \in Nat, NEW V, NEW a \in V, NEW F \in [Nat -> [V -> V]]
    PROVE  \E d \in [0 .. N -> V] : Stepwise(d, N, a, F)
<1> DEFINE Good(m, d) == Stepwise(d, m, a, F)
           G == {m \in 0 .. N : \E d \in [0 .. m -> V] : Good(m, d)}
<1>1. 0 \in G
  <2> DEFINE d == [n \in 0 .. 0 |-> a]
  <2>1. d \in [0 .. 0 -> V] /\ Good(0, d)
    BY DEF Stepwise
  <2>2. \E e \in [0 .. 0 -> V] : Good(0, e)
    <3> HIDE DEF d, Good
    <3> QED BY <2>1
  <2>3. QED BY <2>2
<1>2. ASSUME NEW m \in 0 .. N - 1, m \in G PROVE m + 1 \in G
  <2>1. PICK d \in [0 .. m -> V] : Good(m, d)
    BY <1>2
  <2> DEFINE e == [n \in 0 .. m + 1 |-> IF n = m + 1 THEN F[m + 1][d[m]] ELSE d[n]]
  <2>2. e \in [0 .. m + 1 -> V]
    OBVIOUS
  <2>3. ASSUME NEW n \in 1 .. m + 1 PROVE e[n] = F[n][e[n - 1]]
    <3>1. CASE n = m + 1
      <4>1. e[n] = F[n][d[m]] /\ n - 1 = m /\ m # m + 1
        BY <3>1
      <4>2. e[m] = d[m]
        BY <4>1
      <4>3. QED BY <4>1, <4>2
    <3>2. CASE n \in 1 .. m
      <4>1. e[n] = d[n] /\ d[n] = F[n][d[n - 1]]
        BY <2>1, <3>2 DEF Stepwise
      <4>2. e[n - 1] = d[n - 1]
        BY <3>2
      <4>3. QED BY <4>1, <4>2
    <3>3. QED BY <3>1, <3>2
  <2>4. e[0] = a
    BY <2>1 DEF Stepwise
  <2> HIDE DEF e
  <2>5. Good(m + 1, e)
    BY <2>3, <2>4 DEF Stepwise
  <2>6. m + 1 \in 0 .. N
    OBVIOUS
  <2> HIDE DEF Good
  <2>7. QED BY <2>2, <2>5, <2>6
<1> HIDE DEF G
<1>3. G \in SUBSET (0 .. N)
  BY DEF G
<1>4. N \in G
  BY <1>1, <1>2, <1>3, UpTo
<1>5. QED BY <1>4 DEF G

LEMMA TopReplaced ==
    ASSUME NEW S, NEW ws \in Seq(S), ws # <<>>, NEW w \in S, NEW vs, vs = [ws EXCEPT ![Len(ws)] = w]
    PROVE  /\ vs \in Seq(S) /\ vs # <<>> /\ Len(vs) = Len(ws) /\ DOMAIN vs = DOMAIN ws
           /\ DOMAIN vs = 1 .. Len(ws) /\ Len(ws) \in Nat \ {0}
           /\ vs[Len(ws)] = w /\ \A i \in DOMAIN ws : i # Len(ws) => vs[i] = ws[i]
<1>1. Len(ws) \in Nat \ {0} /\ DOMAIN ws = 1 .. Len(ws) /\ Len(ws) \in 1 .. Len(ws)
  BY EmptySeq, LenProperties
<1>2. vs \in Seq(S) /\ Len(vs) = Len(ws)
  BY <1>1, ExceptSeq
<1>3. DOMAIN vs = 1 .. Len(vs)
  BY <1>2, LenProperties
<1>4. vs # <<>>
  BY <1>1, <1>2, EmptySeq
<1>5. QED BY <1>1, <1>2, <1>3, <1>4

LEMMA TopDropped ==
    ASSUME NEW S, NEW ws \in Seq(S), ws # <<>>, NEW vs, vs = SubSeq(ws, 1, Len(ws) - 1)
    PROVE  /\ vs \in Seq(S) /\ Len(vs) = Len(ws) - 1 /\ DOMAIN vs = 1 .. Len(ws) - 1
           /\ DOMAIN ws = 1 .. Len(ws) /\ Len(ws) \in Nat \ {0}
           /\ \A i \in DOMAIN vs : vs[i] = ws[i]
           /\ vs # <<>> => Len(ws) > 1
           /\ Len(ws) > 1 => vs # <<>>
<1>1. Len(ws) \in Nat \ {0} /\ Len(ws) - 1 \in Nat /\ Len(ws) - 1 <= Len(ws) /\ DOMAIN ws = 1 .. Len(ws)
      /\ \A i \in 1 .. Len(ws) : ws[i] \in S
  BY LenProperties, ElementOfSeq, EmptySeq
<1>2. \A i \in 1 .. Len(ws) - 1 : ws[i] \in S
  BY <1>1
<1>3. vs \in Seq(S) /\ Len(vs) = (IF 1 <= Len(ws) - 1 THEN Len(ws) - 1 - 1 + 1 ELSE 0)
      /\ \A i \in 1 .. Len(ws) - 1 - 1 + 1 : vs[i] = ws[1 + i - 1]
  BY <1>1, <1>2, SubSeqProperties
<1>4. Len(vs) = Len(ws) - 1
  BY <1>1, <1>3
<1>5. DOMAIN vs = 1 .. Len(vs)
  BY <1>3, LenProperties
<1>6. vs # <<>> <=> Len(ws) > 1
  <2>1. Len(vs) = 0 <=> vs = <<>>
    BY <1>3, EmptySeq
  <2>2. QED BY <1>1, <1>4, <2>1
<1>7. \A i \in DOMAIN vs : vs[i] = ws[i]
  BY <1>1, <1>3, <1>4, <1>5
<1>8. QED BY <1>1, <1>3, <1>4, <1>5, <1>6, <1>7

LEMMA TopPushed ==
    ASSUME NEW S, NEW ws \in Seq(S), NEW w \in S, NEW vs, vs = Append(ws, w)
    PROVE  /\ vs \in Seq(S) /\ vs # <<>> /\ Len(vs) = Len(ws) + 1 /\ DOMAIN vs = 1 .. Len(ws) + 1
           /\ DOMAIN ws = 1 .. Len(ws) /\ Len(ws) \in Nat
           /\ vs[Len(ws) + 1] = w /\ \A i \in DOMAIN ws : vs[i] = ws[i]
<1>1. Len(ws) \in Nat /\ DOMAIN ws = 1 .. Len(ws)
  BY LenProperties
<1>2. vs \in Seq(S) /\ Len(vs) = Len(ws) + 1 /\ vs[Len(vs)] = w /\ \A i \in 1 .. Len(ws) : vs[i] = ws[i]
  BY <1>1, AppendProperties
<1>3. DOMAIN vs = 1 .. Len(ws) + 1 /\ vs # <<>>
  BY <1>1, <1>2, LenProperties, EmptySeq
<1>4. QED BY <1>1, <1>2, <1>3

-----------------------------------------------------------------------------
(* The store.                                                              *)

\* From variable to variable one comes to the last one: a longer way would go through one of them
\* twice, and they form no ring.
LEMMA WayEnds ==
    ASSUME TermsOK, NoRing, NEW d \in [0 .. Len(ref) -> DOMAIN ref],
           \A n \in 1 .. Len(ref) : d[n] = Hop(d[n - 1])
    PROVE  ref[d[Len(ref)]].ref <= 0
<1> DEFINE N == Len(ref)
<1>1. N \in Nat /\ DOMAIN ref = 1 .. N /\ \A i \in 1 .. N : ref[i] \in TermsUpTo(N)
  BY LenProperties, ElementOfSeq DEF TermsOK
<1>2. ASSUME NEW n \in 0 .. N PROVE d[n] \in 1 .. N /\ ref[d[n]].ref \in -1 .. N /\ ref[d[n]].ref \in Int
  <2>1. d[n] \in 1 .. N
    BY <1>1
  <2>2. QED BY <2>1, <1>1 DEF TermsUpTo
<1> SUFFICES ASSUME ~(ref[d[N]].ref <= 0) PROVE FALSE
  OBVIOUS
<1>3. ASSUME NEW n \in 0 .. N PROVE ref[d[n]].ref > 0
  <2>0. ref[d[n]].ref \in Int
    BY <1>2
  <2> SUFFICES ASSUME ref[d[n]].ref <= 0 PROVE FALSE
    BY <2>0
  <2> DEFINE H == {m \in 0 .. N : m >= n => ref[d[m]].ref <= 0}
  <2>1. 0 \in H
    BY <1>1
  <2>2. ASSUME NEW m \in 0 .. N - 1, m \in H PROVE m + 1 \in H
    <3>1. CASE m >= n
      <4>1. ref[d[m]].ref <= 0 /\ m + 1 \in 1 .. N /\ m + 1 - 1 = m
        BY <1>1, <2>2, <3>1
      <4>2. d[m + 1] = Hop(d[m])
        BY <4>1
      <4>3. ~(ref[d[m]].ref > 0)
        <5>1. m \in 0 .. N
          BY <1>1
        <5>2. ref[d[m]].ref \in Int
          BY <5>1, <1>2
        <5>3. QED BY <4>1, <5>2
      <4>4. d[m + 1] = d[m]
        BY <4>2, <4>3 DEF Hop
      <4>5. QED BY <4>1, <4>4, <1>1
    <3>2. CASE ~(m >= n)
      <4>1. m + 1 >= n => m + 1 = n
        BY <3>2, <1>1
      <4>2. QED BY <4>1, <1>1
    <3>3. QED BY <3>1, <3>2
  <2>3. H \in SUBSET (0 .. N)
    OBVIOUS
  <2> HIDE DEF H
  <2>4. H = 0 .. N
    BY <1>1, <2>1, <2>2, <2>3, UpTo
  <2>5. N \in H
    BY <2>4, <1>1
  <2>6. QED BY <2>5, <1>1 DEF H
<1>4. \A n \in 1 .. N : d[n] = ref[d[n - 1]].ref
  BY <1>1, <1>2, <1>3 DEF Hop
<1>5. \E x, y \in 0 .. N : x # y /\ d[x] = d[y]
  <2>1. IsFiniteSet(0 .. N) /\ Cardinality(0 .. N) = N + 1
    BY <1>1, FS_Interval
  <2>2. IsFiniteSet(1 .. N) /\ Cardinality(1 .. N) = N
    BY <1>1, FS_Interval
  <2>3. Cardinality(1 .. N) < Cardinality(0 .. N) /\ d \in [0 .. N -> 1 .. N]
    BY <1>1, <2>1, <2>2
  <2> DEFINE P == 0 .. N
             Q == 1 .. N
  <2> SUFFICES \E x, y \in P : x # y /\ d[x] = d[y]
    OBVIOUS
  <2>4. IsFiniteSet(P) /\ IsFiniteSet(Q) /\ Cardinality(Q) < Cardinality(P) /\ d \in [P -> Q]
    BY <2>1, <2>2, <2>3
  <2> HIDE DEF P, Q
  <2>5. QED BY <2>4, FS_PigeonHole
<1>6. PICK x, y \in 0 .. N : x < y /\ d[x] = d[y]
  <2>1. PICK x, y \in 0 .. N : x # y /\ d[x] = d[y]
    BY <1>5
  <2>2. x < y \/ y < x
    BY <2>1, <1>1
  <2>3. QED BY <2>1, <2>2
<1> DEFINE S == {d[n] : n \in x .. y - 1}
<1>7. S \in SUBSET DOMAIN ref /\ S # {}
  <2>1. x \in x .. y - 1 /\ x .. y - 1 \subseteq 0 .. N
    BY <1>1, <1>6
  <2>2. QED BY <2>1, <1>2, <1>1
<1>8. ASSUME NEW i \in S PROVE ref[i].ref \in S
  <2>1. PICK n \in x .. y - 1 : i = d[n]
    OBVIOUS
  <2>2. n + 1 \in 1 .. N /\ n + 1 - 1 = n
    BY <1>1, <1>6
  <2>3. ref[i].ref = d[n + 1]
    BY <2>1, <2>2, <1>4
  <2>4. CASE n + 1 = y
    BY <2>3, <2>4, <1>6, <1>1
  <2>5. CASE n + 1 # y
    <3>1. n + 1 \in x .. y - 1
      BY <2>5, <1>6, <1>1
    <3>2. QED BY <2>3, <3>1
  <2>6. QED BY <2>4, <2>5
<1>9. QED BY <1>7, <1>8 DEF NoRing

\* The value of a term: an integer or nothing, or a variable that has none.
LEMMA DerefFacts ==
    ASSUME TermsOK, NoRing, NEW t \in TermsUpTo(Len(ref))
    PROVE  /\ term_deref(t) \in TermsUpTo(Len(ref))
           /\ term_deref(t).ref > 0 => ref[term_deref(t).ref] = NULL
           /\ t.ref >= 0 => term_deref(t).ref >= 0
<1> DEFINE N == Len(ref)
           F == [n \in Nat |-> [i \in DOMAIN ref |-> Hop(i)]]
           Way(d) == d = [n \in 0 .. N |-> IF n = 0 THEN t.ref ELSE [i \in DOMAIN ref |-> Hop(i)][d[n - 1]]]
           last == CHOOSE d : Way(d)
           v == last[N]
<1>1. N \in Nat /\ DOMAIN ref = 1 .. N /\ (\A i \in 1 .. N : ref[i] \in TermsUpTo(N)) /\ t.ref \in -1 .. N /\ t.n \in Int
  BY LenProperties, ElementOfSeq DEF TermsOK, TermsUpTo
<1>2. term_deref(t) = IF t.ref <= 0 THEN t ELSE IF ref[v] = NULL THEN Ref(v) ELSE ref[v]
  BY DEF term_deref
<1>3. CASE t.ref <= 0
  BY <1>1, <1>2, <1>3
<1>4. CASE t.ref > 0
  <2>1. t.ref \in DOMAIN ref
    BY <1>1, <1>4
  <2>2. \A i \in DOMAIN ref : Hop(i) \in DOMAIN ref
    BY <1>1 DEF Hop, TermsUpTo
  <2>3. F \in [Nat -> [DOMAIN ref -> DOMAIN ref]]
    BY <2>2
  <2>4. PICK d \in [0 .. N -> DOMAIN ref] : d[0] = t.ref /\ \A n \in 1 .. N : d[n] = F[n][d[n - 1]]
    <3>1. \E d \in [0 .. N -> DOMAIN ref] : Stepwise(d, N, t.ref, F)
      <4> HIDE DEF F, N
      <4> QED BY <1>1, <2>1, <2>3, Recursion
    <3>2. QED BY <3>1 DEF Stepwise
  <2>5. \A n \in 0 .. N : [i \in DOMAIN ref |-> Hop(i)][d[n]] = Hop(d[n])
    BY <2>4
  <2>6. Way(d)
    <3>1. ASSUME NEW n \in 0 .. N PROVE d[n] = IF n = 0 THEN t.ref ELSE [i \in DOMAIN ref |-> Hop(i)][d[n - 1]]
      <4>1. CASE n = 0
        BY <2>4, <4>1
      <4>2. CASE n # 0
        <5>1. n - 1 \in 0 .. N /\ n \in Nat /\ n \in 1 .. N /\ d[n - 1] \in DOMAIN ref
          BY <4>2, <1>1
        <5>2. d[n] = F[n][d[n - 1]]
          BY <2>4, <5>1
        <5>3. F[n][d[n - 1]] = Hop(d[n - 1])
          BY <5>1
        <5>4. QED BY <5>1, <5>2, <5>3, <4>2, <2>5
      <4>3. QED BY <4>1, <4>2
    <3>2. QED BY <3>1, <2>4
  <2>7. Way(last)
    <3> HIDE DEF Way
    <3> QED BY <2>6
  <2>8. ASSUME NEW e, Way(e) PROVE e = d
    <3> DEFINE G == {n \in 0 .. N : e[n] = d[n]}
    <3>1. e[0] = d[0]
      BY <2>6, <2>8, <1>1
    <3>2. ASSUME NEW n \in 0 .. N - 1, e[n] = d[n] PROVE e[n + 1] = d[n + 1]
      <4>1. n + 1 \in 0 .. N /\ n + 1 - 1 = n /\ n + 1 # 0
        BY <1>1
      <4>2. e[n + 1] = [i \in DOMAIN ref |-> Hop(i)][e[n + 1 - 1]]
        BY <4>1, <2>8
      <4>3. d[n + 1] = [i \in DOMAIN ref |-> Hop(i)][d[n + 1 - 1]]
        BY <4>1, <2>6
      <4>4. QED BY <4>1, <4>2, <4>3, <3>2
    <3>3. G \in SUBSET (0 .. N) /\ 0 \in G /\ \A n \in 0 .. N - 1 : n \in G => n + 1 \in G
      BY <3>1, <3>2, <1>1
    <3>4. G = 0 .. N
      <4> HIDE DEF G
      <4> QED BY <3>3, <1>1, UpTo
    <3>5. DOMAIN e = 0 .. N
      BY <2>8
    <3>6. QED BY <3>4, <3>5, <2>4, <2>8
  <2>9. last = d
    BY <2>7, <2>8
  <2> HIDE DEF last, Way
  <2>10. \A n \in 1 .. N : d[n] = Hop(d[n - 1])
    <3>1. ASSUME NEW n \in 1 .. N PROVE d[n] = Hop(d[n - 1])
      <4>1. n \in 0 .. N /\ n # 0 /\ n - 1 \in 0 .. N /\ n \in Nat
        BY <1>1
      <4>2. d[n] = F[n][d[n - 1]] /\ d[n - 1] \in DOMAIN ref
        BY <4>1, <2>4
      <4>3. QED BY <4>1, <4>2
    <3>2. QED BY <3>1
  <2>11. ref[v].ref <= 0 /\ v \in 1 .. N
    <3>1. ref[d[N]].ref <= 0
      BY <2>10, WayEnds
    <3>2. d[N] \in 1 .. N
      BY <1>1
    <3>3. QED BY <3>1, <3>2, <2>9
  <2>12. ref[v] \in TermsUpTo(N)
    BY <2>11, <1>1
  <2>13. ref[v] # NULL => ref[v].ref = 0
    BY <2>11, <2>12, <1>1 DEF TermsUpTo, NULL
  <2>14. Ref(v) \in TermsUpTo(N) /\ Ref(v).ref = v
    BY <2>11, <1>1 DEF TermsUpTo, Ref
  <2> HIDE DEF v
  <2>15. CASE ref[v] = NULL
    BY <1>1, <1>2, <1>4, <2>11, <2>14, <2>15
  <2>16. CASE ref[v] # NULL
    BY <1>1, <1>2, <1>4, <2>11, <2>12, <2>13, <2>16
  <2>17. QED BY <2>15, <2>16
<1>5. QED BY <1>1, <1>3, <1>4

-----------------------------------------------------------------------------
\* A step after which undoing to a mark up to M gives the variables there were the values it gave.
SamePast(M) ==
    /\ Len(ref) <= Len(ref') /\ M <= Len(trail')
    /\ \A m \in 0 .. M : \A v \in DOMAIN ref : Unwound(m)'[v] = Unwound(m)[v]

LEMMA RefFacts ==
    ASSUME TermsOK
    PROVE  /\ Len(ref) \in Nat /\ DOMAIN ref = 1 .. Len(ref)
           /\ \A i \in 1 .. Len(ref) : ref[i] \in TermsUpTo(Len(ref)) /\ ref[i].ref \in -1 .. Len(ref)
           /\ Len(trail) \in Nat /\ DOMAIN trail = 1 .. Len(trail)
           /\ \A n \in 1 .. Len(trail) : trail[n] \in 1 .. Len(ref) /\ ref[trail[n]] # NULL
<1>1. Len(ref) \in Nat /\ DOMAIN ref = 1 .. Len(ref)
      /\ \A i \in 1 .. Len(ref) : ref[i] \in TermsUpTo(Len(ref))
  BY LenProperties, ElementOfSeq DEF TermsOK
<1>2. Len(trail) \in Nat /\ DOMAIN trail = 1 .. Len(trail)
  BY LenProperties DEF TermsOK
<1>3. \A n \in 1 .. Len(trail) : trail[n] \in 1 .. Len(ref) /\ ref[trail[n]] # NULL
  BY <1>1, <1>2 DEF TermsOK
<1>4. \A i \in 1 .. Len(ref) : ref[i].ref \in -1 .. Len(ref)
  BY <1>1 DEF TermsUpTo
<1>5. QED BY <1>1, <1>2, <1>3, <1>4

\* With more variables there are more terms; a term that is not nothing is a variable or an integer.
LEMMA TermFacts ==
    ASSUME NEW m \in Nat, NEW n \in Nat, m <= n
    PROVE  /\ TermsUpTo(m) \subseteq TermsUpTo(n)
           /\ NULL \in TermsUpTo(m) /\ NULL.ref = -1
           /\ \A i \in 1 .. m : Ref(i) \in TermsUpTo(m) /\ Ref(i).ref = i
           /\ \A i \in Int : Num(i) \in TermsUpTo(m) /\ Num(i).ref = 0
           /\ \A t \in TermsUpTo(m) : t # NULL => t.ref >= 0
           /\ \A t \in TermsUpTo(m) : t.ref \in -1 .. m /\ t.ref \in Int /\ (t.ref <= m => t \in TermsUpTo(m))
<1>1. TermsUpTo(m) \subseteq TermsUpTo(n)
  <2>1. ASSUME NEW t \in TermsUpTo(m) PROVE t \in TermsUpTo(n)
    <3>1. t \in [ref : -1 .. m, n : Int] /\ (t.ref # 0 => t.n = 0)
      BY DEF TermsUpTo
    <3>2. t \in [ref : -1 .. n, n : Int]
      BY <3>1
    <3>3. QED BY <3>1, <3>2 DEF TermsUpTo
  <2>2. QED BY <2>1
<1>2. \A t \in TermsUpTo(m) : t # NULL => t.ref >= 0
  BY DEF TermsUpTo, NULL
<1>3. NULL \in TermsUpTo(m) /\ NULL.ref = -1
  BY DEF TermsUpTo, NULL
<1>4. \A i \in 1 .. m : Ref(i) \in TermsUpTo(m) /\ Ref(i).ref = i
  BY DEF TermsUpTo, Ref
<1>5. \A i \in Int : Num(i) \in TermsUpTo(m) /\ Num(i).ref = 0
  BY DEF TermsUpTo, Num
<1>6. \A t \in TermsUpTo(m) : t.ref \in -1 .. m /\ t.ref \in Int
  BY DEF TermsUpTo
<1>7. QED BY <1>1, <1>2, <1>3, <1>4, <1>5, <1>6

\* What undoing to a mark gives.
LEMMA UnwoundFacts ==
    ASSUME TermsOK, NEW m \in Nat
    PROVE  /\ Unwound(m) \in Seq(TermsUpTo(Len(ref))) /\ Unwound(m) \in Seq(Term)
           /\ Len(Unwound(m)) = Len(ref) /\ DOMAIN Unwound(m) = DOMAIN ref
           /\ \A v \in DOMAIN ref : Unwound(m)[v] = ref[v] \/ Unwound(m)[v] = NULL
           /\ \A v \in DOMAIN ref : Unwound(m)[v] = IF \E n \in m + 1 .. Len(trail) : trail[n] = v THEN NULL ELSE ref[v]
           /\ m >= Len(trail) => Unwound(m) = ref
<1> DEFINE N == Len(ref)
<1>1. N \in Nat /\ DOMAIN ref = 1 .. N /\ (\A i \in 1 .. N : ref[i] \in TermsUpTo(N)) /\ Len(trail) \in Nat
  BY RefFacts
<1>2. DOMAIN Unwound(m) = DOMAIN ref
  BY DEF Unwound
<1>3. \A v \in DOMAIN ref : Unwound(m)[v] = IF \E n \in m + 1 .. Len(trail) : trail[n] = v THEN NULL ELSE ref[v]
  BY DEF Unwound
<1>4. ASSUME NEW v \in 1 .. N PROVE Unwound(m)[v] \in TermsUpTo(N)
  <2>1. NULL \in TermsUpTo(N)
    BY <1>1, TermFacts
  <2>2. QED BY <1>1, <1>3, <2>1
<1>5. Unwound(m) \in [1 .. N -> TermsUpTo(N)]
  <2>1. Unwound(m) = [v \in 1 .. N |-> Unwound(m)[v]]
    BY <1>1 DEF Unwound
  <2>2. QED BY <2>1, <1>4
<1>6. Unwound(m) \in Seq(TermsUpTo(N)) /\ Len(Unwound(m)) = N
  BY <1>1, <1>5, SeqDef
<1>7. TermsUpTo(N) \subseteq Term
  <2>1. ASSUME NEW t \in TermsUpTo(N) PROVE t \in Term
    BY <1>1 DEF TermsUpTo, Term
  <2>2. QED BY <2>1
<1>8. Unwound(m) \in Seq(Term)
  BY <1>6, <1>7, SeqMonotonic
<1>9. m >= Len(trail) => Unwound(m) = ref
  <2> SUFFICES ASSUME m >= Len(trail) PROVE Unwound(m) = ref
    OBVIOUS
  <2>1. m + 1 .. Len(trail) = {}
    BY <1>1
  <2>2. \A v \in DOMAIN ref : Unwound(m)[v] = ref[v]
    BY <1>3, <2>1
  <2>3. ref \in Seq(TermsUpTo(N))
    BY DEF TermsOK
  <2>4. QED BY <2>2, <2>3, <1>1, <1>6, SeqEqual
<1>10. QED BY <1>2, <1>3, <1>6, <1>8, <1>9

\* Undoing to a mark changes nothing of what undoing further gives.
LEMMA UnwindStep ==
    ASSUME TermsOK, NoRing, NEW m \in Nat, trail_unwind(m)
    PROVE  /\ TermsOK' /\ NoRing' /\ Len(ref') = Len(ref)
           /\ Len(trail') = IF m < Len(trail) THEN m ELSE Len(trail)
           /\ \A M \in Nat : M <= Len(trail') => SamePast(M)
<1> DEFINE N == Len(ref)
           L == IF m < Len(trail) THEN m ELSE Len(trail)
<1>1. N \in Nat /\ DOMAIN ref = 1 .. N /\ (\A i \in 1 .. N : ref[i] \in TermsUpTo(N)) /\ Len(trail) \in Nat
      /\ DOMAIN trail = 1 .. Len(trail)
      /\ \A n \in 1 .. Len(trail) : trail[n] \in 1 .. N /\ ref[trail[n]] # NULL
  BY RefFacts
<1>2. ref' = Unwound(m) /\ trail' = SubSeq(trail, 1, L)
  BY DEF trail_unwind
<1>3. Len(ref') = N /\ DOMAIN ref' = DOMAIN ref /\ ref' \in Seq(TermsUpTo(N))
      /\ \A v \in DOMAIN ref : ref'[v] = IF \E n \in m + 1 .. Len(trail) : trail[n] = v THEN NULL ELSE ref[v]
  BY <1>2, UnwoundFacts
<1>4. L \in 0 .. Len(trail) /\ L \in Nat
  BY <1>1
<1>5. trail \in Seq(Nat) /\ \A n \in 1 .. L : trail[n] \in Nat
  BY <1>1, <1>4 DEF TermsOK
<1>6. trail' \in Seq(Nat) /\ Len(trail') = L /\ \A n \in 1 .. L : trail'[n] = trail[n]
  <2>1. SubSeq(trail, 1, L) \in Seq(Nat) /\ Len(SubSeq(trail, 1, L)) = (IF 1 <= L THEN L - 1 + 1 ELSE 0)
        /\ \A n \in 1 .. L - 1 + 1 : SubSeq(trail, 1, L)[n] = trail[1 + n - 1]
    <3> HIDE DEF L
    <3>1. QED BY <1>4, <1>5, SubSeqProperties
  <2>2. L - 1 + 1 = L /\ \A n \in 1 .. L : 1 + n - 1 = n
    BY <1>4
  <2> HIDE DEF L
  <2>3. QED BY <2>1, <2>2, <1>2, <1>4
<1>7. DOMAIN trail' = 1 .. L
  BY <1>6, LenProperties
<1>8. \A i, j \in DOMAIN trail : trail[i] = trail[j] => i = j
  BY DEF TermsOK
<1>9. TermsOK'
  <2>1. ASSUME NEW n \in DOMAIN trail' PROVE trail'[n] \in DOMAIN ref' /\ ref'[trail'[n]] # NULL
    <3>1. n \in 1 .. L /\ n \in 1 .. Len(trail) /\ trail'[n] = trail[n] /\ trail[n] \in 1 .. N /\ ref[trail[n]] # NULL
      BY <1>1, <1>4, <1>6, <1>7
    <3>2. ~ \E i \in m + 1 .. Len(trail) : trail[i] = trail[n]
      <4> SUFFICES ASSUME NEW i \in m + 1 .. Len(trail), trail[i] = trail[n] PROVE FALSE
        OBVIOUS
      <4>1. i \in 1 .. Len(trail) /\ i > n
        BY <3>1, <1>1
      <4>2. QED BY <4>1, <3>1, <1>1, <1>8
    <3>3. QED BY <3>1, <3>2, <1>1, <1>3
  <2>2. ASSUME NEW i \in DOMAIN trail', NEW j \in DOMAIN trail', trail'[i] = trail'[j] PROVE i = j
    <3>1. i \in DOMAIN trail /\ j \in DOMAIN trail /\ trail[i] = trail[j]
      BY <2>2, <1>1, <1>4, <1>6, <1>7
    <3>2. QED BY <3>1, <1>8
  <2>3. ref' \in Seq(TermsUpTo(Len(ref')))
    BY <1>3
  <2>4. QED BY <2>1, <2>2, <2>3, <1>6 DEF TermsOK
<1>10. NoRing'
  <2>1. ASSUME NEW S \in SUBSET DOMAIN ref, S # {} PROVE \E i \in S : ref'[i].ref \notin S
    <3>1. PICK i \in S : ref[i].ref \notin S
      BY <2>1 DEF NoRing
    <3>2. ref'[i] = ref[i] \/ ref'[i] = NULL
      BY <1>3
    <3>3. NULL.ref \notin S
      BY <1>1 DEF NULL
    <3>4. QED BY <3>1, <3>2, <3>3
  <2>2. QED BY <2>1, <1>3 DEF NoRing
<1>11. ASSUME NEW M \in Nat, M <= Len(trail') PROVE SamePast(M)
  <2>1. ASSUME NEW b \in 0 .. M, NEW v \in DOMAIN ref PROVE Unwound(b)'[v] = Unwound(b)[v]
    <3>1. Unwound(b)'[v] = IF \E n \in b + 1 .. L : trail[n] = v THEN NULL ELSE ref'[v]
      <4>1. Unwound(b)'[v] = IF \E n \in b + 1 .. Len(trail') : trail'[n] = v THEN NULL ELSE ref'[v]
        BY <1>3 DEF Unwound
      <4>2. \A n \in b + 1 .. L : trail'[n] = trail[n]
        BY <1>6
      <4>3. QED BY <4>1, <4>2, <1>6
    <3>2. Unwound(b)[v] = IF \E n \in b + 1 .. Len(trail) : trail[n] = v THEN NULL ELSE ref[v]
      BY UnwoundFacts
    <3>3. ref'[v] = IF \E n \in m + 1 .. Len(trail) : trail[n] = v THEN NULL ELSE ref[v]
      BY <1>3
    <3>4. (\E n \in b + 1 .. Len(trail) : trail[n] = v)
             <=> (\E n \in b + 1 .. L : trail[n] = v) \/ (\E n \in m + 1 .. Len(trail) : trail[n] = v)
      <4>1. b + 1 .. Len(trail) = (b + 1 .. L) \cup (m + 1 .. Len(trail))
        BY <1>1, <1>6, <1>11
      <4>2. QED BY <4>1
    <3>5. QED BY <3>1, <3>2, <3>3, <3>4
  <2>2. QED BY <2>1, <1>1, <1>3, <1>11 DEF SamePast
<1>12. QED BY <1>3, <1>6, <1>9, <1>10, <1>11

-----------------------------------------------------------------------------
\* The store has more variables, and what is bound now is on the trail.
LEMMA ExtendStep ==
    ASSUME TermsOK, NoRing,
           ref' \in Seq(TermsUpTo(Len(ref'))), Len(ref) <= Len(ref'),
           trail' \in Seq(Nat), Len(trail) <= Len(trail'),
           \A n \in 1 .. Len(trail) : trail'[n] = trail[n],
           \A n \in Len(trail) + 1 .. Len(trail') :
              trail'[n] \in 1 .. Len(ref') /\ ref'[trail'[n]] # NULL /\ (trail'[n] <= Len(ref) => ref[trail'[n]] = NULL),
           \A i, j \in Len(trail) + 1 .. Len(trail') : trail'[i] = trail'[j] => i = j,
           \A i \in 1 .. Len(ref) : ref'[i] = ref[i] \/ \E n \in Len(trail) + 1 .. Len(trail') : trail'[n] = i
    PROVE  TermsOK' /\ SamePast(Len(trail))
<1> DEFINE N == Len(ref)
           L == Len(trail)
           New == L + 1 .. Len(trail')
<1>1. N \in Nat /\ DOMAIN ref = 1 .. N /\ (\A i \in 1 .. N : ref[i] \in TermsUpTo(N)) /\ L \in Nat
      /\ DOMAIN trail = 1 .. L
      /\ \A n \in 1 .. L : trail[n] \in 1 .. N /\ ref[trail[n]] # NULL
  BY RefFacts
<1>2. Len(ref') \in Nat /\ DOMAIN ref' = 1 .. Len(ref') /\ Len(trail') \in Nat /\ DOMAIN trail' = 1 .. Len(trail')
  <2>1. Len(ref') \in Nat /\ DOMAIN ref' = 1 .. Len(ref')
    BY LenProperties
  <2>2. Len(trail') \in Nat /\ DOMAIN trail' = 1 .. Len(trail')
    BY LenProperties
  <2>3. QED BY <2>1, <2>2
<1>3. 1 .. Len(trail') = (1 .. L) \cup New
  BY <1>1, <1>2
<1>4. \A i, j \in DOMAIN trail : trail[i] = trail[j] => i = j
  BY DEF TermsOK
<1>5. ASSUME NEW v \in 1 .. N, ref[v] # NULL PROVE (\A n \in New : trail'[n] # v) /\ ref'[v] = ref[v]
  <2>1. ASSUME NEW n \in New PROVE trail'[n] # v
    BY <1>5, <1>1, <1>2
  <2>2. QED BY <2>1
<1>6. TermsOK'
  <2>1. ASSUME NEW n \in DOMAIN trail' PROVE trail'[n] \in DOMAIN ref' /\ ref'[trail'[n]] # NULL
    <3>1. CASE n \in 1 .. L
      <4>1. trail'[n] = trail[n] /\ trail[n] \in 1 .. N /\ ref[trail[n]] # NULL
        BY <3>1, <1>1
      <4>2. ref'[trail[n]] = ref[trail[n]] /\ trail[n] \in 1 .. Len(ref')
        BY <4>1, <1>1, <1>2, <1>5
      <4>3. QED BY <4>1, <4>2, <1>2
    <3>2. CASE n \in New
      BY <3>2, <1>2
    <3>3. QED BY <3>1, <3>2, <1>2, <1>3
  <2>2. ASSUME NEW i \in DOMAIN trail', NEW j \in DOMAIN trail', trail'[i] = trail'[j] PROVE i = j
    <3>1. CASE i \in 1 .. L /\ j \in 1 .. L
      BY <3>1, <2>2, <1>1, <1>4
    <3>2. CASE i \in New /\ j \in New
      BY <3>2, <2>2
    <3>3. CASE i \in 1 .. L /\ j \in New
      <4>1. trail'[i] \in 1 .. N /\ ref[trail'[i]] # NULL
        BY <3>3, <1>1
      <4>2. QED BY <4>1, <1>5, <3>3, <2>2
    <3>4. CASE j \in 1 .. L /\ i \in New
      <4>1. trail'[j] \in 1 .. N /\ ref[trail'[j]] # NULL
        BY <3>4, <1>1
      <4>2. QED BY <4>1, <1>5, <3>4, <2>2
    <3>5. QED BY <3>1, <3>2, <3>3, <3>4, <1>2, <1>3
  <2>3. QED BY <2>1, <2>2 DEF TermsOK
<1>7. ASSUME NEW b \in 0 .. L, NEW v \in DOMAIN ref PROVE Unwound(b)'[v] = Unwound(b)[v]
  <2>1. Unwound(b)'[v] = IF \E n \in b + 1 .. Len(trail') : trail'[n] = v THEN NULL ELSE ref'[v]
    <3>1. v \in DOMAIN ref'
      BY <1>1, <1>2
    <3>2. QED BY <3>1 DEF Unwound
  <2>2. Unwound(b)[v] = IF \E n \in b + 1 .. L : trail[n] = v THEN NULL ELSE ref[v]
    BY UnwoundFacts, <1>1
  <2>3. b + 1 .. Len(trail') = (b + 1 .. L) \cup New
    BY <1>1, <1>2
  <2>4. \A n \in b + 1 .. L : trail'[n] = trail[n]
    BY <1>1
  <2>5. CASE \E n \in New : trail'[n] = v
    <3>1. PICK n \in New : trail'[n] = v
      BY <2>5
    <3>2. ref[v] = NULL
      BY <3>1, <1>1, <1>5
    <3>3. n \in b + 1 .. Len(trail')
      BY <2>3
    <3>4. Unwound(b)'[v] = NULL
      BY <2>1, <3>1, <3>3
    <3>5. QED BY <2>2, <3>2, <3>4
  <2>6. CASE ~ \E n \in New : trail'[n] = v
    <3>1. ref'[v] = ref[v]
      BY <2>6, <1>1
    <3>2. (\E n \in b + 1 .. Len(trail') : trail'[n] = v) <=> (\E n \in b + 1 .. L : trail[n] = v)
      BY <2>3, <2>4, <2>6
    <3>3. QED BY <3>1, <3>2, <2>1, <2>2
  <2>7. QED BY <2>5, <2>6
<1>8. SamePast(L)
  BY <1>1, <1>2, <1>7 DEF SamePast
<1>9. QED BY <1>6, <1>8

\* The variables there are, and new ones up to n without a value.
More(n) == [i \in 1 .. n |-> IF i <= Len(ref) THEN ref[i] ELSE NULL]

LEMMA MoreFacts ==
    ASSUME TermsOK, NEW n \in Nat, Len(ref) <= n
    PROVE  /\ More(n) \in Seq(TermsUpTo(n)) /\ Len(More(n)) = n /\ DOMAIN More(n) = 1 .. n
           /\ \A i \in 1 .. Len(ref) : More(n)[i] = ref[i]
           /\ \A i \in 1 .. n : i > Len(ref) => More(n)[i] = NULL
           /\ \A i \in 1 .. n : More(n)[i] \in TermsUpTo(n)
<1>1. Len(ref) \in Nat /\ \A i \in 1 .. Len(ref) : ref[i] \in TermsUpTo(Len(ref))
  BY RefFacts
<1>2. TermsUpTo(Len(ref)) \subseteq TermsUpTo(n) /\ NULL \in TermsUpTo(n)
  BY <1>1, TermFacts
<1>3. ASSUME NEW i \in 1 .. n PROVE More(n)[i] \in TermsUpTo(n)
  BY <1>1, <1>2 DEF More
<1>4. More(n) \in [1 .. n -> TermsUpTo(n)]
  BY <1>3 DEF More
<1>5. More(n) \in Seq(TermsUpTo(n))
  BY <1>4, SeqDef
<1>6. Len(More(n)) = n
  BY <1>4, <1>5, LenProperties
<1>7. QED BY <1>1, <1>3, <1>4, <1>5, <1>6 DEF More

\* New variables and nothing bound.
LEMMA MoreStep ==
    ASSUME TermsOK, NoRing, NEW n \in Nat, Len(ref) <= n, ref' = More(n), UNCHANGED trail
    PROVE  TermsOK' /\ NoRing' /\ Len(ref') = n /\ SamePast(Len(trail))
<1>1. Len(ref) \in Nat /\ DOMAIN ref = 1 .. Len(ref) /\ Len(trail) \in Nat
      /\ \A i \in 1 .. Len(ref) : ref[i].ref \in -1 .. Len(ref)
  BY RefFacts
<1>2. ref' \in Seq(TermsUpTo(n)) /\ Len(ref') = n /\ DOMAIN ref' = 1 .. n
      /\ (\A i \in 1 .. Len(ref) : ref'[i] = ref[i])
      /\ \A i \in 1 .. n : i > Len(ref) => ref'[i] = NULL
  BY MoreFacts
<1>3. trail \in Seq(Nat) /\ trail' = trail
  BY DEF TermsOK
<1>4. TermsOK' /\ SamePast(Len(trail))
  BY <1>1, <1>2, <1>3, ExtendStep
<1>5. NoRing'
  <2>1. ASSUME NEW S \in SUBSET (1 .. n), S # {}, \A i \in S : ref'[i].ref \in S PROVE FALSE
    <3>1. ASSUME NEW i \in S PROVE i \in 1 .. Len(ref)
      <4>1. NULL.ref = -1 /\ NULL.ref \notin S
        BY DEF NULL
      <4>2. ref'[i] # NULL
        BY <2>1, <4>1
      <4>3. QED BY <4>2, <1>1, <1>2
    <3>2. \A i \in S : ref[i].ref \in S
      BY <2>1, <3>1, <1>2
    <3>3. S \in SUBSET DOMAIN ref
      BY <3>1, <1>1
    <3>4. QED BY <2>1, <3>2, <3>3 DEF NoRing
  <2>2. QED BY <2>1, <1>2 DEF NoRing
<1>6. QED BY <1>2, <1>4, <1>5

\* New variables and one of the variables without a value bound.
LEMMA BindStep ==
    ASSUME TermsOK, NoRing, NEW n \in Nat, Len(ref) <= n,
           NEW v \in 1 .. n, More(n)[v] = NULL,
           NEW t \in TermsUpTo(n), t # NULL, t.ref # v, t.ref > 0 => More(n)[t.ref] = NULL,
           ref' = [More(n) EXCEPT ![v] = t], trail' = Append(trail, v)
    PROVE  TermsOK' /\ NoRing' /\ Len(ref') = n /\ SamePast(Len(trail))
<1>1. Len(ref) \in Nat /\ DOMAIN ref = 1 .. Len(ref) /\ Len(trail) \in Nat
      /\ \A i \in 1 .. Len(ref) : ref[i].ref \in -1 .. Len(ref)
  BY RefFacts
<1>2. /\ More(n) \in Seq(TermsUpTo(n)) /\ Len(More(n)) = n /\ DOMAIN More(n) = 1 .. n
      /\ \A i \in 1 .. Len(ref) : More(n)[i] = ref[i]
      /\ \A i \in 1 .. n : i > Len(ref) => More(n)[i] = NULL
  BY MoreFacts
<1>3. ref' \in Seq(TermsUpTo(n)) /\ Len(ref') = n /\ DOMAIN ref' = 1 .. n
      /\ ref'[v] = t /\ \A i \in 1 .. n : i # v => ref'[i] = More(n)[i]
  <2>1. v \in 1 .. Len(More(n))
    BY <1>2
  <2>2. ref' \in Seq(TermsUpTo(n)) /\ Len(ref') = n
    BY <1>2, <2>1, ExceptSeq
  <2>3. QED BY <1>2, <2>2
<1>4. trail' \in Seq(Nat) /\ Len(trail') = Len(trail) + 1 /\ trail'[Len(trail) + 1] = v
      /\ \A i \in 1 .. Len(trail) : trail'[i] = trail[i]
  <2>1. trail \in Seq(Nat) /\ v \in Nat
    BY DEF TermsOK
  <2>2. QED BY <2>1, <1>1, AppendProperties
<1>5. TermsOK' /\ SamePast(Len(trail))
  <2>1. Len(trail) + 1 .. Len(trail') = {Len(trail) + 1}
    BY <1>1, <1>4
  <2>2. v <= Len(ref) => ref[v] = NULL
    BY <1>1, <1>2
  <2>3. \A m \in Len(trail) + 1 .. Len(trail') :
           trail'[m] \in 1 .. Len(ref') /\ ref'[trail'[m]] # NULL /\ (trail'[m] <= Len(ref) => ref[trail'[m]] = NULL)
    BY <2>1, <2>2, <1>3, <1>4
  <2>4. \A i \in 1 .. Len(ref) : ref'[i] = ref[i] \/ \E m \in Len(trail) + 1 .. Len(trail') : trail'[m] = i
    <3>1. ASSUME NEW i \in 1 .. Len(ref) PROVE ref'[i] = ref[i] \/ \E m \in Len(trail) + 1 .. Len(trail') : trail'[m] = i
      <4>1. i \in 1 .. n
        BY <1>1
      <4>2. CASE i = v
        BY <4>2, <2>1, <1>4
      <4>3. CASE i # v
        BY <4>1, <4>3, <1>2, <1>3
      <4>4. QED BY <4>2, <4>3
    <3>2. QED BY <3>1
  <2>5. \A i, j \in Len(trail) + 1 .. Len(trail') : trail'[i] = trail'[j] => i = j
    BY <2>1
  <2>6. Len(ref) <= Len(ref') /\ Len(trail) <= Len(trail')
    BY <1>1, <1>3, <1>4
  <2>7. ref' \in Seq(TermsUpTo(Len(ref')))
    BY <1>3
  <2>8. QED BY <2>3, <2>4, <2>5, <2>6, <2>7, <1>4, ExtendStep
<1>6. NoRing'
  <2>1. ASSUME NEW S \in SUBSET (1 .. n), S # {}, \A i \in S : ref'[i].ref \in S PROVE FALSE
    <3>1. NULL.ref = -1 /\ NULL.ref \notin S
      BY DEF NULL
    <3>2. CASE v \in S
      <4>1. t.ref \in S /\ t.ref \in 1 .. n
        BY <2>1, <3>2, <1>3
      <4>2. ref'[t.ref] = NULL
        BY <4>1, <1>3
      <4>3. QED BY <2>1, <4>1, <4>2, <3>1
    <3>3. CASE v \notin S
      <4>1. ASSUME NEW i \in S PROVE i \in 1 .. Len(ref) /\ ref'[i] = ref[i]
        <5>1. i \in 1 .. n /\ ref'[i] = More(n)[i]
          BY <3>3, <1>3
        <5>2. ref'[i] # NULL
          BY <2>1, <3>1
        <5>3. QED BY <5>1, <5>2, <1>1, <1>2
      <4>2. S \in SUBSET DOMAIN ref /\ \A i \in S : ref[i].ref \in S
        BY <4>1, <2>1, <1>1
      <4>3. QED BY <2>1, <4>2 DEF NoRing
    <3>4. QED BY <3>2, <3>3
  <2>2. QED BY <2>1, <1>3 DEF NoRing
<1>7. QED BY <1>3, <1>5, <1>6

-----------------------------------------------------------------------------
(* The program.                                                            *)

LEMMA NodeFacts ==
    ASSUME code \in Codes, NEW nd \in code.nodes
    PROVE  /\ nd.op \in Inner \cup Leaf /\ nd.id \in Ids
           /\ Len(nd.c) \in Nat /\ DOMAIN nd.c = 1 .. Len(nd.c)
           /\ \A i \in 1 .. Len(nd.c) : nd.c[i] \in code.nodes /\ nd.c[i].id = <<nd.id[1], Append(nd.id[2], i)>>
           /\ nd.op = "SEQ" => Len(nd.c) >= 1
           /\ nd.op = "ALT" => Len(nd.c) = 2
           /\ Len(nd.args) \in Nat /\ DOMAIN nd.args = 1 .. Len(nd.args)
           /\ \A i \in 1 .. Len(nd.args) : nd.args[i].slot \in NoSlot .. MaxSlot /\ nd.args[i].n \in Int
           /\ nd.op = "UNIFY" => Len(nd.args) = 2
           /\ nd.op = "WRITE" => Len(nd.args) = 1
           /\ nd.op = "IS" => Len(nd.args) = 3
           /\ nd.op = "GT" => Len(nd.args) = 2
           /\ nd.op = "CALL" => Len(nd.args) <= MaxSlot + 1
           /\ nd.id[2] \in Seq(Nat)
<1>1. IsNode(nd, code, MaxSlot)
  BY PlEngineAssumption DEF IsLowered
<1>2. nd.c \in Seq(code.nodes) /\ nd.args \in Seq([slot : NoSlot .. MaxSlot, n : Int])
  BY <1>1 DEF IsNode
<1>3. Len(nd.c) \in Nat /\ DOMAIN nd.c = 1 .. Len(nd.c) /\ \A i \in 1 .. Len(nd.c) : nd.c[i] \in code.nodes
  BY <1>2, LenProperties, ElementOfSeq
<1>4. Len(nd.args) \in Nat /\ DOMAIN nd.args = 1 .. Len(nd.args)
      /\ \A i \in 1 .. Len(nd.args) : nd.args[i] \in [slot : NoSlot .. MaxSlot, n : Int]
  BY <1>2, LenProperties, ElementOfSeq
<1>5. \A i \in 1 .. Len(nd.args) : nd.args[i].slot \in NoSlot .. MaxSlot /\ nd.args[i].n \in Int
  BY <1>4
<1>6. \A i \in 1 .. Len(nd.c) : nd.c[i].id = <<nd.id[1], Append(nd.id[2], i)>>
  BY <1>1, <1>3 DEF IsNode
<1>7. nd.op = "SEQ" => Len(nd.c) >= 1
  BY <1>1, <1>2, <1>3, EmptySeq DEF IsNode
<1>8. /\ nd.op = "UNIFY" => Len(nd.args) = 2
      /\ nd.op = "WRITE" => Len(nd.args) = 1
      /\ nd.op = "IS" => Len(nd.args) = 3
      /\ nd.op = "GT" => Len(nd.args) = 2
  <2>1. /\ "UNIFY" \in DOMAIN ArgCount /\ "WRITE" \in DOMAIN ArgCount
        /\ "IS" \in DOMAIN ArgCount /\ "GT" \in DOMAIN ArgCount
        /\ ArgCount["UNIFY"] = 2 /\ ArgCount["WRITE"] = 1 /\ ArgCount["IS"] = 3 /\ ArgCount["GT"] = 2
    BY DEF ArgCount
  <2>2. nd.op \in DOMAIN ArgCount => Len(nd.args) = ArgCount[nd.op]
    BY <1>1 DEF IsNode
  <2>3. QED BY <2>1, <2>2
<1>9. nd.op \in Inner \cup Leaf /\ nd.id[2] \in Seq(Nat) /\ (nd.op = "ALT" => Len(nd.c) = 2)
      /\ (nd.op = "CALL" => Len(nd.args) <= MaxSlot + 1)
  BY <1>1 DEF IsNode
<1>10. nd.id \in Ids
  BY DEF Ids
<1>11. QED BY <1>3, <1>4, <1>5, <1>6, <1>7, <1>8, <1>9, <1>10

LEMMA EntryFacts ==
    ASSUME code \in Codes
    PROVE  /\ "main" \in DOMAIN code.entry
           /\ \A p \in DOMAIN code.entry : /\ code.entry[p] \in code.nodes
                                           /\ code.entry[p].op \in {"SEQ", "CHOICE"}
                                           /\ code.entry[p].id[1] = p
           /\ \A m, nd \in code.nodes : m.id = nd.id => m = nd
BY PlEngineAssumption DEF IsLowered

-----------------------------------------------------------------------------
(* Environments.                                                           *)

\* Environments whose variables are among the first n.
EnvUpTo(n) == [0 .. MaxSlot -> TermsUpTo(n)]

LEMMA EnvFacts ==
    ASSUME TermsOK, EnvsOK
    PROVE  /\ env \in Seq(EnvUpTo(Len(ref))) /\ Len(env) \in Nat /\ DOMAIN env = 1 .. Len(env)
           /\ \A e \in DOMAIN env : env[e] \in EnvUpTo(Len(ref))
           /\ \A n \in Nat : Len(ref) <= n => env \in Seq(EnvUpTo(n))
           /\ genv \in 1 .. Len(env) /\ freed \subseteq 1 .. Len(env) /\ cut \in BOOLEAN
<1>1. env \in Seq(EnvUpTo(Len(ref)))
  BY DEF EnvsOK, EnvUpTo
<1>2. Len(env) \in Nat /\ DOMAIN env = 1 .. Len(env) /\ \A e \in DOMAIN env : env[e] \in EnvUpTo(Len(ref))
  BY <1>1, LenProperties, ElementOfSeq
<1>3. ASSUME NEW n \in Nat, Len(ref) <= n PROVE env \in Seq(EnvUpTo(n))
  <2>1. TermsUpTo(Len(ref)) \subseteq TermsUpTo(n)
    BY <1>3, RefFacts, TermFacts
  <2>2. EnvUpTo(Len(ref)) \subseteq EnvUpTo(n)
    BY <2>1 DEF EnvUpTo
  <2>3. QED BY <1>1, <2>2, SeqMonotonic
<1>4. genv \in 1 .. Len(env) /\ freed \subseteq 1 .. Len(env) /\ cut \in BOOLEAN
  BY <1>2 DEF EnvsOK
<1>5. QED BY <1>1, <1>2, <1>3, <1>4

\* One environment is changed.
LEMMA EnvPut ==
    ASSUME TermsOK, EnvsOK, NEW n \in Nat, Len(ref) <= n, NEW i \in DOMAIN env, NEW e \in EnvUpTo(n),
           NEW es, es = [env EXCEPT ![i] = e]
    PROVE  es \in Seq(EnvUpTo(n)) /\ Len(es) = Len(env) /\ DOMAIN es = DOMAIN env
<1>1. env \in Seq(EnvUpTo(n)) /\ i \in 1 .. Len(env) /\ DOMAIN env = 1 .. Len(env)
  BY EnvFacts
<1>2. es \in Seq(EnvUpTo(n)) /\ Len(es) = Len(env)
  BY <1>1, ExceptSeq
<1>3. QED BY <1>1, <1>2

\* A slot that is empty gets the next variable.
LEMMA FreshFacts ==
    ASSUME NEW n \in Nat, NEW e \in EnvUpTo(n), NEW x, x.slot \in NoSlot .. MaxSlot,
           NEW m, m = n + Count(e, x), NEW f, f = Fresh(e, x, m)
    PROVE  /\ m \in Nat /\ n <= m
           /\ f \in EnvUpTo(m)
           /\ x.slot # NoSlot => x.slot \in 0 .. MaxSlot /\ f[x.slot] # NULL
           /\ \A s \in 0 .. MaxSlot : f[s] = e[s] \/ (f[s] = Ref(m) /\ m = n + 1)
           /\ \A s \in 0 .. MaxSlot : e[s] # NULL => f[s] = e[s]
<1>0. MaxSlot \in Nat
  BY PlEngineAssumption
<1>1. x.slot # NoSlot => x.slot \in 0 .. MaxSlot
  BY <1>0 DEF NoSlot
<1>2. CASE Empty(e, x)
  <2>1. m = n + 1 /\ f = [e EXCEPT ![x.slot] = Ref(m)] /\ x.slot \in 0 .. MaxSlot /\ e[x.slot] = NULL
    BY <1>1, <1>2 DEF Empty, Count, Fresh
  <2>2. Ref(m) \in TermsUpTo(m) /\ Ref(m).ref = m /\ TermsUpTo(n) \subseteq TermsUpTo(m) /\ NULL.ref = -1 /\ m \in Nat
    BY <2>1, TermFacts
  <2>3. e \in [0 .. MaxSlot -> TermsUpTo(m)]
    BY <2>2 DEF EnvUpTo
  <2>4. f \in EnvUpTo(m) /\ f[x.slot] = Ref(m) /\ \A s \in 0 .. MaxSlot : s # x.slot => f[s] = e[s]
    BY <2>1, <2>2, <2>3 DEF EnvUpTo
  <2>5. Ref(m) # NULL
    BY <2>2
  <2>6. QED BY <2>1, <2>2, <2>4, <2>5
<1>3. CASE ~Empty(e, x)
  <2>1. m = n /\ f = e /\ (x.slot # NoSlot => e[x.slot] # NULL)
    BY <1>3 DEF Empty, Count, Fresh
  <2>2. QED BY <1>1, <2>1
<1>4. QED BY <1>2, <1>3

-----------------------------------------------------------------------------
(* What the steps do to variables and environments.                        *)

\* What is unified or passed: a term with a variable that has no value, or an integer.
LEMMA SlotValue ==
    ASSUME TermsOK, NoRing, NEW t \in TermsUpTo(Len(ref))
    PROVE  /\ term_deref(t) \in TermsUpTo(Len(ref))
           /\ t # NULL => term_deref(t) # NULL
           /\ term_deref(t).ref > 0 => term_deref(t).ref \in 1 .. Len(ref) /\ ref[term_deref(t).ref] = NULL
<1>1. Len(ref) \in Nat
  BY RefFacts
<1>2. t # NULL => t.ref >= 0
  BY <1>1, TermFacts
<1>3. term_deref(t) \in TermsUpTo(Len(ref)) /\ (term_deref(t).ref > 0 => ref[term_deref(t).ref] = NULL)
      /\ (t.ref >= 0 => term_deref(t).ref >= 0)
  BY DerefFacts
<1>4. term_deref(t).ref \in -1 .. Len(ref)
  BY <1>1, <1>3, TermFacts
<1>5. NULL.ref = -1
  BY DEF NULL
<1>6. QED BY <1>1, <1>2, <1>3, <1>4, <1>5

LEMMA UnifyStep ==
    ASSUME code \in Codes, TermsOK, NoRing, EnvsOK, ctl.nd \in code.nodes, ExecUnify
    PROVE  TermsOK' /\ NoRing' /\ EnvsOK' /\ SamePast(Len(trail)) /\ DOMAIN env' = DOMAIN env
<1> DEFINE N  == Len(ref)
           a  == ctl.nd.args[1]
           b  == ctl.nd.args[2]
           n1 == Len(ref) + Count(env[genv], a)
           e1 == Fresh(env[genv], a, n1)
           n2 == n1 + Count(e1, b)
           e2 == Fresh(e1, b, n2)
           term(x) == IF x.slot = NoSlot THEN Num(x.n)
                      ELSE IF e2[x.slot].ref > Len(ref) THEN e2[x.slot] ELSE term_deref(e2[x.slot])
           lt == term(a)
           rt == term(b)
           more == [i \in 1 .. n2 |-> IF i <= Len(ref) THEN ref[i] ELSE NULL]
           bind(v, t) == ref' = [more EXCEPT ![v.ref] = t] /\ trail' = Append(trail, v.ref)
<1>1. /\ env' = [env EXCEPT ![genv] = e2]
      /\ CASE lt = rt             -> ref' = more /\ UNCHANGED trail /\ Return(TRUE)
           [] lt # rt /\ ~Bound(lt) -> bind(lt, rt) /\ Return(TRUE)
           [] lt # rt /\ Bound(lt) /\ ~Bound(rt) -> bind(rt, lt) /\ Return(TRUE)
           [] OTHER               -> ref' = more /\ UNCHANGED trail /\ Return(FALSE)
  BY DEF ExecUnify
<1>2. N \in Nat /\ Len(ctl.nd.args) = 2 /\ a.slot \in NoSlot .. MaxSlot /\ b.slot \in NoSlot .. MaxSlot
      /\ a.n \in Int /\ b.n \in Int
  <2>1. ctl.nd.op = "UNIFY"
    BY DEF ExecUnify, Executing
  <2>2. QED BY <2>1, RefFacts, NodeFacts
<1>3. genv \in DOMAIN env /\ env[genv] \in EnvUpTo(N) /\ DOMAIN env = 1 .. Len(env)
      /\ freed \subseteq DOMAIN env /\ cut \in BOOLEAN
  BY EnvFacts
<1>4. /\ n1 \in Nat /\ N <= n1 /\ e1 \in EnvUpTo(n1)
      /\ a.slot # NoSlot => a.slot \in 0 .. MaxSlot /\ e1[a.slot] # NULL
      /\ \A s \in 0 .. MaxSlot : e1[s] = env[genv][s] \/ (e1[s] = Ref(n1) /\ n1 = N + 1)
  <2> DEFINE e == env[genv]
  <2>1. e \in EnvUpTo(N) /\ N \in Nat /\ a.slot \in NoSlot .. MaxSlot /\ n1 = N + Count(e, a) /\ e1 = Fresh(e, a, n1)
    BY <1>2, <1>3
  <2> HIDE DEF e, N, a, n1, e1
  <2>2. /\ n1 \in Nat /\ N <= n1 /\ e1 \in EnvUpTo(n1)
        /\ a.slot # NoSlot => a.slot \in 0 .. MaxSlot /\ e1[a.slot] # NULL
        /\ \A s \in 0 .. MaxSlot : e1[s] = e[s] \/ (e1[s] = Ref(n1) /\ n1 = N + 1)
    BY <2>1, FreshFacts
  <2>3. QED BY <2>2 DEF e
<1>5. /\ n2 \in Nat /\ n1 <= n2 /\ e2 \in EnvUpTo(n2)
      /\ b.slot # NoSlot => b.slot \in 0 .. MaxSlot /\ e2[b.slot] # NULL
      /\ \A s \in 0 .. MaxSlot : e2[s] = e1[s] \/ (e2[s] = Ref(n2) /\ n2 = n1 + 1)
      /\ \A s \in 0 .. MaxSlot : e1[s] # NULL => e2[s] = e1[s]
  <2>1. e1 \in EnvUpTo(n1) /\ n1 \in Nat /\ b.slot \in NoSlot .. MaxSlot /\ n2 = n1 + Count(e1, b) /\ e2 = Fresh(e1, b, n2)
    BY <1>2, <1>4
  <2> HIDE DEF n1, e1, b, n2, e2
  <2>2. QED BY <2>1, FreshFacts
<1>6. more = More(n2)
  BY DEF More
<1>7. \/ ref' = more /\ UNCHANGED trail
      \/ lt # rt /\ ~Bound(lt) /\ bind(lt, rt)
      \/ lt # rt /\ ~Bound(rt) /\ bind(rt, lt)
  <2> HIDE DEF lt, rt, more, bind
  <2>1. QED BY <1>1
<1> HIDE DEF n1, e1, n2, e2, more
<1>8. N <= n2
  BY <1>2, <1>4, <1>5
<1>9. /\ \A i \in 1 .. N : More(n2)[i] = ref[i]
      /\ \A i \in 1 .. n2 : i > N => More(n2)[i] = NULL
  BY <1>5, <1>8, MoreFacts
<1>10. ASSUME NEW x, x = a \/ x = b
       PROVE term(x) \in TermsUpTo(n2) /\ term(x) # NULL /\ (term(x).ref > 0 => More(n2)[term(x).ref] = NULL)
  <2>0. NULL.ref = -1
    BY DEF NULL
  <2>1. CASE x.slot = NoSlot
    <3>1. term(x) = Num(x.n) /\ x.n \in Int
      BY <2>1, <1>2, <1>10
    <3>2. Num(x.n) \in TermsUpTo(n2) /\ Num(x.n).ref = 0
      BY <3>1, <1>5, TermFacts
    <3>3. QED BY <3>1, <3>2, <2>0
  <2>2. CASE x.slot # NoSlot
    <3>1. x.slot \in 0 .. MaxSlot /\ e2[x.slot] # NULL
      BY <2>2, <1>4, <1>5, <1>10
    <3>2. e2[x.slot] \in TermsUpTo(n2)
      BY <3>1, <1>5 DEF EnvUpTo
    <3>3. e2[x.slot].ref \in -1 .. n2
      BY <3>2, <1>5, TermFacts
    <3>4. CASE e2[x.slot].ref > N
      <4>1. term(x) = e2[x.slot]
        BY <2>2, <3>4
      <4>2. QED BY <4>1, <3>1, <3>2, <3>3, <3>4, <1>2, <1>5, <1>9
    <3>5. CASE ~(e2[x.slot].ref > N)
      <4>1. term(x) = term_deref(e2[x.slot])
        BY <2>2, <3>5
      <4>2. e2[x.slot] \in TermsUpTo(N)
        <5>1. e2[x.slot].ref \in -1 .. N
          BY <3>3, <3>5, <1>2, <1>5
        <5>2. QED BY <5>1, <3>2 DEF TermsUpTo
      <4>3. /\ term_deref(e2[x.slot]) \in TermsUpTo(N) /\ term_deref(e2[x.slot]) # NULL
            /\ term_deref(e2[x.slot]).ref > 0 =>
                  term_deref(e2[x.slot]).ref \in 1 .. N /\ ref[term_deref(e2[x.slot]).ref] = NULL
        BY <4>2, <3>1, SlotValue
      <4>4. TermsUpTo(N) \subseteq TermsUpTo(n2)
        BY <1>2, <1>5, <1>8, TermFacts
      <4>5. QED BY <4>1, <4>3, <4>4, <1>9
    <3>6. QED BY <3>4, <3>5
  <2>3. QED BY <2>1, <2>2
<1>11. /\ lt \in TermsUpTo(n2) /\ lt # NULL /\ (lt.ref > 0 => More(n2)[lt.ref] = NULL)
       /\ rt \in TermsUpTo(n2) /\ rt # NULL /\ (rt.ref > 0 => More(n2)[rt.ref] = NULL)
  BY <1>10
<1> HIDE DEF lt, rt
<1>12. lt.ref \in 0 .. n2 /\ rt.ref \in 0 .. n2
  BY <1>5, <1>11, TermFacts
<1>13. lt # rt /\ (~Bound(lt) \/ ~Bound(rt)) => lt.ref # rt.ref
  BY <1>11 DEF Bound, TermsUpTo
<1>14. TermsOK' /\ NoRing' /\ Len(ref') = n2 /\ SamePast(Len(trail))
  <2>1. CASE ref' = more /\ UNCHANGED trail
    BY <2>1, <1>5, <1>6, <1>8, MoreStep
  <2>2. CASE lt # rt /\ ~Bound(lt) /\ bind(lt, rt)
    <3>1. lt.ref \in 1 .. n2
      BY <2>2, <1>12, <1>5 DEF Bound
    <3>2. ref' = [More(n2) EXCEPT ![lt.ref] = rt] /\ trail' = Append(trail, lt.ref)
      BY <2>2, <1>6
    <3>3. More(n2)[lt.ref] = NULL /\ rt.ref # lt.ref
      BY <2>2, <3>1, <1>11, <1>13
    <3>4. QED BY <3>1, <3>2, <3>3, <1>5, <1>8, <1>11, BindStep
  <2>3. CASE lt # rt /\ ~Bound(rt) /\ bind(rt, lt)
    <3>1. rt.ref \in 1 .. n2
      BY <2>3, <1>12, <1>5 DEF Bound
    <3>2. ref' = [More(n2) EXCEPT ![rt.ref] = lt] /\ trail' = Append(trail, rt.ref)
      BY <2>3, <1>6
    <3>3. More(n2)[rt.ref] = NULL /\ rt.ref # lt.ref
      BY <2>3, <3>1, <1>11, <1>13
    <3>4. QED BY <3>1, <3>2, <3>3, <1>5, <1>8, <1>11, BindStep
  <2>4. QED BY <2>1, <2>2, <2>3, <1>7
<1>15. env' \in Seq(EnvUpTo(n2)) /\ DOMAIN env' = DOMAIN env
  BY <1>1, <1>3, <1>5, <1>8, EnvPut
<1>16. genv' = genv /\ freed' = freed /\ cut' = cut
  BY DEF ExecUnify
<1>17. EnvsOK'
  BY <1>3, <1>14, <1>15, <1>16 DEF EnvsOK, EnvUpTo
<1>18. QED BY <1>14, <1>15, <1>17

-----------------------------------------------------------------------------

LEMMA ValueFacts ==
    ASSUME TermsOK, NoRing, EnvsOK, NEW a, a.slot \in NoSlot .. MaxSlot, a.n \in Int
    PROVE  Value(a) \in TermsUpTo(Len(ref)) /\ Number(Value(a)) \in Int
<1>1. Len(ref) \in Nat /\ MaxSlot \in Nat
  BY RefFacts, PlEngineAssumption
<1>2. Value(a) \in TermsUpTo(Len(ref))
  <2>1. CASE a.slot = NoSlot
    BY <2>1, <1>1, TermFacts DEF Value
  <2>2. CASE a.slot # NoSlot
    <3>1. a.slot \in 0 .. MaxSlot
      BY <2>2, <1>1 DEF NoSlot
    <3>2. env[genv] \in [0 .. MaxSlot -> TermsUpTo(Len(ref))]
      BY EnvFacts DEF EnvUpTo, EnvsOK
    <3>3. env[genv][a.slot] \in TermsUpTo(Len(ref))
      BY <3>1, <3>2
    <3>4. Value(a) = term_deref(env[genv][a.slot])
      BY <2>2 DEF Value
    <3>5. QED BY <3>3, <3>4, SlotValue
  <2>3. QED BY <2>1, <2>2
<1>3. \A t \in TermsUpTo(Len(ref)) : Number(t) \in Int
  BY DEF Number, TermsUpTo
<1>4. QED BY <1>2, <1>3

LEMMA IsStep ==
    ASSUME code \in Codes, TermsOK, NoRing, EnvsOK, ctl.nd \in code.nodes, ExecIs
    PROVE  EnvsOK' /\ DOMAIN env' = DOMAIN env
<1> DEFINE a == ctl.nd.args
           v == Num(Number(Value(a[2])) - Number(Value(a[3])))
<1>1. env' = (IF a[1].slot = NoSlot THEN env ELSE [env EXCEPT ![genv][a[1].slot] = v])
      /\ ref' = ref /\ genv' = genv /\ freed' = freed /\ cut' = cut /\ ctl.nd.op = "IS"
  BY DEF ExecIs, terms, Executing
<1>2. Len(ref) \in Nat /\ MaxSlot \in Nat
  BY RefFacts, PlEngineAssumption
<1>3. Len(a) = 3 /\ \A i \in 1 .. 3 : a[i].slot \in NoSlot .. MaxSlot /\ a[i].n \in Int
  BY <1>1, NodeFacts
<1>4. Number(Value(a[2])) \in Int /\ Number(Value(a[3])) \in Int
  BY <1>3, ValueFacts
<1>5. v \in TermsUpTo(Len(ref))
  BY <1>2, <1>4, TermFacts
<1> HIDE DEF v
<1>6. genv \in DOMAIN env /\ env[genv] \in EnvUpTo(Len(ref)) /\ env \in Seq(EnvUpTo(Len(ref)))
  BY EnvFacts
<1>7. env' \in Seq(EnvUpTo(Len(ref))) /\ DOMAIN env' = DOMAIN env
  <2>1. CASE a[1].slot = NoSlot
    BY <1>1, <1>6, <2>1
  <2>2. CASE a[1].slot # NoSlot
    <3>1. a[1].slot \in 0 .. MaxSlot
      BY <2>2, <1>2, <1>3 DEF NoSlot
    <3> DEFINE e == [env[genv] EXCEPT ![a[1].slot] = v]
    <3>2. e \in EnvUpTo(Len(ref))
      BY <3>1, <1>5, <1>6 DEF EnvUpTo
    <3>3. env' = [env EXCEPT ![genv] = e]
      BY <1>1, <2>2
    <3> HIDE DEF e
    <3>4. QED BY <3>2, <3>3, <1>2, <1>6, EnvPut
  <2>3. QED BY <2>1, <2>2
<1>8. QED BY <1>1, <1>7 DEF EnvsOK, EnvUpTo

\* A set of numbers up to n that is not empty has a greatest one.
LEMMA GreatestUpTo ==
    ASSUME NEW n \in Nat, NEW T \in SUBSET (1 .. n), T # {}
    PROVE  \E i \in T : \A j \in T : j <= i
<1> DEFINE D == {n - i : i \in T}
<1>1. D \in SUBSET Nat /\ D # {}
  <2>1. \A i \in T : n - i \in Nat
    OBVIOUS
  <2>2. QED BY <2>1
<1> HIDE DEF D
<1>2. PICK d \in D : \A m \in D : d <= m
  BY <1>1, LeastNat
<1>3. PICK i \in T : d = n - i
  BY <1>2 DEF D
<1>4. ASSUME NEW j \in T PROVE j <= i
  <2>1. n - j \in D
    BY DEF D
  <2>2. n - i <= n - j
    BY <2>1, <1>2, <1>3
  <2>3. QED BY <2>2
<1>5. QED BY <1>4

\* What is given back to the caller comes from the slots of the callee.
LEMMA WriteBackStep ==
    ASSUME code \in Codes, TermsOK, EnvsOK, NEW nd \in code.nodes, nd.op = "CALL",
           NEW cenv \in DOMAIN env, NEW senv \in DOMAIN env, WriteBack(nd, cenv, senv)
    PROVE  env' \in Seq(EnvUpTo(Len(ref))) /\ DOMAIN env' = DOMAIN env
<1> DEFINE old == env[senv]
           ai(s) == {i \in DOMAIN nd.args : nd.args[i].slot = s /\ env[cenv][i - 1] # NULL}
           from(s) == CHOOSE i \in ai(s) : \A j \in ai(s) : j <= i
           e == [s \in DOMAIN old |-> IF ai(s) = {} THEN old[s] ELSE env[cenv][from(s) - 1]]
<1>1. env' = [env EXCEPT ![senv] = e]
  BY DEF WriteBack
<1>2. Len(nd.args) \in 0 .. MaxSlot + 1 /\ DOMAIN nd.args = 1 .. Len(nd.args) /\ MaxSlot \in Nat /\ Len(ref) \in Nat
  BY NodeFacts, RefFacts, PlEngineAssumption
<1>3. old \in EnvUpTo(Len(ref)) /\ env[cenv] \in EnvUpTo(Len(ref))
  BY EnvFacts
<1>4. ASSUME NEW s \in 0 .. MaxSlot, ai(s) # {} PROVE from(s) - 1 \in 0 .. MaxSlot
  <2>1. ai(s) \in SUBSET (1 .. Len(nd.args)) /\ Len(nd.args) \in Nat
    BY <1>2
  <2>2. from(s) \in ai(s)
    <3> HIDE DEF ai
    <3>1. \E i \in ai(s) : \A j \in ai(s) : j <= i
      BY <1>4, <2>1, GreatestUpTo
    <3>2. QED BY <3>1
  <2> HIDE DEF ai, from
  <2>3. QED BY <2>1, <2>2, <1>2
<1> HIDE DEF ai, from
<1>5. e \in EnvUpTo(Len(ref))
  <2>1. ASSUME NEW s \in 0 .. MaxSlot PROVE (IF ai(s) = {} THEN old[s] ELSE env[cenv][from(s) - 1]) \in TermsUpTo(Len(ref))
    <3>1. CASE ai(s) = {}
      BY <3>1, <1>3 DEF EnvUpTo
    <3>2. CASE ai(s) # {}
      BY <3>2, <1>3, <1>4 DEF EnvUpTo
    <3>3. QED BY <3>1, <3>2
  <2>2. DOMAIN old = 0 .. MaxSlot
    BY <1>3 DEF EnvUpTo
  <2> HIDE DEF old
  <2>3. QED BY <2>1, <2>2 DEF EnvUpTo
<1> HIDE DEF e, old
<1>6. Len(ref) \in Nat /\ Len(ref) <= Len(ref)
  BY <1>2
<1>7. QED BY <1>1, <1>5, <1>6, EnvPut

-----------------------------------------------------------------------------

\* The variables a call binds are recorded once each, and they are new.
LEMMA RecordedFacts ==
    ASSUME TermsOK, NEW args, Len(args) \in Nat
    PROVE  /\ Recorded(args) \in Seq(Nat) /\ Len(trail) <= Len(Recorded(args))
           /\ \A n \in 1 .. Len(trail) : Recorded(args)[n] = trail[n]
           /\ \A n \in Len(trail) + 1 .. Len(Recorded(args)) :
                 \E i \in 1 .. Len(args) : i \in Given(args) /\ Recorded(args)[n] = Len(ref) + i
           /\ \A p, q \in Len(trail) + 1 .. Len(Recorded(args)) : Recorded(args)[p] = Recorded(args)[q] => p = q
<1> DEFINE N == Len(args)
           L == Len(trail)
           R == Len(ref)
           G == Given(args)
           Way(f) == f = [i \in 0 .. N |-> IF i = 0 THEN trail ELSE IF i \in G THEN Append(f[i - 1], R + i) ELSE f[i - 1]]
           F == [i \in Nat |-> [s \in Seq(Nat) |-> IF i \in G THEN Append(s, R + i) ELSE s]]
           to == CHOOSE f : Way(f)
           Good(s, i) == /\ s \in Seq(Nat) /\ L <= Len(s)
                         /\ \A n \in 1 .. L : s[n] = trail[n]
                         /\ \A n \in L + 1 .. Len(s) : \E h \in 1 .. i : h \in G /\ s[n] = R + h
                         /\ \A p, q \in L + 1 .. Len(s) : s[p] = s[q] => p = q
<1>1. N \in Nat /\ L \in Nat /\ R \in Nat /\ trail \in Seq(Nat)
  BY RefFacts DEF TermsOK
<1>2. Recorded(args) = to[N]
  BY DEF Recorded
<1> HIDE DEF N, R, G
<1>3. Way(to)
  <2>1. ASSUME NEW i \in Nat, NEW s \in Seq(Nat) PROVE (IF i \in G THEN Append(s, R + i) ELSE s) \in Seq(Nat)
    <3>1. R + i \in Nat
      BY <1>1
    <3>2. QED BY <3>1, AppendProperties
  <2>2. F \in [Nat -> [Seq(Nat) -> Seq(Nat)]]
    BY <2>1
  <2>3. PICK f \in [0 .. N -> Seq(Nat)] : Stepwise(f, N, trail, F)
    <3> HIDE DEF F
    <3>1. QED BY <1>1, <2>2, Recursion
  <2>4. ASSUME NEW i \in 0 .. N
        PROVE f[i] = IF i = 0 THEN trail ELSE IF i \in G THEN Append(f[i - 1], R + i) ELSE f[i - 1]
    <3>1. CASE i = 0
      BY <3>1, <2>3 DEF Stepwise
    <3>2. CASE i # 0
      <4>1. i \in 1 .. N /\ i \in Nat /\ i - 1 \in 0 .. N
        BY <3>2, <1>1
      <4>2. f[i] = F[i][f[i - 1]] /\ f[i - 1] \in Seq(Nat)
        BY <4>1, <2>3 DEF Stepwise
      <4>3. QED BY <4>1, <4>2, <3>2
    <3>3. QED BY <3>1, <3>2
  <2>5. Way(f)
    BY <2>3, <2>4
  <2> HIDE DEF Way
  <2>6. QED BY <2>5
<1> HIDE DEF to
<1> DEFINE T == {i \in 0 .. N : Good(to[i], i)}
<1>4. 0 \in T
  <2>1. to[0] = trail
    BY <1>1, <1>3
  <2>2. L + 1 .. Len(trail) = {}
    BY <1>1
  <2>3. Good(trail, 0)
    BY <2>2, <1>1
  <2>4. QED BY <2>1, <2>3, <1>1
<1>5. ASSUME NEW i \in 0 .. N - 1, i \in T PROVE i + 1 \in T
  <2> DEFINE s == to[i]
  <2>1. i + 1 \in 0 .. N /\ i + 1 # 0 /\ i + 1 - 1 = i /\ i \in Nat
    BY <1>1
  <2>2. to[i + 1] = IF i + 1 \in G THEN Append(s, R + (i + 1)) ELSE s
    <3>1. to[i + 1] = IF i + 1 = 0 THEN trail ELSE IF i + 1 \in G THEN Append(to[i + 1 - 1], R + (i + 1)) ELSE to[i + 1 - 1]
      <4>1. \A j \in 0 .. N : to[j] = IF j = 0 THEN trail ELSE IF j \in G THEN Append(to[j - 1], R + j) ELSE to[j - 1]
        BY <1>3
      <4> HIDE DEF Way
      <4>2. QED BY <2>1, <4>1
    <3>2. QED BY <3>1, <2>1
  <2>3. Good(s, i)
    BY <1>5
  <2> HIDE DEF s
  <2>4. 1 .. i \subseteq 1 .. i + 1
    BY <2>1
  <2>5. CASE i + 1 \notin G
    <3>1. Good(s, i + 1)
      BY <2>3, <2>4
    <3> HIDE DEF Good
    <3>2. QED BY <3>1, <2>1, <2>2, <2>5
  <2>6. CASE i + 1 \in G
    <3> DEFINE u == Append(s, R + (i + 1))
    <3>1. R + (i + 1) \in Nat /\ Len(s) \in Nat
      BY <1>1, <2>1, <2>3, LenProperties
    <3>2. u \in Seq(Nat) /\ Len(u) = Len(s) + 1 /\ u[Len(s) + 1] = R + (i + 1)
          /\ \A n \in 1 .. Len(s) : u[n] = s[n]
      BY <3>1, <2>3, AppendProperties
    <3> HIDE DEF u
    <3>3. L <= Len(u) /\ \A n \in 1 .. L : u[n] = trail[n]
      BY <3>1, <3>2, <2>3, <1>1
    <3>4. ASSUME NEW n \in L + 1 .. Len(u) PROVE \E h \in 1 .. i + 1 : h \in G /\ u[n] = R + h
      <4>1. CASE n = Len(s) + 1
        <5>1. i + 1 \in 1 .. i + 1
          BY <2>1
        <5>2. QED BY <4>1, <3>2, <2>6, <5>1
      <4>2. CASE n # Len(s) + 1
        <5>1. n \in L + 1 .. Len(s) /\ n \in 1 .. Len(s)
          BY <4>2, <3>1, <3>2, <1>1
        <5>2. PICK h \in 1 .. i : h \in G /\ s[n] = R + h
          BY <5>1, <2>3
        <5>3. QED BY <5>1, <5>2, <3>2, <2>4
      <4>3. QED BY <4>1, <4>2
    <3>5. ASSUME NEW n \in L + 1 .. Len(s) PROVE u[n] < R + (i + 1) /\ u[n] = s[n]
      <4>1. PICK h \in 1 .. i : h \in G /\ s[n] = R + h
        BY <2>3
      <4>2. u[n] = s[n]
        BY <3>1, <3>2, <1>1
      <4>3. QED BY <4>1, <4>2, <1>1, <2>1
    <3>6. ASSUME NEW p \in L + 1 .. Len(u), NEW q \in L + 1 .. Len(u), u[p] = u[q] PROVE p = q
      <4>1. CASE p \in L + 1 .. Len(s) /\ q \in L + 1 .. Len(s)
        BY <4>1, <3>5, <3>6, <2>3
      <4>2. CASE p = Len(s) + 1 /\ q \in L + 1 .. Len(s)
        <5>1. u[q] < R + (i + 1) /\ u[p] = R + (i + 1) /\ R + (i + 1) \in Nat
          BY <4>2, <3>1, <3>2, <3>5
        <5>2. QED BY <5>1, <3>6
      <4>3. CASE q = Len(s) + 1 /\ p \in L + 1 .. Len(s)
        <5>1. u[p] < R + (i + 1) /\ u[q] = R + (i + 1) /\ R + (i + 1) \in Nat
          BY <4>3, <3>1, <3>2, <3>5
        <5>2. QED BY <5>1, <3>6
      <4>4. QED BY <4>1, <4>2, <4>3, <3>1, <3>2, <1>1
    <3>7. Good(u, i + 1)
      BY <3>2, <3>3, <3>4, <3>6
    <3>8. to[i + 1] = u
      BY <2>2, <2>6 DEF u
    <3> HIDE DEF Good
    <3>9. QED BY <3>7, <3>8, <2>1
  <2>7. QED BY <2>5, <2>6
<1>6. N \in T
  <2>1. T \in SUBSET (0 .. N)
    OBVIOUS
  <2> HIDE DEF T
  <2>2. T = 0 .. N
    BY <1>1, <1>4, <1>5, <2>1, UpTo
  <2>3. QED BY <2>2, <1>1
<1>7. Good(to[N], N)
  BY <1>6
<1>8. QED BY <1>2, <1>7 DEF N, R, G

LEMMA CallStep ==
    ASSUME code \in Codes, TermsOK, NoRing, EnvsOK, ctl.nd \in code.nodes, ExecCall
    PROVE  /\ TermsOK' /\ NoRing' /\ EnvsOK' /\ SamePast(Len(trail))
           /\ Len(env') = Len(env) + 1 /\ genv' = Len(env) + 1 /\ freed' = freed
<1> DEFINE args == ctl.nd.args
           N == Len(ref)
           M == N + Len(args)
           given == [i \in DOMAIN args |-> IF i \in Given(args) THEN Value(args[i]) ELSE NULL]
           e == [s \in 0 .. MaxSlot |-> IF s < Len(args) THEN Ref(N + s + 1) ELSE NULL]
<1>1. /\ ref' = ref \o given /\ trail' = Recorded(args)
      /\ env' = Append(env, e) /\ genv' = Len(env) + 1 /\ freed' = freed /\ cut' = cut /\ ctl.nd.op = "CALL"
  BY DEF ExecCall, Executing, WithArgs
<1>2. N \in Nat /\ MaxSlot \in Nat /\ Len(args) \in Nat /\ DOMAIN args = 1 .. Len(args) /\ Len(trail) \in Nat
      /\ DOMAIN ref = 1 .. N /\ (\A i \in 1 .. N : ref[i].ref \in -1 .. N)
      /\ \A i \in DOMAIN args : args[i].slot \in NoSlot .. MaxSlot /\ args[i].n \in Int
  BY NodeFacts, RefFacts, PlEngineAssumption
<1>3. \A i \in DOMAIN args : Value(args[i]) \in TermsUpTo(N)
  BY <1>2, ValueFacts
<1>4. NULL \in TermsUpTo(N) /\ NULL.ref = -1 /\ TermsUpTo(N) \subseteq TermsUpTo(M) /\ M \in Nat
      /\ \A i \in 1 .. M : Ref(i) \in TermsUpTo(M)
  BY <1>2, TermFacts
<1>5. \A i \in Given(args) : i \in DOMAIN args /\ Value(args[i]).ref = 0
  BY DEF Given, Bound
<1>6. given \in Seq(TermsUpTo(N)) /\ Len(given) = Len(args)
  <2>1. \A i \in 1 .. Len(args) : (IF i \in Given(args) THEN Value(args[i]) ELSE NULL) \in TermsUpTo(N)
    BY <1>2, <1>3, <1>4
  <2>2. given \in [1 .. Len(args) -> TermsUpTo(N)]
    BY <1>2, <2>1
  <2> HIDE DEF given
  <2>3. given \in Seq(TermsUpTo(N))
    BY <2>2, <1>2, SeqDef
  <2>4. QED BY <2>2, <2>3, <1>2, LenProperties
<1>7. ref' \in Seq(TermsUpTo(N)) /\ Len(ref') = M
      /\ (\A i \in 1 .. N : ref'[i] = ref[i])
      /\ \A i \in N + 1 .. M : ref'[i] = given[i - N]
  <2>1. ref \in Seq(TermsUpTo(N))
    BY DEF TermsOK
  <2> HIDE DEF given
  <2>2. /\ ref \o given \in Seq(TermsUpTo(N)) /\ Len(ref \o given) = Len(ref) + Len(given)
        /\ \A i \in 1 .. Len(ref) + Len(given) : (ref \o given)[i] = IF i <= Len(ref) THEN ref[i] ELSE given[i - Len(ref)]
    BY <2>1, <1>6, ConcatProperties
  <2>3. Len(ref \o given) = M
    BY <2>2, <1>6
  <2>4. QED BY <2>2, <2>3, <1>1, <1>2, <1>6
<1>8. DOMAIN ref' = 1 .. M /\ ref' \in Seq(TermsUpTo(M))
  BY <1>4, <1>7, LenProperties, SeqMonotonic
<1>9. ASSUME NEW i \in N + 1 .. M PROVE ref'[i].ref <= 0 /\ (i - N \in Given(args) => ref'[i] # NULL)
  <2>1. i - N \in DOMAIN args
    BY <1>2
  <2>2. ref'[i] = IF i - N \in Given(args) THEN Value(args[i - N]) ELSE NULL
    BY <2>1, <1>7
  <2>3. CASE i - N \in Given(args)
    BY <2>2, <2>3, <1>4, <1>5
  <2>4. CASE i - N \notin Given(args)
    BY <2>2, <2>4, <1>4
  <2>5. QED BY <2>3, <2>4
<1>10. TermsOK' /\ SamePast(Len(trail))
  <2>1. /\ trail' \in Seq(Nat) /\ Len(trail) <= Len(trail')
        /\ \A n \in 1 .. Len(trail) : trail'[n] = trail[n]
        /\ \A n \in Len(trail) + 1 .. Len(trail') : \E i \in 1 .. Len(args) : i \in Given(args) /\ trail'[n] = N + i
        /\ \A p, q \in Len(trail) + 1 .. Len(trail') : trail'[p] = trail'[q] => p = q
    BY <1>1, <1>2, RecordedFacts
  <2>2. ASSUME NEW n \in Len(trail) + 1 .. Len(trail')
        PROVE trail'[n] \in 1 .. Len(ref') /\ ref'[trail'[n]] # NULL /\ ~(trail'[n] <= Len(ref))
    <3>1. PICK i \in 1 .. Len(args) : i \in Given(args) /\ trail'[n] = N + i
      BY <2>1
    <3>2. N + i \in N + 1 .. M /\ N + i - N = i /\ N + i \in 1 .. M /\ ~(N + i <= N)
      BY <1>2
    <3>3. QED BY <3>1, <3>2, <1>7, <1>9
  <2>3. Len(ref) <= Len(ref') /\ ref' \in Seq(TermsUpTo(Len(ref')))
    BY <1>2, <1>7, <1>8
  <2>4. QED BY <2>1, <2>2, <2>3, <1>7, ExtendStep
<1>11. NoRing'
  <2>1. ASSUME NEW S \in SUBSET (1 .. M), S # {}, \A i \in S : ref'[i].ref \in S PROVE FALSE
    <3>1. ASSUME NEW i \in S PROVE i \in 1 .. N /\ ref'[i] = ref[i]
      <4>1. ref'[i].ref \in 1 .. M
        BY <2>1
      <4>2. ~(ref'[i].ref <= 0)
        BY <4>1, <1>4
      <4>3. i \notin N + 1 .. M
        BY <4>2, <1>9
      <4>4. QED BY <4>3, <1>2, <1>4, <1>7
    <3>2. S \in SUBSET DOMAIN ref /\ \A i \in S : ref[i].ref \in S
      BY <3>1, <2>1, <1>2
    <3>3. QED BY <2>1, <3>2 DEF NoRing
  <2>2. QED BY <2>1, <1>8 DEF NoRing
<1>12. e \in EnvUpTo(M)
  <2>1. ASSUME NEW s \in 0 .. MaxSlot PROVE (IF s < Len(args) THEN Ref(N + s + 1) ELSE NULL) \in TermsUpTo(M)
    <3>1. CASE s < Len(args)
      <4>1. N + s + 1 \in 1 .. M
        BY <3>1, <1>2
      <4>2. QED BY <3>1, <4>1, <1>4
    <3>2. CASE ~(s < Len(args))
      BY <3>2, <1>4
    <3>3. QED BY <3>1, <3>2
  <2>2. QED BY <2>1 DEF EnvUpTo
<1>13. env' \in Seq(EnvUpTo(M)) /\ Len(env') = Len(env) + 1 /\ DOMAIN env' = 1 .. Len(env) + 1 /\ Len(env) \in Nat
       /\ freed \subseteq 1 .. Len(env) /\ cut \in BOOLEAN
  <2>1. env \in Seq(EnvUpTo(M)) /\ Len(env) \in Nat /\ freed \subseteq 1 .. Len(env) /\ cut \in BOOLEAN
    BY <1>2, <1>4, EnvFacts
  <2> HIDE DEF e, M
  <2>2. env' \in Seq(EnvUpTo(M)) /\ Len(env') = Len(env) + 1
    BY <2>1, <1>1, <1>12, AppendProperties
  <2>3. QED BY <2>1, <2>2, LenProperties
<1>14. EnvsOK'
  <2>1. genv' \in DOMAIN env' /\ freed' \subseteq DOMAIN env' /\ cut' \in BOOLEAN
    BY <1>1, <1>13
  <2>2. env' \in Seq([0 .. MaxSlot -> TermsUpTo(Len(ref'))])
    BY <1>7, <1>13 DEF EnvUpTo
  <2>3. QED BY <2>1, <2>2 DEF EnvsOK
<1>15. QED BY <1>1, <1>10, <1>11, <1>13, <1>14

-----------------------------------------------------------------------------
(* The C stack.                                                            *)

LEMMA FrameFacts ==
    ASSUME NEW f, NEW es, code \in Codes, IsFrame(f, code, es)
    PROVE  /\ f.nd \in code.nodes /\ f.j \in Nat /\ f.mark \in Nat /\ f.env \in Nat /\ f.cenv \in Nat
           /\ f.cut \in BOOLEAN /\ f.mode \in {"go", "call", "alt"} /\ f.cs \in Kept
           /\ f.nd.op # "CALL" /\ InRange(f) => f.j \in 1 .. Len(f.nd.c) /\ Child(f) \in code.nodes
                                                /\ Child(f).id = <<f.nd.id[1], Append(f.nd.id[2], f.j)>>
           /\ \A fs : es \subseteq fs => IsFrame(f, code, fs)
<1>1. f \in FramesOf(code)
  BY DEF IsFrame
<1>2. f.nd \in code.nodes /\ f.j \in Nat /\ f.mark \in Nat /\ f.env \in Nat /\ f.cenv \in Nat
      /\ f.cut \in BOOLEAN /\ f.mode \in {"go", "call", "alt"} /\ f.cs \in Kept
  BY <1>1 DEF FramesOf
<1>3. f.nd.op # "CALL" /\ InRange(f) => f.j \in 1 .. Len(f.nd.c) /\ Child(f) \in code.nodes
                                         /\ Child(f).id = <<f.nd.id[1], Append(f.nd.id[2], f.j)>>
  <2> SUFFICES ASSUME f.nd.op # "CALL", InRange(f)
               PROVE  f.j \in 1 .. Len(f.nd.c) /\ Child(f) \in code.nodes
                      /\ Child(f).id = <<f.nd.id[1], Append(f.nd.id[2], f.j)>>
    OBVIOUS
  <2>1. Len(f.nd.c) \in Nat /\ \A i \in 1 .. Len(f.nd.c) :
           f.nd.c[i] \in code.nodes /\ f.nd.c[i].id = <<f.nd.id[1], Append(f.nd.id[2], i)>>
    BY <1>2, NodeFacts
  <2>2. f.j \in 1 .. Len(f.nd.c)
    BY <1>2, <2>1 DEF IsFrame, InRange
  <2>3. QED BY <2>1, <2>2 DEF Child
<1>4. ASSUME NEW fs, es \subseteq fs PROVE IsFrame(f, code, fs)
  BY <1>4 DEF IsFrame, Live
<1>5. QED BY <1>2, <1>3, <1>4

\* What a frame runs is a node of the program.
LEMMA CurFacts ==
    ASSUME NEW f, NEW es, code \in Codes, IsFrame(f, code, es), InRange(f)
    PROVE  Cur(f, code) \in code.nodes /\ Cur(f, code).id[1] \in DOMAIN code.entry
<1>1. \A p \in DOMAIN code.entry : code.entry[p] \in code.nodes /\ code.entry[p].id[1] = p
  BY EntryFacts
<1>2. f.nd \in code.nodes /\ f.nd.id[1] \in DOMAIN code.entry /\ f.mode \in {"go", "call", "alt"}
      /\ (f.nd.op # "CALL" => Child(f) \in code.nodes /\ Child(f).id = <<f.nd.id[1], Append(f.nd.id[2], f.j)>>)
  BY FrameFacts DEF IsFrame
<1>3. CASE f.nd.op = "CALL"
  BY <1>1, <1>3 DEF IsFrame, Cur
<1>4. CASE f.nd.op # "CALL" /\ f.mode = "call"
  BY <1>1, <1>4 DEF IsFrame, Cur
<1>5. CASE f.nd.op # "CALL" /\ f.mode = "alt"
  <2>1. Child(f) \in code.nodes /\ Child(f).op = "ALT" /\ Child(f).id[1] = f.nd.id[1]
    BY <1>2, <1>5 DEF IsFrame
  <2>2. Child(f).c[2] \in code.nodes /\ Child(f).c[2].id[1] = Child(f).id[1]
    BY <2>1, NodeFacts
  <2>3. QED BY <2>1, <2>2, <1>2, <1>5 DEF Cur
<1>6. CASE f.nd.op # "CALL" /\ f.mode = "go"
  BY <1>2, <1>6 DEF Cur
<1>7. QED BY <1>2, <1>3, <1>4, <1>5, <1>6

\* The top of the stack and what is executed.
LEMMA StackFacts ==
    ASSUME code \in Codes, StackOK
    PROVE  /\ Len(k) \in Nat /\ DOMAIN k = 1 .. Len(k)
           /\ k # <<>> => Len(k) \in 1 .. Len(k) /\ IsFrame(Top, code, DOMAIN env) /\ Top = k[Len(k)]
                          /\ Top.nd \in code.nodes /\ Top \in FramesOf(code)
           /\ k # <<>> /\ ctl.at # "try" => InRange(Top)
           /\ ctl.at = "exec" => ctl.nd \in code.nodes /\ ctl.nd.id[1] \in DOMAIN code.entry
           /\ ctl.at = "exec" /\ k = <<>> => ctl.nd = code.entry["main"]
           /\ ctl.at = "exec" /\ k # <<>> => ctl.nd = Cur(Top, code)
<1>1. Len(k) \in Nat /\ DOMAIN k = 1 .. Len(k) /\ (k # <<>> => Len(k) \in 1 .. Len(k))
  BY LenProperties, EmptySeq DEF StackOK
<1>2. k # <<>> => IsFrame(Top, code, DOMAIN env) /\ Top = k[Len(k)] /\ (ctl.at # "try" => InRange(Top))
  BY <1>1 DEF StackOK, Top
<1>3. k # <<>> => Top.nd \in code.nodes /\ Top \in FramesOf(code)
  BY <1>2, FrameFacts DEF IsFrame
<1>4. ctl.at = "exec" => ctl.nd \in code.nodes /\ ctl.nd.id[1] \in DOMAIN code.entry
  <2> SUFFICES ASSUME ctl.at = "exec" PROVE ctl.nd \in code.nodes /\ ctl.nd.id[1] \in DOMAIN code.entry
    OBVIOUS
  <2>1. CASE k = <<>>
    <3>1. ctl.nd = code.entry["main"]
      BY <2>1 DEF StackOK
    <3>2. QED BY <3>1, EntryFacts
  <2>2. CASE k # <<>>
    <3>1. ctl.nd = Cur(Top, code)
      BY <2>2 DEF StackOK
    <3>2. QED BY <3>1, <2>2, <1>2, CurFacts
  <2>3. QED BY <2>1, <2>2
<1>5. QED BY <1>1, <1>2, <1>3, <1>4 DEF StackOK

LEMMA StackReturn ==
    ASSUME code \in Codes, StackOK, UNCHANGED <<code, k>>, DOMAIN env \subseteq DOMAIN env',
           ctl.at # "try", ctl'.at \in {"ok", "fail"}
    PROVE  StackOK'
<1>1. \A i \in DOMAIN k : IsFrame(k[i], code, DOMAIN env')
  BY FrameFacts DEF StackOK
<1>2. QED BY <1>1 DEF StackOK

LEMMA StackPush ==
    ASSUME code \in Codes, StackOK, UNCHANGED code, DOMAIN env \subseteq DOMAIN env', ctl.at = "exec",
           NEW f, IsFrame(f, code, DOMAIN env'), f.nd = ctl.nd, k' = Append(k, f),
           \/ ctl'.at = "exec" /\ ctl'.nd = Cur(f, code) /\ InRange(f)
           \/ ctl'.at = "try" /\ f.nd.op = "CHOICE"
    PROVE  StackOK'
<1>1. f \in FramesOf(code) /\ k \in Seq(FramesOf(code)) /\ DOMAIN k = 1 .. Len(k) /\ Len(k) \in Nat
  BY StackFacts DEF IsFrame, StackOK
<1>2. /\ k' \in Seq(FramesOf(code)) /\ k' # <<>> /\ Len(k') = Len(k) + 1 /\ DOMAIN k' = 1 .. Len(k) + 1
      /\ k'[Len(k) + 1] = f /\ \A i \in DOMAIN k : k'[i] = k[i]
  BY <1>1, TopPushed
<1>3. ASSUME NEW i \in DOMAIN k'
      PROVE  /\ IsFrame(k'[i], code, DOMAIN env')
             /\ k'[i].nd = IF i = 1 THEN code.entry["main"] ELSE Cur(k'[i - 1], code)
             /\ i < Len(k') \/ ctl'.at # "try" => InRange(k'[i])
  <2>1. CASE i \in DOMAIN k
    <3>1. IsFrame(k[i], code, DOMAIN env) /\ InRange(k[i])
          /\ k[i].nd = IF i = 1 THEN code.entry["main"] ELSE Cur(k[i - 1], code)
      BY <2>1 DEF StackOK
    <3>2. IsFrame(k[i], code, DOMAIN env')
      BY <3>1, FrameFacts
    <3>3. k'[i] = k[i] /\ (i # 1 => k'[i - 1] = k[i - 1])
      BY <2>1, <1>1, <1>2
    <3>4. QED BY <3>1, <3>2, <3>3
  <2>2. CASE i = Len(k) + 1
    <3>1. k'[i] = f /\ (i < Len(k') \/ ctl'.at # "try" => InRange(f))
      BY <2>2, <1>1, <1>2
    <3>2. f.nd = IF i = 1 THEN code.entry["main"] ELSE Cur(k'[i - 1], code)
      <4>1. CASE k = <<>>
        <5>1. i = 1
          BY <2>2, <4>1, EmptySeq
        <5>2. QED BY <5>1, <4>1, StackFacts
      <4>2. CASE k # <<>>
        <5>1. i # 1 /\ k'[i - 1] = Top
          BY <2>2, <4>2, <1>1, <1>2, StackFacts
        <5>2. QED BY <5>1, <4>2, StackFacts
      <4>3. QED BY <4>1, <4>2
    <3>3. QED BY <3>1, <3>2
  <2>3. QED BY <2>1, <2>2, <1>1, <1>2
<1>4. Top' = f
  BY <1>2 DEF Top
<1>5. QED BY <1>2, <1>3, <1>4 DEF StackOK

LEMMA StackPop ==
    ASSUME code \in Codes, StackOK, UNCHANGED code, DOMAIN env \subseteq DOMAIN env', k # <<>>, Pop,
           ctl'.at \in {"ok", "fail"}
    PROVE  /\ StackOK' /\ Len(k') = Len(k) - 1
           /\ \A i \in DOMAIN k' : i \in DOMAIN k /\ i < Len(k) /\ k'[i] = k[i]
           /\ k' # <<>> => Top' = k[Len(k) - 1] /\ Len(k) - 1 \in DOMAIN k /\ Top.nd = Cur(Top', code)
<1>1. /\ k' \in Seq(FramesOf(code)) /\ Len(k') = Len(k) - 1 /\ DOMAIN k' = 1 .. Len(k) - 1
      /\ DOMAIN k = 1 .. Len(k) /\ Len(k) \in Nat \ {0}
      /\ \A i \in DOMAIN k' : k'[i] = k[i]
      /\ k' # <<>> => Len(k) > 1
  <2>1. k \in Seq(FramesOf(code)) /\ k' = SubSeq(k, 1, Len(k) - 1)
    BY DEF StackOK, Pop
  <2>2. QED BY <2>1, TopDropped, ZenonT(30)
<1>2. ASSUME NEW i \in DOMAIN k'
      PROVE  /\ IsFrame(k'[i], code, DOMAIN env')
             /\ k'[i].nd = IF i = 1 THEN code.entry["main"] ELSE Cur(k'[i - 1], code)
             /\ InRange(k'[i])
             /\ i \in DOMAIN k /\ i < Len(k) /\ k'[i] = k[i]
  <2>1. i \in DOMAIN k /\ i < Len(k) /\ k'[i] = k[i] /\ (i # 1 => k'[i - 1] = k[i - 1])
    BY <1>1
  <2>2. IsFrame(k[i], code, DOMAIN env) /\ InRange(k[i])
        /\ k[i].nd = IF i = 1 THEN code.entry["main"] ELSE Cur(k[i - 1], code)
    BY <2>1 DEF StackOK
  <2>3. IsFrame(k[i], code, DOMAIN env')
    BY <2>2, FrameFacts
  <2>4. QED BY <2>1, <2>2, <2>3
<1>3. StackOK'
  BY <1>1, <1>2 DEF StackOK
<1>4. k' # <<>> => Top' = k[Len(k) - 1] /\ Len(k) - 1 \in DOMAIN k /\ Top.nd = Cur(Top', code)
  <2> SUFFICES ASSUME k' # <<>> PROVE Top' = k[Len(k) - 1] /\ Len(k) - 1 \in DOMAIN k /\ Top.nd = Cur(Top', code)
    OBVIOUS
  <2>1. Len(k) > 1 /\ Len(k) - 1 \in DOMAIN k' /\ Len(k) \in DOMAIN k
    BY <1>1
  <2>2. Top' = k'[Len(k) - 1]
    BY <1>1 DEF Top
  <2>3. k[Len(k)].nd = Cur(k[Len(k) - 1], code)
    BY <2>1 DEF StackOK
  <2>4. QED BY <2>1, <2>2, <2>3, <1>1 DEF Top
<1>5. QED BY <1>1, <1>2, <1>3, <1>4

LEMMA StackTop ==
    ASSUME code \in Codes, StackOK, UNCHANGED code, DOMAIN env \subseteq DOMAIN env', k # <<>>,
           NEW f, IsFrame(f, code, DOMAIN env'), f.nd = Top.nd, SetTop(f),
           \/ ctl'.at = "exec" /\ ctl'.nd = Cur(f, code) /\ InRange(f)
           \/ ctl'.at = "back" /\ f.nd.op = "SEQ" /\ f.mode = "go" /\ InRange(f)
           \/ ctl'.at = "try" /\ f.nd.op = "CHOICE"
    PROVE  /\ StackOK' /\ Len(k') = Len(k) /\ DOMAIN k' = DOMAIN k /\ k' # <<>> /\ Top' = f
           /\ \A i \in DOMAIN k : i # Len(k) => k'[i] = k[i]
<1>1. f \in FramesOf(code) /\ k \in Seq(FramesOf(code))
  BY DEF IsFrame, StackOK
<1>2. /\ k' \in Seq(FramesOf(code)) /\ k' # <<>> /\ Len(k') = Len(k) /\ DOMAIN k' = DOMAIN k
      /\ DOMAIN k' = 1 .. Len(k) /\ Len(k) \in Nat \ {0}
      /\ k'[Len(k)] = f /\ \A i \in DOMAIN k : i # Len(k) => k'[i] = k[i]
  BY <1>1, TopReplaced DEF SetTop
<1>3. ASSUME NEW i \in DOMAIN k'
      PROVE  /\ IsFrame(k'[i], code, DOMAIN env')
             /\ k'[i].nd = IF i = 1 THEN code.entry["main"] ELSE Cur(k'[i - 1], code)
             /\ i < Len(k') \/ ctl'.at # "try" => InRange(k'[i])
  <2>1. IsFrame(k[i], code, DOMAIN env) /\ k[i].nd = IF i = 1 THEN code.entry["main"] ELSE Cur(k[i - 1], code)
    BY <1>2 DEF StackOK
  <2>2. i # 1 => k'[i - 1] = k[i - 1]
    BY <1>2
  <2>3. CASE i # Len(k)
    <3>1. k'[i] = k[i] /\ InRange(k[i])
      BY <2>3, <1>2 DEF StackOK
    <3>2. IsFrame(k[i], code, DOMAIN env')
      BY <2>1, FrameFacts
    <3>3. QED BY <3>1, <3>2, <2>1, <2>2
  <2>4. CASE i = Len(k)
    <3>1. k'[i] = f /\ f.nd = k[i].nd /\ (i < Len(k') \/ ctl'.at # "try" => InRange(f))
      BY <2>4, <1>2 DEF Top
    <3>2. QED BY <3>1, <2>1, <2>2
  <2>5. QED BY <2>3, <2>4
<1>4. Top' = f
  BY <1>2 DEF Top
<1>5. QED BY <1>2, <1>3, <1>4 DEF StackOK

-----------------------------------------------------------------------------
(* What the nodes keep, and the marks.                                     *)

LEMMA StatesFacts ==
    ASSUME code \in Codes, StatesOK, NEW nd \in code.nodes
    PROVE  /\ nd.id \in Ids /\ st[nd.id] \in Nat /\ saved[nd.id] \in Kept
           /\ saved[nd.id].mark \in Nat /\ saved[nd.id].cenv \in Nat /\ saved[nd.id].senv \in Nat
           /\ saved[nd.id] # NoCall => Live(saved[nd.id], DOMAIN env)
           /\ nd.op = "CALL" /\ saved[nd.id] # NoCall => nd.pred \in DOMAIN code.entry
           /\ nd.op = "CHOICE" => st[nd.id] <= Len(nd.c)
<1>1. nd.id \in Ids
  BY DEF Ids
<1>2. st[nd.id] \in Nat /\ saved[nd.id] \in Kept
  BY <1>1 DEF StatesOK
<1>3. saved[nd.id].mark \in Nat /\ saved[nd.id].cenv \in Nat /\ saved[nd.id].senv \in Nat
  BY <1>2 DEF Kept
<1>4. QED BY <1>1, <1>2, <1>3 DEF StatesOK

\* Nothing the nodes keep changes, or states are reset.
LEMMA StatesKept ==
    ASSUME code \in Codes, StatesOK, UNCHANGED <<code, saved>>, DOMAIN env \subseteq DOMAIN env',
           \/ UNCHANGED st
           \/ \E nd \in code.nodes : bb_reset(nd)
    PROVE  StatesOK'
<1>1. st' \in [Ids -> Nat] /\ \A id \in Ids : st'[id] = st[id] \/ st'[id] = 0
  <2>1. CASE UNCHANGED st
    BY <2>1 DEF StatesOK
  <2>2. CASE \E nd \in code.nodes : bb_reset(nd)
    BY <2>2 DEF StatesOK, bb_reset
  <2>3. QED BY <2>1, <2>2
<1>2. Ids' = Ids
  BY DEF Ids
<1>3. \A id \in Ids : saved[id] # NoCall => Live(saved[id], DOMAIN env')
  BY DEF StatesOK, Live
<1>4. \A nd \in code.nodes : nd.op = "CALL" =>
         /\ st'[nd.id] = 1 => saved[nd.id] # NoCall
         /\ saved[nd.id] # NoCall => nd.pred \in DOMAIN code.entry
  BY <1>1 DEF StatesOK, Ids
<1>5. \A nd \in code.nodes : nd.op = "CHOICE" => st'[nd.id] <= Len(nd.c)
  <2>1. ASSUME NEW nd \in code.nodes, nd.op = "CHOICE" PROVE st'[nd.id] <= Len(nd.c)
    <3>1. st[nd.id] <= Len(nd.c) /\ nd.id \in Ids /\ Len(nd.c) \in Nat
      BY <2>1, StatesFacts, NodeFacts
    <3>2. QED BY <3>1, <1>1
  <2>2. QED BY <2>1
<1>6. QED BY <1>1, <1>2, <1>3, <1>4, <1>5 DEF StatesOK

\* The state of one node is changed, and what a call keeps.
LEMMA StatesChanged ==
    ASSUME code \in Codes, StatesOK, UNCHANGED code, DOMAIN env \subseteq DOMAIN env',
           NEW nd \in code.nodes, NEW n \in Nat, st' = [st EXCEPT ![nd.id] = n],
           NEW s \in Kept, saved' = [saved EXCEPT ![nd.id] = s],
           s # NoCall => Live(s, DOMAIN env'),
           nd.op = "CALL" => (n = 1 => s # NoCall) /\ (s # NoCall => nd.pred \in DOMAIN code.entry),
           nd.op = "CHOICE" => n <= Len(nd.c)
    PROVE  StatesOK'
<1>1. nd.id \in Ids /\ st \in [Ids -> Nat] /\ saved \in [Ids -> Kept] /\ Ids' = Ids
  BY DEF Ids, StatesOK
<1>2. st' \in [Ids -> Nat] /\ saved' \in [Ids -> Kept] /\ st'[nd.id] = n /\ saved'[nd.id] = s
      /\ \A id \in Ids : id # nd.id => st'[id] = st[id] /\ saved'[id] = saved[id]
  BY <1>1
<1>3. ASSUME NEW m \in code.nodes PROVE m = nd \/ (m.id \in Ids /\ m.id # nd.id)
  BY EntryFacts DEF Ids
<1>4. \A id \in Ids : saved'[id] # NoCall => Live(saved'[id], DOMAIN env')
  BY <1>2 DEF StatesOK, Live
<1>5. ASSUME NEW m \in code.nodes
      PROVE  /\ m.op = "CALL" => /\ st'[m.id] = 1 => saved'[m.id] # NoCall
                                 /\ saved'[m.id] # NoCall => m.pred \in DOMAIN code.entry
             /\ m.op = "CHOICE" => st'[m.id] <= Len(m.c)
  <2>1. CASE m = nd
    BY <2>1, <1>2
  <2>2. CASE m.id \in Ids /\ m.id # nd.id
    BY <2>2, <1>2 DEF StatesOK
  <2>3. QED BY <2>1, <2>2, <1>3
<1>6. QED BY <1>1, <1>2, <1>4, <1>5 DEF StatesOK

\* Only the state of a node that is no call is changed.
LEMMA StateChanged ==
    ASSUME code \in Codes, StatesOK, UNCHANGED <<code, saved>>, DOMAIN env \subseteq DOMAIN env',
           NEW nd \in code.nodes, NEW n \in Nat, st' = [st EXCEPT ![nd.id] = n],
           nd.op = "CALL" => n # 1, nd.op = "CHOICE" => n <= Len(nd.c)
    PROVE  StatesOK'
<1>1. nd.id \in Ids /\ saved \in [Ids -> Kept]
  BY DEF Ids, StatesOK
<1>2. saved[nd.id] \in Kept /\ saved' = [saved EXCEPT ![nd.id] = saved[nd.id]]
  BY <1>1
<1>3. saved[nd.id] # NoCall => Live(saved[nd.id], DOMAIN env')
  BY <1>1 DEF StatesOK, Live
<1>4. nd.op = "CALL" => (saved[nd.id] # NoCall => nd.pred \in DOMAIN code.entry)
  BY DEF StatesOK
<1> DEFINE s == saved[nd.id]
<1>5. s \in Kept /\ saved' = [saved EXCEPT ![nd.id] = s] /\ (s # NoCall => Live(s, DOMAIN env'))
      /\ (nd.op = "CALL" => (n = 1 => s # NoCall) /\ (s # NoCall => nd.pred \in DOMAIN code.entry))
  BY <1>2, <1>3, <1>4
<1> HIDE DEF s
<1>6. QED BY <1>5, StatesChanged

-----------------------------------------------------------------------------

LEMMA MarkFacts ==
    ASSUME code \in Codes, StackOK, MarksOK, TermsOK
    PROVE  /\ Len(trail) \in Nat
           /\ \A i \in DOMAIN k : k[i].mark \in Nat /\ k[i].mark <= Len(trail)
           /\ \A i \in DOMAIN k : k[i].mark <= Top.mark
           /\ k # <<>> => Top.mark \in Nat /\ Top.mark <= Len(trail)
<1>1. Len(trail) \in Nat
  BY RefFacts
<1>2. \A i \in DOMAIN k : k[i].mark \in Nat
  BY FrameFacts DEF StackOK
<1>3. \A i \in DOMAIN k : k[i].mark <= Top.mark
  <2>1. DOMAIN k = 1 .. Len(k) /\ Len(k) \in Nat
    BY StackFacts
  <2>2. ASSUME NEW i \in DOMAIN k PROVE k[i].mark <= k[Len(k)].mark
    <3>1. Len(k) \in DOMAIN k /\ i <= Len(k)
      BY <2>1
    <3>2. QED BY <3>1 DEF MarksOK
  <2>3. QED BY <2>2 DEF Top
<1>4. k # <<>> => Len(k) \in DOMAIN k
  BY StackFacts
<1>5. QED BY <1>1, <1>2, <1>3, <1>4 DEF MarksOK, Top

\* What may become of what a call keeps: it is not resumed further back than a frame's mark.
KeepsMark(id) ==
    \/ saved'[id] = saved[id] \/ saved'[id] = NoCall
    \/ \A i \in DOMAIN k' : k'[i].mark <= saved'[id].mark

LEMMA MarksReturn ==
    ASSUME code \in Codes, StackOK, MarksOK, TermsOK, UNCHANGED <<code, k, saved>>, Len(trail) <= Len(trail'), Len(trail') \in Nat,
           ctl.at = "exec", ctl'.at = "fail" \/ (ctl'.at = "ok" /\ ctl.nd.op # "CALL")
    PROVE  MarksOK'
<1>1. \A i \in DOMAIN k : k[i].mark \in Nat /\ k[i].mark <= Len(trail) /\ Len(trail) \in Nat
  BY MarkFacts
<1>2. \A i \in DOMAIN k : k[i].mark <= Len(trail')
  BY <1>1
<1>3. ASSUME NEW i \in DOMAIN k PROVE Gone(k[i], i = Len(k) /\ ctl'.at = "ok") \subseteq Passed(i)
  <2>1. CASE ~(i = Len(k) /\ ctl'.at = "ok")
    BY <2>1 DEF Gone, Passed
  <2>2. CASE i = Len(k) /\ ctl'.at = "ok"
    <3>1. k # <<>> /\ k[i] = Top /\ ctl.nd = Cur(Top, code) /\ ctl.nd.op # "CALL"
      BY <2>2, StackFacts, EmptySeq
    <3>2. ASSUME NEW m \in Gone(Top, TRUE) PROVE m < Top.j \/ (m = Top.j /\ Top.mode = "call")
      <4>1. Top.nd.op = "SEQ" /\ (m < Top.j \/ m = Top.j) /\ Top.nd.c[m].op = "CALL"
        BY DEF Gone
      <4>2. ASSUME m = Top.j, Top.mode # "call" PROVE FALSE
        <5>1. Child(Top).op = "CALL" /\ Top.mode = "go"
          BY <4>1, <4>2, <3>1, StackFacts DEF Child, IsFrame, FramesOf
        <5>2. QED BY <5>1, <4>1, <3>1 DEF Cur
      <4>3. QED BY <4>1, <4>2
    <3>3. QED BY <3>1, <3>2, <2>2 DEF Gone, Passed
  <2>3. QED BY <2>1, <2>2
<1>4. QED BY <1>2, <1>3 DEF MarksOK, Passed

LEMMA MarksPush ==
    ASSUME code \in Codes, StackOK, MarksOK, TermsOK, StackOK', UNCHANGED <<code, saved>>,
           Len(trail) <= Len(trail'), Len(trail') \in Nat,
           NEW f, f \in FramesOf(code), f.mark = Len(trail'), k' = Append(k, f),
           f.nd.op = "SEQ" => f.j = 1 /\ f.mode = "go",
           ctl.at = "exec", ctl'.at # "ok"
    PROVE  MarksOK'
<1>1. \A i \in DOMAIN k : k[i].mark \in Nat /\ k[i].mark <= Len(trail) /\ Len(trail) \in Nat
  BY MarkFacts
<1>2. /\ Len(k) \in Nat /\ DOMAIN k = 1 .. Len(k) /\ Len(k') = Len(k) + 1 /\ DOMAIN k' = 1 .. Len(k) + 1
      /\ k'[Len(k) + 1] = f /\ \A i \in DOMAIN k : k'[i] = k[i]
  <2>1. k \in Seq(FramesOf(code))
    BY DEF StackOK
  <2>2. QED BY <2>1, TopPushed
<1>3. \A i \in DOMAIN k' : k'[i].mark <= Len(trail') /\ k'[i].mark \in Nat
  BY <1>1, <1>2
<1>4. ASSUME NEW i \in DOMAIN k', NEW l \in DOMAIN k', i <= l PROVE k'[i].mark <= k'[l].mark
  <2>1. CASE l = Len(k) + 1
    BY <2>1, <1>2, <1>3
  <2>2. CASE l # Len(k) + 1
    <3>1. i \in DOMAIN k /\ l \in DOMAIN k
      BY <1>2, <1>4, <2>2
    <3>2. QED BY <3>1, <1>2, <1>4 DEF MarksOK
  <2>3. QED BY <2>1, <2>2
<1>5. ASSUME NEW i \in DOMAIN k', NEW m \in Gone(k'[i], i = Len(k') /\ ctl'.at = "ok")
      PROVE  i \in DOMAIN k /\ m \in Passed(i)
  <2>1. m \in Gone(k'[i], FALSE)
    BY DEF Gone
  <2>2. CASE i = Len(k) + 1
    <3>1. m \in Gone(f, FALSE)
      BY <2>1, <2>2, <1>2
    <3>2. m \in 1 .. Len(f.nd.c) /\ f.nd.op = "SEQ" /\ f.j = 1 /\ f.mode = "go" /\ m < f.j
      BY <3>1 DEF Gone
    <3>3. QED BY <3>2
  <2>3. CASE i # Len(k) + 1
    <3>1. i \in DOMAIN k /\ k'[i] = k[i]
      BY <1>2, <2>3
    <3>2. QED BY <3>1, <2>1 DEF Gone, Passed
  <2>4. QED BY <2>2, <2>3
<1>6. ASSUME NEW i \in DOMAIN k', NEW m \in Gone(k'[i], i = Len(k') /\ ctl'.at = "ok")
      PROVE  LET s == saved'[k'[i].nd.c[m].id] IN s = NoCall \/ k'[i].mark <= s.mark
  <2>1. i \in DOMAIN k /\ m \in Passed(i) /\ k'[i] = k[i]
    BY <1>2, <1>5
  <2>2. LET s == saved[k[i].nd.c[m].id] IN s = NoCall \/ k[i].mark <= s.mark
    BY <2>1 DEF MarksOK
  <2>3. QED BY <2>1, <2>2
<1>7. QED BY <1>3, <1>4, <1>6 DEF MarksOK, Passed

LEMMA MarksPop ==
    ASSUME code \in Codes, StackOK, MarksOK, TermsOK, UNCHANGED code, DOMAIN env \subseteq DOMAIN env',
           k # <<>>, Pop, ctl'.at \in {"ok", "fail"}, ctl.at \in {"ok", "fail", "back", "try"},
           Len(trail') \in Nat, Top.mark <= Len(trail'),
           StatesOK', \A id \in Ids : KeepsMark(id),
           Top.nd.op = "CALL" /\ ctl'.at = "ok" => Top.mark <= saved'[Top.nd.id].mark
    PROVE  MarksOK'
<1>1. \A i \in DOMAIN k : k[i].mark \in Nat /\ k[i].mark <= Top.mark /\ Top.mark \in Nat
  BY MarkFacts
<1>2. /\ Len(k') = Len(k) - 1 /\ \A i \in DOMAIN k' : i \in DOMAIN k /\ i < Len(k) /\ k'[i] = k[i]
      /\ k' # <<>> => Top' = k[Len(k) - 1] /\ Len(k) - 1 \in DOMAIN k /\ Top.nd = Cur(Top', code)
      /\ Len(k) \in Nat /\ DOMAIN k = 1 .. Len(k)
  BY StackPop, StackFacts
<1>3. \A i \in DOMAIN k' : k'[i].mark <= Len(trail')
  BY <1>1, <1>2
<1>4. ASSUME NEW i \in DOMAIN k', NEW l \in DOMAIN k', i <= l PROVE k'[i].mark <= k'[l].mark
  BY <1>2, <1>4 DEF MarksOK
<1>5. ASSUME NEW i \in DOMAIN k', NEW m \in Gone(k'[i], i = Len(k') /\ ctl'.at = "ok")
      PROVE  LET s == saved'[k'[i].nd.c[m].id] IN s = NoCall \/ k'[i].mark <= s.mark
  <2> DEFINE id == k[i].nd.c[m].id
  <2>1. i \in DOMAIN k /\ k'[i] = k[i] /\ i # Len(k) /\ IsFrame(k[i], code, DOMAIN env) /\ InRange(k[i])
    BY <1>2 DEF StackOK
  <2>2. m \in 1 .. Len(k[i].nd.c) /\ k[i].nd.op = "SEQ" /\ k[i].nd.c[m].op = "CALL" /\ (m < k[i].j \/ m = k[i].j)
    BY <2>1 DEF Gone
  <2>3. k[i].nd \in code.nodes
    BY <2>1, FrameFacts
  <2>4. id \in Ids
    <3>1. k[i].nd.c[m] \in code.nodes
      BY <2>2, <2>3, NodeFacts
    <3>2. QED BY <3>1 DEF Ids
  <2>5. CASE m \in Passed(i)
    <3>1. saved[id] = NoCall \/ k[i].mark <= saved[id].mark
      BY <2>1, <2>5 DEF MarksOK
    <3>2. KeepsMark(id)
      BY <2>4
    <3>3. QED BY <3>1, <3>2, <2>1 DEF KeepsMark
  <2>6. CASE m \notin Passed(i)
    <3>1. i = Len(k') /\ ctl'.at = "ok" /\ m = k[i].j /\ k[i].mode # "call"
      BY <2>1, <2>2, <2>6 DEF Gone, Passed
    <3>2. k[i].mode = "go"
      <4>1. Child(k[i]).op = "CALL"
        BY <2>2, <3>1 DEF Child
      <4>2. k[i].mode \in {"go", "call", "alt"}
        BY <2>1, FrameFacts
      <4>3. QED BY <4>1, <4>2, <3>1, <2>1 DEF IsFrame
    <3>3. k' # <<>> /\ i = Len(k) - 1 /\ Top' = k[i]
      <4>1. i = Len(k) - 1
        BY <3>1, <1>2
      <4>2. k' # <<>>
        BY <1>5, EmptySeq
      <4>3. QED BY <4>1, <4>2, <1>2
    <3>4. Top.nd = Cur(k[i], code)
      BY <3>3, <1>2
    <3>5. Top.nd = k[i].nd.c[m]
      BY <3>1, <3>2, <3>4, <2>2 DEF Cur, Child
    <3>6. Top.mark <= saved'[id].mark
      BY <3>1, <3>5, <2>2
    <3>7. k[i].mark <= saved'[id].mark
      <4>1. saved'[id].mark \in Nat
        BY <2>4 DEF StatesOK, Ids, Kept
      <4>2. k[i].mark \in Nat /\ k[i].mark <= Top.mark /\ Top.mark \in Nat
        BY <2>1, <1>1
      <4>3. QED BY <4>1, <4>2, <3>6
    <3>8. QED BY <3>7, <2>1
  <2>7. QED BY <2>5, <2>6
<1>6. QED BY <1>3, <1>4, <1>5 DEF MarksOK, Passed

\* f is the new top frame.
LEMMA MarksTop ==
    ASSUME code \in Codes, StackOK, MarksOK, TermsOK, StackOK', UNCHANGED code, k # <<>>,
           NEW f, SetTop(f), f \in FramesOf(code), ctl'.at # "ok",
           Len(trail') \in Nat, f.mark <= Len(trail'), Top.mark <= f.mark,
           f.nd = Top.nd,
           f.nd.op = "SEQ" => f.mark = Top.mark,
           \A m \in Gone(f, FALSE) : m \in Passed(Len(k)) \/ Top.mark <= saved'[f.nd.c[m].id].mark,
           \A id \in Ids : KeepsMark(id)
    PROVE  MarksOK'
<1>1. \A i \in DOMAIN k : k[i].mark \in Nat /\ k[i].mark <= Top.mark /\ Top.mark \in Nat
  BY MarkFacts
<1>2. /\ Len(k) \in Nat \ {0} /\ DOMAIN k = 1 .. Len(k) /\ Len(k') = Len(k) /\ DOMAIN k' = 1 .. Len(k)
      /\ k'[Len(k)] = f /\ \A i \in DOMAIN k : i # Len(k) => k'[i] = k[i]
  <2>1. k \in Seq(FramesOf(code)) /\ k' = [k EXCEPT ![Len(k)] = f]
    BY DEF StackOK, SetTop
  <2>2. QED BY <2>1, TopReplaced
<1>3. k[Len(k)] = Top /\ Len(k) \in DOMAIN k /\ f.mark \in Nat
  BY <1>2 DEF Top, FramesOf
<1>4. \A i \in DOMAIN k' : k'[i].mark <= f.mark
  BY <1>1, <1>2, <1>3
<1>5. \A i \in DOMAIN k' : k'[i].mark <= Len(trail')
  BY <1>1, <1>2, <1>3, <1>4
<1>6. ASSUME NEW i \in DOMAIN k', NEW l \in DOMAIN k', i <= l PROVE k'[i].mark <= k'[l].mark
  <2>1. CASE l = Len(k)
    BY <2>1, <1>2, <1>4
  <2>2. CASE l # Len(k)
    <3>1. i \in DOMAIN k /\ l \in DOMAIN k /\ i # Len(k)
      BY <1>2, <1>6, <2>2
    <3>2. QED BY <3>1, <2>2, <1>2, <1>6 DEF MarksOK
  <2>3. QED BY <2>1, <2>2
<1>7. ASSUME NEW i \in DOMAIN k', NEW m \in Gone(k'[i], i = Len(k') /\ ctl'.at = "ok")
      PROVE  LET s == saved'[k'[i].nd.c[m].id] IN s = NoCall \/ k'[i].mark <= s.mark
  <2> DEFINE id == k[i].nd.c[m].id
  <2>1. i \in DOMAIN k /\ IsFrame(k[i], code, DOMAIN env) /\ k'[i].nd = k[i].nd /\ m \in Gone(k'[i], FALSE)
    BY <1>2, <1>3 DEF StackOK, Gone
  <2>2. m \in 1 .. Len(k[i].nd.c) /\ k[i].nd.op = "SEQ" /\ k'[i].mark = k[i].mark
    BY <2>1, <1>2, <1>3 DEF Gone
  <2>3. id \in Ids
    <3>1. k[i].nd \in code.nodes
      BY <2>1, FrameFacts
    <3>2. k[i].nd.c[m] \in code.nodes
      BY <2>2, <3>1, NodeFacts
    <3>3. QED BY <3>2 DEF Ids
  <2>4. CASE m \in Passed(i)
    <3>1. saved[id] = NoCall \/ k[i].mark <= saved[id].mark
      BY <2>1, <2>4 DEF MarksOK
    <3>2. KeepsMark(id)
      BY <2>3
    <3>3. QED BY <3>1, <3>2, <2>1, <2>2 DEF KeepsMark
  <2>5. CASE m \notin Passed(i)
    <3>1. i = Len(k)
      BY <2>1, <2>5, <1>2 DEF Gone, Passed
    <3>2. m \in Gone(f, FALSE)
      BY <2>1, <3>1, <1>2
    <3>3. Top.mark <= saved'[f.nd.c[m].id].mark
      BY <2>5, <3>1, <3>2
    <3>4. QED BY <3>1, <3>3, <2>2, <1>2, <1>3
  <2>6. QED BY <2>4, <2>5
<1>8. QED BY <1>5, <1>6, <1>7 DEF MarksOK, Passed

-----------------------------------------------------------------------------
(* The steps of any program: leaves, and frames that are new.              *)

LEMMA StoreSame ==
    ASSUME TermsOK, NoRing, EnvsOK, UNCHANGED <<terms, env>>,
           genv' \in DOMAIN env, freed' \subseteq DOMAIN env, cut' \in BOOLEAN
    PROVE  TermsOK' /\ NoRing' /\ EnvsOK' /\ SamePast(Len(trail)) /\ UNCHANGED <<ref, trail>>
<1>1. ref' = ref /\ trail' = trail
  BY DEF terms
<1>2. TermsOK' /\ NoRing' /\ EnvsOK'
  BY <1>1 DEF TermsOK, NoRing, EnvsOK
<1>3. SamePast(Len(trail))
  <2>1. \A m \in 0 .. Len(trail) : Unwound(m)' = Unwound(m)
    BY <1>1 DEF Unwound
  <2>2. Len(ref) <= Len(ref') /\ Len(trail) <= Len(trail')
    BY <1>1, RefFacts
  <2>3. QED BY <2>1, <2>2 DEF SamePast
<1>4. QED BY <1>1, <1>2, <1>3

LEMMA AnyReturn ==
    ASSUME AnyInv, UNCHANGED <<code, st, saved, k>>, TermsOK', NoRing', EnvsOK', SamePast(Len(trail)),
           DOMAIN env \subseteq DOMAIN env', ctl.at = "exec",
           ctl'.at = "fail" \/ (ctl'.at = "ok" /\ ctl.nd.op # "CALL")
    PROVE  AnyInv'
<1>1. StatesOK'
  BY StatesKept DEF AnyInv
<1>2. StackOK'
  BY StackReturn DEF AnyInv
<1>3. Len(trail) <= Len(trail') /\ Len(trail') \in Nat
  <2>1. trail' \in Seq(Nat)
    BY DEF TermsOK
  <2>2. QED BY <2>1, LenProperties DEF SamePast
<1>4. MarksOK'
  BY <1>3, MarksReturn DEF AnyInv
<1>5. QED BY <1>1, <1>2, <1>4 DEF AnyInv

LEMMA AnyLeaf ==
    ASSUME AnyInv, ExecUnify \/ ExecCut \/ ExecWrite \/ ExecIs \/ ExecGt \/ ExecConst \/ CallFailsAtOnce
    PROVE  /\ AnyInv' /\ TermsOK' /\ NoRing' /\ EnvsOK' /\ SamePast(Len(trail)) /\ DOMAIN env' = DOMAIN env
           /\ UNCHANGED <<code, st, saved, k, genv, freed>>
           /\ ctl.at = "exec" /\ (ctl'.at = "fail" \/ (ctl'.at = "ok" /\ ctl.nd.op # "CALL"))
<1>1. code \in Codes /\ TermsOK /\ NoRing /\ EnvsOK /\ StackOK
  BY DEF AnyInv
<1>2. ctl.at = "exec" /\ UNCHANGED <<code, st, saved, k, genv, freed>>
      /\ (ctl'.at = "fail" \/ (ctl'.at = "ok" /\ ctl.nd.op # "CALL"))
  <2>1. CASE ExecUnify
    <3>1. ctl.at = "exec" /\ ctl.nd.op = "UNIFY" /\ UNCHANGED <<code, st, saved, k, genv, freed>>
      BY <2>1 DEF ExecUnify, Executing
    <3>2. Return(TRUE) \/ Return(FALSE)
      BY <2>1 DEF ExecUnify
    <3>3. QED BY <3>1, <3>2 DEF Return
  <2>2. CASE ExecCut \/ ExecWrite \/ ExecGt \/ ExecConst
    BY <2>2 DEF ExecCut, ExecWrite, ExecGt, ExecConst, Executing, Return, envs
  <2>3. CASE ExecIs
    BY <2>3 DEF ExecIs, Executing, Return
  <2>4. CASE CallFailsAtOnce
    BY <2>4 DEF CallFailsAtOnce, Executing, Return, envs
  <2>5. QED BY <2>1, <2>2, <2>3, <2>4
<1>3. ctl.nd \in code.nodes /\ genv \in DOMAIN env /\ freed \subseteq DOMAIN env /\ cut \in BOOLEAN
  BY <1>1, <1>2, StackFacts DEF EnvsOK
<1>4. TermsOK' /\ NoRing' /\ EnvsOK' /\ SamePast(Len(trail)) /\ DOMAIN env' = DOMAIN env
  <2>1. CASE ExecUnify
    BY <2>1, <1>1, <1>3, UnifyStep
  <2>2. CASE ExecIs
    <3>1. UNCHANGED <<ref, trail>> /\ EnvsOK' /\ DOMAIN env' = DOMAIN env
      BY <2>2, <1>1, <1>3, IsStep DEF ExecIs, terms
    <3>2. TermsOK' /\ NoRing'
      BY <3>1, <1>1 DEF TermsOK, NoRing
    <3>3. SamePast(Len(trail))
      <4>1. \A m \in 0 .. Len(trail) : Unwound(m)' = Unwound(m)
        BY <3>1 DEF Unwound
      <4>2. Len(ref) <= Len(ref') /\ Len(trail) <= Len(trail')
        BY <3>1, <1>1, RefFacts
      <4>3. QED BY <4>1, <4>2 DEF SamePast
    <3>4. QED BY <3>1, <3>2, <3>3
  <2>3. CASE ExecCut \/ ExecWrite \/ ExecGt \/ ExecConst \/ CallFailsAtOnce
    <3>1. UNCHANGED <<terms, env>> /\ genv' = genv /\ freed' = freed /\ cut' \in BOOLEAN
      BY <2>3, <1>3 DEF ExecCut, ExecWrite, ExecGt, ExecConst, CallFailsAtOnce, envs
    <3>2. QED BY <3>1, <1>1, <1>3, StoreSame
  <2>4. QED BY <2>1, <2>2, <2>3
<1>5. AnyInv'
  BY <1>2, <1>4, AnyReturn
<1>6. QED BY <1>2, <1>4, <1>5

\* A frame for what is executed.
LEMMA NewFrame ==
    ASSUME AnyInv, ctl.at = "exec", ctl.nd.op \in {"SEQ", "ALT", "CHOICE"}, NEW j \in 1 .. Len(ctl.nd.c) + 1,
           NEW f, f = Frame(ctl.nd, j)
    PROVE  /\ IsFrame(f, code, DOMAIN env) /\ f.nd = ctl.nd /\ f.j = j /\ f.mark = Len(trail) /\ f.mode = "go"
           /\ f.env = genv /\ f \in FramesOf(code)
<1>1. ctl.nd \in code.nodes /\ ctl.nd.id[1] \in DOMAIN code.entry
  BY StackFacts DEF AnyInv
<1>2. genv \in DOMAIN env /\ genv \in Nat /\ cut \in BOOLEAN /\ Len(trail) \in Nat
  BY EnvFacts, RefFacts DEF AnyInv
<1>3. NoCall \in Kept
  <2>1. <<>> \in Seq(Term)
    BY EmptySeq
  <2>2. QED BY <2>1 DEF NoCall, Kept
<1>4. j \in Nat
  BY <1>1, NodeFacts DEF AnyInv
<1>5. f \in FramesOf(code)
  BY <1>1, <1>2, <1>3, <1>4 DEF Frame, FramesOf
<1>6. f.nd = ctl.nd /\ f.j = j /\ f.mark = Len(trail) /\ f.mode = "go" /\ f.env = genv
  BY DEF Frame
<1>7. QED BY <1>1, <1>2, <1>5, <1>6 DEF IsFrame, Inner

LEMMA AnyEnter ==
    ASSUME AnyInv, ExecSeq \/ ExecAlt \/ ExecChoice
    PROVE  /\ AnyInv' /\ TermsOK' /\ SamePast(Len(trail)) /\ UNCHANGED <<code, saved, env, genv, freed, ref, trail>>
           /\ ctl.at = "exec" /\ ctl'.at \in {"exec", "try"}
           /\ \E f \in FramesOf(code) :
                 /\ IsFrame(f, code, DOMAIN env) /\ f.nd = ctl.nd /\ f.mark = Len(trail) /\ f.mode = "go"
                 /\ f.env = genv /\ f.nd.op # "CALL" /\ (f.nd.op = "SEQ" => f.j = 1)
                 /\ k' = Append(k, f)
                 /\ ctl'.at = "exec" => ctl'.nd = Cur(f, code) /\ InRange(f)
<1> DEFINE j == IF ctl.nd.op = "CHOICE" THEN st[ctl.nd.id] + 1 ELSE 1
           f == Frame(ctl.nd, j)
<1>1. code \in Codes /\ TermsOK /\ NoRing /\ EnvsOK /\ StackOK /\ StatesOK /\ MarksOK
  BY DEF AnyInv
<1>2. ctl.at = "exec" /\ UNCHANGED <<code, st, saved, terms, envs>> /\ ctl.nd.op \in {"SEQ", "ALT", "CHOICE"}
      /\ k' = Append(k, f) /\ cut' \in BOOLEAN
  <2>1. CASE ExecSeq
    BY <2>1, <1>1 DEF ExecSeq, Executing, Push, EnvsOK
  <2>2. CASE ExecAlt
    BY <2>2, <1>1 DEF ExecAlt, Executing, Push, EnvsOK
  <2>3. CASE ExecChoice
    BY <2>3, <1>1 DEF ExecChoice, Executing, Push
  <2>4. QED BY <2>1, <2>2, <2>3
<1>3. ctl.nd \in code.nodes
  BY <1>1, <1>2, StackFacts
<1>4. j \in 1 .. Len(ctl.nd.c) + 1
  <2>1. CASE ctl.nd.op = "CHOICE"
    BY <2>1, <1>1, <1>3, NodeFacts, StatesFacts
  <2>2. CASE ctl.nd.op # "CHOICE"
    BY <2>2, <1>1, <1>3, NodeFacts
  <2>3. QED BY <2>1, <2>2
<1>5. \/ ctl'.at = "exec" /\ ctl'.nd = ctl.nd.c[1] /\ j = 1 /\ ctl.nd.op \in {"SEQ", "ALT"}
      \/ ctl'.at = "try" /\ ctl.nd.op = "CHOICE"
  BY DEF ExecSeq, ExecAlt, ExecChoice, Executing, Exec, Go
<1>6. ctl.nd.op \in {"SEQ", "ALT"} => Len(ctl.nd.c) >= 1 /\ j = 1
  BY <1>1, <1>3, NodeFacts
<1> HIDE DEF j
<1>7. IsFrame(f, code, DOMAIN env) /\ f.nd = ctl.nd /\ f.j = j /\ f.mark = Len(trail) /\ f.mode = "go"
      /\ f.env = genv /\ f \in FramesOf(code)
  BY <1>2, <1>4, NewFrame
<1> HIDE DEF f
<1>8. ctl'.at = "exec" => ctl'.nd = Cur(f, code) /\ InRange(f)
  BY <1>5, <1>6, <1>7 DEF Cur, Child, InRange
<1>9. TermsOK' /\ NoRing' /\ EnvsOK' /\ SamePast(Len(trail)) /\ UNCHANGED <<ref, trail, env, genv, freed>>
  <2>1. UNCHANGED <<terms, env, genv, freed>>
    BY <1>2 DEF envs
  <2>2. genv \in DOMAIN env /\ freed \subseteq DOMAIN env
    BY <1>1 DEF EnvsOK
  <2>3. QED BY <2>1, <2>2, <1>1, <1>2, StoreSame
<1>10. StackOK'
  <2>1. \/ ctl'.at = "exec" /\ ctl'.nd = Cur(f, code) /\ InRange(f)
        \/ ctl'.at = "try" /\ f.nd.op = "CHOICE"
    BY <1>5, <1>7, <1>8
  <2>2. code' = code /\ DOMAIN env \subseteq DOMAIN env' /\ IsFrame(f, code, DOMAIN env')
    BY <1>2, <1>7, <1>9
  <2>3. QED BY <2>1, <2>2, <1>1, <1>2, <1>7, StackPush
<1>11. StatesOK'
  BY <1>1, <1>2, <1>9, StatesKept
<1>12. MarksOK'
  <2>1. Len(trail) <= Len(trail') /\ Len(trail') \in Nat /\ f.mark = Len(trail') /\ ctl'.at # "ok"
    BY <1>1, <1>5, <1>7, <1>9, RefFacts
  <2>2. f.nd.op = "SEQ" => f.j = 1 /\ f.mode = "go"
    BY <1>6, <1>7
  <2>3. QED BY <2>1, <2>2, <1>1, <1>2, <1>7, <1>10, MarksPush
<1>13. AnyInv'
  BY <1>1, <1>2, <1>9, <1>10, <1>11, <1>12 DEF AnyInv
<1>14. f.nd.op # "CALL" /\ (f.nd.op = "SEQ" => f.j = 1)
  BY <1>2, <1>6, <1>7
<1>15. ctl'.at \in {"exec", "try"}
  BY <1>5
<1>16. QED BY <1>2, <1>7, <1>8, <1>9, <1>13, <1>14, <1>15

-----------------------------------------------------------------------------
(* Frames that end, and frames that go on.                                 *)

LEMMA InFacts ==
    ASSUME AnyInv, NEW op, NEW at, In(op, at)
    PROVE  /\ k # <<>> /\ Top.nd.op = op /\ ctl.at = at /\ Top.nd \in code.nodes
           /\ IsFrame(Top, code, DOMAIN env) /\ Top \in FramesOf(code) /\ (at # "try" => InRange(Top))
           /\ Len(k) \in DOMAIN k /\ Top = k[Len(k)] /\ Len(k) \in Nat \ {0} /\ DOMAIN k = 1 .. Len(k)
           /\ Top.env \in DOMAIN env /\ Top.mark \in Nat /\ Top.mark <= Len(trail) /\ Len(trail) \in Nat
           /\ code \in Codes
<1>1. k # <<>> /\ Top.nd.op = op /\ ctl.at = at /\ code \in Codes /\ StackOK /\ TermsOK /\ MarksOK
  BY DEF AnyInv, In
<1>2. Top.mark \in Nat /\ Top.mark <= Len(trail) /\ Len(trail) \in Nat
  BY <1>1, MarkFacts
<1>3. Top.env \in DOMAIN env
  BY <1>1, StackFacts DEF IsFrame
<1>4. /\ Top.nd \in code.nodes /\ IsFrame(Top, code, DOMAIN env) /\ Top \in FramesOf(code) /\ (at # "try" => InRange(Top))
      /\ Len(k) \in DOMAIN k /\ Top = k[Len(k)] /\ Len(k) \in Nat \ {0} /\ DOMAIN k = 1 .. Len(k)
  BY <1>1, StackFacts
<1>5. QED BY <1>1, <1>2, <1>3, <1>4

LEMMA AnyPop ==
    ASSUME AnyInv, UNCHANGED code, TermsOK', NoRing', EnvsOK', StatesOK', DOMAIN env \subseteq DOMAIN env',
           k # <<>>, Pop, ctl.at \in {"ok", "fail", "back", "try"}, ctl'.at \in {"ok", "fail"},
           Top.mark <= Len(trail'), \A id \in Ids : KeepsMark(id),
           Top.nd.op = "CALL" /\ ctl'.at = "ok" => Top.mark <= saved'[Top.nd.id].mark
    PROVE  AnyInv'
<1>1. StackOK'
  BY StackPop DEF AnyInv
<1>2. Len(trail') \in Nat
  <2>1. trail' \in Seq(Nat)
    BY DEF TermsOK
  <2>2. QED BY <2>1, LenProperties
<1>3. MarksOK'
  BY <1>2, MarksPop DEF AnyInv
<1>4. QED BY <1>1, <1>3 DEF AnyInv

LEMMA AnyTop ==
    ASSUME AnyInv, UNCHANGED code, TermsOK', NoRing', EnvsOK', StatesOK', DOMAIN env \subseteq DOMAIN env', k # <<>>,
           NEW f, IsFrame(f, code, DOMAIN env'), f.nd = Top.nd, SetTop(f),
           \/ ctl'.at = "exec" /\ ctl'.nd = Cur(f, code) /\ InRange(f)
           \/ ctl'.at = "back" /\ f.nd.op = "SEQ" /\ f.mode = "go" /\ InRange(f)
           \/ ctl'.at = "try" /\ f.nd.op = "CHOICE",
           f.mark <= Len(trail'), Top.mark <= f.mark, f.nd.op = "SEQ" => f.mark = Top.mark,
           \A m \in Gone(f, FALSE) : m \in Passed(Len(k)) \/ Top.mark <= saved'[f.nd.c[m].id].mark,
           \A id \in Ids : KeepsMark(id)
    PROVE  AnyInv'
<1>1. StackOK'
  BY StackTop DEF AnyInv
<1>2. Len(trail') \in Nat
  <2>1. trail' \in Seq(Nat)
    BY DEF TermsOK
  <2>2. QED BY <2>1, LenProperties
<1>3. f \in FramesOf(code) /\ ctl'.at # "ok"
  BY DEF IsFrame
<1>4. MarksOK'
  BY <1>1, <1>2, <1>3, MarksTop DEF AnyInv
<1>5. QED BY <1>1, <1>4 DEF AnyInv

\* A sequence's frame, moved to another goal.
Moved(f, j) == [f EXCEPT !.j = j, !.mode = "go", !.cs = NoCall]

LEMMA SeqFrame ==
    ASSUME AnyInv, k # <<>>, Top.nd.op = "SEQ", NEW j \in 1 .. Len(Top.nd.c),
           NEW f, f = Moved(Top, j)
    PROVE  /\ IsFrame(f, code, DOMAIN env) /\ f \in FramesOf(code) /\ InRange(f) /\ Cur(f, code) = f.nd.c[j]
           /\ f.nd = Top.nd /\ f.j = j /\ f.mode = "go" /\ f.mark = Top.mark /\ f.env = Top.env
<1>1. Top \in FramesOf(code) /\ IsFrame(Top, code, DOMAIN env) /\ Top.nd \in code.nodes
  BY StackFacts DEF AnyInv
<1>2. NoCall \in Kept
  <2>1. <<>> \in Seq(Term)
    BY EmptySeq
  <2>2. QED BY <2>1 DEF NoCall, Kept
<1>3. Len(Top.nd.c) \in Nat /\ j \in Nat /\ j <= Len(Top.nd.c)
  BY <1>1, NodeFacts DEF AnyInv
<1>4. f \in FramesOf(code) /\ f.nd = Top.nd /\ f.j = j /\ f.mode = "go" /\ f.mark = Top.mark /\ f.env = Top.env
  BY <1>1, <1>2, <1>3 DEF FramesOf, Moved
<1>5. IsFrame(f, code, DOMAIN env)
  BY <1>1, <1>3, <1>4 DEF IsFrame
<1>6. QED BY <1>3, <1>4, <1>5 DEF InRange, Cur, Child

\* A sequence goes on after a goal.
LEMMA AnyForward ==
    ASSUME AnyInv, In("SEQ", "ok"), Forward(Top, Top.j + 1), UNCHANGED <<code, saved, trail>>,
           TermsOK', NoRing', EnvsOK', StatesOK', DOMAIN env' = DOMAIN env
    PROVE  AnyInv'
<1> DEFINE f == Moved(Top, Top.j + 1)
<1>1. k # <<>> /\ Top.nd.op = "SEQ" /\ ctl.at = "ok" /\ IsFrame(Top, code, DOMAIN env)
      /\ Top.mark \in Nat /\ Top.mark <= Len(trail) /\ InRange(Top) /\ Top \in FramesOf(code)
  BY InFacts
<1>2. \A id \in Ids : KeepsMark(id)
  BY DEF KeepsMark
<1>3. CASE Top.j + 1 <= Len(Top.nd.c)
  <2>1. SetTop(f) /\ ctl'.at = "exec" /\ ctl'.nd = Top.nd.c[Top.j + 1]
    BY <1>3 DEF Forward, Exec, Moved
  <2>2. Top.j + 1 \in 1 .. Len(Top.nd.c) /\ Top.j \in Nat
    <3>1. Top.j \in Nat /\ Len(Top.nd.c) \in Nat
      BY <1>1, FrameFacts, NodeFacts DEF AnyInv
    <3>2. QED BY <3>1, <1>3
  <2>3. IsFrame(f, code, DOMAIN env) /\ InRange(f) /\ Cur(f, code) = f.nd.c[Top.j + 1]
        /\ f.nd = Top.nd /\ f.j = Top.j + 1 /\ f.mode = "go" /\ f.mark = Top.mark
    BY <1>1, <2>2, SeqFrame
  <2> HIDE DEF f
  <2>4. \A m \in Gone(f, FALSE) : m \in Passed(Len(k))
    <3>1. Passed(Len(k)) = Gone(Top, TRUE)
      BY <1>1 DEF Passed, Top
    <3>2. QED BY <3>1, <2>2, <2>3 DEF Gone
  <2>5. /\ f.mark <= Len(trail') /\ Top.mark <= f.mark
        /\ IsFrame(f, code, DOMAIN env') /\ DOMAIN env \subseteq DOMAIN env'
        /\ ctl'.at = "exec" /\ ctl'.nd = Cur(f, code) /\ InRange(f)
    BY <1>1, <2>1, <2>3
  <2>6. QED BY <1>1, <1>2, <2>1, <2>3, <2>4, <2>5, AnyTop
<1>4. CASE ~(Top.j + 1 <= Len(Top.nd.c))
  <2>1. Pop /\ ctl'.at = "ok"
    BY <1>4 DEF Forward, Return
  <2>2. QED BY <1>1, <1>2, <2>1, AnyPop
<1>5. QED BY <1>3, <1>4

\* A sequence looks for a goal to resume.
LEMMA AnyBackward ==
    ASSUME AnyInv, In("SEQ", "fail"), Backward(Top, Top.j), UNCHANGED <<code, trail>>,
           TermsOK', NoRing', EnvsOK', StatesOK', DOMAIN env' = DOMAIN env,
           \A id \in Ids : saved'[id] = saved[id] \/ saved'[id] = NoCall
    PROVE  AnyInv'
<1> DEFINE f == Moved(Top, Top.j)
<1>1. k # <<>> /\ Top.nd.op = "SEQ" /\ ctl.at = "fail" /\ IsFrame(Top, code, DOMAIN env) /\ Len(k) \in DOMAIN k
      /\ Top.mark \in Nat /\ Top.mark <= Len(trail) /\ InRange(Top) /\ Top \in FramesOf(code) /\ code \in Codes
  BY InFacts
<1>2. \A id \in Ids : KeepsMark(id)
  BY DEF KeepsMark
<1>3. SetTop(f) /\ ctl'.at = "back"
  BY DEF Backward, Go, Moved
<1>4. Top.j \in 1 .. Len(Top.nd.c)
  BY <1>1, FrameFacts
<1>5. IsFrame(f, code, DOMAIN env) /\ InRange(f)
      /\ f.nd = Top.nd /\ f.j = Top.j /\ f.mode = "go" /\ f.mark = Top.mark
  BY <1>1, <1>4, SeqFrame
<1> HIDE DEF f
<1>6. \A m \in Gone(f, FALSE) : m \in Passed(Len(k))
  BY <1>1, <1>5 DEF Gone, Passed, Top
<1>7. /\ f.mark <= Len(trail') /\ Top.mark <= f.mark
      /\ IsFrame(f, code, DOMAIN env') /\ DOMAIN env \subseteq DOMAIN env'
      /\ ctl'.at = "back" /\ f.nd.op = "SEQ" /\ f.mode = "go" /\ InRange(f)
  BY <1>1, <1>3, <1>5
<1>8. QED BY <1>1, <1>2, <1>3, <1>5, <1>6, <1>7, AnyTop

-----------------------------------------------------------------------------
(* The steps of a sequence.                                                *)

LEMMA StoreEnv ==
    ASSUME TermsOK, NoRing, EnvsOK, UNCHANGED terms, env' \in Seq(EnvUpTo(Len(ref))), DOMAIN env' = DOMAIN env,
           genv' \in DOMAIN env, freed' \subseteq DOMAIN env, cut' \in BOOLEAN
    PROVE  TermsOK' /\ NoRing' /\ EnvsOK' /\ SamePast(Len(trail)) /\ UNCHANGED <<ref, trail>>
<1>1. ref' = ref /\ trail' = trail
  BY DEF terms
<1>2. TermsOK' /\ NoRing' /\ EnvsOK'
  BY <1>1 DEF TermsOK, NoRing, EnvsOK, EnvUpTo
<1>3. SamePast(Len(trail))
  <2>1. \A m \in 0 .. Len(trail) : Unwound(m)' = Unwound(m)
    BY <1>1 DEF Unwound
  <2>2. Len(ref) <= Len(ref') /\ Len(trail) <= Len(trail')
    BY <1>1, RefFacts
  <2>3. QED BY <2>1, <2>2 DEF SamePast
<1>4. QED BY <1>1, <1>2, <1>3

LEMMA StoreUnwound ==
    ASSUME TermsOK, NoRing, EnvsOK, NEW m \in Nat, trail_unwind(m), UNCHANGED env,
           genv' \in DOMAIN env, freed' \subseteq DOMAIN env, cut' \in BOOLEAN
    PROVE  /\ TermsOK' /\ NoRing' /\ EnvsOK'
           /\ Len(trail') \in Nat /\ SamePast(Len(trail')) /\ Len(trail') <= Len(trail)
           /\ m <= Len(trail) => Len(trail') = m
           /\ m > Len(trail) => Len(trail') = Len(trail)
<1>1. /\ TermsOK' /\ NoRing' /\ Len(ref') = Len(ref)
      /\ Len(trail') = IF m < Len(trail) THEN m ELSE Len(trail)
      /\ \A M \in Nat : M <= Len(trail') => SamePast(M)
  BY UnwindStep
<1>2. Len(trail) \in Nat
  BY RefFacts
<1>3. EnvsOK'
  BY <1>1 DEF EnvsOK
<1>4. Len(trail') \in Nat /\ Len(trail') <= Len(trail) /\ (m <= Len(trail) => Len(trail') = m)
      /\ (m > Len(trail) => Len(trail') = Len(trail))
  BY <1>1, <1>2
<1>5. QED BY <1>1, <1>2, <1>3, <1>4

\* The call a sequence's frame has resumed.
LEMMA CallFrame ==
    ASSUME AnyInv, k # <<>>, Top.nd.op = "SEQ", Top.mode = "call"
    PROVE  /\ Child(Top) = Top.nd.c[Top.j] /\ Child(Top) \in code.nodes /\ Child(Top).op = "CALL"
           /\ Child(Top).pred \in DOMAIN code.entry /\ Child(Top).id \in Ids
           /\ Top.j \in 1 .. Len(Top.nd.c) /\ Top.cs \in Kept
           /\ Top.cs.cenv \in DOMAIN env /\ Top.cs.senv \in DOMAIN env
<1>1. IsFrame(Top, code, DOMAIN env) /\ Top.nd \in code.nodes
  BY StackFacts DEF AnyInv
<1>2. Top.j \in Nat /\ Top.cs \in Kept /\ Len(Top.nd.c) \in Nat
  BY <1>1, FrameFacts, NodeFacts DEF AnyInv
<1>3. /\ Top.j \in 1 .. Len(Top.nd.c) /\ Child(Top).op = "CALL" /\ Child(Top).pred \in DOMAIN code.entry
      /\ Top.cs.cenv \in DOMAIN env /\ Top.cs.senv \in DOMAIN env
  BY <1>1, <1>2 DEF IsFrame, Live
<1>4. Child(Top) \in code.nodes
  BY <1>1, <1>3, NodeFacts DEF AnyInv, Child
<1>5. QED BY <1>2, <1>3, <1>4 DEF Child, Ids

\* The goal that is resumed.
LEMMA NearestFacts ==
    ASSUME AnyInv, In("SEQ", "back"), Found(Top) # {}
    PROVE  /\ Nearest(Top) \in 1 .. Len(Top.nd.c) /\ Nearest(Top) < Top.j /\ Top.mode = "go"
           /\ Resumable(Top.nd.c[Nearest(Top)]) /\ Top.nd.c[Nearest(Top)] \in code.nodes
           /\ \A i \in Found(Top) : i <= Nearest(Top)
<1>1. Top.nd \in code.nodes /\ InRange(Top) /\ IsFrame(Top, code, DOMAIN env) /\ Top.nd.op = "SEQ" /\ ctl.at = "back"
      /\ code \in Codes
  BY InFacts
<1>2. Top.j \in 1 .. Len(Top.nd.c) /\ Top.j \in Nat
  BY <1>1, FrameFacts
<1>3. Found(Top) \in SUBSET (1 .. Top.j)
  BY <1>2 DEF Found
<1>4. \E j \in Found(Top) : \A i \in Found(Top) : i <= j
  <2> DEFINE T == Found(Top)
  <2>1. T # {} /\ T \in SUBSET (1 .. Top.j)
    BY <1>3
  <2> HIDE DEF T
  <2>2. \E j \in T : \A i \in T : i <= j
    BY <2>1, <1>2, GreatestUpTo
  <2>3. QED BY <2>2 DEF T
<1>5. Nearest(Top) \in Found(Top) /\ \A i \in Found(Top) : i <= Nearest(Top)
  BY <1>4 DEF Nearest
<1>6. Nearest(Top) \in 1 .. Len(Top.nd.c) /\ Nearest(Top) < Top.j /\ Resumable(Top.nd.c[Nearest(Top)])
  BY <1>2, <1>5, NodeFacts, <1>1 DEF Found
<1>7. Top.nd.c[Nearest(Top)] \in code.nodes
  BY <1>1, <1>6, NodeFacts
<1>8. Top.mode = "go"
  BY <1>1 DEF AnyInv, StackOK
<1>9. QED BY <1>5, <1>6, <1>7, <1>8

LEMMA SeqGoalAny ==
    ASSUME AnyInv, SeqGoal
    PROVE  AnyInv'
<1>1. code \in Codes /\ TermsOK /\ NoRing /\ EnvsOK /\ StatesOK /\ genv \in DOMAIN env /\ freed \subseteq DOMAIN env /\ cut \in BOOLEAN
  BY DEF AnyInv, EnvsOK
<1>2. UNCHANGED <<code, st, saved, terms, env, genv, freed, cut>>
  BY DEF SeqGoal, envs
<1>3. TermsOK' /\ NoRing' /\ EnvsOK' /\ StatesOK' /\ UNCHANGED <<ref, trail>>
  BY <1>1, <1>2, StoreSame, StatesKept
<1>4. CASE In("SEQ", "ok") /\ Forward(Top, Top.j + 1)
  BY <1>2, <1>3, <1>4, AnyForward
<1>5. CASE In("SEQ", "fail") /\ Backward(Top, Top.j)
  BY <1>2, <1>3, <1>5, AnyBackward
<1>6. QED BY <1>4, <1>5 DEF SeqGoal

LEMMA SeqFailsAny ==
    ASSUME AnyInv, SeqFails
    PROVE  AnyInv'
<1>1. code \in Codes /\ TermsOK /\ NoRing /\ EnvsOK /\ StatesOK /\ genv \in DOMAIN env /\ freed \subseteq DOMAIN env /\ cut \in BOOLEAN
  BY DEF AnyInv, EnvsOK
<1>2. UNCHANGED <<code, st, saved, terms, env, genv, freed, cut>> /\ In("SEQ", "back") /\ Pop /\ ctl'.at = "fail"
  BY DEF SeqFails, envs, Return
<1>3. TermsOK' /\ NoRing' /\ EnvsOK' /\ StatesOK' /\ UNCHANGED <<ref, trail>>
  BY <1>1, <1>2, StoreSame, StatesKept
<1>4. k # <<>> /\ ctl.at = "back" /\ Top.mark <= Len(trail')
  BY <1>2, <1>3, InFacts
<1>5. \A id \in Ids : KeepsMark(id)
  BY <1>2 DEF KeepsMark
<1>6. QED BY <1>2, <1>3, <1>4, <1>5, AnyPop

LEMMA SeqCallAgainAny ==
    ASSUME AnyInv, SeqCallAgain
    PROVE  AnyInv'
<1>1. code \in Codes /\ TermsOK /\ NoRing /\ EnvsOK /\ StatesOK /\ freed \subseteq DOMAIN env /\ cut \in BOOLEAN
  BY DEF AnyInv, EnvsOK
<1>2. /\ In("SEQ", "ok") /\ Top.mode = "call" /\ WriteBack(Top.nd.c[Top.j], Top.cs.cenv, Top.cs.senv)
      /\ genv' = Top.cs.senv /\ Forward(Top, Top.j + 1) /\ UNCHANGED <<code, st, saved, terms, freed, cut>>
  BY DEF SeqCallAgain
<1>3. /\ Child(Top) = Top.nd.c[Top.j] /\ Child(Top) \in code.nodes /\ Child(Top).op = "CALL"
      /\ Top.cs.cenv \in DOMAIN env /\ Top.cs.senv \in DOMAIN env
  BY <1>2, InFacts, CallFrame
<1>4. env' \in Seq(EnvUpTo(Len(ref))) /\ DOMAIN env' = DOMAIN env
  BY <1>1, <1>2, <1>3, WriteBackStep
<1>5. TermsOK' /\ NoRing' /\ EnvsOK' /\ UNCHANGED <<ref, trail>>
  BY <1>1, <1>2, <1>3, <1>4, StoreEnv
<1>6. StatesOK'
  BY <1>1, <1>2, <1>4, StatesKept
<1>7. QED BY <1>2, <1>4, <1>5, <1>6, AnyForward

LEMMA SeqCallExhaustedAny ==
    ASSUME AnyInv, SeqCallExhausted
    PROVE  AnyInv'
<1> DEFINE nd == Top.nd.c[Top.j]
<1>1. code \in Codes /\ TermsOK /\ NoRing /\ EnvsOK /\ StatesOK /\ freed \subseteq DOMAIN env /\ cut \in BOOLEAN
  BY DEF AnyInv, EnvsOK
<1>2. /\ In("SEQ", "fail") /\ Top.mode = "call" /\ genv' = Top.cs.senv
      /\ saved' = [saved EXCEPT ![nd.id] = NoCall] /\ st' = [st EXCEPT ![nd.id] = 0]
      /\ Backward(Top, Top.j) /\ UNCHANGED <<code, terms, env, freed, cut>>
  BY DEF SeqCallExhausted
<1>3. nd \in code.nodes /\ Top.cs.senv \in DOMAIN env
  BY <1>2, InFacts, CallFrame
<1>4. TermsOK' /\ NoRing' /\ EnvsOK' /\ UNCHANGED <<ref, trail>>
  BY <1>1, <1>2, <1>3, StoreSame
<1>5. NoCall \in Kept
  <2>1. <<>> \in Seq(Term)
    BY EmptySeq
  <2>2. QED BY <2>1 DEF NoCall, Kept
<1> HIDE DEF nd
<1>6. StatesOK'
  <2>1. Len(nd.c) \in Nat
    BY <1>1, <1>3, NodeFacts
  <2>2. DOMAIN env \subseteq DOMAIN env' /\ code' = code /\ 0 \in Nat /\ (nd.op = "CHOICE" => 0 <= Len(nd.c))
    BY <1>2, <2>1
  <2> DEFINE n == 0
             s == NoCall
  <2>3. n \in Nat /\ s \in Kept /\ st' = [st EXCEPT ![nd.id] = n] /\ saved' = [saved EXCEPT ![nd.id] = s]
        /\ (s # NoCall => Live(s, DOMAIN env')) /\ (nd.op = "CHOICE" => n <= Len(nd.c))
        /\ (nd.op = "CALL" => (n = 1 => s # NoCall) /\ (s # NoCall => nd.pred \in DOMAIN code.entry))
    BY <1>2, <1>5, <2>2
  <2>4. code \in Codes /\ StatesOK /\ UNCHANGED code /\ DOMAIN env \subseteq DOMAIN env' /\ nd \in code.nodes
    BY <1>1, <1>2, <1>3
  <2> HIDE DEF n, s
  <2>5. QED BY <2>3, <2>4, StatesChanged
<1>7. \A id \in Ids : saved'[id] = saved[id] \/ saved'[id] = NoCall
  <2>1. saved \in [Ids -> Kept]
    BY <1>1 DEF StatesOK
  <2>2. QED BY <1>2, <2>1
<1>8. QED BY <1>2, <1>4, <1>6, <1>7, AnyBackward

-----------------------------------------------------------------------------
\* A sequence's frame, in a call that it has resumed.
Resumed(f, j, s) == [f EXCEPT !.j = j, !.mode = "call", !.cs = s]

\* What is kept of a call, with another mark.
Marked(s, m) == [s EXCEPT !.mark = m]

\* The goal that is resumed, what its node keeps then, and the frame with it.
ToResume(f) == f.nd.c[Nearest(f)]
KeptThen == Marked(saved[ToResume(Top).id], Len(trail'))
FrameThen == Resumed(Top, Nearest(Top), KeptThen)

LEMMA ResumedFacts ==
    ASSUME AnyInv, SeqResumesCall
    PROVE  /\ TermsOK' /\ NoRing' /\ EnvsOK' /\ SamePast(Len(trail')) /\ Len(trail') \in Nat
           /\ Len(trail') <= Len(trail) /\ Top.mark <= Len(trail')
           /\ saved[ToResume(Top).id].mark <= Len(trail) => Len(trail') = saved[ToResume(Top).id].mark
           /\ trail_unwind(saved[ToResume(Top).id].mark) /\ saved[ToResume(Top).id].mark \in Nat
           /\ UNCHANGED <<code, st, env, freed>> /\ genv' = KeptThen.cenv
           /\ saved' = [saved EXCEPT ![ToResume(Top).id] = KeptThen] /\ saved[ToResume(Top).id] # NoCall /\ KeptThen # NoCall
           /\ KeptThen \in Kept /\ KeptThen.mark = Len(trail') /\ KeptThen.cenv = saved[ToResume(Top).id].cenv /\ KeptThen.senv = saved[ToResume(Top).id].senv
           /\ KeptThen.store = saved[ToResume(Top).id].store /\ st[ToResume(Top).id] = 1
           /\ Nearest(Top) \in 1 .. Len(Top.nd.c) /\ Nearest(Top) < Top.j /\ Top.mode = "go" /\ ToResume(Top).op = "CALL" /\ ToResume(Top) \in code.nodes
           /\ Nearest(Top) \in Passed(Len(k)) /\ \A i \in Found(Top) : i <= Nearest(Top)
           /\ SetTop(FrameThen) /\ IsFrame(FrameThen, code, DOMAIN env) /\ InRange(FrameThen) /\ FrameThen \in FramesOf(code)
           /\ FrameThen.nd = Top.nd /\ FrameThen.j = Nearest(Top) /\ FrameThen.mode = "call" /\ FrameThen.cs = KeptThen /\ FrameThen.mark = Top.mark /\ FrameThen.env = Top.env
           /\ FrameThen.cenv = Top.cenv
           /\ ctl'.at = "exec" /\ ctl'.nd = Cur(FrameThen, code)
           /\ Top.nd.op = "SEQ" /\ k # <<>> /\ ctl.at = "back"
<1> DEFINE j == Nearest(Top)
           nd == ToResume(Top)
           s == KeptThen
           f == FrameThen
<1>0. /\ j = Nearest(Top) /\ nd = ToResume(Top) /\ s = KeptThen /\ f = FrameThen
      /\ nd = Top.nd.c[j] /\ s = Marked(saved[nd.id], Len(trail')) /\ f = Resumed(Top, j, s)
  BY DEF ToResume, KeptThen, FrameThen
<1>1. code \in Codes /\ TermsOK /\ NoRing /\ EnvsOK /\ StatesOK /\ StackOK /\ MarksOK /\ freed \subseteq DOMAIN env /\ cut \in BOOLEAN
  BY DEF AnyInv, EnvsOK
<1>2. /\ In("SEQ", "back") /\ Found(Top) # {} /\ nd.op = "CALL"
      /\ trail_unwind(saved[nd.id].mark) /\ genv' = saved[nd.id].cenv
      /\ saved' = [saved EXCEPT ![nd.id].mark = Len(trail')]
      /\ SetTop([Top EXCEPT !.j = j, !.mode = "call", !.cs = saved'[nd.id]])
      /\ Exec(code.entry[nd.pred]) /\ UNCHANGED <<code, st, env, freed, cut>>
  BY DEF SeqResumesCall, ToResume
<1> HIDE DEF j, nd, s, f
<1>3. /\ k # <<>> /\ Top.nd.op = "SEQ" /\ ctl.at = "back" /\ Top.nd \in code.nodes /\ InRange(Top)
      /\ IsFrame(Top, code, DOMAIN env) /\ Top \in FramesOf(code) /\ Len(k) \in DOMAIN k /\ Top = k[Len(k)]
      /\ Top.mark \in Nat /\ Top.mark <= Len(trail) /\ Len(trail) \in Nat
  BY <1>2, InFacts
<1>4. /\ j \in 1 .. Len(Top.nd.c) /\ j < Top.j /\ Top.mode = "go" /\ Resumable(nd) /\ nd \in code.nodes
      /\ \A i \in Found(Top) : i <= j
  BY <1>0, <1>2, NearestFacts
<1>5. st[nd.id] = 1 /\ saved[nd.id] # NoCall
  BY <1>2, <1>4 DEF Resumable
<1>6. /\ nd.id \in Ids /\ saved[nd.id] \in Kept /\ saved[nd.id].mark \in Nat /\ saved[nd.id].cenv \in Nat
      /\ Live(saved[nd.id], DOMAIN env) /\ nd.pred \in DOMAIN code.entry
  BY <1>1, <1>2, <1>4, <1>5, StatesFacts
<1>7. /\ TermsOK' /\ NoRing' /\ EnvsOK' /\ Len(trail') \in Nat /\ SamePast(Len(trail')) /\ Len(trail') <= Len(trail)
      /\ saved[nd.id].mark <= Len(trail) => Len(trail') = saved[nd.id].mark
      /\ saved[nd.id].mark > Len(trail) => Len(trail') = Len(trail)
  <2>1. genv' \in DOMAIN env /\ freed' \subseteq DOMAIN env /\ cut' \in BOOLEAN /\ env' = env
    BY <1>1, <1>2, <1>6 DEF Live
  <2> DEFINE m == saved[nd.id].mark
  <2>2. m \in Nat /\ trail_unwind(m)
    BY <1>2, <1>6
  <2> HIDE DEF m
  <2>3. /\ TermsOK' /\ NoRing' /\ EnvsOK' /\ Len(trail') \in Nat /\ SamePast(Len(trail')) /\ Len(trail') <= Len(trail)
        /\ m <= Len(trail) => Len(trail') = m
        /\ m > Len(trail) => Len(trail') = Len(trail)
    BY <1>1, <2>1, <2>2, StoreUnwound
  <2>4. QED BY <2>3 DEF m
<1>8. j \in Passed(Len(k))
  BY <1>0, <1>2, <1>3, <1>4 DEF Passed, Gone
<1>9. Top.mark <= saved[nd.id].mark
  BY <1>0, <1>1, <1>3, <1>5, <1>8 DEF MarksOK
<1>10. Top.mark <= Len(trail')
  <2> DEFINE m == saved[nd.id].mark
             t == Top.mark
  <2>1. /\ m \in Nat /\ t \in Nat /\ Len(trail) \in Nat /\ Len(trail') \in Nat /\ t <= Len(trail) /\ t <= m
        /\ m <= Len(trail) => Len(trail') = m
        /\ m > Len(trail) => Len(trail') = Len(trail)
    BY <1>3, <1>6, <1>7, <1>9
  <2> HIDE DEF m, t
  <2>2. t <= Len(trail')
    BY <2>1
  <2>3. QED BY <2>2 DEF t
<1>11. s \in Kept /\ s.mark = Len(trail') /\ s.cenv = saved[nd.id].cenv /\ s.senv = saved[nd.id].senv /\ s.store = saved[nd.id].store
  BY <1>0, <1>6, <1>7 DEF Kept, Marked
<1>12. saved' = [saved EXCEPT ![nd.id] = s] /\ saved'[nd.id] = s
  <2>1. saved \in [Ids -> Kept]
    BY <1>1 DEF StatesOK
  <2>2. saved' = [saved EXCEPT ![nd.id] = Marked(saved[nd.id], Len(trail'))]
    BY <1>2, <1>6, <2>1 DEF Marked
  <2>3. QED BY <1>0, <1>6, <2>1, <2>2
<1>13. s # NoCall
  <2>1. DOMAIN env = 1 .. Len(env) /\ s.cenv \in DOMAIN env
    BY <1>1, <1>6, <1>11, EnvFacts DEF Live
  <2>2. s.cenv # 0
    BY <2>1
  <2>3. QED BY <2>2 DEF NoCall
<1>14. SetTop(f)
  BY <1>0, <1>2, <1>12 DEF Resumed
<1>15. f \in FramesOf(code) /\ f.nd = Top.nd /\ f.j = j /\ f.mode = "call" /\ f.cs = s /\ f.mark = Top.mark /\ f.env = Top.env /\ f.cenv = Top.cenv
  <2>1. j \in Nat
    <3>1. Len(Top.nd.c) \in Nat
      BY <1>1, <1>3, NodeFacts
    <3>2. QED BY <1>4, <3>1
  <2>2. QED BY <1>0, <1>3, <1>11, <2>1 DEF FramesOf, Resumed
<1>16. IsFrame(f, code, DOMAIN env) /\ InRange(f) /\ Cur(f, code) = code.entry[nd.pred]
  <2>1. Child(f) = nd /\ j <= Len(Top.nd.c) /\ f.j \in 1 .. Len(f.nd.c) + 1
    <3>1. Len(Top.nd.c) \in Nat
      BY <1>1, <1>3, NodeFacts
    <3>2. Child(f) = nd
      BY <1>0, <1>15 DEF Child
    <3>3. QED BY <1>4, <1>15, <3>1, <3>2
  <2>2. Live(f.cs, DOMAIN env)
    BY <1>6, <1>11, <1>15 DEF Live
  <2>3. IsFrame(f, code, DOMAIN env)
    BY <1>2, <1>3, <1>6, <1>15, <2>1, <2>2 DEF IsFrame
  <2>4. QED BY <1>3, <1>15, <2>1, <2>3 DEF InRange, Cur
<1>17. ctl'.at = "exec" /\ ctl'.nd = Cur(f, code)
  BY <1>2, <1>16 DEF Exec
<1>18. genv' = s.cenv /\ UNCHANGED <<code, st, env, freed>> /\ nd.op = "CALL" /\ trail_unwind(saved[nd.id].mark)
  BY <1>2, <1>11
<1>19. QED BY <1>0, <1>3, <1>4, <1>5, <1>6, <1>7, <1>8, <1>10, <1>11, <1>12, <1>13, <1>14, <1>15, <1>16, <1>17, <1>18

LEMMA SeqResumesCallAny ==
    ASSUME AnyInv, SeqResumesCall
    PROVE  AnyInv'
<1> DEFINE j == Nearest(Top)
           nd == ToResume(Top)
           s == KeptThen
           f == FrameThen
<1>1. code \in Codes /\ TermsOK /\ StatesOK /\ StackOK /\ MarksOK
  BY DEF AnyInv
<1>3. /\ TermsOK' /\ NoRing' /\ EnvsOK' /\ Len(trail') \in Nat /\ Top.mark <= Len(trail')
      /\ UNCHANGED <<code, st, env>>
      /\ saved' = [saved EXCEPT ![nd.id] = s] /\ s # NoCall /\ saved[nd.id] # NoCall
      /\ s \in Kept /\ s.mark = Len(trail') /\ s.cenv = saved[nd.id].cenv /\ s.senv = saved[nd.id].senv /\ st[nd.id] = 1
      /\ j \in 1 .. Len(Top.nd.c) /\ j < Top.j /\ nd.op = "CALL" /\ nd \in code.nodes
      /\ SetTop(f) /\ IsFrame(f, code, DOMAIN env) /\ InRange(f) /\ f \in FramesOf(code)
      /\ f.nd = Top.nd /\ f.j = j /\ f.mode = "call" /\ f.mark = Top.mark
      /\ ctl'.at = "exec" /\ ctl'.nd = Cur(f, code) /\ Top.nd.op = "SEQ" /\ k # <<>> /\ ctl.at = "back"
  BY ResumedFacts
<1> HIDE DEF j, nd, s, f
<1>4. StatesOK'
  <2>1. Live(s, DOMAIN env') /\ nd.pred \in DOMAIN code.entry /\ nd.id \in Ids
    BY <1>1, <1>3, StatesFacts DEF Live
  <2> DEFINE n == 1
  <2>2. st' = [st EXCEPT ![nd.id] = n]
    BY <1>1, <1>3, <2>1 DEF StatesOK
  <2>3. n \in Nat /\ (nd.op = "CALL" => (n = 1 => s # NoCall) /\ (s # NoCall => nd.pred \in DOMAIN code.entry))
        /\ (nd.op = "CHOICE" => n <= Len(nd.c)) /\ (s # NoCall => Live(s, DOMAIN env')) /\ UNCHANGED code
        /\ DOMAIN env \subseteq DOMAIN env'
    BY <1>3, <2>1
  <2> HIDE DEF n
  <2>4. QED BY <1>1, <1>3, <2>2, <2>3, StatesChanged
<1>5. \A id \in Ids : KeepsMark(id)
  <2>1. saved \in [Ids -> Kept] /\ nd.id \in Ids
    BY <1>1, <1>3, StatesFacts DEF StatesOK
  <2>2. \A i \in DOMAIN k' : k'[i].mark <= Len(trail')
    <3>1. k \in Seq(FramesOf(code)) /\ k' = [k EXCEPT ![Len(k)] = f]
      BY <1>1, <1>3 DEF StackOK, SetTop
    <3>2. /\ k' \in Seq(FramesOf(code)) /\ k' # <<>> /\ Len(k') = Len(k) /\ DOMAIN k' = DOMAIN k
          /\ DOMAIN k' = 1 .. Len(k) /\ Len(k) \in Nat \ {0}
          /\ k'[Len(k)] = f /\ \A i \in DOMAIN k : i # Len(k) => k'[i] = k[i]
      BY <1>3, <3>1, TopReplaced
    <3>3. \A i \in DOMAIN k : k[i].mark \in Nat /\ k[i].mark <= Top.mark
      BY <1>1, MarkFacts
    <3>4. Top.mark \in Nat
      BY <1>1, <1>3, MarkFacts
    <3>5. QED BY <1>3, <3>2, <3>3, <3>4
  <2>3. \A id \in Ids : id # nd.id => saved'[id] = saved[id]
    BY <1>3, <2>1
  <2>4. saved'[nd.id].mark = Len(trail')
    BY <1>3, <2>1
  <2>5. QED BY <2>2, <2>3, <2>4 DEF KeepsMark
<1>6. \A m \in Gone(f, FALSE) : m \in Passed(Len(k)) \/ Top.mark <= saved'[f.nd.c[m].id].mark
  <2>1. Top.j \in Nat /\ j \in Nat /\ Len(Top.nd.c) \in Nat
    <3>1. IsFrame(Top, code, DOMAIN env) /\ Top.nd \in code.nodes
      BY <1>1, <1>3, StackFacts
    <3>2. QED BY <1>1, <1>3, <3>1, FrameFacts, NodeFacts
  <2>2. Passed(Len(k)) = Gone(Top, FALSE)
    BY <1>3 DEF Passed, Top
  <2>3. QED BY <1>3, <2>1, <2>2 DEF Gone
<1>7. Top.mark <= f.mark /\ f.mark <= Len(trail') /\ DOMAIN env \subseteq DOMAIN env' /\ IsFrame(f, code, DOMAIN env') /\ UNCHANGED code
  <2>1. Top.mark \in Nat
    BY <1>1, <1>3, MarkFacts
  <2>2. QED BY <1>3, <2>1
<1>8. QED BY <1>3, <1>4, <1>5, <1>6, <1>7, AnyTop

-----------------------------------------------------------------------------
\* A sequence's frame, in the right branch of an alternative.
InRight(f) == [f EXCEPT !.j = Nearest(f), !.mode = "alt"]

LEMMA SeqResumesAltAny ==
    ASSUME AnyInv, SeqResumesAlt
    PROVE  AnyInv'
<1> DEFINE j == Nearest(Top)
           nd == Top.nd.c[j]
           f == InRight(Top)
<1>1. code \in Codes /\ TermsOK /\ NoRing /\ EnvsOK /\ StatesOK /\ StackOK /\ genv \in DOMAIN env /\ freed \subseteq DOMAIN env /\ cut \in BOOLEAN
  BY DEF AnyInv, EnvsOK
<1>2. /\ In("SEQ", "back") /\ Found(Top) # {} /\ nd.op = "ALT" /\ st' = [st EXCEPT ![nd.id] = 2]
      /\ SetTop(f) /\ Exec(nd.c[2]) /\ UNCHANGED <<code, saved, terms, env, genv, freed, cut>>
  BY DEF SeqResumesAlt, InRight, envs
<1>3. /\ k # <<>> /\ Top.nd.op = "SEQ" /\ ctl.at = "back" /\ Top.nd \in code.nodes /\ IsFrame(Top, code, DOMAIN env)
      /\ Top \in FramesOf(code) /\ Len(k) \in DOMAIN k /\ Top = k[Len(k)]
      /\ Top.mark \in Nat /\ Top.mark <= Len(trail) /\ Len(trail) \in Nat /\ InRange(Top)
  BY <1>2, InFacts
<1>4. j \in 1 .. Len(Top.nd.c) /\ j < Top.j /\ Top.mode = "go" /\ nd \in code.nodes
  BY <1>2, NearestFacts
<1>5. TermsOK' /\ NoRing' /\ EnvsOK' /\ UNCHANGED <<ref, trail>>
  BY <1>1, <1>2, StoreSame
<1>6. f = [Top EXCEPT !.j = j, !.mode = "alt"] /\ nd = Top.nd.c[j]
  BY DEF InRight
<1> HIDE DEF nd, f, j
<1>7. StatesOK'
  <2> DEFINE n == 2
  <2>1. n \in Nat /\ st' = [st EXCEPT ![nd.id] = n] /\ (nd.op = "CALL" => n # 1) /\ (nd.op = "CHOICE" => n <= Len(nd.c))
        /\ UNCHANGED <<code, saved>> /\ DOMAIN env \subseteq DOMAIN env'
    BY <1>2
  <2> HIDE DEF n
  <2>2. QED BY <1>1, <1>4, <2>1, StateChanged
<1>8. Len(Top.nd.c) \in Nat /\ Top.j \in Nat /\ j \in Nat
  <2>1. Len(Top.nd.c) \in Nat /\ Top.j \in Nat
    BY <1>1, <1>3, NodeFacts, FrameFacts
  <2>2. QED BY <1>4, <2>1
<1>9. f \in FramesOf(code) /\ f.nd = Top.nd /\ f.j = j /\ f.mode = "alt" /\ f.mark = Top.mark /\ f.env = Top.env
  BY <1>3, <1>6, <1>8 DEF FramesOf
<1>10. Child(f) = nd /\ Cur(f, code) = nd.c[2] /\ InRange(f)
  <2>1. Child(f) = nd
    BY <1>6, <1>9 DEF Child
  <2>2. QED BY <1>3, <1>4, <1>8, <1>9, <2>1 DEF Cur, InRange
<1>11. IsFrame(f, code, DOMAIN env')
  BY <1>2, <1>3, <1>4, <1>8, <1>9, <1>10 DEF IsFrame
<1>12. ctl'.at = "exec" /\ ctl'.nd = Cur(f, code)
  BY <1>2, <1>10 DEF Exec
<1>13. \A m \in Gone(f, FALSE) : m \in Passed(Len(k))
  <2>1. Passed(Len(k)) = Gone(Top, FALSE)
    BY <1>3 DEF Passed, Top
  <2>2. QED BY <1>4, <1>8, <1>9, <2>1 DEF Gone
<1>14. f.mark <= Len(trail') /\ Top.mark <= f.mark /\ UNCHANGED code /\ DOMAIN env \subseteq DOMAIN env'
  BY <1>2, <1>3, <1>5, <1>9
<1>15. \A id \in Ids : KeepsMark(id)
  BY <1>2 DEF KeepsMark
<1>16. QED BY <1>2, <1>3, <1>5, <1>7, <1>9, <1>10, <1>11, <1>12, <1>13, <1>14, <1>15, AnyTop

LEMMA SeqAltDoneAny ==
    ASSUME AnyInv, SeqAltDone
    PROVE  AnyInv'
<1> DEFINE nd == Child(Top)
<1>1. code \in Codes /\ TermsOK /\ NoRing /\ EnvsOK /\ StatesOK /\ StackOK /\ genv \in DOMAIN env /\ freed \subseteq DOMAIN env /\ cut \in BOOLEAN
  BY DEF AnyInv, EnvsOK
<1>2. /\ \/ In("SEQ", "ok") /\ Forward(Top, Top.j + 1)
         \/ In("SEQ", "fail") /\ Backward(Top, Top.j)
      /\ Top.mode = "alt" /\ st' = [st EXCEPT ![nd.id] = 0] /\ UNCHANGED <<code, saved, terms, env, genv, freed, cut>>
  BY DEF SeqAltDone, envs, Child
<1>3. k # <<>> /\ Top.nd.op = "SEQ" /\ ctl.at \in {"ok", "fail"} /\ IsFrame(Top, code, DOMAIN env) /\ InRange(Top)
  BY <1>2, InFacts
<1>4. nd \in code.nodes /\ nd.op = "ALT"
  <2>1. nd \in code.nodes
    BY <1>1, <1>3, FrameFacts
  <2>2. QED BY <1>2, <1>3, <2>1 DEF IsFrame
<1>5. TermsOK' /\ NoRing' /\ EnvsOK' /\ UNCHANGED <<ref, trail>> /\ DOMAIN env' = DOMAIN env
  BY <1>1, <1>2, StoreSame
<1> HIDE DEF nd
<1>6. StatesOK'
  <2> DEFINE n == 0
  <2>1. n \in Nat /\ st' = [st EXCEPT ![nd.id] = n] /\ (nd.op = "CALL" => n # 1) /\ (nd.op = "CHOICE" => n <= Len(nd.c))
        /\ UNCHANGED <<code, saved>> /\ DOMAIN env \subseteq DOMAIN env'
    BY <1>2, <1>4
  <2> HIDE DEF n
  <2>2. QED BY <1>1, <1>4, <2>1, StateChanged
<1>7. CASE In("SEQ", "ok") /\ Forward(Top, Top.j + 1)
  BY <1>2, <1>5, <1>6, <1>7, AnyForward
<1>8. CASE In("SEQ", "fail") /\ Backward(Top, Top.j)
  BY <1>2, <1>5, <1>6, <1>8, AnyBackward
<1>9. QED BY <1>2, <1>7, <1>8

-----------------------------------------------------------------------------
(* Alternatives and choices.                                               *)

\* The end of an alternative or of a choice.
LEMMA AnyEnd ==
    ASSUME AnyInv, NEW op \in {"ALT", "CHOICE"}, NEW at \in {"ok", "fail", "try"}, In(op, at),
           NEW n \in Nat, op = "CHOICE" => n <= Len(Top.nd.c), NEW ok, Return(ok),
           st' = [st EXCEPT ![Top.nd.id] = n], Pop, cut' \in BOOLEAN,
           UNCHANGED <<code, saved, terms, env, genv, freed>>
    PROVE  AnyInv'
<1>1. code \in Codes /\ TermsOK /\ NoRing /\ EnvsOK /\ StatesOK /\ genv \in DOMAIN env /\ freed \subseteq DOMAIN env
  BY DEF AnyInv, EnvsOK
<1>2. k # <<>> /\ Top.nd.op = op /\ ctl.at = at /\ Top.nd \in code.nodes /\ Top.mark <= Len(trail)
  BY InFacts
<1>3. TermsOK' /\ NoRing' /\ EnvsOK' /\ UNCHANGED <<ref, trail>>
  BY <1>1, StoreSame
<1>4. StatesOK'
  <2>1. (Top.nd.op = "CALL" => n # 1) /\ (Top.nd.op = "CHOICE" => n <= Len(Top.nd.c))
        /\ UNCHANGED <<code, saved>> /\ DOMAIN env \subseteq DOMAIN env'
    BY <1>2
  <2> DEFINE nd == Top.nd
  <2>2. st' = [st EXCEPT ![nd.id] = n] /\ nd \in code.nodes /\ (nd.op = "CALL" => n # 1) /\ (nd.op = "CHOICE" => n <= Len(nd.c))
    BY <1>2, <2>1
  <2> HIDE DEF nd
  <2>3. QED BY <1>1, <2>1, <2>2, StateChanged
<1>5. \A id \in Ids : KeepsMark(id)
  BY DEF KeepsMark
<1>6. ctl'.at \in {"ok", "fail"} /\ Top.mark <= Len(trail') /\ ctl.at \in {"ok", "fail", "back", "try"} /\ Top.nd.op # "CALL"
      /\ UNCHANGED code /\ DOMAIN env \subseteq DOMAIN env'
  BY <1>2, <1>3 DEF Return
<1>7. QED BY <1>2, <1>3, <1>4, <1>5, <1>6, AnyPop

\* The next branch, or the next clause, when the last one has failed.
Next1(f) == [f EXCEPT !.j = @ + 1]

LEMMA AnyNext ==
    ASSUME AnyInv, NEW op \in {"ALT", "CHOICE"}, In(op, "fail"), op = "ALT" => Top.j = 1,
           trail_unwind(Top.mark), genv' = Top.env, SetTop(Next1(Top)),
           op = "ALT" => Exec(Top.nd.c[2]), op = "CHOICE" => Go("try"), UNCHANGED <<code, st, saved, env, freed, cut>>
    PROVE  /\ AnyInv' /\ SamePast(Len(trail')) /\ Len(trail') = Top.mark
           /\ Next1(Top) \in FramesOf(code) /\ Next1(Top).nd = Top.nd /\ Next1(Top).mark = Top.mark /\ Next1(Top).mode = Top.mode
           /\ Next1(Top).env = Top.env
<1> DEFINE f == Next1(Top)
<1>1. code \in Codes /\ TermsOK /\ NoRing /\ EnvsOK /\ StatesOK /\ freed \subseteq DOMAIN env /\ cut \in BOOLEAN
  BY DEF AnyInv, EnvsOK
<1>2. k # <<>> /\ Top.nd.op = op /\ ctl.at = "fail" /\ Top.nd \in code.nodes /\ Top.mark <= Len(trail) /\ Top.mark \in Nat
      /\ IsFrame(Top, code, DOMAIN env) /\ InRange(Top) /\ Top \in FramesOf(code) /\ Top.env \in DOMAIN env
  BY InFacts
<1>3. TermsOK' /\ NoRing' /\ EnvsOK' /\ Len(trail') = Top.mark /\ SamePast(Len(trail'))
  <2> DEFINE m == Top.mark
  <2>1. m \in Nat /\ trail_unwind(m) /\ genv' \in DOMAIN env /\ freed' \subseteq DOMAIN env /\ cut' \in BOOLEAN /\ UNCHANGED env /\ m <= Len(trail)
    BY <1>1, <1>2
  <2> HIDE DEF m
  <2>2. TermsOK' /\ NoRing' /\ EnvsOK' /\ SamePast(Len(trail')) /\ (m <= Len(trail) => Len(trail') = m)
    BY <1>1, <2>1, StoreUnwound
  <2>3. QED BY <2>1, <2>2 DEF m
<1>4. StatesOK'
  BY <1>1, StatesKept
<1>5. Top.j \in 1 .. Len(Top.nd.c) /\ Len(Top.nd.c) \in Nat /\ (op = "ALT" => Len(Top.nd.c) = 2)
  BY <1>1, <1>2, FrameFacts, NodeFacts
<1>6. f \in FramesOf(code) /\ f.nd = Top.nd /\ f.j = Top.j + 1 /\ f.mode = Top.mode /\ f.mark = Top.mark /\ f.env = Top.env
  <2>1. Top.j + 1 \in Nat
    BY <1>5
  <2>2. QED BY <1>2, <2>1 DEF FramesOf, Next1
<1> HIDE DEF f
<1>7. Top.mode = "go"
  BY <1>2 DEF IsFrame
<1>8. IsFrame(f, code, DOMAIN env')
  BY <1>2, <1>5, <1>6, <1>7 DEF IsFrame
<1>9. \/ ctl'.at = "exec" /\ ctl'.nd = Cur(f, code) /\ InRange(f)
      \/ ctl'.at = "try" /\ f.nd.op = "CHOICE"
  <2>1. CASE op = "ALT"
    BY <2>1, <1>2, <1>5, <1>6, <1>7 DEF Exec, Cur, Child, InRange
  <2>2. CASE op = "CHOICE"
    BY <2>2, <1>2, <1>6 DEF Go
  <2>3. QED BY <2>1, <2>2
<1>10. Gone(f, FALSE) = {} /\ f.nd.op # "SEQ"
  BY <1>2, <1>6 DEF Gone
<1>11. f.mark <= Len(trail') /\ Top.mark <= f.mark /\ DOMAIN env \subseteq DOMAIN env' /\ SetTop(f)
  BY <1>2, <1>3, <1>6 DEF f
<1>12. \A id \in Ids : KeepsMark(id)
  BY DEF KeepsMark
<1>13. AnyInv'
  BY <1>2, <1>3, <1>4, <1>6, <1>8, <1>9, <1>10, <1>11, <1>12, AnyTop
<1>14. QED BY <1>3, <1>6, <1>13 DEF f

LEMMA AltLeftAny ==
    ASSUME AnyInv, AltLeft
    PROVE  AnyInv'
<1>1. code \in Codes /\ cut \in BOOLEAN
  BY DEF AnyInv, EnvsOK
<1>2. CASE In("ALT", "ok") /\ AltDone(Top, TRUE, 1) /\ UNCHANGED <<terms, genv>>
  <2>1. Pop /\ Return(TRUE) /\ st' = [st EXCEPT ![Top.nd.id] = 1] /\ UNCHANGED <<code, saved, terms, env, genv, freed, cut>>
    BY <1>2 DEF AltLeft, AltDone
  <2> DEFINE n == 1
  <2>2. n \in Nat /\ st' = [st EXCEPT ![Top.nd.id] = n]
    BY <2>1
  <2> HIDE DEF n
  <2>3. QED BY <1>1, <1>2, <2>1, <2>2, AnyEnd
<1>3. CASE In("ALT", "fail") /\ Top.j = 1 /\ trail_unwind(Top.mark) /\ genv' = Top.env
           /\ SetTop([Top EXCEPT !.j = 2]) /\ Exec(Top.nd.c[2]) /\ UNCHANGED st
  <2>1. [Top EXCEPT !.j = 2] = Next1(Top)
    <3>1. Top \in FramesOf(code)
      BY <1>3, InFacts
    <3>2. QED BY <1>3, <3>1 DEF Next1, FramesOf
  <2>2. SetTop(Next1(Top)) /\ UNCHANGED <<code, st, saved, env, freed, cut>>
    BY <1>3, <2>1 DEF AltLeft
  <2>3. QED BY <1>3, <2>2, AnyNext
<1>4. QED BY <1>2, <1>3 DEF AltLeft

LEMMA AltRightAny ==
    ASSUME AnyInv, AltRight
    PROVE  AnyInv'
<1>1. cut \in BOOLEAN
  BY DEF AnyInv, EnvsOK
<1> DEFINE n == 0
           ok == ctl.at = "ok"
<1>2. /\ Pop /\ Return(ok) /\ st' = [st EXCEPT ![Top.nd.id] = n] /\ UNCHANGED <<code, saved, terms, env, genv, freed, cut>>
      /\ n \in Nat
  BY DEF AltRight, AltDone, envs
<1> HIDE DEF n, ok
<1>3. CASE In("ALT", "ok")
  BY <1>1, <1>2, <1>3, AnyEnd
<1>4. CASE In("ALT", "fail")
  BY <1>1, <1>2, <1>4, AnyEnd
<1>5. QED BY <1>3, <1>4 DEF AltRight

LEMMA ChoiceEndAny ==
    ASSUME AnyInv, \/ ChoiceEmpty \/ ClauseSucceeds
                   \/ ClauseFails /\ cut
    PROVE  AnyInv'
<1>1. k # <<>> /\ Top.nd.op = "CHOICE" /\ ctl.at \in {"ok", "fail", "try"} /\ In("CHOICE", ctl.at)
  BY DEF ChoiceEmpty, ClauseSucceeds, ClauseFails, In
<1>2. Top.cut \in BOOLEAN /\ Top.nd \in code.nodes /\ IsFrame(Top, code, DOMAIN env) /\ code \in Codes
      /\ (ctl.at # "try" => InRange(Top))
  <2>1. Top.nd \in code.nodes /\ IsFrame(Top, code, DOMAIN env) /\ code \in Codes /\ (ctl.at # "try" => InRange(Top))
    BY <1>1, InFacts
  <2>2. QED BY <2>1, FrameFacts
<1>3. CASE ClauseSucceeds
  <2>1. ChoiceDone(TRUE, Top.j) /\ UNCHANGED <<code, saved, terms, env, genv, freed>> /\ ctl.at = "ok"
    BY <1>3 DEF ClauseSucceeds, envs, In
  <2>2. Top.j \in Nat /\ Top.j <= Len(Top.nd.c)
    BY <1>1, <1>2, <2>1, FrameFacts DEF InRange
  <2>3. st' = [st EXCEPT ![Top.nd.id] = Top.j] /\ Pop /\ Return(TRUE) /\ cut' \in BOOLEAN
    BY <1>2, <2>1 DEF ChoiceDone
  <2>4. QED BY <1>1, <2>1, <2>2, <2>3, AnyEnd
<1>4. CASE ChoiceEmpty \/ (ClauseFails /\ cut)
  <2>1. ChoiceDone(FALSE, 0) /\ UNCHANGED <<code, saved, terms, env, genv, freed>>
    BY <1>4 DEF ChoiceEmpty, ClauseFails, envs
  <2> DEFINE n == 0
  <2>2. st' = [st EXCEPT ![Top.nd.id] = n] /\ Pop /\ Return(FALSE) /\ cut' \in BOOLEAN /\ n \in Nat
        /\ (Top.nd.op = "CHOICE" => n <= Len(Top.nd.c))
    <3>1. Len(Top.nd.c) \in Nat
      BY <1>2, NodeFacts
    <3>2. n \in Nat /\ n <= Len(Top.nd.c)
      BY <3>1
    <3>3. QED BY <1>2, <2>1, <3>2 DEF ChoiceDone
  <2> HIDE DEF n
  <2>3. QED BY <1>1, <2>1, <2>2, AnyEnd
<1>5. QED BY <1>3, <1>4

LEMMA ClauseFailsAny ==
    ASSUME AnyInv, ClauseFails, ~cut
    PROVE  AnyInv'
<1>1. /\ In("CHOICE", "fail") /\ trail_unwind(Top.mark) /\ genv' = Top.env /\ SetTop(Next1(Top)) /\ Go("try")
      /\ UNCHANGED <<code, st, saved, env, freed, cut>>
  BY DEF ClauseFails, Next1
<1>2. QED BY <1>1, AnyNext

\* A choice's frame when a clause is entered.
Here(f) == [f EXCEPT !.mark = Len(trail), !.env = genv]

LEMMA TryClauseAny ==
    ASSUME AnyInv, TryClause
    PROVE  /\ AnyInv' /\ Here(Top) \in FramesOf(code) /\ Here(Top).nd = Top.nd /\ Here(Top).mark = Len(trail)
           /\ Here(Top).mode = Top.mode /\ Here(Top).env = genv /\ SetTop(Here(Top))
<1> DEFINE f == Here(Top)
<1>1. code \in Codes /\ TermsOK /\ NoRing /\ EnvsOK /\ StatesOK /\ freed \subseteq DOMAIN env /\ cut \in BOOLEAN
      /\ genv \in DOMAIN env /\ genv \in Nat
  BY EnvFacts DEF AnyInv, EnvsOK
<1>2. /\ In("CHOICE", "try") /\ Top.j <= Len(Top.nd.c) /\ SetTop(f) /\ bb_reset(Top.nd.c[Top.j])
      /\ Exec(Top.nd.c[Top.j]) /\ UNCHANGED <<code, saved, terms, env, genv, freed, cut>>
  BY DEF TryClause, Here, envs
<1>3. k # <<>> /\ Top.nd.op = "CHOICE" /\ ctl.at = "try" /\ Top.nd \in code.nodes /\ Top.mark <= Len(trail) /\ Top.mark \in Nat
      /\ IsFrame(Top, code, DOMAIN env) /\ Top \in FramesOf(code) /\ Len(trail) \in Nat
  BY <1>2, InFacts
<1>4. Top.j \in 1 .. Len(Top.nd.c) /\ Top.nd.c[Top.j] \in code.nodes /\ Top.mode = "go"
  <2>1. Top.j \in 1 .. Len(Top.nd.c) + 1 /\ Top.mode = "go"
    BY <1>3 DEF IsFrame
  <2>2. Len(Top.nd.c) \in Nat
    BY <1>1, <1>3, NodeFacts
  <2>3. Top.j \in 1 .. Len(Top.nd.c)
    BY <1>2, <2>1, <2>2
  <2>4. QED BY <1>1, <1>3, <2>1, <2>3, NodeFacts
<1>5. TermsOK' /\ NoRing' /\ EnvsOK' /\ UNCHANGED <<ref, trail>>
  BY <1>1, <1>2, StoreSame
<1>6. StatesOK'
  BY <1>1, <1>2, <1>4, StatesKept
<1>7. f \in FramesOf(code) /\ f.nd = Top.nd /\ f.j = Top.j /\ f.mode = Top.mode /\ f.mark = Len(trail) /\ f.env = genv
  BY <1>1, <1>3 DEF FramesOf, Here
<1> HIDE DEF f
<1>8. IsFrame(f, code, DOMAIN env') /\ InRange(f) /\ Cur(f, code) = Top.nd.c[Top.j]
  <2>1. IsFrame(f, code, DOMAIN env')
    BY <1>1, <1>2, <1>3, <1>4, <1>7 DEF IsFrame
  <2>2. QED BY <1>2, <1>3, <1>4, <1>7, <2>1 DEF InRange, Cur, Child
<1>9. Gone(f, FALSE) = {} /\ f.nd.op # "SEQ"
  BY <1>3, <1>7 DEF Gone
<1>10. f.mark <= Len(trail') /\ Top.mark <= f.mark /\ DOMAIN env \subseteq DOMAIN env' /\ UNCHANGED code
  BY <1>2, <1>3, <1>5, <1>7
<1>11. \A id \in Ids : KeepsMark(id)
  BY <1>2 DEF KeepsMark
<1>12. ctl'.at = "exec" /\ ctl'.nd = Cur(f, code)
  BY <1>2, <1>8 DEF Exec
<1>13. AnyInv'
  BY <1>2, <1>3, <1>5, <1>6, <1>7, <1>8, <1>9, <1>10, <1>11, <1>12, AnyTop
<1>14. QED BY <1>2, <1>7, <1>13 DEF f

-----------------------------------------------------------------------------
(* Calls.                                                                  *)

\* The frame of a call that is made.
CallMade == [Frame(ctl.nd, 0) EXCEPT !.mark = Len(trail'), !.cenv = Len(env) + 1]

LEMMA CallMadeFacts ==
    ASSUME AnyInv, ExecCall
    PROVE  /\ TermsOK' /\ NoRing' /\ EnvsOK' /\ StatesOK' /\ SamePast(Len(trail)) /\ Len(trail') \in Nat /\ Len(trail) <= Len(trail')
           /\ Len(env) \in Nat /\ DOMAIN env' = 1 .. Len(env) + 1 /\ DOMAIN env \subseteq DOMAIN env'
           /\ genv' = Len(env) + 1 /\ freed' = freed /\ UNCHANGED <<code, saved>>
           /\ ctl.at = "exec" /\ ctl.nd \in code.nodes /\ ctl.nd.op = "CALL" /\ ctl.nd.pred \in DOMAIN code.entry
           /\ CallMade \in FramesOf(code) /\ CallMade.nd = ctl.nd /\ CallMade.mark = Len(trail') /\ CallMade.cenv = Len(env) + 1
           /\ CallMade.mode = "go" /\ CallMade.env = genv /\ IsFrame(CallMade, code, DOMAIN env') /\ k' = Append(k, CallMade)
           /\ Cur(CallMade, code) = code.entry[ctl.nd.pred] /\ InRange(CallMade)
           /\ ctl'.at = "exec" /\ ctl'.nd = Cur(CallMade, code)
           /\ bb_reset(code.entry[ctl.nd.pred])
<1> DEFINE f == CallMade
<1>1. code \in Codes /\ TermsOK /\ NoRing /\ EnvsOK /\ StatesOK /\ StackOK /\ genv \in DOMAIN env /\ genv \in Nat /\ cut \in BOOLEAN
  BY EnvFacts DEF AnyInv, EnvsOK
<1>2. /\ ctl.at = "exec" /\ ctl.nd.op = "CALL" /\ ctl.nd.pred \in DOMAIN code.entry /\ bb_reset(code.entry[ctl.nd.pred])
      /\ k' = Append(k, f) /\ Exec(code.entry[ctl.nd.pred]) /\ UNCHANGED <<code, saved, freed>>
  BY DEF ExecCall, Executing, Push, CallMade
<1>3. ctl.nd \in code.nodes /\ ctl.nd.id[1] \in DOMAIN code.entry
  BY <1>1, <1>2, StackFacts
<1>4. TermsOK' /\ NoRing' /\ EnvsOK' /\ SamePast(Len(trail)) /\ Len(env') = Len(env) + 1 /\ genv' = Len(env) + 1 /\ freed' = freed
  BY <1>1, <1>3, CallStep
<1>5. Len(trail') \in Nat /\ Len(env) \in Nat /\ DOMAIN env = 1 .. Len(env) /\ DOMAIN env' = 1 .. Len(env) + 1 /\ Len(trail) <= Len(trail')
  <2>1. Len(env) \in Nat /\ DOMAIN env = 1 .. Len(env)
    BY <1>1, EnvFacts
  <2>2. env' \in Seq([0 .. MaxSlot -> TermsUpTo(Len(ref'))]) /\ trail' \in Seq(Nat)
    BY <1>4 DEF EnvsOK, TermsOK
  <2>3. DOMAIN env' = 1 .. Len(env') /\ Len(trail') \in Nat
    BY <2>2, LenProperties
  <2>4. QED BY <1>4, <2>1, <2>3 DEF SamePast
<1>6. DOMAIN env \subseteq DOMAIN env' /\ genv \in DOMAIN env' /\ Len(env) + 1 \in DOMAIN env'
  BY <1>1, <1>5
<1>7. f \in FramesOf(code) /\ f.nd = ctl.nd /\ f.j = 0 /\ f.mark = Len(trail') /\ f.cenv = Len(env) + 1 /\ f.mode = "go" /\ f.env = genv
  <2>1. NoCall \in Kept
    <3>1. <<>> \in Seq(Term)
      BY EmptySeq
    <3>2. QED BY <3>1 DEF NoCall, Kept
  <2>2. Len(trail) \in Nat /\ Len(env) + 1 \in Nat
    BY <1>1, <1>5, RefFacts
  <2>3. QED BY <1>1, <1>3, <1>5, <2>1, <2>2 DEF FramesOf, CallMade, Frame
<1> HIDE DEF f
<1>8. IsFrame(f, code, DOMAIN env')
  BY <1>2, <1>3, <1>6, <1>7 DEF IsFrame, Inner
<1>9. Cur(f, code) = code.entry[ctl.nd.pred] /\ InRange(f)
  BY <1>2, <1>7 DEF Cur, InRange
<1>10. StatesOK'
  <2>1. code.entry[ctl.nd.pred] \in code.nodes
    BY <1>1, <1>2, EntryFacts
  <2>2. QED BY <1>1, <1>2, <1>6, <2>1, StatesKept
<1>11. ctl'.at = "exec" /\ ctl'.nd = Cur(f, code)
  BY <1>2, <1>9 DEF Exec
<1>12. QED BY <1>2, <1>3, <1>4, <1>5, <1>6, <1>7, <1>8, <1>9, <1>10, <1>11 DEF f

LEMMA ExecCallAny ==
    ASSUME AnyInv, ExecCall
    PROVE  AnyInv'
<1> DEFINE f == CallMade
<1>1. code \in Codes /\ TermsOK /\ StackOK /\ MarksOK
  BY DEF AnyInv
<1>2. /\ TermsOK' /\ NoRing' /\ EnvsOK' /\ StatesOK' /\ Len(trail') \in Nat /\ Len(trail) <= Len(trail')
      /\ DOMAIN env \subseteq DOMAIN env' /\ UNCHANGED <<code, saved>>
      /\ ctl.at = "exec" /\ f.nd = ctl.nd /\ ctl.nd.op = "CALL"
      /\ f \in FramesOf(code) /\ f.mark = Len(trail')
      /\ IsFrame(f, code, DOMAIN env') /\ k' = Append(k, f) /\ InRange(f)
      /\ ctl'.at = "exec" /\ ctl'.nd = Cur(f, code)
  BY CallMadeFacts
<1> HIDE DEF f
<1>3. StackOK'
  BY <1>1, <1>2, StackPush
<1>4. MarksOK'
  BY <1>1, <1>2, <1>3, MarksPush
<1>5. QED BY <1>1, <1>2, <1>3, <1>4 DEF AnyInv

\* What a call keeps that has a solution.
KeptNow == [cenv |-> Top.cenv, senv |-> Top.env, mark |-> Top.mark, store |-> Unwound(Top.mark)]

LEMMA CallSucceedsFacts ==
    ASSUME AnyInv, CallSucceeds
    PROVE  /\ TermsOK' /\ NoRing' /\ EnvsOK' /\ SamePast(Len(trail)) /\ UNCHANGED <<code, ref, trail, freed>> /\ DOMAIN env' = DOMAIN env
           /\ k # <<>> /\ Top.nd.op = "CALL" /\ ctl.at = "ok" /\ ctl'.at = "ok" /\ Pop /\ Top.nd \in code.nodes
           /\ saved' = [saved EXCEPT ![Top.nd.id] = KeptNow] /\ st' = [st EXCEPT ![Top.nd.id] = 1]
           /\ KeptNow \in Kept /\ KeptNow # NoCall /\ Live(KeptNow, DOMAIN env) /\ genv' = Top.env
           /\ Top.nd.pred \in DOMAIN code.entry
<1>1. code \in Codes /\ TermsOK /\ NoRing /\ EnvsOK /\ freed \subseteq DOMAIN env /\ cut \in BOOLEAN
  BY DEF AnyInv, EnvsOK
<1>2. /\ In("CALL", "ok") /\ saved' = [saved EXCEPT ![Top.nd.id] = KeptNow] /\ st' = [st EXCEPT ![Top.nd.id] = 1]
      /\ WriteBack(Top.nd, Top.cenv, Top.env) /\ genv' = Top.env /\ Pop /\ Return(TRUE) /\ UNCHANGED <<code, terms, freed, cut>>
  BY DEF CallSucceeds, KeptNow
<1>3. k # <<>> /\ Top.nd.op = "CALL" /\ ctl.at = "ok" /\ Top.nd \in code.nodes
      /\ IsFrame(Top, code, DOMAIN env) /\ Top.mark \in Nat /\ Top.env \in DOMAIN env
  BY <1>2, InFacts
<1>4. Top.cenv \in DOMAIN env /\ Top.nd.pred \in DOMAIN code.entry
  BY <1>3 DEF IsFrame
<1>5. env' \in Seq(EnvUpTo(Len(ref))) /\ DOMAIN env' = DOMAIN env
  BY <1>1, <1>2, <1>3, <1>4, WriteBackStep
<1>6. TermsOK' /\ NoRing' /\ EnvsOK' /\ SamePast(Len(trail)) /\ UNCHANGED <<ref, trail>>
  BY <1>1, <1>2, <1>3, <1>5, StoreEnv
<1>7. KeptNow \in Kept /\ KeptNow # NoCall /\ Live(KeptNow, DOMAIN env)
  <2>1. Unwound(Top.mark) \in Seq(Term)
    BY <1>1, <1>3, UnwoundFacts
  <2>2. Top.cenv \in Nat \ {0} /\ Top.env \in Nat
    BY <1>1, <1>3, <1>4, EnvFacts
  <2>3. QED BY <1>3, <1>4, <2>1, <2>2 DEF KeptNow, Kept, NoCall, Live
<1>8. ctl'.at = "ok"
  BY <1>2 DEF Return
<1>9. QED BY <1>2, <1>3, <1>4, <1>5, <1>6, <1>7, <1>8

LEMMA CallSucceedsAny ==
    ASSUME AnyInv, CallSucceeds
    PROVE  AnyInv'
<1> DEFINE s == KeptNow
           nd == Top.nd
<1>1. code \in Codes /\ TermsOK /\ StatesOK /\ StackOK /\ MarksOK
  BY DEF AnyInv
<1>2. /\ TermsOK' /\ NoRing' /\ EnvsOK' /\ UNCHANGED <<code, ref, trail>> /\ DOMAIN env' = DOMAIN env
      /\ k # <<>> /\ nd.op = "CALL" /\ ctl.at = "ok" /\ ctl'.at = "ok" /\ Pop /\ nd \in code.nodes
      /\ saved' = [saved EXCEPT ![nd.id] = s] /\ st' = [st EXCEPT ![nd.id] = 1]
      /\ s \in Kept /\ s # NoCall /\ Live(s, DOMAIN env) /\ nd.pred \in DOMAIN code.entry
  BY CallSucceedsFacts
<1>3. s.mark = Top.mark /\ nd = Top.nd
  BY DEF KeptNow
<1>4. \A i \in DOMAIN k' : k'[i].mark <= Top.mark
  <2>1. \A i \in DOMAIN k' : i \in DOMAIN k /\ k'[i] = k[i]
    BY <1>1, <1>2, StackPop
  <2>2. QED BY <1>1, <2>1, MarkFacts
<1>5. Top.mark \in Nat /\ Top.mark <= Len(trail) /\ nd.id \in Ids
  BY <1>1, <1>2, MarkFacts, NodeFacts
<1> HIDE DEF s, nd
<1>6. StatesOK'
  <2> DEFINE n == 1
  <2>1. n \in Nat /\ st' = [st EXCEPT ![nd.id] = n] /\ (s # NoCall => Live(s, DOMAIN env')) /\ (nd.op = "CHOICE" => n <= Len(nd.c))
        /\ (nd.op = "CALL" => (n = 1 => s # NoCall) /\ (s # NoCall => nd.pred \in DOMAIN code.entry))
        /\ DOMAIN env \subseteq DOMAIN env' /\ UNCHANGED code
    BY <1>2
  <2> HIDE DEF n
  <2>2. QED BY <1>1, <1>2, <2>1, StatesChanged
<1>7. saved'[nd.id] = s /\ \A id \in Ids : id # nd.id => saved'[id] = saved[id]
  <2>1. saved \in [Ids -> Kept]
    BY <1>1 DEF StatesOK
  <2>2. QED BY <1>2, <1>5, <2>1
<1>8. \A id \in Ids : KeepsMark(id)
  BY <1>3, <1>4, <1>7 DEF KeepsMark
<1>9. Top.mark <= Len(trail') /\ Top.mark <= saved'[Top.nd.id].mark /\ DOMAIN env \subseteq DOMAIN env'
  BY <1>2, <1>3, <1>5, <1>7
<1>10. QED BY <1>2, <1>6, <1>8, <1>9, AnyPop

LEMMA CallFailsFacts ==
    ASSUME AnyInv, CallFails
    PROVE  /\ AnyInv' /\ SamePast(Len(trail')) /\ Len(trail') = Top.mark /\ UNCHANGED <<code, saved, env>> /\ genv' = Top.env
           /\ freed' = freed \cup {Top.cenv} /\ k # <<>> /\ Top.nd.op = "CALL" /\ Top.nd \in code.nodes /\ ctl.at = "fail"
           /\ Pop /\ ctl'.at = "fail"
<1> DEFINE m == Top.mark
           nd == Top.nd
           n == 0
<1>1. code \in Codes /\ TermsOK /\ NoRing /\ EnvsOK /\ StatesOK /\ freed \subseteq DOMAIN env /\ cut \in BOOLEAN
  BY DEF AnyInv, EnvsOK
<1>2. /\ In("CALL", "fail") /\ trail_unwind(m) /\ genv' = Top.env /\ freed' = freed \cup {Top.cenv}
      /\ st' = [st EXCEPT ![nd.id] = n] /\ n \in Nat /\ Pop /\ Return(FALSE) /\ UNCHANGED <<code, saved, env, cut>>
  BY DEF CallFails
<1>3. k # <<>> /\ nd.op = "CALL" /\ ctl.at = "fail" /\ nd \in code.nodes /\ n # 1
      /\ IsFrame(Top, code, DOMAIN env) /\ m \in Nat /\ Top.env \in DOMAIN env /\ m <= Len(trail)
  BY <1>2, InFacts
<1>4. Top.cenv \in DOMAIN env
  BY <1>3 DEF IsFrame
<1>5. m = Top.mark /\ nd = Top.nd
  OBVIOUS
<1> HIDE DEF m, nd, n
<1>6. TermsOK' /\ NoRing' /\ EnvsOK' /\ SamePast(Len(trail')) /\ Len(trail') = m
  <2>1. genv' \in DOMAIN env /\ freed' \subseteq DOMAIN env /\ cut' \in BOOLEAN /\ UNCHANGED env
    BY <1>1, <1>2, <1>3, <1>4
  <2>2. QED BY <1>1, <1>2, <1>3, <2>1, StoreUnwound
<1>7. StatesOK'
  <2>1. UNCHANGED <<code, saved>> /\ DOMAIN env \subseteq DOMAIN env' /\ (nd.op = "CALL" => n # 1) /\ (nd.op = "CHOICE" => n <= Len(nd.c))
    BY <1>2, <1>3
  <2>2. QED BY <1>1, <1>2, <1>3, <2>1, StateChanged
<1>8. \A id \in Ids : KeepsMark(id)
  BY <1>2 DEF KeepsMark
<1>9. ctl'.at = "fail" /\ Top.mark <= Len(trail') /\ DOMAIN env \subseteq DOMAIN env'
  BY <1>2, <1>3, <1>5, <1>6 DEF Return
<1>10. AnyInv'
  BY <1>2, <1>3, <1>6, <1>7, <1>8, <1>9, AnyPop
<1>11. QED BY <1>2, <1>3, <1>5, <1>6, <1>9, <1>10

-----------------------------------------------------------------------------
(* What holds of every program.                                            *)

LEMMA AnyInit ==
    ASSUME Init
    PROVE  AnyInv
<1>1. /\ code \in Codes /\ st = [i \in Ids |-> 0] /\ saved = [i \in Ids |-> NoCall]
      /\ ref = <<>> /\ trail = <<>> /\ env = <<[s \in 0 .. MaxSlot |-> NULL]>> /\ genv = 1 /\ freed = {}
      /\ cut = FALSE /\ k = <<>> /\ ctl = [at |-> "exec", nd |-> code.entry["main"]]
  BY DEF Init
<1>2. NoCall \in Kept
  <2>1. <<>> \in Seq(Term)
    BY EmptySeq
  <2>2. QED BY <2>1 DEF NoCall, Kept
<1>3. TermsOK /\ NoRing
  <2>1. ref \in Seq(TermsUpTo(Len(ref))) /\ trail \in Seq(Nat) /\ DOMAIN ref = {} /\ DOMAIN trail = {}
    BY <1>1
  <2>2. QED BY <2>1 DEF TermsOK, NoRing
<1>4. EnvsOK
  <2>1. NULL \in TermsUpTo(Len(ref))
    BY <1>1 DEF NULL, TermsUpTo
  <2> DEFINE e == [s \in 0 .. MaxSlot |-> NULL]
  <2>2. e \in [0 .. MaxSlot -> TermsUpTo(Len(ref))]
    BY <2>1
  <2> HIDE DEF e
  <2>3. <<e>> \in Seq([0 .. MaxSlot -> TermsUpTo(Len(ref))]) /\ DOMAIN <<e>> = 1 .. 1
    BY <2>2
  <2>4. env = <<e>>
    BY <1>1 DEF e
  <2>5. env \in Seq([0 .. MaxSlot -> TermsUpTo(Len(ref))]) /\ DOMAIN env = 1 .. 1
    BY <2>3, <2>4
  <2>6. genv \in DOMAIN env /\ freed \subseteq DOMAIN env /\ cut \in BOOLEAN
    <3>1. genv = 1 /\ freed = {} /\ cut = FALSE
      BY <1>1
    <3>2. 1 \in 1 .. 1
      OBVIOUS
    <3>3. 1 \in DOMAIN env
      BY <2>5, <3>2
    <3>4. QED BY <3>1, <3>3
  <2>7. QED BY <2>5, <2>6 DEF EnvsOK
<1>5. StatesOK
  <2>1. \A nd \in code.nodes : nd.id \in Ids /\ Len(nd.c) \in Nat
    BY <1>1, NodeFacts
  <2>2. QED BY <1>1, <1>2, <2>1 DEF StatesOK
<1>6. StackOK
  BY <1>1 DEF StackOK
<1>7. MarksOK
  BY <1>1 DEF MarksOK
<1>8. QED BY <1>1, <1>3, <1>4, <1>5, <1>6, <1>7 DEF AnyInv

LEMMA AnyStep ==
    ASSUME AnyInv, [Next]_vars
    PROVE  AnyInv'
<1>1. CASE ExecUnify \/ ExecCut \/ ExecWrite \/ ExecIs \/ ExecGt \/ ExecConst \/ CallFailsAtOnce
  BY <1>1, AnyLeaf
<1>2. CASE ExecSeq \/ ExecAlt \/ ExecChoice
  BY <1>2, AnyEnter
<1>3. CASE SeqGoal
  BY <1>3, SeqGoalAny
<1>4. CASE SeqFails
  BY <1>4, SeqFailsAny
<1>5. CASE SeqResumesCall
  BY <1>5, SeqResumesCallAny
<1>6. CASE SeqCallAgain
  BY <1>6, SeqCallAgainAny
<1>7. CASE SeqCallExhausted
  BY <1>7, SeqCallExhaustedAny
<1>8. CASE SeqResumesAlt
  BY <1>8, SeqResumesAltAny
<1>9. CASE SeqAltDone
  BY <1>9, SeqAltDoneAny
<1>10. CASE AltLeft \/ AltRight
  BY <1>10, AltLeftAny, AltRightAny
<1>11. CASE TryClause
  BY <1>11, TryClauseAny
<1>12. CASE ChoiceEmpty \/ ClauseSucceeds \/ ClauseFails
  BY <1>12, ChoiceEndAny, ClauseFailsAny
<1>13. CASE ExecCall
  BY <1>13, ExecCallAny
<1>14. CASE CallSucceeds
  BY <1>14, CallSucceedsAny
<1>15. CASE CallFails
  BY <1>15, CallFailsFacts
<1>16. CASE UNCHANGED vars
  <2>1. UNCHANGED <<code, st, saved, ref, trail, env, genv, freed, cut, k, ctl>>
    BY <1>16 DEF vars, terms, envs
  <2>2. (code \in Codes /\ TermsOK /\ NoRing /\ EnvsOK)'
    BY <2>1 DEF AnyInv, TermsOK, NoRing, EnvsOK
  <2>3. StatesOK'
    BY <2>1 DEF AnyInv, StatesOK, Ids
  <2>4. StackOK'
    BY <2>1 DEF AnyInv, StackOK, Top
  <2>5. MarksOK'
    <3>1. \A i \in DOMAIN k : Passed(i)' = Passed(i)
      BY <2>1 DEF Passed
    <3>2. QED BY <2>1, <3>1 DEF AnyInv, MarksOK
  <2>6. QED BY <2>2, <2>3, <2>4, <2>5 DEF AnyInv
<1>17. QED
  BY <1>1, <1>2, <1>3, <1>4, <1>5, <1>6, <1>7, <1>8, <1>9, <1>10, <1>11, <1>12, <1>13, <1>14, <1>15, <1>16 DEF Next

\* Whatever the program and the bounds: the stack is a path in the program's graphs, terms and
\* environments are there, variables form no ring, marks grow with the stack.
THEOREM AnyProgram == Spec => []AnyInv
<1>1. Init => AnyInv
  BY AnyInit
<1>2. AnyInv /\ [Next]_vars => AnyInv'
  BY AnyStep
<1>3. QED BY <1>1, <1>2, PTL DEF Spec

LEMMA TypeFacts ==
    ASSUME AnyInv
    PROVE  TypeOK
<1>1. code \in Codes /\ TermsOK /\ NoRing /\ EnvsOK /\ StatesOK /\ StackOK /\ MarksOK
  BY DEF AnyInv
<1>2. \A i \in DOMAIN ref : ref[i] = NULL \/ ref[i].ref \in 0 .. Len(ref)
  <2>1. Len(ref) \in Nat /\ DOMAIN ref = 1 .. Len(ref) /\ \A i \in 1 .. Len(ref) : ref[i] \in TermsUpTo(Len(ref))
    BY <1>1, RefFacts
  <2>2. \A t \in TermsUpTo(Len(ref)) : (t # NULL => t.ref >= 0) /\ t.ref \in -1 .. Len(ref)
    BY <2>1, TermFacts
  <2>3. QED BY <2>1, <2>2
<1>3. \A nd \in code.nodes : nd.op = "CALL" /\ st[nd.id] = 1 => saved[nd.id] # NoCall
  BY <1>1 DEF StatesOK
<1>4. \A i \in DOMAIN trail : trail[i] \in DOMAIN ref /\ ref[trail[i]] # NULL
  BY <1>1 DEF TermsOK
<1>5. genv \in DOMAIN env /\ freed \subseteq DOMAIN env /\ cut \in BOOLEAN
  BY <1>1 DEF EnvsOK
<1>6. \A i \in DOMAIN k : k[i].mark <= Len(trail)
  BY <1>1 DEF MarksOK
<1>7. ctl.at \in {"exec", "ok", "fail", "back", "try"}
  BY <1>1 DEF StackOK
<1>8. QED BY <1>2, <1>3, <1>4, <1>5, <1>6, <1>7 DEF TypeOK

\* The state is well typed: what is dereferenced, unwound, restored or resumed is there.
THEOREM TypeCorrect == Spec => []TypeOK
<1>1. AnyInv => TypeOK
  BY TypeFacts
<1>2. QED BY <1>1, AnyProgram, PTL

-----------------------------------------------------------------------------
(* Programs without recursion.                                             *)

\* What ref was when the trail ended at m.
Past(rf, tr, m) == LET undone == {tr[i] : i \in m + 1 .. Len(tr)}
                   IN [i \in DOMAIN rf |-> IF i \in undone THEN NULL ELSE rf[i]]

\* The node with id a is in the graph below the one with id b.
Under(a, b) == /\ a[1] = b[1] /\ Len(b[2]) <= Len(a[2])
               /\ \A x \in 1 .. Len(b[2]) : a[2][x] = b[2][x]

\* A node that is run above frame f: in another predicate, or below the goal f runs.
Away(id, f) ==
    \/ id[1] # f.nd.id[1]
    \/ f.nd.op # "CALL" /\ f.mode # "call" /\ Under(id, Child(f).id)
PathOf(ks) == \A i, l \in DOMAIN ks : i < l => Away(ks[l].nd.id, ks[i])

\* Of the m-th goal of a sequence, what its node keeps.
KeptOf(f, m, sv) == sv[f.nd.c[m].id]
Restores(s, rf, tr) == /\ DOMAIN s.store \subseteq DOMAIN rf
                       /\ \A v \in DOMAIN s.store : Past(rf, tr, s.mark)[v] = s.store[v]
Good(s, e, fr, rf, tr) ==
    s # NoCall /\ s.senv = e /\ s.cenv \notin fr /\ s.mark <= Len(tr) /\ Restores(s, rf, tr)

\* The calls that a sequence has passed can be resumed, in the reverse order.
Keeps(f, done, sv, fr, rf, tr) ==
    /\ \A m \in Gone(f, done) : Good(KeptOf(f, m, sv), f.env, fr, rf, tr)
    /\ \A n, m \in Gone(f, done) : n <= m => KeptOf(f, n, sv).mark <= KeptOf(f, m, sv).mark
    /\ f.mode = "call" => f.cs = KeptOf(f, f.j, sv)
\* They were passed before frame g was made.
Before(f, sv, g) ==
    \A m \in Gone(f, FALSE) : /\ KeptOf(f, m, sv).mark <= g.mark
                              /\ g.nd.op = "CALL" => g.cenv # KeptOf(f, m, sv).cenv
KeepOK == /\ \A i \in DOMAIN k : Keeps(k[i], i = Len(k) /\ ctl.at = "ok", saved, freed, ref, trail)
          /\ \A i, l \in DOMAIN k : i < l => Before(k[i], saved, k[l])

AroundIn(ks, i) == IF i = 1 THEN 1 ELSE Inside(ks[i - 1])
OwnOK == genv = AroundIn(k, Len(k) + 1) /\ \A i \in DOMAIN k : k[i].env = AroundIn(k, i)

LiveIn(ks, fr) ==
    /\ 1 \notin fr /\ \A i \in DOMAIN ks : Inside(ks[i]) \notin fr
    /\ \A i, l \in DOMAIN ks : i <= l /\ ks[l].nd.op = "CALL" => ks[l].cenv # AroundIn(ks, i)

ResumeOK == ctl.at = "exec" /\ k # <<>> /\ Top.nd.op = "SEQ" /\ Top.mode = "call" => Top.cs.mark = Len(trail)

OwnInv == PathOf(k) /\ KeepOK /\ OwnOK /\ LiveIn(k, freed) /\ ResumeOK

-----------------------------------------------------------------------------
(* Where nodes are.                                                        *)

LEMMA ChildId ==
    ASSUME code \in Codes, NEW f, NEW es, IsFrame(f, code, es), NEW m \in 1 .. Len(f.nd.c)
    PROVE  /\ f.nd.id[2] \in Seq(Nat) /\ Len(f.nd.id[2]) \in Nat
           /\ f.nd.c[m] \in code.nodes
           /\ f.nd.c[m].id[1] = f.nd.id[1] /\ Len(f.nd.c[m].id[2]) = Len(f.nd.id[2]) + 1
           /\ f.nd.c[m].id[2][Len(f.nd.id[2]) + 1] = m
           /\ \A x \in 1 .. Len(f.nd.id[2]) : f.nd.c[m].id[2][x] = f.nd.id[2][x]
<1>1. f.nd \in code.nodes
  BY FrameFacts
<1>2. f.nd.c[m] \in code.nodes /\ f.nd.c[m].id = <<f.nd.id[1], Append(f.nd.id[2], m)>> /\ f.nd.id[2] \in Seq(Nat) /\ m \in Nat
  <2>1. f.nd.c[m] \in code.nodes /\ f.nd.c[m].id = <<f.nd.id[1], Append(f.nd.id[2], m)>> /\ f.nd.id[2] \in Seq(Nat) /\ Len(f.nd.c) \in Nat
    BY <1>1, NodeFacts
  <2>2. QED BY <2>1
<1> DEFINE p == f.nd.id[2]
           q == Append(p, m)
<1>3. p \in Seq(Nat) /\ q \in Seq(Nat) /\ Len(q) = Len(p) + 1 /\ q[Len(p) + 1] = m /\ \A x \in 1 .. Len(p) : q[x] = p[x]
  BY <1>2, AppendProperties
<1>4. f.nd.c[m].id[2] = q /\ f.nd.c[m].id[1] = f.nd.id[1]
  BY <1>2
<1>5. Len(p) \in Nat
  BY <1>3, LenProperties
<1> HIDE DEF q
<1>6. QED BY <1>2, <1>3, <1>4, <1>5

LEMMA AwayDiffers ==
    ASSUME code \in Codes, NEW f, NEW es, IsFrame(f, code, es), InRange(f), NEW m \in Gone(f, FALSE),
           NEW id, Away(id, f)
    PROVE  f.nd.c[m].id # id
<1> SUFFICES ASSUME f.nd.c[m].id = id PROVE FALSE
  OBVIOUS
<1>1. m \in 1 .. Len(f.nd.c) /\ f.nd.op = "SEQ" /\ (m < f.j \/ f.mode = "call")
  BY DEF Gone
<1>2. f.j \in 1 .. Len(f.nd.c) /\ Child(f) = f.nd.c[f.j]
  BY <1>1, FrameFacts DEF Child
<1> DEFINE n == Len(f.nd.id[2]) + 1
<1>3. f.nd.c[m].id[1] = f.nd.id[1] /\ f.nd.c[m].id[2][n] = m /\ Len(f.nd.c[m].id[2]) = n
  BY <1>1, ChildId
<1>4. f.nd.c[f.j].id[2][n] = f.j /\ Len(f.nd.c[f.j].id[2]) = n /\ n \in Nat \ {0}
  <2> DEFINE j == f.j
  <2>1. j \in 1 .. Len(f.nd.c)
    BY <1>2
  <2> HIDE DEF j
  <2>2. f.nd.c[j].id[2][Len(f.nd.id[2]) + 1] = j /\ Len(f.nd.c[j].id[2]) = Len(f.nd.id[2]) + 1 /\ Len(f.nd.id[2]) \in Nat
    BY <2>1, ChildId
  <2>3. QED BY <2>2 DEF j
<1> HIDE DEF n
<1>5. f.mode # "call" /\ Under(id, Child(f).id)
  BY <1>3 DEF Away
<1>6. n \in 1 .. Len(Child(f).id[2])
  BY <1>2, <1>4
<1>7. id[2][n] = f.j
  BY <1>2, <1>4, <1>5, <1>6 DEF Under
<1>8. m = f.j /\ m < f.j /\ m \in Nat
  <2>1. Len(f.nd.c) \in Nat
    BY FrameFacts, NodeFacts
  <2>2. QED BY <1>1, <1>3, <1>5, <1>7, <2>1
<1>9. QED BY <1>8

\* Below a node that is away there are only nodes that are.
LEMMA AwayBelow ==
    ASSUME code \in Codes, NEW es, NEW f, IsFrame(f, code, es), InRange(f),
           NEW a, a[2] \in Seq(Nat), NEW m \in Nat, NEW b, b = <<a[1], Append(a[2], m)>>, Away(a, f)
    PROVE  Away(b, f)
<1> DEFINE d == Child(f).id
           p == a[2]
           q == Append(p, m)
<1>1. b[1] = a[1] /\ b[2] = q
  OBVIOUS
<1>2. Len(q) = Len(p) + 1 /\ Len(p) \in Nat /\ \A x \in 1 .. Len(p) : q[x] = p[x]
  BY AppendProperties, LenProperties
<1>3. p = a[2]
  OBVIOUS
<1> HIDE DEF q, p, d
<1>4. ASSUME Under(a, d), Len(d[2]) \in Nat PROVE Under(b, d)
  <2>1. a[1] = d[1] /\ Len(d[2]) <= Len(p) /\ \A x \in 1 .. Len(d[2]) : p[x] = d[2][x]
    BY <1>3, <1>4 DEF Under
  <2>2. Len(d[2]) <= Len(q) /\ \A x \in 1 .. Len(d[2]) : x \in 1 .. Len(p)
    BY <1>2, <1>4, <2>1
  <2>3. QED BY <1>1, <1>2, <2>1, <2>2 DEF Under
<1>5. CASE a[1] # f.nd.id[1]
  BY <1>1, <1>5 DEF Away
<1>6. CASE f.nd.op # "CALL" /\ f.mode # "call" /\ Under(a, d)
  <2>1. Child(f) \in code.nodes
    BY <1>6, FrameFacts
  <2>2. Child(f).id[2] \in Seq(Nat)
    BY <2>1, NodeFacts
  <2>3. Len(d[2]) \in Nat
    BY <2>2, LenProperties DEF d
  <2>4. QED BY <1>4, <1>6, <2>3 DEF Away, d
<1>7. QED BY <1>5, <1>6 DEF Away, d

LEMMA AwayChild ==
    ASSUME code \in Codes, NEW es, NEW f, IsFrame(f, code, es), InRange(f),
           NEW g, IsFrame(g, code, es), NEW m \in 1 .. Len(g.nd.c), Away(g.nd.id, f)
    PROVE  Away(g.nd.c[m].id, f)
<1>1. g.nd \in code.nodes
  BY FrameFacts
<1>2. g.nd.c[m].id = <<g.nd.id[1], Append(g.nd.id[2], m)>> /\ g.nd.id[2] \in Seq(Nat) /\ Len(g.nd.c) \in Nat
  BY <1>1, NodeFacts
<1>3. m \in Nat
  BY <1>2
<1>4. QED BY <1>2, <1>3, AwayBelow

LEMMA AwaySelf ==
    ASSUME code \in Codes, NEW es, NEW g, IsFrame(g, code, es), InRange(g), g.nd.op # "CALL", g.mode # "call"
    PROVE  Away(Child(g).id, g)
BY DEF Away, Under

\* What a frame runs is away from every frame below it, unless it is called.
LEMMA AwayCur ==
    ASSUME code \in Codes, NEW es, NEW f, IsFrame(f, code, es), InRange(f),
           NEW g, IsFrame(g, code, es), InRange(g), g.nd.op # "CALL", g.mode # "call",
           Away(g.nd.id, f) \/ f = g
    PROVE  Away(Cur(g, code).id, f)
<1>1. g.j \in 1 .. Len(g.nd.c) /\ Child(g) \in code.nodes /\ Child(g) = g.nd.c[g.j]
  BY FrameFacts DEF Child
<1>2. Away(Child(g).id, f)
  <2>1. CASE f = g
    BY <2>1, AwaySelf
  <2>2. CASE Away(g.nd.id, f)
    <3> DEFINE j == g.j
    <3>1. j \in 1 .. Len(g.nd.c)
      BY <1>1
    <3> HIDE DEF j
    <3>2. Away(g.nd.c[j].id, f)
      BY <2>2, <3>1, AwayChild
    <3>3. QED BY <1>1, <3>2 DEF j
  <2>3. QED BY <2>1, <2>2
<1>3. CASE g.mode # "alt"
  BY <1>2, <1>3 DEF Cur
<1>4. CASE g.mode = "alt"
  <2>1. Child(g).op = "ALT" /\ Cur(g, code) = Child(g).c[2]
    BY <1>4 DEF IsFrame, Cur
  <2>2. Len(Child(g).c) = 2 /\ Child(g).id[2] \in Seq(Nat)
    BY <1>1, <2>1, NodeFacts
  <2>3. Child(g).c[2].id = <<Child(g).id[1], Append(Child(g).id[2], 2)>>
    <3> DEFINE i == 2
    <3>1. i \in 1 .. Len(Child(g).c)
      BY <2>2
    <3> HIDE DEF i
    <3>2. Child(g).c[i].id = <<Child(g).id[1], Append(Child(g).id[2], i)>>
      BY <1>1, <3>1, NodeFacts
    <3>3. QED BY <3>2 DEF i
  <2>4. QED BY <1>1, <1>2, <2>1, <2>2, <2>3, AwayBelow
<1>5. QED BY <1>3, <1>4

\* A frame runs nodes of its own predicate, or of one its predicate calls.
LEMMA Calls1 ==
    ASSUME code \in Codes, NEW es, NEW g, IsFrame(g, code, es), InRange(g)
    PROVE  /\ g.nd.op = "CALL" \/ g.mode = "call" =>
                 \E nd \in code.nodes : nd.op = "CALL" /\ nd.id[1] = g.nd.id[1] /\ nd.pred = Cur(g, code).id[1]
           /\ g.nd.op # "CALL" /\ g.mode # "call" => Cur(g, code).id[1] = g.nd.id[1]
           /\ Cur(g, code).id[1] \in DOMAIN code.entry
<1>1. g.nd \in code.nodes
  BY FrameFacts
<1>2. Cur(g, code).id[1] \in DOMAIN code.entry
  BY CurFacts
<1>3. CASE g.nd.op = "CALL"
  <2>1. g.nd.pred \in DOMAIN code.entry /\ Cur(g, code) = code.entry[g.nd.pred]
    BY <1>3 DEF IsFrame, Cur
  <2>2. Cur(g, code).id[1] = g.nd.pred
    BY <2>1, EntryFacts
  <2>3. QED BY <1>1, <1>2, <1>3, <2>2
<1>4. CASE g.nd.op # "CALL" /\ g.mode = "call"
  <2>1. Child(g).op = "CALL" /\ Child(g).pred \in DOMAIN code.entry /\ Cur(g, code) = code.entry[Child(g).pred]
    BY <1>4 DEF IsFrame, Cur
  <2>2. Cur(g, code).id[1] = Child(g).pred
    BY <2>1, EntryFacts
  <2>3. Child(g) \in code.nodes /\ Child(g).id[1] = g.nd.id[1]
    BY <1>4, FrameFacts
  <2>4. QED BY <1>2, <1>4, <2>1, <2>2, <2>3
<1>5. CASE g.nd.op # "CALL" /\ g.mode # "call"
  <2>1. Child(g) \in code.nodes /\ Child(g).id[1] = g.nd.id[1]
    BY <1>5, FrameFacts
  <2>2. CASE g.mode # "alt"
    BY <1>2, <1>5, <2>1, <2>2 DEF Cur
  <2>3. CASE g.mode = "alt"
    <3>1. Child(g).op = "ALT" /\ Cur(g, code) = Child(g).c[2]
      BY <1>5, <2>3 DEF IsFrame, Cur
    <3>2. Len(Child(g).c) = 2
      BY <2>1, <3>1, NodeFacts
    <3> DEFINE i == 2
    <3>3. i \in 1 .. Len(Child(g).c)
      BY <3>2
    <3> HIDE DEF i
    <3>4. Child(g).c[i].id = <<Child(g).id[1], Append(Child(g).id[2], i)>>
      BY <2>1, <3>3, NodeFacts
    <3>5. Child(g).c[2].id[1] = Child(g).id[1]
      BY <3>4 DEF i
    <3>6. QED BY <1>2, <1>5, <2>1, <3>1, <3>5
  <2>4. QED BY <2>2, <2>3
<1>6. QED BY <1>3, <1>4, <1>5

\* Without recursion, a predicate that is called is none of those on the stack: they would call
\* each other in a circle.
LEMMA CalleeElsewhere ==
    ASSUME code \in Codes, StackOK, ~Recursive(code), k # <<>>, InRange(Top),
           Top.nd.op = "CALL" \/ Top.mode = "call", NEW i \in DOMAIN k
    PROVE  Cur(Top, code).id[1] # k[i].nd.id[1]
<1> DEFINE n == Len(k)
           p == Cur(Top, code).id[1]
           on(m) == k[m].nd.id[1]
           S == {on(m) : m \in i .. n}
<1> SUFFICES ASSUME p = on(i) PROVE FALSE
  OBVIOUS
<1>1. n \in Nat /\ DOMAIN k = 1 .. n /\ n \in 1 .. n /\ Top = k[n]
  BY StackFacts
<1>2. \A m \in i .. n : m \in DOMAIN k /\ IsFrame(k[m], code, DOMAIN env) /\ InRange(k[m])
  BY <1>1 DEF StackOK
<1>3. S \in SUBSET DOMAIN code.entry
  BY <1>2 DEF IsFrame
<1>4. on(i) \in S /\ p \in S
  BY <1>1
<1>5. ASSUME NEW q \in S
      PROVE  \E nd \in code.nodes : nd.op = "CALL" /\ nd.id[1] = q /\ nd.pred \in S
  <2> DEFINE T == {m \in i .. n : on(m) = q}
  <2>1. T # {} /\ T \in SUBSET (1 .. n)
    BY <1>1
  <2> HIDE DEF T
  <2>2. PICK m \in T : \A l \in T : l <= m
    BY <1>1, <2>1, GreatestUpTo
  <2>3. m \in i .. n /\ on(m) = q
    BY <2>2 DEF T
  <2>4. CASE m = n
    <3>1. \E nd \in code.nodes : nd.op = "CALL" /\ nd.id[1] = Top.nd.id[1] /\ nd.pred = p
      BY <1>1, <1>2, <2>3, <2>4, Calls1
    <3>2. Top.nd.id[1] = q
      BY <1>1, <2>3, <2>4
    <3>3. QED BY <1>4, <3>1, <3>2
  <2>5. CASE m # n
    <3>1. m + 1 \in i .. n /\ m + 1 \in DOMAIN k /\ m + 1 # 1 /\ m \in DOMAIN k /\ m + 1 - 1 = m
      BY <1>1, <1>2, <2>3, <2>5
    <3>2. m + 1 \notin T
      BY <2>2, <2>3, <1>1
    <3>3. on(m + 1) # q /\ on(m + 1) \in S
      BY <3>1, <3>2 DEF T
    <3>4. k[m + 1].nd = Cur(k[m], code)
      BY <3>1 DEF StackOK
    <3>5. k[m].nd.op = "CALL" \/ k[m].mode = "call"
      BY <1>2, <2>3, <3>3, <3>4, Calls1
    <3>6. \E nd \in code.nodes : nd.op = "CALL" /\ nd.id[1] = k[m].nd.id[1] /\ nd.pred = Cur(k[m], code).id[1]
      BY <1>2, <2>3, <3>5, Calls1
    <3>7. QED BY <2>3, <3>3, <3>4, <3>6
  <2>6. QED BY <2>4, <2>5
<1> HIDE DEF S
<1>6. Recursive(code)
  BY <1>3, <1>4, <1>5 DEF Recursive
<1>7. QED BY <1>6

LEMMA NextAway ==
    ASSUME code \in Codes, StackOK, ~Recursive(code), PathOf(k), ctl.at = "exec"
    PROVE  \A i \in DOMAIN k : Away(ctl.nd.id, k[i])
<1> SUFFICES ASSUME NEW i \in DOMAIN k PROVE Away(ctl.nd.id, k[i])
  OBVIOUS
<1>1. k # <<>> /\ Len(k) \in Nat /\ DOMAIN k = 1 .. Len(k) /\ Top = k[Len(k)] /\ ctl.nd = Cur(Top, code)
      /\ Len(k) \in DOMAIN k
  <2>1. k # <<>>
    OBVIOUS
  <2>2. QED BY <2>1, StackFacts
<1>2. \A m \in DOMAIN k : IsFrame(k[m], code, DOMAIN env) /\ InRange(k[m])
  BY DEF StackOK
<1>3. CASE Top.nd.op = "CALL" \/ Top.mode = "call"
  BY <1>1, <1>2, <1>3, CalleeElsewhere DEF Away
<1>4. CASE Top.nd.op # "CALL" /\ Top.mode # "call"
  <2>1. Away(Top.nd.id, k[i]) \/ k[i] = Top
    BY <1>1 DEF PathOf
  <2>2. IsFrame(Top, code, DOMAIN env) /\ InRange(Top) /\ IsFrame(k[i], code, DOMAIN env) /\ InRange(k[i])
    BY <1>1, <1>2
  <2>3. QED BY <1>1, <1>4, <2>1, <2>2, AwayCur
<1>5. QED BY <1>3, <1>4

-----------------------------------------------------------------------------
(* What is kept stays good.                                                *)

LEMMA KeptType ==
    ASSUME code \in Codes, StatesOK, NEW f, f.nd \in code.nodes, NEW done, NEW m \in Gone(f, done)
    PROVE  /\ f.nd.c[m] \in code.nodes /\ f.nd.c[m].id \in Ids /\ f.nd.op = "SEQ"
           /\ KeptOf(f, m, saved) \in Kept /\ KeptOf(f, m, saved).mark \in Nat /\ m \in Nat
           /\ KeptOf(f, m, saved) = saved[f.nd.c[m].id]
           /\ KeptOf(f, m, saved) # NoCall => Live(KeptOf(f, m, saved), DOMAIN env)
<1>1. m \in 1 .. Len(f.nd.c) /\ f.nd.op = "SEQ"
  BY DEF Gone
<1>2. f.nd.c[m] \in code.nodes /\ Len(f.nd.c) \in Nat
  BY <1>1, NodeFacts
<1>3. QED BY <1>1, <1>2, StatesFacts DEF KeptOf

LEMMA GoodCarried ==
    ASSUME TermsOK, TermsOK', NEW s, s.mark \in Nat, NEW e, Good(s, e, freed, ref, trail),
           NEW M \in Nat, SamePast(M), s.mark <= M, s.cenv \notin freed'
    PROVE  Good(s, e, freed', ref', trail')
<1>1. /\ DOMAIN ref = 1 .. Len(ref) /\ DOMAIN ref' = 1 .. Len(ref') /\ Len(ref) \in Nat /\ Len(ref') \in Nat
      /\ Len(trail') \in Nat
  <2>1. ref' \in Seq(TermsUpTo(Len(ref'))) /\ trail' \in Seq(Nat)
    BY DEF TermsOK
  <2>2. QED BY <2>1, LenProperties, RefFacts
<1>2. DOMAIN ref \subseteq DOMAIN ref' /\ M <= Len(trail')
  BY <1>1 DEF SamePast
<1> DEFINE n == s.mark
<1>3. n \in 0 .. M
  OBVIOUS
<1>4. \A v \in DOMAIN ref : Past(ref', trail', n)[v] = Past(ref, trail, n)[v]
  <2> HIDE DEF n
  <2>1. \A v \in DOMAIN ref : Unwound(n)'[v] = Unwound(n)[v]
    BY <1>3 DEF SamePast
  <2>2. Unwound(n) = Past(ref, trail, n)
    BY DEF Unwound, Past
  <2>3. Unwound(n)' = Past(ref', trail', n)
    BY DEF Unwound, Past
  <2>4. QED BY <2>1, <2>2, <2>3
<1>5. Restores(s, ref', trail')
  BY <1>2, <1>4 DEF Good, Restores
<1>6. s.mark <= Len(trail')
  BY <1>1, <1>2
<1>7. QED BY <1>5, <1>6 DEF Good

\* A frame that has passed no more than before keeps what it kept.
LEMMA KeepsCarried ==
    ASSUME code \in Codes, StatesOK, TermsOK, TermsOK', NEW f, f.nd \in code.nodes, NEW done,
           Keeps(f, done, saved, freed, ref, trail),
           NEW g, NEW more, g.nd = f.nd, g.env = f.env, Gone(g, more) \subseteq Gone(f, done),
           NEW M \in Nat, SamePast(M),
           \A m \in Gone(g, more) : KeptOf(f, m, saved') = KeptOf(f, m, saved) /\ KeptOf(f, m, saved).mark <= M
                                    /\ KeptOf(f, m, saved).cenv \notin freed',
           g.mode = "call" => g.cs = KeptOf(g, g.j, saved')
    PROVE  Keeps(g, more, saved', freed', ref', trail')
<1>1. \A m \in Gone(g, more) : KeptOf(g, m, saved') = KeptOf(f, m, saved) /\ m \in Gone(f, done)
  BY DEF KeptOf
<1>2. ASSUME NEW m \in Gone(g, more)
      PROVE  Good(KeptOf(g, m, saved'), g.env, freed', ref', trail')
  <2> DEFINE s == KeptOf(f, m, saved)
             e == g.env
  <2>1. m \in Gone(f, done)
    BY <1>1
  <2>2. s.mark \in Nat
    BY <2>1, KeptType
  <2>3. Good(s, e, freed, ref, trail)
    BY <2>1 DEF Keeps
  <2>4. s.mark <= M /\ s.cenv \notin freed'
    OBVIOUS
  <2>5. KeptOf(g, m, saved') = s
    BY <1>1
  <2> HIDE DEF s, e
  <2>6. Good(s, e, freed', ref', trail')
    BY <2>2, <2>3, <2>4, GoodCarried
  <2>7. QED BY <2>5, <2>6 DEF e
<1>3. \A n, m \in Gone(g, more) : n <= m => KeptOf(g, n, saved').mark <= KeptOf(g, m, saved').mark
  BY <1>1 DEF Keeps
<1>4. QED BY <1>2, <1>3 DEF Keeps

LEMMA KeepFacts ==
    ASSUME KeepOK, NEW i \in DOMAIN k
    PROVE  /\ Keeps(k[i], i = Len(k) /\ ctl.at = "ok", saved, freed, ref, trail)
           /\ \A l \in DOMAIN k : i < l => Before(k[i], saved, k[l])
           /\ \A m \in Passed(i) : Good(KeptOf(k[i], m, saved), k[i].env, freed, ref, trail)
           /\ \A n, m \in Passed(i) : n <= m => KeptOf(k[i], n, saved).mark <= KeptOf(k[i], m, saved).mark
           /\ k[i].mode = "call" => k[i].cs = KeptOf(k[i], k[i].j, saved)
BY DEF KeepOK, Keeps, Passed

-----------------------------------------------------------------------------
LEMMA OnStack ==
    ASSUME code \in Codes, StackOK, NEW i \in DOMAIN k
    PROVE  /\ IsFrame(k[i], code, DOMAIN env) /\ k[i].nd \in code.nodes /\ k[i].env \in DOMAIN env /\ k[i].mark \in Nat
           /\ i < Len(k) \/ ctl.at # "try" => InRange(k[i])
           /\ i \in Nat /\ Len(k) \in Nat /\ i <= Len(k) /\ 1 <= i
<1>1. IsFrame(k[i], code, DOMAIN env) /\ (i < Len(k) \/ ctl.at # "try" => InRange(k[i]))
  BY DEF StackOK
<1>2. k[i].env \in DOMAIN env
  BY <1>1 DEF IsFrame
<1>3. QED BY <1>1, <1>2, FrameFacts, StackFacts

LEMMA OwnReturn ==
    ASSUME AnyInv, OwnInv, UNCHANGED <<code, saved, k, genv, freed>>, TermsOK', SamePast(Len(trail)),
           ctl.at = "exec", ctl'.at = "fail" \/ (ctl'.at = "ok" /\ ctl.nd.op # "CALL")
    PROVE  OwnInv'
<1>1. code \in Codes /\ TermsOK /\ StatesOK /\ StackOK /\ Len(trail) \in Nat
  BY RefFacts DEF AnyInv
<1>2. PathOf(k) /\ KeepOK /\ OwnOK /\ LiveIn(k, freed)
  BY DEF OwnInv
<1>3. ASSUME NEW i \in DOMAIN k
      PROVE  Keeps(k[i], i = Len(k) /\ ctl'.at = "ok", saved', freed', ref', trail')
  <2> DEFINE f == k[i]
             done == i = Len(k) /\ ctl.at = "ok"
             more == i = Len(k) /\ ctl'.at = "ok"
             M == Len(trail)
  <2>1. f.nd \in code.nodes
    BY <1>1, OnStack
  <2>2. Gone(f, more) \subseteq Gone(f, done)
    <3>1. CASE ~more
      BY <3>1 DEF Gone
    <3>2. CASE more
      <4>1. f = Top /\ ctl.nd = Cur(Top, code) /\ ctl.nd.op # "CALL" /\ IsFrame(Top, code, DOMAIN env)
        BY <3>2, <1>1 DEF Top, StackOK
      <4>2. ASSUME NEW m \in Gone(f, more), m \notin Gone(f, done)
            PROVE  FALSE
        <5>1. m = f.j /\ f.mode # "call" /\ Child(f).op = "CALL" /\ f.nd.op = "SEQ"
          BY <4>2 DEF Gone, Child
        <5>2. f.mode # "alt"
          BY <4>1, <5>1 DEF IsFrame
        <5>3. ctl.nd = Child(f)
          BY <4>1, <5>1, <5>2 DEF Cur
        <5>4. QED BY <4>1, <5>1, <5>3
      <4>3. QED BY <4>2
    <3>3. QED BY <3>1, <3>2
  <2>3. Keeps(f, done, saved, freed, ref, trail)
    BY <1>2, KeepFacts
  <2>4. \A m \in Gone(f, more) : KeptOf(f, m, saved') = KeptOf(f, m, saved) /\ KeptOf(f, m, saved).mark <= M
                                  /\ KeptOf(f, m, saved).cenv \notin freed'
    BY <2>2, <2>3 DEF Keeps, Good
  <2>5. f.mode = "call" => f.cs = KeptOf(f, f.j, saved')
    BY <2>3 DEF Keeps
  <2> HIDE DEF f, done, more, M
  <2>6. M \in Nat /\ SamePast(M)
    BY <1>1 DEF M
  <2>7. Keeps(f, more, saved', freed', ref', trail')
    BY <1>1, <2>1, <2>2, <2>3, <2>4, <2>5, <2>6, KeepsCarried
  <2>8. QED BY <2>7 DEF f, more
<1>4. KeepOK'
  <2>1. \A i, l \in DOMAIN k' : i < l => Before(k'[i], saved', k'[l])
    BY <1>2 DEF KeepOK
  <2>2. \A i \in DOMAIN k' : Keeps(k'[i], i = Len(k') /\ ctl'.at = "ok", saved', freed', ref', trail')
    BY <1>3
  <2>3. QED BY <2>1, <2>2 DEF KeepOK
<1>5. PathOf(k') /\ OwnOK' /\ LiveIn(k', freed')
  BY <1>2 DEF OwnOK
<1>6. ResumeOK'
  BY DEF ResumeOK
<1>7. QED BY <1>4, <1>5, <1>6 DEF OwnInv

LEMMA AroundLive ==
    ASSUME code \in Codes, StackOK, LiveIn(k, freed), NEW i \in 1 .. Len(k) + 1
    PROVE  AroundIn(k, i) \notin freed
<1>1. DOMAIN k = 1 .. Len(k) /\ Len(k) \in Nat
  BY StackFacts
<1>2. QED BY <1>1 DEF LiveIn, AroundIn

LEMMA OwnPush ==
    ASSUME AnyInv, AnyInv', OwnInv, ~Recursive(code), UNCHANGED <<code, saved, freed>>, SamePast(Len(trail)), ctl.at = "exec",
           NEW f, k' = Append(k, f), f \in FramesOf(code), f.nd = ctl.nd, f.mark = Len(trail'), f.env = genv,
           f.mode = "go", Gone(f, FALSE) = {}, ctl'.at # "ok",
           \/ f.nd.op # "CALL" /\ genv' = genv
           \/ f.nd.op = "CALL" /\ f.cenv \notin DOMAIN env /\ genv' = f.cenv
    PROVE  OwnInv'
<1> DEFINE n == Len(k)
<1>1. code \in Codes /\ TermsOK /\ TermsOK' /\ StatesOK /\ StackOK /\ Len(trail) \in Nat /\ genv \in DOMAIN env /\ freed \subseteq DOMAIN env
  BY RefFacts DEF AnyInv, EnvsOK
<1>2. PathOf(k) /\ KeepOK /\ OwnOK /\ LiveIn(k, freed)
  BY DEF OwnInv
<1>3. /\ n \in Nat /\ DOMAIN k = 1 .. n /\ DOMAIN k' = 1 .. n + 1 /\ Len(k') = n + 1
      /\ k'[n + 1] = f /\ \A i \in 1 .. n : k'[i] = k[i]
  <2>1. k \in Seq(FramesOf(code))
    BY <1>1 DEF StackOK
  <2>2. QED BY <2>1, TopPushed
<1>4. Len(trail) <= Len(trail') /\ Len(trail') \in Nat
  <2>1. trail' \in Seq(Nat)
    BY <1>1 DEF TermsOK
  <2>2. QED BY <2>1, LenProperties DEF SamePast
<1> HIDE DEF n
<1>5. PathOf(k')
  <2>1. \A i \in DOMAIN k : Away(f.nd.id, k[i])
    BY <1>1, <1>2, NextAway
  <2>2. QED BY <1>2, <1>3, <2>1 DEF PathOf
<1>6. ASSUME NEW i \in DOMAIN k'
      PROVE  Keeps(k'[i], i = Len(k') /\ ctl'.at = "ok", saved', freed', ref', trail')
  <2> DEFINE done == i = Len(k) /\ ctl.at = "ok"
             more == i = Len(k') /\ ctl'.at = "ok"
  <2>1. ~done /\ ~more /\ done \in BOOLEAN /\ more \in BOOLEAN
    OBVIOUS
  <2>2. CASE i = n + 1
    <3>1. Gone(k'[i], more) = {} /\ k'[i].mode = "go"
      BY <1>3, <2>1, <2>2
    <3>2. QED BY <3>1 DEF Keeps
  <2>3. CASE i # n + 1
    <3> DEFINE g == k[i]
               M == Len(trail)
    <3>1. i \in DOMAIN k /\ k'[i] = g
      BY <1>3, <2>3
    <3>2. g.nd \in code.nodes /\ Keeps(g, done, saved, freed, ref, trail)
      BY <1>1, <1>2, <3>1, OnStack, KeepFacts
    <3>3. Gone(g, more) \subseteq Gone(g, done)
      BY <2>1 DEF Gone
    <3>4. \A m \in Gone(g, more) : KeptOf(g, m, saved') = KeptOf(g, m, saved) /\ KeptOf(g, m, saved).mark <= M
                                    /\ KeptOf(g, m, saved).cenv \notin freed'
      BY <3>2, <3>3 DEF Keeps, Good
    <3>5. g.mode = "call" => g.cs = KeptOf(g, g.j, saved')
      BY <3>2 DEF Keeps
    <3>6. M \in Nat /\ SamePast(M)
      BY <1>1
    <3> HIDE DEF g, done, more, M
    <3>7. Keeps(g, more, saved', freed', ref', trail')
      BY <1>1, <3>2, <3>3, <3>4, <3>5, <3>6, KeepsCarried
    <3>8. QED BY <3>1, <3>7 DEF more
  <2>4. QED BY <2>2, <2>3
<1>7. ASSUME NEW i \in DOMAIN k', NEW l \in DOMAIN k', i < l
      PROVE  Before(k'[i], saved', k'[l])
  <2>1. i \in DOMAIN k /\ k'[i] = k[i] /\ i <= n /\ i \in Nat
    BY <1>3, <1>7
  <2>2. CASE l # n + 1
    BY <1>2, <1>3, <1>7, <2>1, <2>2, KeepFacts
  <2>3. CASE l = n + 1
    <3>1. ASSUME NEW m \in Gone(k[i], FALSE)
          PROVE  KeptOf(k[i], m, saved).mark <= f.mark /\ (f.nd.op = "CALL" => f.cenv # KeptOf(k[i], m, saved).cenv)
      <4> DEFINE s == KeptOf(k[i], m, saved)
      <4>1. k[i].nd \in code.nodes
        BY <1>1, <2>1, OnStack
      <4>2. s.mark \in Nat /\ (s # NoCall => Live(s, DOMAIN env))
        BY <1>1, <4>1, KeptType
      <4>3. m \in Passed(i)
        BY DEF Passed, Gone
      <4>4. Good(s, k[i].env, freed, ref, trail)
        BY <1>2, <2>1, <4>3, KeepFacts
      <4>5. s.mark <= Len(trail) /\ s.cenv \in DOMAIN env
        BY <4>2, <4>4 DEF Good, Live
      <4> HIDE DEF s
      <4>6. s.mark <= f.mark
        BY <1>1, <1>4, <4>2, <4>5
      <4>7. QED BY <4>5, <4>6 DEF s
    <3>2. QED BY <1>3, <2>1, <2>3, <3>1 DEF Before
  <2>4. QED BY <2>2, <2>3
<1>8. KeepOK'
  BY <1>6, <1>7 DEF KeepOK
<1>9. genv = AroundIn(k, n + 1) /\ \A i \in 1 .. n : k[i].env = AroundIn(k, i)
  BY <1>2, <1>3 DEF OwnOK, n
<1>10. \A i \in 1 .. n + 1 : AroundIn(k', i) = AroundIn(k, i) /\ AroundIn(k, i) \in DOMAIN env /\ k'[i].env = AroundIn(k', i)
  <2>1. \A i \in 1 .. n + 1 : AroundIn(k', i) = AroundIn(k, i)
    BY <1>3 DEF AroundIn
  <2>2. \A i \in 1 .. n : k[i].env \in DOMAIN env
    BY <1>1, <1>3, OnStack
  <2>3. QED BY <1>1, <1>3, <1>9, <2>1, <2>2
<1>11. genv' = Inside(f) /\ Inside(f) \notin freed
  <2>1. genv \notin freed
    <3>1. n + 1 \in 1 .. Len(k) + 1
      BY <1>3 DEF n
    <3>2. QED BY <1>1, <1>2, <1>9, <3>1, AroundLive
  <2>2. QED BY <1>1, <2>1 DEF Inside
<1>12. OwnOK'
  <2>1. AroundIn(k', n + 2) = Inside(f)
    BY <1>3 DEF AroundIn
  <2>2. Len(k') + 1 = n + 2
    BY <1>3
  <2>3. QED BY <1>3, <1>10, <1>11, <2>1, <2>2 DEF OwnOK
<1>13. LiveIn(k', freed')
  <2>1. \A i \in DOMAIN k' : Inside(k'[i]) \notin freed
    BY <1>2, <1>3, <1>11 DEF LiveIn
  <2>2. ASSUME NEW i \in DOMAIN k', NEW l \in DOMAIN k', i <= l, k'[l].nd.op = "CALL"
        PROVE  k'[l].cenv # AroundIn(k', i)
    <3>1. CASE l = n + 1
      BY <1>3, <1>10, <2>2, <3>1
    <3>2. CASE l # n + 1
      BY <1>2, <1>3, <1>10, <2>2, <3>2 DEF LiveIn
    <3>3. QED BY <3>1, <3>2
  <2>3. QED BY <1>2, <2>1, <2>2 DEF LiveIn
<1>14. ResumeOK'
  <2>1. Top' = f
    BY <1>3 DEF Top
  <2>2. QED BY <2>1 DEF ResumeOK
<1>15. QED BY <1>5, <1>8, <1>12, <1>13, <1>14 DEF OwnInv

\* The goal a sequence is at, once it has succeeded, is kept with the ones before it.
LEMMA KeepsMore ==
    ASSUME NEW f, NEW sv, NEW fr, NEW rf, NEW tr, Keeps(f, FALSE, sv, fr, rf, tr),
           NEW done, f.j \in Gone(f, done) => /\ Good(KeptOf(f, f.j, sv), f.env, fr, rf, tr)
                                              /\ \A m \in Gone(f, FALSE) : KeptOf(f, m, sv).mark <= KeptOf(f, f.j, sv).mark,
           f.j \in Gone(f, done) => KeptOf(f, f.j, sv).mark \in Nat /\ f.j \in Nat
    PROVE  Keeps(f, done, sv, fr, rf, tr)
<1>1. \A m \in Gone(f, done) : m \in Gone(f, FALSE) \/ m = f.j
  BY DEF Gone
<1>2. \A m \in Gone(f, FALSE) : m \in Nat /\ (m < f.j \/ m = f.j)
  <2>1. \A m \in Gone(f, FALSE) : m \in 1 .. Len(f.nd.c) /\ (m < f.j \/ m = f.j)
    BY DEF Gone
  <2>2. \A m \in 1 .. Len(f.nd.c) : m \in Nat
    OBVIOUS
  <2>3. QED BY <2>1, <2>2
<1>3. \A m \in Gone(f, done) : Good(KeptOf(f, m, sv), f.env, fr, rf, tr)
  BY <1>1 DEF Keeps
<1>4. ASSUME NEW a \in Gone(f, done), NEW m \in Gone(f, done), a <= m
      PROVE  KeptOf(f, a, sv).mark <= KeptOf(f, m, sv).mark
  <2>1. CASE a \in Gone(f, FALSE) /\ m \in Gone(f, FALSE)
    BY <1>4, <2>1 DEF Keeps
  <2>2. CASE a \in Gone(f, FALSE) /\ m = f.j
    BY <2>2
  <2>3. CASE a = f.j /\ m = f.j
    BY <2>3
  <2>4. CASE a = f.j /\ m \in Gone(f, FALSE)
    <3>1. m <= a /\ m \in Nat /\ a \in Nat
      <4>1. a \in Nat
        BY <2>4
      <4>2. m \in Nat /\ (m < a \/ m = a)
        BY <1>2, <2>4
      <4>3. QED BY <4>1, <4>2
    <3>2. m = a
      BY <1>4, <3>1
    <3>3. QED BY <2>4, <3>2
  <2>5. QED BY <1>1, <2>1, <2>2, <2>3, <2>4
<1>5. QED BY <1>3, <1>4 DEF Keeps

\* A node that is on top of the stack is none of those a frame below has passed.
LEMMA PassedElsewhere ==
    ASSUME AnyInv, PathOf(k), NEW i \in DOMAIN k, i < Len(k), NEW m \in Gone(k[i], FALSE)
    PROVE  /\ k[i].nd.c[m].id # Top.nd.id
           /\ Top.nd.op # "CALL" => \A x \in 1 .. Len(Top.nd.c) : k[i].nd.c[m].id # Top.nd.c[x].id
<1>1. code \in Codes /\ StackOK
  BY DEF AnyInv
<1>2. IsFrame(k[i], code, DOMAIN env) /\ InRange(k[i])
  BY <1>1, OnStack
<1>3. k # <<>> /\ Len(k) \in DOMAIN k /\ Top = k[Len(k)] /\ IsFrame(Top, code, DOMAIN env)
  <2>1. k # <<>>
    OBVIOUS
  <2>2. QED BY <1>1, <2>1, StackFacts
<1>4. Away(Top.nd.id, k[i])
  BY <1>3 DEF PathOf
<1>5. \A x \in 1 .. Len(Top.nd.c) : Away(Top.nd.c[x].id, k[i])
  BY <1>1, <1>2, <1>3, <1>4, AwayChild
<1> DEFINE f == k[i]
<1> HIDE DEF f
<1>6. IsFrame(f, code, DOMAIN env) /\ InRange(f) /\ m \in Gone(f, FALSE) /\ f = k[i]
  BY <1>2 DEF f
<1>7. \A id : Away(id, f) => f.nd.c[m].id # id
  BY <1>1, <1>6, AwayDiffers
<1>8. QED BY <1>4, <1>5, <1>6, <1>7

LEMMA PopFacts ==
    ASSUME code \in Codes, StackOK, k # <<>>, Pop
    PROVE  /\ Len(k') = Len(k) - 1 /\ DOMAIN k' = 1 .. Len(k) - 1
           /\ DOMAIN k = 1 .. Len(k) /\ Len(k) \in Nat \ {0}
           /\ \A i \in DOMAIN k' : k'[i] = k[i]
<1>1. k \in Seq(FramesOf(code)) /\ k' = SubSeq(k, 1, Len(k) - 1)
  BY DEF StackOK, Pop
<1>2. DOMAIN k = 1 .. Len(k) /\ Len(k) \in Nat \ {0} /\ \A i \in 1 .. Len(k) : k[i] \in FramesOf(code)
  BY <1>1, LenProperties, ElementOfSeq, EmptySeq
<1>3. QED BY <1>1, <1>2, SubSeqProperties

LEMMA OwnPop ==
    ASSUME AnyInv, AnyInv', OwnInv, UNCHANGED code, k # <<>>, Pop, ctl.at \in {"ok", "fail", "back", "try"},
           ctl'.at \in {"ok", "fail"}, genv' = Top.env, NEW M \in Nat, SamePast(M), Top.mark <= M, NEW s,
           \/ Top.nd.op # "CALL" /\ saved' = saved /\ freed' = freed
           \/ Top.nd.op = "CALL" /\ ctl'.at = "fail" /\ saved' = saved /\ freed' = freed \cup {Top.cenv}
           \/ /\ Top.nd.op = "CALL" /\ ctl'.at = "ok" /\ freed' = freed /\ saved' = [saved EXCEPT ![Top.nd.id] = s]
              /\ s # NoCall /\ s.mark = Top.mark /\ s.senv = Top.env /\ s.cenv = Top.cenv /\ Restores(s, ref', trail')
    PROVE  OwnInv'
<1> DEFINE n == Len(k)
<1>1. code \in Codes /\ TermsOK /\ TermsOK' /\ StatesOK /\ StackOK /\ Len(trail) \in Nat /\ saved \in [Ids -> Kept]
  BY RefFacts DEF AnyInv, StatesOK
<1>2. PathOf(k) /\ KeepOK /\ OwnOK /\ LiveIn(k, freed)
  BY DEF OwnInv
<1>3. /\ n \in Nat \ {0} /\ DOMAIN k = 1 .. n /\ DOMAIN k' = 1 .. n - 1 /\ Len(k') = n - 1 /\ Top = k[n] /\ n \in DOMAIN k
      /\ \A i \in 1 .. n - 1 : k'[i] = k[i] /\ i \in DOMAIN k /\ i < n
  <2>1. code \in Codes /\ StackOK
    BY <1>1
  <2>2. /\ Len(k') = Len(k) - 1 /\ DOMAIN k' = 1 .. Len(k) - 1
        /\ DOMAIN k = 1 .. Len(k) /\ Len(k) \in Nat \ {0}
        /\ \A i \in DOMAIN k' : k'[i] = k[i]
    BY <2>1, PopFacts
  <2>3. QED BY <2>2 DEF Top
<1>4. IsFrame(Top, code, DOMAIN env) /\ Top.nd \in code.nodes /\ Top.mark \in Nat /\ Top.nd.id \in Ids
  BY <1>1, <1>3, OnStack, NodeFacts
<1>5. M <= Len(trail') /\ Len(trail') \in Nat
  <2>1. trail' \in Seq(Nat)
    BY <1>1 DEF TermsOK
  <2>2. QED BY <2>1, LenProperties DEF SamePast
<1> HIDE DEF n
<1>6. PathOf(k')
  BY <1>2, <1>3 DEF PathOf
<1>7. ASSUME NEW i \in 1 .. n - 1, NEW m \in Gone(k[i], FALSE)
      PROVE  /\ KeptOf(k[i], m, saved') = KeptOf(k[i], m, saved) /\ KeptOf(k[i], m, saved).mark <= Top.mark
             /\ KeptOf(k[i], m, saved).cenv \notin freed' /\ KeptOf(k[i], m, saved).mark \in Nat
  <2>1. i \in DOMAIN k /\ i < n
    BY <1>3
  <2>2. k[i].nd.c[m].id # Top.nd.id
    BY <1>2, <2>1, PassedElsewhere DEF n
  <2>3. k[i].nd.c[m].id \in Ids /\ KeptOf(k[i], m, saved).mark \in Nat
    BY <1>1, <2>1, OnStack, KeptType
  <2>4. saved'[k[i].nd.c[m].id] = saved[k[i].nd.c[m].id]
    BY <1>1, <2>2, <2>3
  <2>5. Before(k[i], saved, k[n])
    BY <1>2, <1>3, <2>1, KeepFacts
  <2>6. KeptOf(k[i], m, saved).mark <= Top.mark /\ (Top.nd.op = "CALL" => Top.cenv # KeptOf(k[i], m, saved).cenv)
    BY <1>3, <2>5 DEF Before
  <2>7. KeptOf(k[i], m, saved).cenv \notin freed
    <3>1. m \in Passed(i)
      BY DEF Passed, Gone
    <3>2. QED BY <1>2, <2>1, <3>1, KeepFacts DEF Good
  <2>8. QED BY <2>3, <2>4, <2>6, <2>7 DEF KeptOf
<1>8. ASSUME NEW i \in 1 .. n - 1
      PROVE  Keeps(k[i], FALSE, saved', freed', ref', trail')
  <2> DEFINE f == k[i]
             done == i = Len(k) /\ ctl.at = "ok"
  <2>1. i \in DOMAIN k /\ i < n /\ ~done
    <3>1. i \in DOMAIN k /\ i < n /\ i # n
      BY <1>3
    <3>2. QED BY <3>1 DEF n
  <2>2. f.nd \in code.nodes /\ Keeps(f, done, saved, freed, ref, trail) /\ IsFrame(f, code, DOMAIN env)
    BY <1>1, <1>2, <2>1, OnStack, KeepFacts
  <2>3. Gone(f, FALSE) \subseteq Gone(f, done)
    BY DEF Gone
  <2>4. \A m \in Gone(f, FALSE) : KeptOf(f, m, saved') = KeptOf(f, m, saved) /\ KeptOf(f, m, saved).mark <= M
                                  /\ KeptOf(f, m, saved).cenv \notin freed'
    <3>1. ASSUME NEW m \in Gone(f, FALSE) PROVE KeptOf(f, m, saved).mark <= M
      <4>1. KeptOf(f, m, saved).mark <= Top.mark /\ KeptOf(f, m, saved).mark \in Nat
        BY <1>7
      <4>2. QED BY <1>4, <4>1
    <3>2. QED BY <1>7, <3>1
  <2>5. f.mode = "call" => f.cs = KeptOf(f, f.j, saved')
    <3> SUFFICES ASSUME f.mode = "call" PROVE f.cs = KeptOf(f, f.j, saved')
      OBVIOUS
    <3>1. f.j \in Gone(f, FALSE)
      <4>1. f.nd.op = "SEQ" /\ f.j \in 1 .. Len(f.nd.c) + 1 /\ f.j <= Len(f.nd.c) /\ Child(f).op = "CALL"
        BY <2>2 DEF IsFrame
      <4>2. Len(f.nd.c) \in Nat
        BY <1>1, <2>2, NodeFacts
      <4>3. QED BY <4>1, <4>2 DEF Gone, Child
    <3>2. QED BY <2>2, <2>4, <3>1 DEF Keeps
  <2> HIDE DEF f, done
  <2>6. Keeps(f, FALSE, saved', freed', ref', trail')
    BY <1>1, <2>2, <2>3, <2>4, <2>5, KeepsCarried
  <2>7. QED BY <2>6 DEF f
<1>9. ASSUME NEW i \in DOMAIN k'
      PROVE  Keeps(k'[i], i = Len(k') /\ ctl'.at = "ok", saved', freed', ref', trail')
  <2> DEFINE f == k[i]
             done == i = Len(k') /\ ctl'.at = "ok"
  <2>1. k'[i] = f /\ i \in 1 .. n - 1 /\ i \in DOMAIN k
    BY <1>3
  <2>2. Keeps(f, FALSE, saved', freed', ref', trail') /\ IsFrame(f, code, DOMAIN env)
    BY <1>1, <1>8, <2>1, OnStack
  <2>3. ASSUME f.j \in Gone(f, done)
        PROVE  /\ Good(KeptOf(f, f.j, saved'), f.env, freed', ref', trail')
               /\ \A m \in Gone(f, FALSE) : KeptOf(f, m, saved').mark <= KeptOf(f, f.j, saved').mark
               /\ KeptOf(f, f.j, saved').mark \in Nat /\ f.j \in Nat
    <3>1. f.j \in Nat
      BY <1>1, <2>2, FrameFacts
    <3>2. CASE f.j \in Gone(f, FALSE)
      <4>1. KeptOf(f, f.j, saved').mark \in Nat
        <5> DEFINE j == f.j
        <5>1. j \in Gone(f, FALSE)
          BY <3>2
        <5> HIDE DEF j
        <5>2. KeptOf(f, j, saved').mark \in Nat
          BY <1>7, <2>1, <5>1
        <5>3. QED BY <5>2 DEF j
      <4>2. \A m \in Gone(f, FALSE) : m <= f.j
        BY <3>1 DEF Gone
      <4>3. QED BY <2>2, <3>1, <3>2, <4>1, <4>2 DEF Keeps
    <3>3. CASE f.j \notin Gone(f, FALSE)
      <4>1. done /\ f.mode # "call" /\ f.nd.op = "SEQ" /\ Child(f).op = "CALL"
        BY <2>3, <3>3 DEF Gone, Child
      <4>2. i = n - 1 /\ ctl'.at = "ok" /\ f.mode = "go"
        <5>1. f.mode # "alt"
          BY <2>2, <4>1 DEF IsFrame
        <5>2. f.mode \in {"go", "call", "alt"}
          BY <1>1, <2>2, FrameFacts
        <5>3. QED BY <1>3, <4>1, <5>1, <5>2
      <4>3. Top.nd = Child(f)
        <5>1. n # 1 /\ k[n].nd = Cur(k[n - 1], code)
          BY <1>1, <1>3, <2>1, <4>2 DEF StackOK
        <5>2. QED BY <1>3, <4>1, <4>2, <5>1 DEF Cur
      <4>4. Top.nd.op = "CALL" /\ KeptOf(f, f.j, saved') = s /\ s # NoCall /\ s.mark = Top.mark /\ s.senv = Top.env
            /\ s.cenv = Top.cenv /\ Restores(s, ref', trail') /\ freed' = freed
        <5>1. Top.nd.op = "CALL"
          BY <4>1, <4>3
        <5>2. saved' = [saved EXCEPT ![Top.nd.id] = s] /\ s # NoCall /\ s.mark = Top.mark /\ s.senv = Top.env
              /\ s.cenv = Top.cenv /\ Restores(s, ref', trail') /\ freed' = freed
          BY <4>2, <5>1
        <5>3. saved'[Top.nd.id] = s
          BY <1>1, <1>4, <5>2
        <5>4. KeptOf(f, f.j, saved') = saved'[Top.nd.id]
          BY <4>3 DEF KeptOf, Child
        <5>5. QED BY <5>1, <5>2, <5>3, <5>4
      <4>5. Top.env = f.env
        <5>1. Top.env = AroundIn(k, n)
          BY <1>2, <1>3 DEF OwnOK
        <5>2. AroundIn(k, n) = Inside(f)
          BY <1>3, <2>1, <4>2 DEF AroundIn
        <5>3. QED BY <4>1, <5>1, <5>2 DEF Inside
      <4>6. Top.cenv \notin freed
        BY <1>2, <1>3, <4>4 DEF LiveIn, Inside
      <4>7. s.mark <= Len(trail')
        BY <1>4, <1>5, <4>4
      <4>8. Good(s, f.env, freed', ref', trail')
        BY <4>4, <4>5, <4>6, <4>7 DEF Good
      <4>9. \A m \in Gone(f, FALSE) : KeptOf(f, m, saved').mark <= Top.mark
        BY <1>7, <2>1
      <4>10. QED BY <1>4, <3>1, <4>4, <4>8, <4>9
    <3>4. QED BY <3>2, <3>3
  <2> HIDE DEF f, done
  <2>4. Keeps(f, done, saved', freed', ref', trail')
    BY <2>2, <2>3, KeepsMore
  <2>5. QED BY <2>1, <2>4 DEF done
<1>10. ASSUME NEW i \in DOMAIN k', NEW l \in DOMAIN k', i < l
       PROVE  Before(k'[i], saved', k'[l])
  <2>1. k'[i] = k[i] /\ k'[l] = k[l] /\ i \in 1 .. n - 1 /\ i \in DOMAIN k /\ l \in DOMAIN k
    BY <1>3
  <2>2. Before(k[i], saved, k[l])
    BY <1>2, <1>10, <2>1, KeepFacts
  <2>3. \A m \in Gone(k[i], FALSE) : KeptOf(k[i], m, saved') = KeptOf(k[i], m, saved)
    BY <1>7, <2>1
  <2>4. Before(k[i], saved', k[l])
    BY <2>2, <2>3 DEF Before
  <2>5. QED BY <2>1, <2>4
<1>11. KeepOK'
  BY <1>9, <1>10 DEF KeepOK
<1>12. \A i \in 1 .. n : AroundIn(k', i) = AroundIn(k, i)
  BY <1>3 DEF AroundIn
<1>13. OwnOK'
  <2>1. \A i \in 1 .. n : k[i].env = AroundIn(k, i)
    BY <1>2, <1>3 DEF OwnOK
  <2>2. genv' = AroundIn(k', n) /\ Len(k') + 1 = n
    BY <1>3, <1>12, <2>1
  <2>3. \A i \in DOMAIN k' : k'[i].env = AroundIn(k', i)
    BY <1>3, <1>12, <2>1
  <2>4. QED BY <2>2, <2>3 DEF OwnOK
<1>14. LiveIn(k', freed')
  <2>1. \A i \in 1 .. n : AroundIn(k, i) \notin freed'
    <3>1. \A i \in 1 .. n : AroundIn(k, i) \notin freed
      <4>1. \A i \in 1 .. n : i \in 1 .. Len(k) + 1
        BY <1>3 DEF n
      <4>2. QED BY <1>1, <1>2, <4>1, AroundLive
    <3>2. Top.nd.op = "CALL" => \A i \in 1 .. n : Top.cenv # AroundIn(k, i)
      BY <1>2, <1>3 DEF LiveIn
    <3>3. QED BY <3>1, <3>2
  <2>2. 1 \notin freed'
    BY <1>3, <2>1 DEF AroundIn
  <2>3. ASSUME NEW i \in DOMAIN k' PROVE Inside(k'[i]) \notin freed'
    <3>1. i + 1 \in 1 .. n /\ i + 1 # 1 /\ i + 1 - 1 = i /\ k'[i] = k[i]
      BY <1>3
    <3>2. AroundIn(k, i + 1) = Inside(k[i])
      <4> DEFINE x == i + 1
      <4>1. x # 1 /\ x - 1 = i
        <5>1. i \in Nat /\ 1 <= i
          BY <3>1, <1>3
        <5>2. QED BY <5>1
      <4> HIDE DEF x
      <4>2. AroundIn(k, x) = Inside(k[i])
        BY <4>1 DEF AroundIn
      <4>3. QED BY <4>2 DEF x
    <3>3. QED BY <2>1, <3>1, <3>2
  <2>4. \A i, l \in DOMAIN k' : i <= l /\ k'[l].nd.op = "CALL" => k'[l].cenv # AroundIn(k', i)
    BY <1>2, <1>3, <1>12 DEF LiveIn
  <2>5. QED BY <2>2, <2>3, <2>4 DEF LiveIn
<1>15. ResumeOK'
  BY DEF ResumeOK
<1>16. QED BY <1>6, <1>11, <1>13, <1>14, <1>15 DEF OwnInv

\* What is kept of the goals that the frames below the top one have passed stays as it is.
KeptBelow == \A i \in DOMAIN k : i < Len(k) =>
                \A m \in Gone(k[i], FALSE) : KeptOf(k[i], m, saved') = KeptOf(k[i], m, saved)

LEMMA BelowKeeps ==
    ASSUME AnyInv, OwnInv, TermsOK', UNCHANGED <<code, freed>>, KeptBelow, k # <<>>, NEW M \in Nat, SamePast(M), Top.mark <= M,
           NEW i \in DOMAIN k, i < Len(k)
    PROVE  /\ Keeps(k[i], FALSE, saved', freed', ref', trail')
           /\ \A m \in Gone(k[i], FALSE) : KeptOf(k[i], m, saved).mark <= Top.mark /\ KeptOf(k[i], m, saved).mark \in Nat
<1> DEFINE f == k[i]
           done == i = Len(k) /\ ctl.at = "ok"
<1>1. code \in Codes /\ TermsOK /\ StatesOK /\ StackOK /\ KeepOK
  BY DEF AnyInv, OwnInv
<1>2. f.nd \in code.nodes /\ Keeps(f, done, saved, freed, ref, trail) /\ IsFrame(f, code, DOMAIN env) /\ ~done
      /\ Len(k) \in DOMAIN k /\ Len(k) \in Nat /\ i \in Nat /\ Top.mark \in Nat
  <2>1. Len(k) \in DOMAIN k
    BY <1>1, StackFacts
  <2>2. QED BY <1>1, <2>1, OnStack, KeepFacts DEF Top
<1>3. Gone(f, FALSE) = Gone(f, done)
  BY <1>2 DEF Gone
<1>4. ASSUME NEW m \in Gone(f, FALSE)
      PROVE  /\ KeptOf(f, m, saved') = KeptOf(f, m, saved) /\ KeptOf(f, m, saved).mark <= M
             /\ KeptOf(f, m, saved).cenv \notin freed'
             /\ KeptOf(f, m, saved).mark <= Top.mark /\ KeptOf(f, m, saved).mark \in Nat
  <2>1. KeptOf(f, m, saved') = KeptOf(f, m, saved)
    BY DEF KeptBelow
  <2>2. Before(k[i], saved, k[Len(k)])
    BY <1>1, <1>2, KeepFacts
  <2>3. KeptOf(f, m, saved).mark <= Top.mark
    BY <2>2 DEF Before, Top
  <2>4. KeptOf(f, m, saved).mark \in Nat
    BY <1>1, <1>2, KeptType
  <2>5. KeptOf(f, m, saved).cenv \notin freed
    BY <1>2, <1>3 DEF Keeps, Good
  <2>6. KeptOf(f, m, saved).mark <= M
    BY <1>2, <2>3, <2>4
  <2>7. QED BY <2>1, <2>3, <2>4, <2>5, <2>6
<1>5. f.mode = "call" => f.cs = KeptOf(f, f.j, saved')
  <2> SUFFICES ASSUME f.mode = "call" PROVE f.cs = KeptOf(f, f.j, saved')
    OBVIOUS
  <2>1. f.j \in Gone(f, FALSE)
    <3>1. f.nd.op = "SEQ" /\ f.j \in 1 .. Len(f.nd.c) + 1 /\ f.j <= Len(f.nd.c) /\ Child(f).op = "CALL"
      BY <1>2 DEF IsFrame
    <3>2. Len(f.nd.c) \in Nat
      BY <1>1, <1>2, NodeFacts
    <3>3. QED BY <3>1, <3>2 DEF Gone, Child
  <2>2. QED BY <1>2, <1>4, <2>1 DEF Keeps
<1>6. Gone(f, FALSE) \subseteq Gone(f, done)
  BY <1>3
<1>7. \A m \in Gone(f, FALSE) : KeptOf(f, m, saved).mark <= Top.mark /\ KeptOf(f, m, saved).mark \in Nat
  BY <1>4
<1>8. \A m \in Gone(f, FALSE) : KeptOf(f, m, saved') = KeptOf(f, m, saved) /\ KeptOf(f, m, saved).mark <= M
                                  /\ KeptOf(f, m, saved).cenv \notin freed'
  BY <1>4
<1> HIDE DEF f, done
<1>9. Keeps(f, FALSE, saved', freed', ref', trail')
  BY <1>1, <1>2, <1>5, <1>6, <1>8, KeepsCarried
<1>10. QED BY <1>7, <1>9 DEF f

LEMMA OwnTop ==
    ASSUME AnyInv, AnyInv', OwnInv, UNCHANGED <<code, freed>>, k # <<>>,
           NEW f, SetTop(f), f.nd = Top.nd, f.env = Top.env, Top.nd.op # "CALL", ctl'.at # "ok", f \in FramesOf(code),
           f.mark \in Nat, Top.mark <= f.mark, NEW M \in Nat, SamePast(M), Top.mark <= M, KeptBelow,
           Gone(f, FALSE) \subseteq Passed(Len(k)),
           \A m \in Gone(f, FALSE) : KeptOf(f, m, saved') = KeptOf(f, m, saved) /\ KeptOf(f, m, saved).mark <= M,
           f.mode = "call" => /\ f.cs = KeptOf(f, f.j, saved') /\ f.cs.mark = Len(trail'),
           genv' = Inside(f)
    PROVE  OwnInv'
<1> DEFINE n == Len(k)
<1>1. code \in Codes /\ TermsOK /\ TermsOK' /\ StatesOK /\ StackOK
  BY DEF AnyInv
<1>2. PathOf(k) /\ KeepOK /\ OwnOK /\ LiveIn(k, freed)
  BY DEF OwnInv
<1>3. /\ n \in Nat \ {0} /\ DOMAIN k = 1 .. n /\ DOMAIN k' = 1 .. n /\ Len(k') = n /\ Top = k[n] /\ n \in DOMAIN k
      /\ k'[n] = f /\ \A i \in 1 .. n - 1 : k'[i] = k[i] /\ i \in DOMAIN k /\ i < n
  <2>1. k \in Seq(FramesOf(code)) /\ f \in FramesOf(code) /\ k' = [k EXCEPT ![Len(k)] = f]
    BY <1>1 DEF StackOK, SetTop
  <2>2. n \in Nat \ {0} /\ DOMAIN k = 1 .. n /\ Top = k[n] /\ n \in DOMAIN k
    BY <1>1, StackFacts
  <2>3. Len(k') = n /\ DOMAIN k' = 1 .. n /\ k'[n] = f /\ \A i \in 1 .. n - 1 : k'[i] = k[i]
    <3>1. Len(k') = Len(k) /\ DOMAIN k' = 1 .. Len(k) /\ k'[Len(k)] = f /\ \A i \in DOMAIN k : i # Len(k) => k'[i] = k[i]
      BY <2>1, TopReplaced
    <3>2. QED BY <2>2, <3>1
  <2>4. QED BY <2>2, <2>3
<1>4. IsFrame(Top, code, DOMAIN env) /\ Top.nd \in code.nodes /\ Top.mark \in Nat
  BY <1>1, <1>3, OnStack
<1> HIDE DEF n
<1>16. IsFrame(f, code, DOMAIN env')
  <2>1. StackOK' /\ n \in DOMAIN k'
    BY <1>3 DEF AnyInv
  <2>2. IsFrame(k'[n], code', DOMAIN env')
    BY <2>1 DEF StackOK
  <2>3. QED BY <1>3, <2>2
<1>5. \A i \in DOMAIN k' : k'[i].nd = k[i].nd /\ (i = n \/ i \in 1 .. n - 1)
  BY <1>3
<1>6. PathOf(k')
  BY <1>2, <1>3 DEF PathOf, Away
<1>7. f.mode = "call" => f.j \in Gone(f, FALSE)
  <2> SUFFICES ASSUME f.mode = "call" PROVE f.j \in Gone(f, FALSE)
    OBVIOUS
  <2>1. f.nd.op = "SEQ" /\ f.j \in 1 .. Len(f.nd.c) + 1 /\ f.j <= Len(f.nd.c) /\ Child(f).op = "CALL"
    BY <1>16 DEF IsFrame
  <2>2. Len(f.nd.c) \in Nat
    BY <1>1, <1>4, NodeFacts
  <2>3. QED BY <2>1, <2>2 DEF Gone, Child
<1>8. Keeps(f, FALSE, saved', freed', ref', trail')
  <2> DEFINE done == n = Len(k) /\ ctl.at = "ok"
             g == Top
  <2>1. Keeps(g, done, saved, freed, ref, trail) /\ g.nd \in code.nodes /\ f.nd = g.nd /\ f.env = g.env
    BY <1>2, <1>3, <1>4, KeepFacts DEF Top
  <2>2. Gone(f, FALSE) \subseteq Gone(g, done)
    <3>1. Passed(Len(k)) = Gone(g, done)
      BY <1>3 DEF Passed, n
    <3>2. QED BY <3>1
  <2>3. \A m \in Gone(f, FALSE) : KeptOf(g, m, saved') = KeptOf(g, m, saved) /\ KeptOf(g, m, saved).mark <= M
    BY <2>1 DEF KeptOf
  <2>4. \A m \in Gone(f, FALSE) : KeptOf(g, m, saved).cenv \notin freed'
    BY <2>1, <2>2 DEF Keeps, Good
  <2>5. \A m \in Gone(f, FALSE) : KeptOf(g, m, saved') = KeptOf(g, m, saved) /\ KeptOf(g, m, saved).mark <= M
                                    /\ KeptOf(g, m, saved).cenv \notin freed'
    BY <2>3, <2>4
  <2> HIDE DEF g, done
  <2>6. QED BY <1>1, <2>1, <2>2, <2>5, KeepsCarried
<1>9. ASSUME NEW i \in DOMAIN k'
      PROVE  Keeps(k'[i], i = Len(k') /\ ctl'.at = "ok", saved', freed', ref', trail')
  <2> DEFINE done == i = Len(k') /\ ctl'.at = "ok"
  <2>1. ~done /\ done \in BOOLEAN
    OBVIOUS
  <2>2. done = FALSE
    BY <2>1
  <2> HIDE DEF done
  <2>3. Keeps(k'[i], FALSE, saved', freed', ref', trail')
    <3>1. CASE i = n
      BY <1>3, <1>8, <3>1
    <3>2. CASE i \in 1 .. n - 1
      <4>1. i \in DOMAIN k /\ i < Len(k) /\ k'[i] = k[i]
        BY <1>3, <3>2 DEF n
      <4>2. QED BY <1>1, <4>1, BelowKeeps
    <3>3. QED BY <1>5, <3>1, <3>2
  <2>4. QED BY <2>2, <2>3 DEF done
<1>10. ASSUME NEW i \in DOMAIN k', NEW l \in DOMAIN k', i < l
       PROVE  Before(k'[i], saved', k'[l])
  <2>1. k'[i] = k[i] /\ i \in DOMAIN k /\ l \in DOMAIN k /\ i < n
    BY <1>3, <1>10
  <2>2. \A m \in Gone(k[i], FALSE) : /\ KeptOf(k[i], m, saved') = KeptOf(k[i], m, saved)
                                     /\ KeptOf(k[i], m, saved).mark <= Top.mark /\ KeptOf(k[i], m, saved).mark \in Nat
    <3>1. i < Len(k)
      BY <2>1 DEF n
    <3>2. \A m \in Gone(k[i], FALSE) : KeptOf(k[i], m, saved).mark <= Top.mark /\ KeptOf(k[i], m, saved).mark \in Nat
      BY <1>1, <2>1, <3>1, BelowKeeps
    <3>3. QED BY <2>1, <3>1, <3>2 DEF KeptBelow
  <2>3. CASE l = n
    <3>1. k'[l] = f
      BY <1>3, <2>3
    <3>2. ASSUME NEW m \in Gone(k[i], FALSE)
          PROVE  KeptOf(k[i], m, saved').mark <= f.mark
      <4> DEFINE x == KeptOf(k[i], m, saved).mark
      <4>1. x <= Top.mark /\ x \in Nat /\ KeptOf(k[i], m, saved').mark = x
        BY <2>2
      <4> HIDE DEF x
      <4>2. QED BY <1>4, <4>1
    <3>3. QED BY <2>1, <3>1, <3>2 DEF Before
  <2>4. CASE l # n
    <3>1. k'[l] = k[l]
      BY <1>3, <1>5, <2>4
    <3>2. Before(k[i], saved, k[l])
      BY <1>2, <1>10, <2>1, KeepFacts
    <3>3. QED BY <2>1, <2>2, <3>1, <3>2 DEF Before
  <2>5. QED BY <2>3, <2>4
<1>11. KeepOK'
  BY <1>9, <1>10 DEF KeepOK
<1>12. \A i \in 1 .. n : AroundIn(k', i) = AroundIn(k, i) /\ k[i].env = AroundIn(k, i)
  BY <1>2, <1>3 DEF AroundIn, OwnOK
<1>13. OwnOK'
  <2>1. AroundIn(k', Len(k') + 1) = Inside(f)
    <3> DEFINE x == n + 1
    <3>1. x # 1 /\ x - 1 = n
      BY <1>3
    <3> HIDE DEF x
    <3>2. AroundIn(k', x) = Inside(f)
      BY <1>3, <3>1 DEF AroundIn
    <3>3. QED BY <1>3, <3>2 DEF x
  <2>2. \A i \in DOMAIN k' : k'[i].env = AroundIn(k', i)
    <3>1. f.env = k[n].env
      BY <1>3
    <3>2. QED BY <1>3, <1>5, <1>12, <3>1
  <2>3. QED BY <2>1, <2>2 DEF OwnOK
<1>14. LiveIn(k', freed')
  <2>1. 1 \notin freed'
    BY <1>2 DEF LiveIn
  <2>2. ASSUME NEW i \in DOMAIN k' PROVE Inside(k'[i]) \notin freed'
    <3>1. CASE i # n
      <4>1. k'[i] = k[i] /\ i \in DOMAIN k
        BY <1>3, <1>5, <3>1
      <4>2. QED BY <1>2, <4>1 DEF LiveIn
    <3>2. CASE i = n /\ f.mode = "call"
      <4>1. Good(f.cs, f.env, freed', ref', trail')
        BY <1>7, <1>8, <3>2 DEF Keeps
      <4>2. Inside(f) = f.cs.cenv
        BY <3>2 DEF Inside
      <4>3. QED BY <1>3, <3>2, <4>1, <4>2 DEF Good
    <3>3. CASE i = n /\ f.mode # "call"
      <4>1. Inside(f) = AroundIn(k, n)
        BY <1>3, <1>12, <3>3 DEF Inside
      <4>2. n \in 1 .. Len(k) + 1
        BY <1>3 DEF n
      <4>3. AroundIn(k, n) \notin freed
        BY <1>1, <1>2, <4>2, AroundLive
      <4>4. QED BY <1>3, <3>3, <4>1, <4>3
    <3>4. QED BY <3>1, <3>2, <3>3
  <2>3. ASSUME NEW i \in DOMAIN k', NEW l \in DOMAIN k', i <= l, k'[l].nd.op = "CALL"
        PROVE  k'[l].cenv # AroundIn(k', i)
    <3>1. l # n
      BY <1>3, <2>3
    <3>2. k'[l] = k[l] /\ l \in DOMAIN k /\ i \in DOMAIN k
      BY <1>3, <1>5, <3>1
    <3>3. QED BY <1>2, <1>3, <1>12, <2>3, <3>2 DEF LiveIn
  <2>4. QED BY <2>1, <2>2, <2>3 DEF LiveIn
<1>15. ResumeOK'
  <2>1. Top' = f
    BY <1>3 DEF Top
  <2>2. QED BY <2>1 DEF ResumeOK
<1>17. QED BY <1>6, <1>11, <1>13, <1>14, <1>15 DEF OwnInv

-----------------------------------------------------------------------------
(* Every step of a program without recursion.                              *)

LEMMA PastSame ==
    ASSUME TermsOK, UNCHANGED <<ref, trail>>
    PROVE  SamePast(Len(trail)) /\ Len(trail) \in Nat /\ Len(trail') = Len(trail)
<1>1. Len(ref) \in Nat /\ Len(trail) \in Nat
  BY RefFacts
<1>2. \A m \in 0 .. Len(trail) : Unwound(m)' = Unwound(m)
  BY DEF Unwound
<1>3. Len(ref) <= Len(ref') /\ Len(trail) <= Len(trail')
  BY <1>1
<1>4. QED BY <1>1, <1>2, <1>3 DEF SamePast

LEMMA OwnHere ==
    ASSUME AnyInv, OwnInv, k # <<>>
    PROVE  /\ code \in Codes /\ IsFrame(Top, code, DOMAIN env) /\ Top \in FramesOf(code) /\ Top.nd \in code.nodes /\ Top.nd.id \in Ids
           /\ (ctl.at # "try" => InRange(Top))
           /\ genv = Inside(Top) /\ (Top.nd.op # "CALL" /\ Top.mode # "call" => genv = Top.env)
           /\ Top.nd.op = "SEQ" /\ Top.mode = "call" => Top.cs.senv = Top.env /\ Top.cs = KeptOf(Top, Top.j, saved)
           /\ Top.mark \in Nat /\ Len(trail) \in Nat /\ Top.mark <= Len(trail)
           /\ Keeps(Top, ctl.at = "ok", saved, freed, ref, trail)
           /\ \A m \in Gone(Top, ctl.at = "ok") : KeptOf(Top, m, saved).mark \in Nat /\ Top.mark <= KeptOf(Top, m, saved).mark
           /\ Passed(Len(k)) = Gone(Top, ctl.at = "ok")
<1> DEFINE n == Len(k)
           done == n = Len(k) /\ ctl.at = "ok"
<1>1. code \in Codes /\ TermsOK /\ StatesOK /\ StackOK /\ MarksOK /\ KeepOK /\ OwnOK
  BY DEF AnyInv, OwnInv
<1>2. n \in DOMAIN k /\ Top = k[n] /\ n \in Nat \ {0} /\ Top.nd \in code.nodes /\ IsFrame(Top, code, DOMAIN env)
      /\ Top \in FramesOf(code) /\ (ctl.at # "try" => InRange(Top))
  BY <1>1, StackFacts
<1>3. Top.mark \in Nat /\ Len(trail) \in Nat /\ Top.mark <= Len(trail)
  BY <1>1, <1>2, MarkFacts, RefFacts, FrameFacts DEF MarksOK
<1>4. Keeps(Top, done, saved, freed, ref, trail) /\ done = (ctl.at = "ok")
  BY <1>1, <1>2, KeepFacts
<1>5. genv = Inside(Top)
  <2> DEFINE x == n + 1
  <2>1. x # 1 /\ x - 1 = n
    BY <1>2
  <2>2. genv = AroundIn(k, x)
    BY <1>1 DEF OwnOK
  <2> HIDE DEF x
  <2>3. QED BY <1>2, <2>1, <2>2 DEF AroundIn
<1>6. Top.nd.op = "SEQ" /\ Top.mode = "call" => Top.cs.senv = Top.env /\ Top.cs = KeptOf(Top, Top.j, saved)
  <2> SUFFICES ASSUME Top.nd.op = "SEQ", Top.mode = "call" PROVE Top.cs.senv = Top.env /\ Top.cs = KeptOf(Top, Top.j, saved)
    OBVIOUS
  <2>1. Top.j \in 1 .. Len(Top.nd.c) /\ Child(Top).op = "CALL" /\ Child(Top) = Top.nd.c[Top.j]
    BY CallFrame
  <2>2. Top.j \in Gone(Top, done)
    BY <2>1 DEF Gone
  <2>3. Good(KeptOf(Top, Top.j, saved), Top.env, freed, ref, trail)
    BY <1>4, <2>2 DEF Keeps
  <2>4. QED BY <1>4, <2>3 DEF Keeps, Good
<1>7. Passed(Len(k)) = Gone(Top, ctl.at = "ok")
  BY <1>2 DEF Passed
<1>8. \A m \in Gone(Top, ctl.at = "ok") : KeptOf(Top, m, saved).mark \in Nat /\ Top.mark <= KeptOf(Top, m, saved).mark
  <2> SUFFICES ASSUME NEW m \in Gone(Top, ctl.at = "ok")
               PROVE  KeptOf(Top, m, saved).mark \in Nat /\ Top.mark <= KeptOf(Top, m, saved).mark
    OBVIOUS
  <2>1. KeptOf(Top, m, saved).mark \in Nat /\ KeptOf(Top, m, saved) = saved[Top.nd.c[m].id]
    BY <1>1, <1>2, KeptType
  <2>2. KeptOf(Top, m, saved) # NoCall
    BY <1>4 DEF Keeps, Good
  <2>3. m \in Passed(n)
    BY <1>7
  <2>4. QED BY <1>1, <1>2, <2>1, <2>2, <2>3 DEF MarksOK
<1>9. Top.nd.id \in Ids /\ (Top.nd.op # "CALL" /\ Top.mode # "call" => genv = Top.env)
  BY <1>2, <1>5 DEF Inside, Ids
<1>10. QED BY <1>1, <1>2, <1>3, <1>4, <1>5, <1>6, <1>7, <1>8, <1>9

LEMMA BelowSame ==
    ASSUME saved' = saved
    PROVE  KeptBelow
BY DEF KeptBelow, KeptOf

\* What is kept of a goal of the top frame is not what a frame below keeps.
LEMMA BelowElsewhere ==
    ASSUME AnyInv, OwnInv, k # <<>>, Top.nd.op # "CALL", NEW m \in 1 .. Len(Top.nd.c), NEW s,
           saved' = [saved EXCEPT ![Top.nd.c[m].id] = s]
    PROVE  /\ KeptBelow
           /\ \A x \in Gone(Top, FALSE) \ {m} : KeptOf(Top, x, saved') = KeptOf(Top, x, saved)
<1>1. code \in Codes /\ StackOK /\ StatesOK /\ PathOf(k) /\ saved \in [Ids -> Kept]
  BY DEF AnyInv, OwnInv, StatesOK
<1>2. ASSUME NEW i \in DOMAIN k, i < Len(k), NEW x \in Gone(k[i], FALSE)
      PROVE  KeptOf(k[i], x, saved') = KeptOf(k[i], x, saved)
  <2>1. k[i].nd.c[x].id # Top.nd.c[m].id
    BY <1>1, <1>2, PassedElsewhere
  <2>2. k[i].nd.c[x].id \in Ids
    BY <1>1, OnStack, KeptType
  <2>3. QED BY <1>1, <2>1, <2>2 DEF KeptOf
<1>3. ASSUME NEW x \in Gone(Top, FALSE), x # m
      PROVE  KeptOf(Top, x, saved') = KeptOf(Top, x, saved)
  <2>1. x \in 1 .. Len(Top.nd.c) /\ IsFrame(Top, code, DOMAIN env) /\ Top.nd \in code.nodes
    BY <1>1, StackFacts DEF Gone
  <2> DEFINE p == Len(Top.nd.id[2]) + 1
             f == Top
  <2>2. f.nd.c[x].id[2][p] = x /\ f.nd.c[m].id[2][p] = m
    <3> HIDE DEF f
    <3>1. IsFrame(f, code, DOMAIN env) /\ x \in 1 .. Len(f.nd.c) /\ m \in 1 .. Len(f.nd.c)
      BY <2>1 DEF f
    <3>2. f.nd.c[x].id[2][Len(f.nd.id[2]) + 1] = x /\ f.nd.c[m].id[2][Len(f.nd.id[2]) + 1] = m
      BY <1>1, <3>1, ChildId
    <3>3. QED BY <3>2 DEF f
  <2>3. Top.nd.c[x].id # Top.nd.c[m].id
    BY <1>3, <2>2
  <2>4. Top.nd.c[x].id \in Ids
    BY <1>1, <2>1, KeptType
  <2>5. QED BY <1>1, <2>3, <2>4 DEF KeptOf
<1>4. QED BY <1>2, <1>3 DEF KeptBelow

LEMMA OwnLeaf ==
    ASSUME AnyInv, OwnInv, ExecUnify \/ ExecCut \/ ExecWrite \/ ExecIs \/ ExecGt \/ ExecConst \/ CallFailsAtOnce
    PROVE  OwnInv'
BY AnyLeaf, OwnReturn

LEMMA OwnEnter ==
    ASSUME AnyInv, OwnInv, ~Recursive(code), ExecSeq \/ ExecAlt \/ ExecChoice
    PROVE  OwnInv'
<1>1. AnyInv' /\ SamePast(Len(trail)) /\ UNCHANGED <<code, saved, genv, freed>> /\ UNCHANGED <<ref, trail>>
      /\ ctl.at = "exec" /\ ctl'.at \in {"exec", "try"}
  BY AnyEnter
<1>2. PICK f \in FramesOf(code) : /\ f.nd = ctl.nd /\ f.mark = Len(trail) /\ f.mode = "go"
                                  /\ f.env = genv /\ f.nd.op # "CALL" /\ (f.nd.op = "SEQ" => f.j = 1)
                                  /\ k' = Append(k, f)
  BY AnyEnter
<1>3. Gone(f, FALSE) = {}
  <2>1. ASSUME NEW m \in Gone(f, FALSE) PROVE FALSE
    <3>1. m \in 1 .. Len(f.nd.c) /\ m < 1
      BY <1>2 DEF Gone
    <3>2. QED BY <3>1
  <2>2. QED BY <2>1
<1>4. f.mark = Len(trail') /\ ctl'.at # "ok" /\ UNCHANGED <<code, saved, freed>> /\ genv' = genv
  BY <1>1, <1>2
<1>5. QED BY <1>1, <1>2, <1>3, <1>4, OwnPush

LEMMA OwnCallMade ==
    ASSUME AnyInv, AnyInv', OwnInv, ~Recursive(code), ExecCall
    PROVE  OwnInv'
<1> DEFINE f == CallMade
<1>1. /\ SamePast(Len(trail)) /\ UNCHANGED <<code, saved>> /\ freed' = freed
      /\ ctl.at = "exec" /\ ctl.nd.op = "CALL" /\ genv' = Len(env) + 1 /\ Len(env) \in Nat
      /\ f \in FramesOf(code) /\ f.nd = ctl.nd /\ f.mark = Len(trail') /\ f.cenv = Len(env) + 1
      /\ f.mode = "go" /\ f.env = genv /\ k' = Append(k, f) /\ ctl'.at = "exec"
  BY CallMadeFacts
<1>2. f.cenv \notin DOMAIN env
  <2>1. DOMAIN env = 1 .. Len(env)
    BY EnvFacts DEF AnyInv
  <2>2. QED BY <1>1, <2>1
<1>3. Gone(f, FALSE) = {}
  BY <1>1 DEF Gone
<1> HIDE DEF f
<1>4. ctl'.at # "ok" /\ UNCHANGED <<code, saved, freed>> /\ genv' = f.cenv /\ f.nd.op = "CALL"
  BY <1>1
<1>5. QED BY <1>1, <1>2, <1>3, <1>4, OwnPush

LEMMA OwnForward ==
    ASSUME AnyInv, AnyInv', OwnInv, In("SEQ", "ok"), Forward(Top, Top.j + 1),
           UNCHANGED <<code, saved, freed, ref, trail>>, genv' = Top.env
    PROVE  OwnInv'
<1> DEFINE f == Moved(Top, Top.j + 1)
           M == Len(trail)
<1>1. k # <<>> /\ Top.nd.op = "SEQ" /\ ctl.at = "ok" /\ TermsOK /\ code \in Codes
  BY DEF In, AnyInv
<1>2. /\ IsFrame(Top, code, DOMAIN env) /\ Top.nd \in code.nodes /\ Top.mark \in Nat /\ Top.mark <= M /\ M \in Nat
      /\ Keeps(Top, TRUE, saved, freed, ref, trail) /\ Passed(Len(k)) = Gone(Top, TRUE)
  BY <1>1, OwnHere
<1>3. SamePast(M) /\ KeptBelow
  BY <1>1, PastSame, BelowSame
<1>4. CASE Top.j + 1 <= Len(Top.nd.c)
  <2>1. SetTop(f) /\ ctl'.at = "exec"
    BY <1>4 DEF Forward, Exec, Moved
  <2>2. Top.j + 1 \in 1 .. Len(Top.nd.c) /\ Top.j \in Nat
    <3>1. Top.j \in Nat /\ Len(Top.nd.c) \in Nat
      BY <1>1, <1>2, FrameFacts, NodeFacts
    <3>2. QED BY <3>1, <1>4
  <2>3. f \in FramesOf(code) /\ f.nd = Top.nd /\ f.j = Top.j + 1 /\ f.mode = "go" /\ f.mark = Top.mark /\ f.env = Top.env
    BY <1>1, <2>2, SeqFrame
  <2> HIDE DEF f, M
  <2>4. Gone(f, FALSE) \subseteq Gone(Top, TRUE)
    BY <2>2, <2>3 DEF Gone
  <2>5. \A m \in Gone(f, FALSE) : KeptOf(f, m, saved') = KeptOf(f, m, saved) /\ KeptOf(f, m, saved).mark <= M
    <3>1. \A m \in Gone(Top, TRUE) : KeptOf(Top, m, saved).mark <= Len(trail)
      BY <1>2 DEF Keeps, Good
    <3>2. QED BY <2>3, <2>4, <3>1 DEF KeptOf, M
  <2>6. genv' = Inside(f)
    BY <1>1, <2>3 DEF Inside
  <2>7. ctl'.at # "ok" /\ UNCHANGED <<code, freed>> /\ Top.nd.op # "CALL" /\ f.mark \in Nat /\ Top.mark <= f.mark
        /\ Gone(f, FALSE) \subseteq Passed(Len(k)) /\ f.mode # "call"
    <3>1. f.mark \in Nat /\ Top.mark <= f.mark
      BY <1>2, <2>3
    <3>2. Gone(f, FALSE) \subseteq Passed(Len(k))
      BY <1>2, <2>4
    <3>3. QED BY <1>1, <2>1, <2>3, <3>1, <3>2
  <2>8. QED BY <1>1, <1>2, <1>3, <2>1, <2>3, <2>5, <2>6, <2>7, OwnTop
<1>5. CASE ~(Top.j + 1 <= Len(Top.nd.c))
  <2>1. Pop /\ ctl'.at = "ok"
    BY <1>5 DEF Forward, Return
  <2> DEFINE s == NoCall
  <2>2. /\ Top.nd.op # "CALL" /\ saved' = saved /\ freed' = freed /\ UNCHANGED code
        /\ ctl.at \in {"ok", "fail", "back", "try"} /\ ctl'.at \in {"ok", "fail"}
    BY <1>1, <2>1
  <2> HIDE DEF M, s
  <2>3. QED BY <1>1, <1>2, <1>3, <2>1, <2>2, OwnPop
<1>6. QED BY <1>4, <1>5

LEMMA OwnBackward ==
    ASSUME AnyInv, AnyInv', OwnInv, In("SEQ", "fail"), Backward(Top, Top.j),
           UNCHANGED <<code, freed, ref, trail>>, genv' = Top.env,
           saved' = saved \/ saved' = [saved EXCEPT ![Top.nd.c[Top.j].id] = NoCall]
    PROVE  OwnInv'
<1> DEFINE f == Moved(Top, Top.j)
           M == Len(trail)
           j == Top.j
           s == NoCall
<1>1. k # <<>> /\ Top.nd.op = "SEQ" /\ ctl.at = "fail" /\ TermsOK /\ code \in Codes
  BY DEF In, AnyInv
<1>2. /\ IsFrame(Top, code, DOMAIN env) /\ Top.nd \in code.nodes /\ Top.mark \in Nat /\ Top.mark <= M /\ M \in Nat
      /\ Keeps(Top, FALSE, saved, freed, ref, trail) /\ Passed(Len(k)) = Gone(Top, FALSE) /\ InRange(Top)
  BY <1>1, OwnHere
<1>3. SamePast(M)
  BY <1>1, PastSame
<1>4. SetTop(f) /\ ctl'.at = "back"
  BY DEF Backward, Go, Moved
<1>5. j \in 1 .. Len(Top.nd.c)
  BY <1>1, <1>2, FrameFacts
<1>6. f \in FramesOf(code) /\ f.nd = Top.nd /\ f.j = j /\ f.mode = "go" /\ f.mark = Top.mark /\ f.env = Top.env
  BY <1>1, <1>5, SeqFrame
<1>7. saved' = saved \/ saved' = [saved EXCEPT ![Top.nd.c[j].id] = s]
  OBVIOUS
<1>8. j = Top.j
  OBVIOUS
<1> HIDE DEF f, M, j, s
<1>9. KeptBelow /\ \A x \in Gone(Top, FALSE) \ {j} : KeptOf(Top, x, saved') = KeptOf(Top, x, saved)
  <2>1. CASE saved' = saved
    BY <2>1, BelowSame DEF KeptOf
  <2>2. CASE saved' = [saved EXCEPT ![Top.nd.c[j].id] = s]
    <3>1. Top.nd.op # "CALL"
      BY <1>1
    <3>2. QED BY <1>1, <1>5, <2>2, <3>1, BelowElsewhere
  <2>3. QED BY <1>7, <2>1, <2>2
<1>10. Gone(f, FALSE) \subseteq Gone(Top, FALSE) \ {j}
  <2>1. ASSUME NEW m \in Gone(f, FALSE)
        PROVE  m \in Gone(Top, FALSE) \ {j}
    <3>1. m \in 1 .. Len(f.nd.c) /\ m < j /\ f.nd.op = "SEQ" /\ f.nd.c[m].op = "CALL"
      BY <1>6 DEF Gone
    <3>2. Len(f.nd.c) \in Nat
      BY <1>1, <1>2, <1>6, NodeFacts
    <3>3. m # j
      BY <1>5, <1>6, <3>1, <3>2
    <3>4. QED BY <1>6, <1>8, <3>1, <3>3 DEF Gone
  <2>2. QED BY <2>1
<1>11. \A m \in Gone(f, FALSE) : KeptOf(f, m, saved') = KeptOf(f, m, saved) /\ KeptOf(f, m, saved).mark <= M
  <2>1. \A m \in Gone(Top, FALSE) : KeptOf(Top, m, saved).mark <= Len(trail)
    BY <1>2 DEF Keeps, Good
  <2>2. QED BY <1>6, <1>9, <1>10, <2>1 DEF KeptOf, M
<1>12. genv' = Inside(f)
  BY <1>1, <1>6 DEF Inside
<1>13. ctl'.at # "ok" /\ UNCHANGED <<code, freed>> /\ Top.nd.op # "CALL" /\ f.mark \in Nat /\ Top.mark <= f.mark
       /\ Gone(f, FALSE) \subseteq Passed(Len(k)) /\ f.mode # "call"
  <2>1. f.mark \in Nat /\ Top.mark <= f.mark
    BY <1>2, <1>6
  <2>2. Gone(f, FALSE) \subseteq Passed(Len(k))
    BY <1>2, <1>10
  <2>3. QED BY <1>1, <1>4, <1>6, <2>1, <2>2
<1>14. QED BY <1>1, <1>2, <1>3, <1>4, <1>6, <1>9, <1>11, <1>12, <1>13, OwnTop

LEMMA SeqGoalOwn ==
    ASSUME AnyInv, AnyInv', OwnInv, SeqGoal \/ SeqAltDone
    PROVE  OwnInv'
<1>1. /\ \/ In("SEQ", "ok") /\ Forward(Top, Top.j + 1)
         \/ In("SEQ", "fail") /\ Backward(Top, Top.j)
      /\ Top.mode # "call" /\ UNCHANGED <<code, saved, genv, freed, ref, trail>>
  BY DEF SeqGoal, SeqAltDone, terms, envs
<1>2. genv' = Top.env
  <2>1. k # <<>> /\ Top.nd.op = "SEQ"
    BY <1>1 DEF In
  <2>2. QED BY <1>1, <2>1, OwnHere
<1>3. CASE In("SEQ", "ok") /\ Forward(Top, Top.j + 1)
  BY <1>1, <1>2, <1>3, OwnForward
<1>4. CASE In("SEQ", "fail") /\ Backward(Top, Top.j)
  BY <1>1, <1>2, <1>4, OwnBackward
<1>5. QED BY <1>1, <1>3, <1>4

LEMMA SeqCallOwn ==
    ASSUME AnyInv, AnyInv', OwnInv, SeqCallAgain \/ SeqCallExhausted
    PROVE  OwnInv'
<1>1. /\ In("SEQ", "ok") \/ In("SEQ", "fail")
      /\ Top.mode = "call" /\ genv' = Top.cs.senv /\ UNCHANGED <<code, freed, ref, trail>>
  BY DEF SeqCallAgain, SeqCallExhausted, terms
<1>2. genv' = Top.env
  <2>1. k # <<>> /\ Top.nd.op = "SEQ"
    BY <1>1 DEF In
  <2>2. Top.cs.senv = Top.env
    BY <1>1, <2>1, OwnHere
  <2>3. QED BY <1>1, <2>2
<1>3. CASE SeqCallAgain
  <2>1. In("SEQ", "ok") /\ Forward(Top, Top.j + 1) /\ UNCHANGED <<code, saved, freed, ref, trail>>
    BY <1>3 DEF SeqCallAgain, terms
  <2>2. QED BY <1>2, <2>1, OwnForward
<1>4. CASE SeqCallExhausted
  <2>1. In("SEQ", "fail") /\ Backward(Top, Top.j) /\ saved' = [saved EXCEPT ![Top.nd.c[Top.j].id] = NoCall]
    BY <1>4 DEF SeqCallExhausted
  <2>2. QED BY <1>1, <1>2, <2>1, OwnBackward
<1>5. QED BY <1>3, <1>4

LEMMA SeqFailsOwn ==
    ASSUME AnyInv, AnyInv', OwnInv, SeqFails
    PROVE  OwnInv'
<1> DEFINE M == Len(trail)
           s == NoCall
<1>1. /\ k # <<>> /\ Top.nd.op = "SEQ" /\ ctl.at = "back" /\ Pop /\ ctl'.at = "fail"
      /\ UNCHANGED <<code, saved, genv, freed, ref, trail>>
  BY DEF SeqFails, In, Return, terms, envs
<1>2. TermsOK /\ StackOK
  BY DEF AnyInv
<1>3. Top.mode = "go"
  BY <1>1, <1>2 DEF StackOK
<1>4. genv' = Top.env /\ Top.mark <= M /\ M \in Nat
  BY <1>1, <1>3, OwnHere
<1>5. SamePast(M)
  BY <1>1, <1>2, PastSame
<1>6. /\ Top.nd.op # "CALL" /\ saved' = saved /\ freed' = freed /\ UNCHANGED code
      /\ ctl.at \in {"ok", "fail", "back", "try"} /\ ctl'.at \in {"ok", "fail"}
  BY <1>1
<1> HIDE DEF M, s
<1>7. QED BY <1>1, <1>4, <1>5, <1>6, OwnPop

LEMMA SeqResumesAltOwn ==
    ASSUME AnyInv, AnyInv', OwnInv, SeqResumesAlt
    PROVE  OwnInv'
<1> DEFINE f == InRight(Top)
           j == Nearest(Top)
           M == Len(trail)
<1>1. /\ In("SEQ", "back") /\ Found(Top) # {} /\ SetTop([Top EXCEPT !.j = j, !.mode = "alt"]) /\ ctl'.at = "exec"
      /\ UNCHANGED <<code, saved, genv, freed, ref, trail>>
  BY DEF SeqResumesAlt, Exec, terms, envs
<1>2. k # <<>> /\ Top.nd.op = "SEQ" /\ ctl.at = "back" /\ TermsOK /\ code \in Codes
  BY <1>1 DEF In, AnyInv
<1>3. j \in 1 .. Len(Top.nd.c) /\ j < Top.j /\ Top.mode = "go"
  BY <1>1, NearestFacts
<1>4. /\ IsFrame(Top, code, DOMAIN env) /\ Top \in FramesOf(code) /\ Top.nd \in code.nodes /\ Top.mark \in Nat /\ Top.mark <= M /\ M \in Nat
      /\ Keeps(Top, FALSE, saved, freed, ref, trail) /\ Passed(Len(k)) = Gone(Top, FALSE) /\ genv' = Top.env
  BY <1>1, <1>2, <1>3, OwnHere
<1>5. SamePast(M) /\ KeptBelow
  BY <1>1, <1>2, PastSame, BelowSame
<1>6. SetTop(f)
  BY <1>1 DEF InRight
<1>7. f \in FramesOf(code) /\ f.nd = Top.nd /\ f.j = j /\ f.mode = "alt" /\ f.mark = Top.mark /\ f.env = Top.env
  <2>1. j \in Nat /\ Len(Top.nd.c) \in Nat
    BY <1>2, <1>3, <1>4, NodeFacts
  <2> HIDE DEF j
  <2>2. QED BY <1>4, <2>1 DEF InRight, FramesOf, j
<1> HIDE DEF f, M
<1>8. Gone(f, FALSE) \subseteq Gone(Top, FALSE)
  <2>1. ASSUME NEW m \in Gone(f, FALSE)
        PROVE  m \in Gone(Top, FALSE)
    <3>1. m \in 1 .. Len(Top.nd.c) /\ m < j /\ Top.nd.op = "SEQ" /\ Top.nd.c[m].op = "CALL"
      BY <1>7 DEF Gone
    <3>2. m < Top.j
      <4>1. Len(Top.nd.c) \in Nat /\ Top.j \in Nat
        BY <1>2, <1>4, NodeFacts, FrameFacts
      <4>2. QED BY <1>3, <3>1, <4>1
    <3>3. QED BY <3>1, <3>2 DEF Gone
  <2>2. QED BY <2>1
<1>9. \A m \in Gone(f, FALSE) : KeptOf(f, m, saved') = KeptOf(f, m, saved) /\ KeptOf(f, m, saved).mark <= M
  <2>1. \A m \in Gone(Top, FALSE) : KeptOf(Top, m, saved).mark <= Len(trail)
    BY <1>4 DEF Keeps, Good
  <2>2. QED BY <1>1, <1>7, <1>8, <2>1 DEF KeptOf, M
<1>10. genv' = Inside(f) /\ f.mode # "call"
  BY <1>2, <1>4, <1>7 DEF Inside
<1>11. f.mark \in Nat /\ Top.mark <= f.mark
  BY <1>4, <1>7
<1>12. ctl'.at # "ok" /\ UNCHANGED <<code, freed>> /\ Top.nd.op # "CALL" /\ Gone(f, FALSE) \subseteq Passed(Len(k))
  <2>1. Gone(f, FALSE) \subseteq Passed(Len(k))
    BY <1>4, <1>8
  <2>2. QED BY <1>1, <1>2, <2>1
<1>13. QED BY <1>2, <1>4, <1>5, <1>6, <1>7, <1>9, <1>10, <1>11, <1>12, OwnTop

\* What a call keeps does not change when the call is resumed: its mark is where the trail is cut.
LEMMA ResumedKept ==
    ASSUME AnyInv, OwnInv, SeqResumesCall
    PROVE  /\ KeptThen = KeptOf(Top, Nearest(Top), saved) /\ saved' = saved
           /\ KeptOf(Top, Nearest(Top), saved).mark = Len(trail')
<1> DEFINE id == ToResume(Top).id
           s == KeptThen
           m == Len(trail')
<1>1. /\ k # <<>> /\ ctl.at = "back" /\ Nearest(Top) \in Passed(Len(k)) /\ ToResume(Top) \in code.nodes
      /\ (saved[id].mark <= Len(trail) => m = saved[id].mark)
      /\ saved' = [saved EXCEPT ![id] = s]
  BY ResumedFacts
<1>2. saved[id] = KeptOf(Top, Nearest(Top), saved)
  BY DEF ToResume, KeptOf
<1>3. Good(KeptOf(Top, Nearest(Top), saved), Top.env, freed, ref, trail)
  BY <1>1, OwnHere DEF Keeps
<1>4. m = saved[id].mark
  BY <1>1, <1>2, <1>3 DEF Good
<1>5. id \in Ids /\ saved \in [Ids -> Kept]
  BY <1>1 DEF Ids, AnyInv, StatesOK
<1>6. s = saved[id]
  <2>1. s = [saved[id] EXCEPT !.mark = m]
    BY DEF KeptThen, Marked
  <2> DEFINE x == saved[id]
  <2>2. x \in Kept /\ s = [x EXCEPT !.mark = m] /\ m = x.mark
    BY <1>4, <1>5, <2>1
  <2> HIDE DEF x, s, m
  <2>3. s = x
    BY <2>2 DEF Kept
  <2>4. QED BY <2>3 DEF x
<1> HIDE DEF s, id, m
<1>7. saved' = saved
  BY <1>1, <1>5, <1>6
<1>8. QED BY <1>2, <1>4, <1>6, <1>7 DEF s, id, m

LEMMA SeqResumesCallOwn ==
    ASSUME AnyInv, AnyInv', OwnInv, SeqResumesCall
    PROVE  OwnInv'
<1> DEFINE f == FrameThen
           j == Nearest(Top)
           s == KeptThen
           M == Len(trail')
<1>1. /\ k # <<>> /\ Top.nd.op = "SEQ" /\ ctl.at = "back" /\ SamePast(M) /\ M \in Nat /\ Top.mark <= M
      /\ UNCHANGED <<code, freed>> /\ genv' = s.cenv /\ s.mark = M
      /\ j \in 1 .. Len(Top.nd.c) /\ j < Top.j /\ Top.mode = "go" /\ j \in Passed(Len(k))
      /\ SetTop(f) /\ f \in FramesOf(code)
      /\ f.nd = Top.nd /\ f.j = j /\ f.mode = "call" /\ f.cs = s /\ f.mark = Top.mark /\ f.env = Top.env
      /\ ctl'.at = "exec"
  BY ResumedFacts
<1>2. s = KeptOf(Top, j, saved) /\ saved' = saved /\ KeptOf(Top, j, saved).mark = M
  BY ResumedKept
<1>3. /\ IsFrame(Top, code, DOMAIN env) /\ Top.nd \in code.nodes /\ Top.mark \in Nat
      /\ Keeps(Top, FALSE, saved, freed, ref, trail) /\ Passed(Len(k)) = Gone(Top, FALSE) /\ code \in Codes
  BY <1>1, OwnHere
<1>4. KeptBelow
  BY <1>2, BelowSame
<1> HIDE DEF f, j, s, M
<1>5. ASSUME NEW m \in Gone(f, FALSE)
      PROVE  m \in Gone(Top, FALSE) /\ m <= j
  <2>1. m \in 1 .. Len(Top.nd.c) /\ (m < j \/ m = j) /\ Top.nd.op = "SEQ" /\ Top.nd.c[m].op = "CALL"
    BY <1>1 DEF Gone
  <2>2. Len(Top.nd.c) \in Nat /\ Top.j \in Nat
    BY <1>3, NodeFacts, FrameFacts
  <2>3. m < Top.j /\ m <= j
    BY <1>1, <2>1, <2>2
  <2>4. QED BY <2>1, <2>3 DEF Gone
<1>6. \A m \in Gone(f, FALSE) : KeptOf(f, m, saved') = KeptOf(f, m, saved) /\ KeptOf(f, m, saved).mark <= M
  <2>1. j \in Gone(Top, FALSE)
    BY <1>1, <1>3
  <2>2. \A m \in Gone(f, FALSE) : KeptOf(Top, m, saved).mark <= KeptOf(Top, j, saved).mark
    BY <1>3, <1>5, <2>1 DEF Keeps
  <2>3. \A m \in Gone(f, FALSE) : KeptOf(f, m, saved) = KeptOf(Top, m, saved) /\ KeptOf(f, m, saved') = KeptOf(f, m, saved)
    BY <1>1, <1>2 DEF KeptOf
  <2>4. QED BY <1>2, <2>2, <2>3
<1>7. f.mode = "call" => f.cs = KeptOf(f, f.j, saved') /\ f.cs.mark = Len(trail')
  BY <1>1, <1>2 DEF KeptOf, M
<1>8. genv' = Inside(f)
  BY <1>1 DEF Inside
<1>9. f.mark \in Nat /\ Top.mark <= f.mark
  BY <1>1, <1>3
<1>10. ctl'.at # "ok" /\ Top.nd.op # "CALL" /\ Gone(f, FALSE) \subseteq Passed(Len(k))
  BY <1>1, <1>3, <1>5
<1>11. QED BY <1>1, <1>4, <1>6, <1>7, <1>8, <1>9, <1>10, OwnTop

\* A branch or a clause ends its frame.
LEMMA OwnEnd ==
    ASSUME AnyInv, AnyInv', OwnInv, NEW op \in {"ALT", "CHOICE"}, NEW at \in {"ok", "fail", "try"}, In(op, at),
           NEW ok, Return(ok), Pop, UNCHANGED <<code, saved, ref, trail, genv, freed>>
    PROVE  OwnInv'
<1> DEFINE M == Len(trail)
           s == NoCall
<1>1. k # <<>> /\ Top.nd.op = op /\ ctl.at = at /\ TermsOK
  BY DEF In, AnyInv
<1>2. IsFrame(Top, code, DOMAIN env) /\ code \in Codes
  BY <1>1, OwnHere
<1>3. Top.mode # "call" /\ Top.nd.op # "CALL"
  BY <1>1, <1>2 DEF IsFrame
<1>4. genv' = Top.env /\ Top.mark <= M /\ M \in Nat
  BY <1>1, <1>3, OwnHere
<1>5. SamePast(M)
  BY <1>1, PastSame
<1>6. /\ Top.nd.op # "CALL" /\ saved' = saved /\ freed' = freed /\ UNCHANGED code
      /\ ctl.at \in {"ok", "fail", "back", "try"} /\ ctl'.at \in {"ok", "fail"}
  BY <1>1, <1>3 DEF Return
<1> HIDE DEF M, s
<1>7. QED BY <1>1, <1>4, <1>5, <1>6, OwnPop

\* A frame that is not a sequence's goes on.
LEMMA OwnMoves ==
    ASSUME AnyInv, AnyInv', OwnInv, k # <<>>, Top.nd.op \in {"ALT", "CHOICE"}, UNCHANGED <<code, saved, freed>>,
           NEW f, SetTop(f), f \in FramesOf(code), f.nd = Top.nd, f.env = Top.env, f.mode = Top.mode,
           f.mark \in Nat, Top.mark <= f.mark, NEW M \in Nat, SamePast(M), Top.mark <= M, ctl'.at # "ok", genv' = Top.env
    PROVE  OwnInv'
<1>1. IsFrame(Top, code, DOMAIN env) /\ code \in Codes
  BY OwnHere
<1>2. Top.mode # "call" /\ Top.nd.op # "CALL" /\ f.mode # "call"
  BY <1>1 DEF IsFrame
<1>3. Gone(f, FALSE) = {}
  BY DEF Gone
<1>4. KeptBelow
  BY BelowSame
<1>5. genv' = Inside(f)
  BY <1>2 DEF Inside
<1>6. Gone(f, FALSE) \subseteq Passed(Len(k)) /\ UNCHANGED <<code, freed>>
      /\ \A m \in Gone(f, FALSE) : KeptOf(f, m, saved') = KeptOf(f, m, saved) /\ KeptOf(f, m, saved).mark <= M
  BY <1>3
<1>7. QED BY <1>2, <1>4, <1>5, <1>6, OwnTop

LEMMA OwnNext ==
    ASSUME AnyInv, OwnInv, NEW op \in {"ALT", "CHOICE"}, In(op, "fail"), op = "ALT" => Top.j = 1,
           trail_unwind(Top.mark), genv' = Top.env, SetTop(Next1(Top)),
           op = "ALT" => Exec(Top.nd.c[2]), op = "CHOICE" => Go("try"), UNCHANGED <<code, st, saved, env, freed, cut>>
    PROVE  OwnInv'
<1> DEFINE f == Next1(Top)
           M == Len(trail')
<1>1. /\ AnyInv' /\ SamePast(M) /\ M = Top.mark /\ f \in FramesOf(code) /\ f.nd = Top.nd /\ f.mark = Top.mark
      /\ f.mode = Top.mode /\ f.env = Top.env
  BY AnyNext
<1>2. k # <<>> /\ Top.nd.op \in {"ALT", "CHOICE"}
  BY DEF In
<1>3. Top.mark \in Nat
  BY <1>2, OwnHere
<1>4. ctl'.at # "ok"
  BY DEF Exec, Go
<1>5. SetTop(f) /\ UNCHANGED <<code, saved, freed>>
  OBVIOUS
<1> HIDE DEF f, M
<1>6. f.mark \in Nat /\ Top.mark <= f.mark /\ M \in Nat /\ Top.mark <= M
  BY <1>1, <1>3
<1>7. QED BY <1>1, <1>2, <1>4, <1>5, <1>6, OwnMoves

LEMMA AltOwn ==
    ASSUME AnyInv, AnyInv', OwnInv, AltLeft \/ AltRight
    PROVE  OwnInv'
<1>1. CASE AltRight \/ (In("ALT", "ok") /\ AltDone(Top, TRUE, 1) /\ UNCHANGED <<terms, genv>> /\ UNCHANGED <<code, saved, freed>>)
  <2> DEFINE ok == ctl.at = "ok"
             at == ctl.at
             op == "ALT"
  <2>1. /\ In(op, at) /\ Pop /\ Return(ok) /\ UNCHANGED <<code, saved, ref, trail, genv, freed>>
        /\ at \in {"ok", "fail", "try"} /\ op \in {"ALT", "CHOICE"}
    BY <1>1 DEF AltRight, AltDone, In, terms, envs
  <2> HIDE DEF ok, at, op
  <2>2. QED BY <2>1, OwnEnd
<1>2. CASE /\ In("ALT", "fail") /\ Top.j = 1 /\ trail_unwind(Top.mark) /\ genv' = Top.env
           /\ SetTop([Top EXCEPT !.j = 2]) /\ Exec(Top.nd.c[2]) /\ UNCHANGED st /\ UNCHANGED <<code, saved, env, freed, cut>>
  <2>1. [Top EXCEPT !.j = 2] = Next1(Top)
    <3>1. k # <<>>
      BY <1>2 DEF In
    <3>2. Top \in FramesOf(code)
      BY <3>1, OwnHere
    <3>3. QED BY <1>2, <3>2 DEF Next1, FramesOf
  <2>2. SetTop(Next1(Top)) /\ UNCHANGED <<code, st, saved, env, freed, cut>>
    BY <1>2, <2>1
  <2> DEFINE op == "ALT"
  <2>3. op \in {"ALT", "CHOICE"} /\ In(op, "fail") /\ (op = "ALT" => Top.j = 1) /\ (op = "ALT" => Exec(Top.nd.c[2]))
        /\ (op = "CHOICE" => Go("try"))
    BY <1>2
  <2> HIDE DEF op
  <2>4. QED BY <1>2, <2>2, <2>3, OwnNext
<1>3. QED BY <1>1, <1>2 DEF AltLeft

LEMMA ChoiceOwn ==
    ASSUME AnyInv, AnyInv', OwnInv, ChoiceEmpty \/ ClauseSucceeds \/ ClauseFails
    PROVE  OwnInv'
<1>1. CASE ChoiceEmpty \/ ClauseSucceeds \/ (ClauseFails /\ cut)
  <2> DEFINE ok == ctl.at = "ok"
             at == ctl.at
             op == "CHOICE"
  <2>1. /\ In(op, at) /\ Pop /\ Return(ok) /\ UNCHANGED <<code, saved, ref, trail, genv, freed>>
        /\ at \in {"ok", "fail", "try"} /\ op \in {"ALT", "CHOICE"}
    BY <1>1 DEF ChoiceEmpty, ClauseSucceeds, ClauseFails, ChoiceDone, In, Return, terms, envs
  <2> HIDE DEF ok, at, op
  <2>2. QED BY <2>1, OwnEnd
<1>2. CASE ClauseFails /\ ~cut
  <2> DEFINE op == "CHOICE"
  <2>1. /\ op \in {"ALT", "CHOICE"} /\ In(op, "fail") /\ (op = "ALT" => Top.j = 1) /\ (op = "ALT" => Exec(Top.nd.c[2]))
        /\ (op = "CHOICE" => Go("try")) /\ trail_unwind(Top.mark) /\ genv' = Top.env /\ SetTop(Next1(Top))
        /\ UNCHANGED <<code, st, saved, env, freed, cut>>
    BY <1>2 DEF ClauseFails, Next1
  <2> HIDE DEF op
  <2>2. QED BY <2>1, OwnNext
<1>3. QED BY <1>1, <1>2

LEMMA TryClauseOwn ==
    ASSUME AnyInv, OwnInv, TryClause
    PROVE  OwnInv'
<1> DEFINE f == Here(Top)
           M == Len(trail)
<1>1. /\ AnyInv' /\ f \in FramesOf(code) /\ f.nd = Top.nd /\ f.mark = M /\ f.mode = Top.mode /\ f.env = genv /\ SetTop(f)
  BY TryClauseAny
<1>2. /\ k # <<>> /\ Top.nd.op = "CHOICE" /\ ctl'.at = "exec" /\ UNCHANGED <<code, saved, ref, trail, genv, freed>> /\ TermsOK
  BY DEF TryClause, In, Exec, AnyInv, terms, envs
<1>3. Top.mark \in Nat /\ Top.mark <= M /\ M \in Nat /\ IsFrame(Top, code, DOMAIN env)
  BY <1>2, OwnHere
<1>4. genv = Top.env
  <2>1. Top.mode # "call" /\ Top.nd.op # "CALL"
    BY <1>2, <1>3 DEF IsFrame
  <2>2. QED BY <1>2, <2>1, OwnHere
<1>5. SamePast(M)
  BY <1>2, PastSame
<1> HIDE DEF f, M
<1>6. f.env = Top.env /\ genv' = Top.env /\ f.mark \in Nat /\ Top.mark <= f.mark /\ ctl'.at # "ok"
      /\ Top.nd.op \in {"ALT", "CHOICE"} /\ UNCHANGED <<code, saved, freed>>
  BY <1>1, <1>2, <1>3, <1>4
<1>7. QED BY <1>1, <1>2, <1>3, <1>5, <1>6, OwnMoves

LEMMA CallOwn ==
    ASSUME AnyInv, AnyInv', OwnInv, CallSucceeds \/ CallFails
    PROVE  OwnInv'
<1>1. CASE CallSucceeds
  <2> DEFINE M == Len(trail)
             s == KeptNow
  <2>1. /\ SamePast(M) /\ UNCHANGED <<code, ref, trail, freed>> /\ k # <<>> /\ Top.nd.op = "CALL" /\ ctl.at = "ok"
        /\ ctl'.at = "ok" /\ Pop /\ saved' = [saved EXCEPT ![Top.nd.id] = s] /\ s # NoCall /\ genv' = Top.env
    BY <1>1, CallSucceedsFacts
  <2>2. s.mark = Top.mark /\ s.senv = Top.env /\ s.cenv = Top.cenv /\ s.store = Unwound(Top.mark)
    BY DEF KeptNow
  <2>3. Restores(s, ref', trail')
    <3>1. Unwound(Top.mark) = Past(ref', trail', s.mark)
      BY <2>1, <2>2 DEF Unwound, Past
    <3>2. DOMAIN s.store = DOMAIN ref'
      BY <2>1, <2>2 DEF Unwound
    <3> HIDE DEF s
    <3>3. QED BY <2>2, <3>1, <3>2 DEF Restores
  <2>4. M \in Nat /\ Top.mark <= M
    BY <2>1, OwnHere
  <2> HIDE DEF M, s
  <2>5. /\ Top.nd.op = "CALL" /\ ctl'.at = "ok" /\ freed' = freed /\ saved' = [saved EXCEPT ![Top.nd.id] = s]
        /\ s # NoCall /\ s.mark = Top.mark /\ s.senv = Top.env /\ s.cenv = Top.cenv /\ Restores(s, ref', trail')
        /\ UNCHANGED code /\ ctl.at \in {"ok", "fail", "back", "try"} /\ ctl'.at \in {"ok", "fail"}
    BY <2>1, <2>2, <2>3
  <2>6. QED BY <2>1, <2>4, <2>5, OwnPop
<1>2. CASE CallFails
  <2> DEFINE M == Len(trail')
             s == NoCall
  <2>1. /\ SamePast(M) /\ M = Top.mark /\ UNCHANGED <<code, saved>> /\ genv' = Top.env
        /\ freed' = freed \cup {Top.cenv} /\ k # <<>> /\ Top.nd.op = "CALL" /\ ctl.at = "fail" /\ Pop /\ ctl'.at = "fail"
    BY <1>2, CallFailsFacts
  <2>2. Top.mark \in Nat
    BY <2>1, OwnHere
  <2> HIDE DEF M, s
  <2>3. /\ Top.nd.op = "CALL" /\ ctl'.at = "fail" /\ saved' = saved /\ freed' = freed \cup {Top.cenv}
        /\ UNCHANGED code /\ ctl.at \in {"ok", "fail", "back", "try"} /\ ctl'.at \in {"ok", "fail"}
        /\ M \in Nat /\ Top.mark <= M
    BY <2>1, <2>2
  <2>4. QED BY <2>1, <2>3, OwnPop
<1>3. QED BY <1>1, <1>2

LEMMA OwnInit ==
    ASSUME Init
    PROVE  OwnInv
<1>1. k = <<>> /\ ctl.at = "exec" /\ genv = 1 /\ freed = {} /\ DOMAIN k = {} /\ Len(k) = 0
  BY DEF Init
<1>2. PathOf(k) /\ KeepOK /\ LiveIn(k, freed) /\ ResumeOK
  BY <1>1 DEF PathOf, KeepOK, LiveIn, ResumeOK
<1>3. OwnOK
  BY <1>1 DEF OwnOK, AroundIn
<1>4. QED BY <1>2, <1>3 DEF OwnInv

LEMMA OwnStep ==
    ASSUME AnyInv, OwnInv, ~Recursive(code), [Next]_vars
    PROVE  OwnInv'
<1>0. AnyInv'
  BY AnyStep
<1>1. CASE ExecUnify \/ ExecCut \/ ExecWrite \/ ExecIs \/ ExecGt \/ ExecConst \/ CallFailsAtOnce
  BY <1>1, OwnLeaf
<1>2. CASE ExecSeq \/ ExecAlt \/ ExecChoice
  BY <1>2, OwnEnter
<1>3. CASE SeqGoal \/ SeqAltDone
  BY <1>0, <1>3, SeqGoalOwn
<1>4. CASE SeqFails
  BY <1>0, <1>4, SeqFailsOwn
<1>5. CASE SeqResumesCall
  BY <1>0, <1>5, SeqResumesCallOwn
<1>6. CASE SeqCallAgain \/ SeqCallExhausted
  BY <1>0, <1>6, SeqCallOwn
<1>7. CASE SeqResumesAlt
  BY <1>0, <1>7, SeqResumesAltOwn
<1>8. CASE AltLeft \/ AltRight
  BY <1>0, <1>8, AltOwn
<1>9. CASE TryClause
  BY <1>9, TryClauseOwn
<1>10. CASE ChoiceEmpty \/ ClauseSucceeds \/ ClauseFails
  BY <1>0, <1>10, ChoiceOwn
<1>11. CASE ExecCall
  BY <1>0, <1>11, OwnCallMade
<1>12. CASE CallSucceeds \/ CallFails
  BY <1>0, <1>12, CallOwn
<1>13. CASE UNCHANGED vars
  <2>1. UNCHANGED <<code, saved, ref, trail, env, genv, freed, k, ctl>>
    BY <1>13 DEF vars, terms, envs
  <2>2. PathOf(k') /\ LiveIn(k', freed') /\ OwnOK'
    BY <2>1 DEF OwnInv, OwnOK
  <2>3. KeepOK' /\ ResumeOK'
    BY <2>1 DEF OwnInv, KeepOK, ResumeOK, Top
  <2>4. QED BY <2>2, <2>3 DEF OwnInv
<1>14. QED
  BY <1>1, <1>2, <1>3, <1>4, <1>5, <1>6, <1>7, <1>8, <1>9, <1>10, <1>11, <1>12, <1>13 DEF Next

LEMMA CodeStays ==
    ASSUME [Next]_vars
    PROVE  code' = code
BY DEF Next, vars, ExecUnify, ExecCut, ExecWrite, ExecIs, ExecGt, ExecConst, ExecSeq, SeqGoal, SeqFails,
       SeqResumesCall, SeqCallAgain, SeqCallExhausted, SeqResumesAlt, SeqAltDone, ExecAlt, AltLeft, AltRight,
       ExecChoice, TryClause, ChoiceEmpty, ClauseSucceeds, ClauseFails, CallFailsAtOnce, ExecCall, CallSucceeds,
       CallFails

Inv == AnyInv /\ (Recursive(code) \/ OwnInv)

\* In a program without recursion, what a sequence has kept of the calls it has passed is what
\* resuming them needs, and every frame is in the environment that is its own.
THEOREM Always == Spec => []Inv
<1>1. Init => Inv
  BY AnyInit, OwnInit DEF Inv
<1>2. Inv /\ [Next]_vars => Inv'
  <2> SUFFICES ASSUME Inv, [Next]_vars PROVE Inv'
    OBVIOUS
  <2>1. AnyInv /\ AnyInv' /\ code' = code
    BY AnyStep, CodeStays DEF Inv
  <2>2. CASE Recursive(code)
    BY <2>1, <2>2 DEF Inv
  <2>3. CASE ~Recursive(code)
    <3>1. OwnInv'
      BY <2>1, <2>3, OwnStep DEF Inv
    <3>2. QED BY <2>1, <3>1 DEF Inv
  <2>4. QED BY <2>2, <2>3
<1>3. QED BY <1>1, <1>2, PTL DEF Spec

LEMMA EnvFollows ==
    ASSUME AnyInv, OwnInv
    PROVE  EnvIsLive /\ genv = Around(Len(k) + 1) /\ \A i \in DOMAIN k : k[i].env = Around(i)
<1>1. code \in Codes /\ StackOK /\ LiveIn(k, freed) /\ OwnOK /\ Len(k) \in Nat /\ DOMAIN k = 1 .. Len(k)
  BY StackFacts DEF AnyInv, OwnInv
<1>2. \A i : Around(i) = AroundIn(k, i)
  BY DEF Around, AroundIn
<1>3. genv = Around(Len(k) + 1) /\ \A i \in DOMAIN k : k[i].env = Around(i)
  BY <1>1, <1>2 DEF OwnOK
<1>4. \A i \in 1 .. Len(k) + 1 : AroundIn(k, i) \notin freed
  BY <1>1, AroundLive
<1>5. genv \notin freed
  BY <1>1, <1>4 DEF OwnOK
<1>6. ASSUME k # <<>>, Top.nd.op = "SEQ", NEW j \in Found(Top), Top.nd.c[j].op = "CALL"
      PROVE  {saved[Top.nd.c[j].id].cenv, saved[Top.nd.c[j].id].senv} \cap freed = {}
  <2>1. IsFrame(Top, code, DOMAIN env) /\ Top.nd \in code.nodes /\ Keeps(Top, ctl.at = "ok", saved, freed, ref, trail)
    BY <1>6, OwnHere
  <2>2. j \in Gone(Top, ctl.at = "ok")
    <3>1. Top.j \in 1 .. Len(Top.nd.c) + 1 /\ Len(Top.nd.c) \in Nat
      BY <1>1, <1>6, <2>1, NodeFacts DEF IsFrame
    <3>2. j \in 1 .. Top.j - 1
      BY DEF Found
    <3>3. j \in 1 .. Len(Top.nd.c) /\ j < Top.j
      BY <3>1, <3>2
    <3>4. QED BY <1>6, <3>3 DEF Gone
  <2>3. KeptOf(Top, j, saved).cenv \notin freed /\ KeptOf(Top, j, saved).senv = Top.env
    BY <2>1, <2>2 DEF Keeps, Good
  <2>4. Top.env \notin freed
    <3> DEFINE n == Len(k)
    <3>1. n \in DOMAIN k /\ n \in 1 .. Len(k) + 1 /\ Top = k[n]
      BY <1>1, <1>6, StackFacts
    <3> HIDE DEF n
    <3>2. Top.env = AroundIn(k, n)
      BY <1>1, <3>1 DEF OwnOK
    <3>3. QED BY <1>4, <3>1, <3>2
  <2>5. QED BY <2>3, <2>4 DEF KeptOf
<1>7. QED BY <1>3, <1>5, <1>6 DEF EnvIsLive

LEMMA ResumeFollows ==
    ASSUME AnyInv, OwnInv, ctl.at = "exec", k # <<>>, Top.nd.op = "SEQ", Top.mode = "call", NEW v \in DOMAIN Top.cs.store
    PROVE  ref[v] = Top.cs.store[v]
<1> DEFINE s == Top.cs
<1>1. s.mark = Len(trail)
  BY DEF OwnInv, ResumeOK
<1>2. Keeps(Top, FALSE, saved, freed, ref, trail) /\ s = KeptOf(Top, Top.j, saved) /\ Len(trail) \in Nat
  BY OwnHere
<1>3. Top.j \in Gone(Top, FALSE)
  <2>1. Top.j \in 1 .. Len(Top.nd.c) /\ Child(Top).op = "CALL" /\ Child(Top) = Top.nd.c[Top.j]
    BY CallFrame
  <2>2. QED BY <2>1 DEF Gone
<1>4. Restores(s, ref, trail)
  BY <1>2, <1>3 DEF Keeps, Good
<1>5. v \in DOMAIN ref /\ Past(ref, trail, s.mark)[v] = s.store[v]
  BY <1>4 DEF Restores
<1>6. Past(ref, trail, s.mark)[v] = ref[v]
  <2>1. s.mark + 1 .. Len(trail) = {}
    BY <1>1, <1>2
  <2>2. QED BY <1>5, <2>1 DEF Past
<1>7. QED BY <1>5, <1>6

\* In every program without recursion, no goal runs in an environment that a failed call has
\* freed, and every goal of a clause runs in the environment its call made (g_pl_env).
THEOREM EnvironmentsAreOwn == Spec => []EnvIsOwn
<1>1. Inv => EnvIsOwn
  BY EnvFollows DEF Inv, EnvIsOwn
<1>2. QED BY <1>1, Always, PTL

\* In every program without recursion, resuming a call takes back exactly what was bound since the
\* call was made: the trail is cut at the mark the call kept.
THEOREM ResumingRestores == Spec => []ResumeRestores
<1>1. Inv => ResumeRestores
  BY ResumeFollows DEF Inv, ResumeRestores
<1>2. QED BY <1>1, Always, PTL
=============================================================================
