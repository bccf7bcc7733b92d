---- MODULE SMScopesProofs ----
(***************************************************************************)
(* For any variables, functions and compiled programs: saving the values   *)
(* of a function's names when it is called and putting them back when it   *)
(* returns gives every activation a scope of its own, and only errors and  *)
(* an END in a nested run take scopes away in another way than returns do. *)
(***************************************************************************)
EXTENDS SMCallsProofs

\* The environment that m frames and a store stand for.
Scope(F, k) == IF k = 0 THEN Names ELSE {x \in Names : Places(F[k].names, x) # {}}
Savers(F, k, m, x) == {j \in (k + 1) .. m : Places(F[j].names, x) # {}}
Held(F, S, k, m, x) ==
    IF Savers(F, k, m, x) = {} THEN S[x] ELSE SavedOf(F[Min(Savers(F, k, m, x))], x)
Env(F, S, m) == [d \in 1 .. (m + 1) |-> [x \in Scope(F, d - 1) |-> Held(F, S, d - 1, m, x)]]

LEMMA EnvironmentIs ==
    /\ Environment = Env(frames, nv, Len(frames))
    /\ Environment' = Env(frames', nv', Len(frames'))
BY DEF Environment, Env, ScopeNames, Scope, BindingAt, Held, SavedAbove, Savers, Saves

-----------------------------------------------------------------------------
(* Sequences.                                                              *)

LEMMA FunctionSeq ==
    ASSUME NEW n \in Nat, NEW T, NEW f \in [1 .. n -> T]
    PROVE  f \in Seq(T) /\ Len(f) = n
<1>1. [1 .. n -> T] \in {[1 .. i -> T] : i \in Nat}
  OBVIOUS
<1>2. f \in UNION {[1 .. i -> T] : i \in Nat}
  BY <1>1
<1>3. f \in Seq(T)
  BY <1>2, SeqDef
<1>4. QED BY <1>3, LenProperties

Scopes1 == UNION {[N -> Values] : N \in SUBSET Names}

\* The frames are well formed.
Frames(F, m) ==
    /\ m \in Nat
    /\ \A k \in 1 .. m : F[k] \in FrameType /\ Len(F[k].names) = Len(F[k].vals)

LEMMA HeldTyped ==
    ASSUME NEW F, NEW m, Frames(F, m), NEW S \in [Names -> Values], NEW k \in Nat, NEW x \in Names
    PROVE  Held(F, S, k, m, x) \in Values
<1> DEFINE T == Savers(F, k, m, x)
           i == Min(T)
<1>1. m \in Nat /\ T \in SUBSET Nat
  BY DEF Frames, Savers
<1>2. CASE T = {}
  BY <1>2 DEF Held
<1>3. CASE T # {}
  <2>1. i \in T
    BY <1>1, <1>3, LeastNat
  <2>2. Held(F, S, k, m, x) = SavedOf(F[i], x)
    BY <1>3 DEF Held
  <2> HIDE DEF i
  <2>3. i \in 1 .. m /\ Places(F[i].names, x) # {}
    BY <1>1, <2>1 DEF Savers
  <2>4. F[i] \in FrameType /\ Len(F[i].names) = Len(F[i].vals)
    BY <2>3 DEF Frames
  <2>5. QED BY <2>2, <2>3, <2>4, SavedOfTyped
<1>4. QED BY <1>2, <1>3

LEMMA EnvTyped ==
    ASSUME NEW F, NEW m, Frames(F, m), NEW S \in [Names -> Values], NEW e, e = Env(F, S, m)
    PROVE  /\ e \in Seq(Scopes1) /\ Len(e) = m + 1 /\ m + 1 \in Nat
           /\ \A d \in 1 .. m + 1 : /\ DOMAIN e[d] = Scope(F, d - 1) /\ Scope(F, d - 1) \subseteq Names
                                    /\ e[d] \in [Scope(F, d - 1) -> Values]
                                    /\ \A x \in Scope(F, d - 1) : e[d][x] = Held(F, S, d - 1, m, x)
<1>1. m \in Nat /\ m + 1 \in Nat
  BY DEF Frames
<1>2. ASSUME NEW d \in 1 .. m + 1
      PROVE  /\ e[d] \in [Scope(F, d - 1) -> Values] /\ Scope(F, d - 1) \subseteq Names
             /\ e[d] \in Scopes1 /\ e[d] = [x \in Scope(F, d - 1) |-> Held(F, S, d - 1, m, x)]
  <2>1. Scope(F, d - 1) \subseteq Names
    BY DEF Scope
  <2>2. d - 1 \in Nat
    BY <1>1
  <2>3. e[d] = [x \in Scope(F, d - 1) |-> Held(F, S, d - 1, m, x)]
    BY DEF Env
  <2>4. e[d] \in [Scope(F, d - 1) -> Values]
    BY <2>1, <2>2, <2>3, HeldTyped
  <2>5. QED BY <2>1, <2>3, <2>4 DEF Scopes1
<1>3. e = [d \in 1 .. m + 1 |-> e[d]]
  BY DEF Env
<1>4. e \in [1 .. m + 1 -> Scopes1]
  BY <1>2, <1>3
<1>5. e \in Seq(Scopes1) /\ Len(e) = m + 1
  BY <1>1, <1>4, FunctionSeq
<1>6. ASSUME NEW d \in 1 .. m + 1
      PROVE  DOMAIN e[d] = Scope(F, d - 1) /\ \A x \in Scope(F, d - 1) : e[d][x] = Held(F, S, d - 1, m, x)
  BY <1>2
<1>7. QED BY <1>1, <1>2, <1>5, <1>6

-----------------------------------------------------------------------------
(* Frames that go.                                                         *)

\* Of two sets of frames one below the other the lower decides.
LEMMA LowerDecides ==
    ASSUME NEW F, NEW k \in Nat, NEW l \in Nat, NEW m \in Nat, k <= l, l <= m, NEW x
    PROVE  /\ Savers(F, k, l, x) = {} => Savers(F, k, m, x) = Savers(F, l, m, x)
           /\ Savers(F, k, l, x) # {} => /\ Savers(F, k, m, x) # {}
                                         /\ Min(Savers(F, k, m, x)) = Min(Savers(F, k, l, x))
<1> DEFINE A == Savers(F, k, l, x)
           B == Savers(F, l, m, x)
           C == Savers(F, k, m, x)
<1>1. \A j : j \in C <=> j \in A \/ j \in B
  <2>1. \A j : j \in (k + 1) .. m <=> j \in (k + 1) .. l \/ j \in (l + 1) .. m
    OBVIOUS
  <2>2. QED BY <2>1 DEF Savers
<1>2. \A i \in A : \A j \in B : i <= j
  BY DEF Savers
<1>3. A \in SUBSET Nat /\ C \in SUBSET Nat
  BY DEF Savers
<1> HIDE DEF A, B, C
<1>4. A = {} => C = B
  BY <1>1
<1>5. ASSUME A # {} PROVE C # {} /\ Min(C) = Min(A)
  <2> DEFINE a == Min(A)
             c == Min(C)
  <2>1. C # {} /\ a \in A /\ (\A i \in A : a <= i) /\ c \in C /\ \A i \in C : c <= i
    BY <1>1, <1>3, <1>5, LeastNat
  <2>2. c <= a /\ a \in Nat /\ c \in Nat
    BY <1>1, <1>3, <2>1
  <2>3. a <= c
    BY <1>1, <1>2, <2>1
  <2> HIDE DEF a, c
  <2>4. a = c
    BY <2>2, <2>3
  <2>5. QED BY <2>1, <2>4 DEF a, c
<1>6. QED BY <1>4, <1>5 DEF A, B, C

\* The frames above l are popped, each putting back what it saved.
LEMMA PoppedHeld ==
    ASSUME NEW F, NEW S, NEW R, NEW k \in Nat, NEW l \in Nat, NEW m \in Nat, k <= l, l <= m,
           NEW x, R[x] = Held(F, S, l, m, x)
    PROVE  Held(F, R, k, l, x) = Held(F, S, k, m, x)
<1>1. CASE Savers(F, k, l, x) = {}
  BY <1>1, LowerDecides DEF Held
<1>2. CASE Savers(F, k, l, x) # {}
  <2>1. Savers(F, k, m, x) # {} /\ Min(Savers(F, k, m, x)) = Min(Savers(F, k, l, x))
    BY <1>2, LowerDecides
  <2>2. QED BY <1>2, <2>1 DEF Held
<1>3. QED BY <1>1, <1>2

PutBack(F, S, R, l, m) == \A x \in Names : R[x] = Held(F, S, l, m, x)

LEMMA PoppedEnv ==
    ASSUME NEW F, NEW m, Frames(F, m), NEW l \in Nat, l <= m,
           NEW S \in [Names -> Values], NEW R \in [Names -> Values], PutBack(F, S, R, l, m)
    PROVE  Env(F, R, l) = SubSeq(Env(F, S, m), 1, l + 1)
<1> DEFINE e == Env(F, S, m)
           f == Env(F, R, l)
           g == SubSeq(e, 1, l + 1)
<1>1. m \in Nat /\ Frames(F, l) /\ l + 1 \in Nat /\ l + 1 <= m + 1
  BY DEF Frames
<1>2. /\ e \in Seq(Scopes1) /\ Len(e) = m + 1
      /\ \A d \in 1 .. m + 1 : e[d] \in [Scope(F, d - 1) -> Values]
                               /\ Scope(F, d - 1) \subseteq Names
                               /\ \A x \in Scope(F, d - 1) : e[d][x] = Held(F, S, d - 1, m, x)
  BY EnvTyped
<1>3. /\ f \in Seq(Scopes1) /\ Len(f) = l + 1
      /\ \A d \in 1 .. l + 1 : f[d] \in [Scope(F, d - 1) -> Values]
                               /\ \A x \in Scope(F, d - 1) : f[d][x] = Held(F, R, d - 1, l, x)
  BY <1>1, EnvTyped
<1> HIDE DEF e, f
<1>4. /\ g \in Seq(Scopes1) /\ Len(g) = l + 1 /\ \A d \in 1 .. l + 1 : g[d] = e[d]
  BY <1>1, <1>2, PrefixSeq
<1> HIDE DEF g
<1>5. ASSUME NEW d \in 1 .. l + 1 PROVE f[d] = g[d]
  <2>1. d \in 1 .. m + 1 /\ d - 1 \in Nat /\ d - 1 <= l
    BY <1>1
  <2>2. ASSUME NEW x \in Scope(F, d - 1) PROVE f[d][x] = e[d][x]
    <3>1. x \in Names
      BY <1>2, <2>1
    <3>2. Held(F, R, d - 1, l, x) = Held(F, S, d - 1, m, x)
      BY <1>1, <2>1, <3>1, PoppedHeld DEF PutBack
    <3>3. QED BY <1>2, <1>3, <2>1, <3>2
  <2>3. f[d] = e[d]
    BY <1>2, <1>3, <2>1, <2>2
  <2>4. QED BY <1>4, <2>3
<1>6. f = g
  BY <1>3, <1>4, <1>5, SeqEqual
<1>7. QED BY <1>6 DEF e, f, g

\* The environment depends on the frames it is made of only.
LEMMA SameEnv ==
    ASSUME NEW F, NEW G, NEW S, NEW m \in Nat, \A k \in 1 .. m : G[k] = F[k]
    PROVE  Env(G, S, m) = Env(F, S, m)
<1>1. ASSUME NEW k \in Nat, NEW x PROVE Held(G, S, k, m, x) = Held(F, S, k, m, x)
  <2> DEFINE A == Savers(F, k, m, x)
             B == Savers(G, k, m, x)
  <2>1. \A j \in (k + 1) .. m : G[j] = F[j]
    OBVIOUS
  <2>2. A = B /\ A \in SUBSET Nat
    BY <2>1 DEF Savers
  <2>3. CASE A = {}
    BY <2>2, <2>3 DEF Held
  <2>4. CASE A # {}
    <3>1. Min(A) \in A
      BY <2>2, <2>4, LeastNat
    <3>2. G[Min(A)] = F[Min(A)]
      BY <2>1, <3>1 DEF Savers
    <3>3. QED BY <2>2, <2>4, <3>2 DEF Held
  <2>5. QED BY <2>3, <2>4
<1>2. ASSUME NEW d \in 1 .. m + 1 PROVE d - 1 \in Nat /\ Scope(G, d - 1) = Scope(F, d - 1)
  <2>1. d - 1 \in Nat /\ (d - 1 = 0 \/ d - 1 \in 1 .. m)
    OBVIOUS
  <2>2. QED BY <2>1 DEF Scope
<1>3. QED BY <1>1, <1>2 DEF Env

-----------------------------------------------------------------------------
(* Where a name is bound.                                                  *)

\* The scopes bind the names the frames save.
Shaped(e, F, m) == Len(e) = m + 1 /\ \A d \in 1 .. m + 1 : DOMAIN e[d] = Scope(F, d - 1)

\* The innermost of the lowest m + 1 scopes that bind x is the one no frame above it saves x.
LEMMA HomeIs ==
    ASSUME NEW F, NEW m \in Nat, NEW e, Shaped(e, F, m), NEW x \in Names
    PROVE  /\ Scoped!Home(e, x) \in 1 .. m + 1
           /\ \A d \in 1 .. m + 1 :
                 d = Scoped!Home(e, x) <=> x \in Scope(F, d - 1) /\ Savers(F, d - 1, m, x) = {}
<1> DEFINE H(d) == x \in DOMAIN e[d] /\ \A j \in (d + 1) .. Len(e) : x \notin DOMAIN e[j]
           I(d) == x \in Scope(F, d - 1) /\ Savers(F, d - 1, m, x) = {}
           h == Scoped!Home(e, x)
<1>1. h = CHOOSE d \in 1 .. Len(e) : H(d)
  BY DEF Scoped!Home
<1>2. Len(e) = m + 1 /\ \A d \in 1 .. m + 1 : DOMAIN e[d] = Scope(F, d - 1)
  BY DEF Shaped
<1>3. ASSUME NEW d \in 1 .. m + 1 PROVE H(d) <=> I(d)
  <2>1. \A j \in (d + 1) .. m + 1 : x \notin DOMAIN e[j] <=> Places(F[j - 1].names, x) = {}
    <3> SUFFICES ASSUME NEW j \in (d + 1) .. m + 1
                 PROVE  x \notin DOMAIN e[j] <=> Places(F[j - 1].names, x) = {}
      OBVIOUS
    <3>1. j \in 1 .. m + 1 /\ j - 1 # 0
      OBVIOUS
    <3>2. QED BY <1>2, <3>1 DEF Scope
  <2>2. \A j \in (d - 1) + 1 .. m : j + 1 \in (d + 1) .. m + 1 /\ (j + 1) - 1 = j
    OBVIOUS
  <2>3. \A j \in (d + 1) .. m + 1 : j - 1 \in (d - 1) + 1 .. m
    OBVIOUS
  <2>4. Savers(F, d - 1, m, x) = {} <=> \A j \in (d + 1) .. m + 1 : Places(F[j - 1].names, x) = {}
    <3>1. ASSUME \A j \in (d + 1) .. m + 1 : Places(F[j - 1].names, x) = {}
          PROVE  Savers(F, d - 1, m, x) = {}
      BY <2>2, <3>1 DEF Savers
    <3>2. ASSUME Savers(F, d - 1, m, x) = {}, NEW j \in (d + 1) .. m + 1
          PROVE  Places(F[j - 1].names, x) = {}
      BY <2>3, <3>2 DEF Savers
    <3>3. QED BY <3>1, <3>2
  <2>5. QED BY <1>2, <2>1, <2>4
<1>4. PICK t \in 1 .. m + 1 : I(t)
  <2> DEFINE T == {d \in 1 .. m + 1 : x \in Scope(F, d - 1)}
             t == Max(T)
  <2>1. 1 \in T /\ T \in SUBSET (0 .. m + 1) /\ m + 1 \in Nat
    BY DEF Scope
  <2>2. t \in T /\ \A d \in T : d <= t
    <3> HIDE DEF T
    <3>1. T # {}
      BY <2>1
    <3>2. QED BY <2>1, <3>1, GreatestNat
  <2> HIDE DEF t
  <2>3. Savers(F, t - 1, m, x) = {}
    <3> SUFFICES ASSUME NEW j \in Savers(F, t - 1, m, x) PROVE FALSE
      OBVIOUS
    <3>1. t \in 1 .. m + 1
      BY <2>2
    <3>2. j \in (t - 1) + 1 .. m /\ Places(F[j].names, x) # {}
      BY DEF Savers
    <3>3. j + 1 \in 1 .. m + 1 /\ j + 1 > t /\ (j + 1) - 1 = j /\ j # 0
      BY <3>1, <3>2
    <3>4. j + 1 \in T
      BY <3>2, <3>3 DEF Scope
    <3>5. QED BY <2>2, <3>1, <3>3, <3>4
  <2>4. QED BY <2>2, <2>3
<1>5. ASSUME NEW d \in 1 .. m + 1, NEW c \in 1 .. m + 1, I(d), I(c), d < c PROVE FALSE
  <2>1. c - 1 \in (d - 1) + 1 .. m /\ c - 1 # 0
    BY <1>5
  <2>2. Places(F[c - 1].names, x) # {}
    BY <1>5, <2>1 DEF Scope
  <2>3. QED BY <1>5, <2>1, <2>2 DEF Savers
<1>6. h \in 1 .. m + 1 /\ I(h)
  <2> HIDE DEF h, I, H
  <2>1. t \in 1 .. Len(e) /\ H(t)
    BY <1>3, <1>4, <1>2
  <2>2. h \in 1 .. Len(e) /\ H(h)
    BY <1>1, <2>1
  <2>3. QED BY <1>3, <1>2, <2>2
<1>7. ASSUME NEW d \in 1 .. m + 1, I(d) PROVE d = h
  <2> HIDE DEF h, I
  <2>1. ~(d < h) /\ ~(h < d)
    BY <1>5, <1>6, <1>7
  <2>2. QED BY <1>6, <2>1
<1>8. QED BY <1>6, <1>7

\* Abandoned scopes leave the environment of the frames below them and the store.
LEMMA AbandonedEnv ==
    ASSUME Frames(frames, Len(frames)), nv \in [Names -> Values],
           NEW m \in Nat, m <= Len(frames)
    PROVE  Scoped!Abandoned(m + 1) = Env(frames, nv, m)
<1> DEFINE n == Len(frames)
           F == frames
           S == nv
           e == Environment
           rest == SubSeq(e, 1, m + 1)
           b == Env(F, S, m)
<1>1. n \in Nat /\ Frames(F, m) /\ m + 1 \in Nat /\ m + 1 <= n + 1
  BY DEF Frames
<1>2. /\ e \in Seq(Scopes1) /\ Len(e) = n + 1
      /\ \A d \in 1 .. n + 1 : /\ DOMAIN e[d] = Scope(F, d - 1) /\ Scope(F, d - 1) \subseteq Names
                               /\ \A x \in Scope(F, d - 1) : e[d][x] = Held(F, S, d - 1, n, x)
  BY EnvironmentIs, EnvTyped
<1>3. Scoped!Abandoned(m + 1) =
        [k \in 1 .. m + 1 |-> [x \in DOMAIN e[k] |->
           IF k = Scoped!Home(rest, x) THEN e[Scoped!Home(e, x)][x] ELSE e[k][x]]]
  BY DEF Scoped!Abandoned, Scoped!Visible
<1>4. b = [d \in 1 .. m + 1 |-> [x \in Scope(F, d - 1) |-> Held(F, S, d - 1, m, x)]]
  BY DEF Env
<1> HIDE DEF e, b, F, S, n
<1>5. Len(rest) = m + 1 /\ \A d \in 1 .. m + 1 : rest[d] = e[d]
  BY <1>1, <1>2, PrefixSeq
<1> HIDE DEF rest
<1>6. \A d \in 1 .. m + 1 : d \in 1 .. n + 1 /\ d - 1 \in Nat /\ d - 1 <= m
  BY <1>1
<1>7. Shaped(rest, F, m) /\ Shaped(e, F, n)
  BY <1>2, <1>5, <1>6 DEF Shaped
<1>8. ASSUME NEW x \in Names PROVE e[Scoped!Home(e, x)][x] = S[x]
  <2> DEFINE h == Scoped!Home(e, x)
  <2>1. h \in 1 .. n + 1 /\ x \in Scope(F, h - 1) /\ Savers(F, h - 1, n, x) = {}
    BY <1>1, <1>7, HomeIs
  <2> HIDE DEF h
  <2>2. e[h][x] = Held(F, S, h - 1, n, x)
    BY <1>2, <2>1
  <2>3. QED BY <2>1, <2>2 DEF h, Held
<1>9. ASSUME NEW k \in 1 .. m + 1, NEW x \in Scope(F, k - 1)
      PROVE  (IF k = Scoped!Home(rest, x) THEN e[Scoped!Home(e, x)][x] ELSE e[k][x])
             = Held(F, S, k - 1, m, x)
  <2>1. x \in Names
    BY <1>2, <1>6
  <2>2. k = Scoped!Home(rest, x) <=> Savers(F, k - 1, m, x) = {}
    BY <1>7, <2>1, HomeIs
  <2>3. CASE Savers(F, k - 1, m, x) = {}
    BY <1>8, <2>1, <2>2, <2>3 DEF Held
  <2>4. CASE Savers(F, k - 1, m, x) # {}
    <3>1. Savers(F, k - 1, n, x) # {} /\ Min(Savers(F, k - 1, n, x)) = Min(Savers(F, k - 1, m, x))
      BY <1>1, <1>6, <2>4, LowerDecides DEF n
    <3>2. e[k][x] = Held(F, S, k - 1, n, x)
      BY <1>2, <1>6
    <3>3. QED BY <2>2, <2>4, <3>1, <3>2 DEF Held
  <2>5. QED BY <2>3, <2>4
<1>10. ASSUME NEW k \in 1 .. m + 1 PROVE DOMAIN e[k] = Scope(F, k - 1)
  BY <1>2, <1>6
<1>11. Scoped!Abandoned(m + 1) = [k \in 1 .. m + 1 |-> [x \in Scope(F, k - 1) |-> Held(F, S, k - 1, m, x)]]
  <2>1. ASSUME NEW k \in 1 .. m + 1
        PROVE  [x \in DOMAIN e[k] |-> IF k = Scoped!Home(rest, x) THEN e[Scoped!Home(e, x)][x] ELSE e[k][x]]
               = [x \in Scope(F, k - 1) |-> Held(F, S, k - 1, m, x)]
    BY <1>9, <1>10
  <2>2. QED BY <1>3, <2>1
<1>12. Scoped!Abandoned(m + 1) = b
  BY <1>4, <1>11
<1>13. QED BY <1>12 DEF b, F, S

-----------------------------------------------------------------------------
(* Steps of the environment.                                               *)

\* The frames above l are gone, those up to m have put back what they saved.
Popped(l, m) ==
    /\ l \in Nat /\ m \in Nat /\ l <= m /\ m <= Len(frames)
    /\ frames' = SubSeq(frames, 1, l) /\ nv' \in [Names -> Values]
    /\ PutBack(frames, nv, nv', l, m)

FramesTyped ==
    frames \in Seq(FrameType) /\ Frames(frames, Len(frames)) /\ nv \in [Names -> Values]

LEMMA EnvironmentTyped ==
    ASSUME FramesTyped
    PROVE  Environment \in Seq(Scopes1) /\ Len(Environment) = Len(frames) + 1 /\ Len(frames) \in Nat
<1>1. Environment = Env(frames, nv, Len(frames)) /\ nv \in [Names -> Values]
      /\ Frames(frames, Len(frames))
  BY EnvironmentIs DEF FramesTyped
<1>2. Len(frames) \in Nat
  BY <1>1 DEF Frames
<1>3. QED BY <1>1, <1>2, EnvTyped

LEMMA PoppedStep ==
    ASSUME FramesTyped, NEW l, NEW m, Popped(l, m)
    PROVE  /\ Len(frames') = l /\ Frames(frames, m)
           /\ Environment' = SubSeq(Env(frames, nv, m), 1, l + 1)
<1>1. /\ l \in Nat /\ m \in Nat /\ l <= m /\ m <= Len(frames) /\ Len(frames) \in Nat
      /\ frames \in Seq(FrameType) /\ nv \in [Names -> Values] /\ nv' \in [Names -> Values]
      /\ PutBack(frames, nv, nv', l, m)
  BY LenProperties DEF Popped, FramesTyped
<1>2. l <= Len(frames) /\ Frames(frames, m)
  BY <1>1 DEF FramesTyped, Frames
<1>3. Len(frames') = l /\ \A i \in 1 .. l : frames'[i] = frames[i]
  BY <1>1, <1>2, PrefixSeq DEF Popped
<1>4. Env(frames, nv', l) = SubSeq(Env(frames, nv, m), 1, l + 1)
  BY <1>1, <1>2, PoppedEnv
<1>5. Env(frames', nv', l) = Env(frames, nv', l)
  BY <1>1, <1>3, SameEnv
<1>6. QED BY <1>2, <1>3, <1>4, <1>5, EnvironmentIs

\* The innermost scope is left.
LEMMA LeaveStep ==
    ASSUME FramesTyped, Len(frames) > 0, Popped(Len(frames) - 1, Len(frames))
    PROVE  Scoped!Leave
<1> DEFINE n == Len(frames)
           l == n - 1
<1>1. n \in Nat /\ Len(Environment) = n + 1 /\ Environment = Env(frames, nv, n)
  BY EnvironmentTyped, EnvironmentIs
<1>2. Environment' = SubSeq(Env(frames, nv, n), 1, l + 1)
  BY PoppedStep
<1>3. l + 1 = n /\ n + 1 - 1 = n /\ n + 1 > 1
  BY <1>1
<1> HIDE DEF n, l
<1>4. Len(Environment) > 1 /\ Environment' = SubSeq(Environment, 1, Len(Environment) - 1)
  BY <1>1, <1>2, <1>3
<1>5. QED BY <1>4 DEF Scoped!Leave

\* Scopes are abandoned.
LEMMA CutStep ==
    ASSUME FramesTyped, NEW l, NEW m, Popped(l, m), l < Len(frames)
    PROVE  Scoped!Cut
<1> DEFINE n == Len(frames)
           e == Environment
<1>1. n \in Nat /\ Len(e) = n + 1 /\ l \in Nat /\ m \in Nat /\ l <= m /\ m <= n /\ l < n
  BY EnvironmentTyped DEF Popped
<1>2. e' = SubSeq(Env(frames, nv, m), 1, l + 1) /\ Frames(frames, m)
  BY PoppedStep
<1>3. Scoped!Abandoned(m + 1) = Env(frames, nv, m)
  BY <1>1, AbandonedEnv DEF FramesTyped
<1>4. Env(frames, nv, m) \in Seq(Scopes1) /\ Len(Env(frames, nv, m)) = m + 1
  BY <1>2, EnvTyped DEF FramesTyped
<1> HIDE DEF n, e
<1>5. Len(e') = l + 1
  <2>1. l + 1 \in Nat /\ l + 1 <= m + 1
    BY <1>1
  <2>2. QED BY <1>2, <1>4, <2>1, PrefixSeq
<1>6. Len(e') \in 1 .. (Len(e) - 1) /\ m + 1 \in Len(e') .. Len(e)
  BY <1>1, <1>5
<1>7. e' = SubSeq(Scoped!Abandoned(m + 1), 1, Len(e'))
  BY <1>2, <1>3, <1>5
<1>8. QED BY <1>6, <1>7 DEF Scoped!Cut, e

\* A scope is opened.
LEMMA EnterStep ==
    ASSUME FramesTyped, NEW fr \in FrameType, Len(fr.names) = Len(fr.vals),
           frames' = Append(frames, fr), nv' \in [Names -> Values],
           \A x \in Names : nv[x] = IF Places(fr.names, x) = {} THEN nv'[x] ELSE SavedOf(fr, x)
    PROVE  Scoped!Enter
<1> DEFINE n == Len(frames)
           e == Environment
           G == frames'
           R == nv'
<1>1. n \in Nat /\ e \in Seq(Scopes1) /\ Len(e) = n + 1 /\ e = Env(frames, nv, n)
      /\ nv \in [Names -> Values] /\ R \in [Names -> Values] /\ frames \in Seq(FrameType)
  BY EnvironmentTyped, EnvironmentIs DEF FramesTyped
<1>2. Len(G) = n + 1 /\ (\A i \in 1 .. n : G[i] = frames[i]) /\ G[n + 1] = fr
  BY <1>1, AppendProperties
<1>3. e' = Env(G, R, Len(G))
  BY EnvironmentIs
<1> HIDE DEF n, e, G, R
<1>4. Frames(G, n + 1)
  <2>1. n + 1 \in Nat /\ \A i \in 1 .. n + 1 : i \in 1 .. n \/ i = n + 1
    BY <1>1
  <2>2. \A i \in 1 .. n : frames[i] \in FrameType /\ Len(frames[i].names) = Len(frames[i].vals)
    BY DEF FramesTyped, Frames, n
  <2>3. QED BY <1>2, <2>1, <2>2 DEF Frames
<1>5. ASSUME NEW x \in Names PROVE nv[x] = Held(G, R, n, n + 1, x)
  <2>1. nv[x] = IF Places(fr.names, x) = {} THEN R[x] ELSE SavedOf(fr, x)
    BY DEF R
  <2>2. \A j : j \in Savers(G, n, n + 1, x) <=> j = n + 1 /\ Places(fr.names, x) # {}
    <3>1. \A j : j \in (n + 1) .. (n + 1) <=> j = n + 1
      BY <1>1
    <3>2. QED BY <1>2, <3>1 DEF Savers
  <2>3. CASE Places(fr.names, x) = {}
    BY <2>1, <2>2, <2>3 DEF Held
  <2>4. CASE Places(fr.names, x) # {}
    <3>1. n + 1 \in Savers(G, n, n + 1, x) /\ Savers(G, n, n + 1, x) \in SUBSET Nat
      BY <1>1, <2>2, <2>4
    <3>2. Min(Savers(G, n, n + 1, x)) = n + 1
      BY <2>2, <3>1, LeastNat
    <3>3. QED BY <1>2, <2>1, <2>4, <3>1, <3>2 DEF Held
  <2>5. QED BY <2>3, <2>4
<1>6. Env(G, nv, n) = SubSeq(Env(G, R, n + 1), 1, n + 1)
  <2>1. n <= n + 1
    BY <1>1
  <2>2. PutBack(G, R, nv, n, n + 1)
    BY <1>5 DEF PutBack
  <2> DEFINE m == n + 1
             S == nv
  <2>3. Frames(G, m) /\ PutBack(G, R, S, n, m) /\ n <= m
        /\ S \in [Names -> Values] /\ R \in [Names -> Values] /\ n \in Nat
    BY <1>1, <1>4, <2>1, <2>2
  <2> HIDE DEF m, S
  <2>4. Env(G, S, n) = SubSeq(Env(G, R, m), 1, n + 1)
    BY <2>3, PoppedEnv
  <2>5. QED BY <2>4 DEF m, S
<1>7. Env(G, nv, n) = e
  BY <1>1, <1>2, SameEnv
<1> DEFINE f == e'
<1>8. /\ f \in Seq(Scopes1) /\ Len(f) = n + 2 /\ e = SubSeq(f, 1, n + 1)
      /\ f[n + 2] \in [Scope(G, n + 1) -> Values] /\ Scope(G, n + 1) \subseteq Names
  <2> DEFINE m == n + 1
  <2>1. f = Env(G, R, m) /\ Frames(G, m) /\ R \in [Names -> Values]
    BY <1>1, <1>2, <1>3, <1>4
  <2> HIDE DEF f, m
  <2>2. /\ f \in Seq(Scopes1) /\ Len(f) = m + 1
        /\ \A d \in 1 .. m + 1 : f[d] \in [Scope(G, d - 1) -> Values] /\ Scope(G, d - 1) \subseteq Names
    BY <2>1, EnvTyped
  <2>3. m + 1 = n + 2 /\ n + 2 \in 1 .. m + 1 /\ (n + 2) - 1 = n + 1
    BY <1>1 DEF m
  <2>4. Env(G, nv, n) = SubSeq(f, 1, n + 1)
    BY <1>6, <2>1 DEF m
  <2>5. QED BY <1>7, <2>2, <2>3, <2>4
<1> HIDE DEF f
<1> DEFINE s == f[n + 2]
           a == Append(e, s)
<1>9. s \in Scopes1 /\ Scoped!IsScope(s)
  <2>1. DOMAIN s = Scope(G, n + 1)
    BY <1>8
  <2>2. QED BY <1>8, <2>1 DEF Scoped!IsScope, Scopes1
<1>10. f = a
  <2>1. \A i \in 1 .. n + 1 : e[i] = f[i]
    <3>1. n + 1 \in Nat /\ n + 1 <= Len(f)
      BY <1>1, <1>8
    <3>2. QED BY <1>8, <3>1, PrefixSeq
  <2>2. a \in Seq(Scopes1) /\ Len(a) = n + 2 /\ (\A i \in 1 .. n + 1 : a[i] = e[i]) /\ a[n + 2] = s
    <3> HIDE DEF s
    <3>1. a \in Seq(Scopes1) /\ Len(a) = Len(e) + 1 /\ (\A i \in 1 .. Len(e) : a[i] = e[i])
          /\ a[Len(e) + 1] = s
      BY <1>1, <1>9, AppendProperties
    <3>2. Len(e) = n + 1 /\ (n + 1) + 1 = n + 2
      BY <1>1
    <3>3. QED BY <3>1, <3>2
  <2> HIDE DEF a
  <2>3. \A i \in 1 .. n + 2 : f[i] = a[i]
    <3>1. \A i \in 1 .. n + 2 : i \in 1 .. n + 1 \/ i = n + 2
      BY <1>1
    <3>2. QED BY <2>1, <2>2, <3>1
  <2>4. QED BY <1>8, <2>2, <2>3, SeqEqual
<1>11. Len(f) = Len(e) + 1 /\ n + 2 = Len(e) + 1
  BY <1>1, <1>8
<1> HIDE DEF e
<1>12. Len(e') = Len(e) + 1 /\ e' = Append(e, e'[Len(e) + 1]) /\ Scoped!IsScope(e'[Len(e) + 1])
  BY <1>9, <1>10, <1>11 DEF f
<1>13. QED BY <1>12 DEF Scoped!Enter, e

\* A variable is assigned.
LEMMA AssignStep ==
    ASSUME FramesTyped, frames' = frames, NEW x \in Names, nv' \in [Names -> Values],
           \A y \in Names : y # x => nv'[y] = nv[y]
    PROVE  Environment' = Environment \/ Scoped!Assign
<1> DEFINE n == Len(frames)
           e == Environment
           R == nv'
           F == frames
           V == nv
           h == Scoped!Home(e, x)
           f == e'
           w == f[h][x]
           s == [e[h] EXCEPT ![x] = w]
           a == [e EXCEPT ![h] = s]
<1>1. n \in Nat /\ e = Env(F, V, n) /\ V \in [Names -> Values] /\ R \in [Names -> Values]
      /\ Frames(F, n)
  BY EnvironmentTyped, EnvironmentIs DEF FramesTyped
<1>2. f = Env(F, R, n)
  BY EnvironmentIs
<1>3. \A y \in Names : y # x => R[y] = V[y]
  OBVIOUS
<1> HIDE DEF n, e, R, F, V, f, h, w, s, a
<1>4. /\ e \in Seq(Scopes1) /\ Len(e) = n + 1
      /\ \A d \in 1 .. n + 1 : /\ DOMAIN e[d] = Scope(F, d - 1) /\ Scope(F, d - 1) \subseteq Names
                               /\ e[d] \in [Scope(F, d - 1) -> Values]
                               /\ \A y \in Scope(F, d - 1) : e[d][y] = Held(F, V, d - 1, n, y)
  BY <1>1, EnvTyped
<1>5. /\ f \in Seq(Scopes1) /\ Len(f) = n + 1
      /\ \A d \in 1 .. n + 1 : /\ f[d] \in [Scope(F, d - 1) -> Values]
                               /\ \A y \in Scope(F, d - 1) : f[d][y] = Held(F, R, d - 1, n, y)
  BY <1>1, <1>2, EnvTyped
<1>6. /\ h \in 1 .. n + 1 /\ x \in Scope(F, h - 1)
      /\ \A d \in 1 .. n + 1 : d # h /\ x \in Scope(F, d - 1) => Savers(F, d - 1, n, x) # {}
  <2>1. Shaped(e, F, n)
    BY <1>4 DEF Shaped
  <2>2. /\ h \in 1 .. n + 1
        /\ \A d \in 1 .. n + 1 : d = h <=> x \in Scope(F, d - 1) /\ Savers(F, d - 1, n, x) = {}
    BY <1>1, <2>1, HomeIs DEF h
  <2>3. QED BY <2>2
<1>7. w \in Values
  BY <1>5, <1>6 DEF w
<1>8. ASSUME NEW d \in 1 .. n + 1, NEW y \in Scope(F, d - 1), ~(d = h /\ y = x)
      PROVE  f[d][y] = e[d][y]
  <2>1. y \in Names
    BY <1>4
  <2>2. y # x \/ Savers(F, d - 1, n, y) # {}
    BY <1>6, <1>8
  <2>3. Held(F, R, d - 1, n, y) = Held(F, V, d - 1, n, y)
    BY <1>3, <2>1, <2>2 DEF Held
  <2>4. QED BY <1>4, <1>5, <2>3
<1>9. s \in [Scope(F, h - 1) -> Values] /\ s \in Scopes1 /\ s[x] = w
      /\ \A y \in Scope(F, h - 1) : y # x => s[y] = e[h][y]
  BY <1>4, <1>6, <1>7 DEF s, Scopes1
<1>10. a \in Seq(Scopes1) /\ Len(a) = n + 1
       /\ \A d \in 1 .. n + 1 : a[d] = IF d = h THEN s ELSE e[d]
  <2>1. h \in 1 .. Len(e)
    BY <1>4, <1>6
  <2>2. QED BY <1>4, <1>9, <2>1, ExceptSeq DEF a
<1>11. ASSUME NEW d \in 1 .. n + 1 PROVE f[d] = a[d]
  <2>1. CASE d = h
    <3>1. \A y \in Scope(F, h - 1) : f[h][y] = s[y]
      BY <1>6, <1>8, <1>9 DEF w
    <3>2. f[h] = s
      BY <1>5, <1>6, <1>9, <3>1
    <3>3. QED BY <1>10, <2>1, <3>2
  <2>2. CASE d # h
    <3>1. \A y \in Scope(F, d - 1) : f[d][y] = e[d][y]
      BY <1>8, <2>2
    <3>2. f[d] = e[d]
      BY <1>4, <1>5, <3>1
    <3>3. QED BY <1>10, <2>2, <3>2
  <2>3. QED BY <2>1, <2>2
<1>12. f = a
  BY <1>5, <1>10, <1>11, SeqEqual
<1>13. Len(f) = Len(e)
  BY <1>4, <1>5
<1>14. f = [e EXCEPT ![h] = [@ EXCEPT ![x] = w]]
  BY <1>12, Zenon DEF a, s
<1>15. QED BY <1>7, <1>13, <1>14, Zenon DEF Scoped!Assign, w, h, e, f

-----------------------------------------------------------------------------
(* Steps of the machine.                                                   *)

LEMMA TypedFrames == SMInv => FramesTyped
<1> SUFFICES ASSUME SMInv PROVE FramesTyped
  OBVIOUS
<1>1. Len(frames) \in Nat /\ \A i \in 1 .. Len(frames) : frames[i] \in FrameType
  BY Counts
<1>2. Frames(frames, Len(frames))
  BY <1>1 DEF Frames, SMInv, FrameOK
<1>3. QED BY <1>2 DEF FramesTyped, SMInv, Typed

\* One frame put back, and several.
LEMMA RestoreHeld ==
    ASSUME NEW F, NEW S, NEW l \in Nat, NEW x \in Names
    PROVE  Restore(S, F[l + 1])[x] = Held(F, S, l, l + 1, x)
<1> DEFINE T == Savers(F, l, l + 1, x)
<1>1. \A j : j \in T <=> j = l + 1 /\ Places(F[l + 1].names, x) # {}
  <2>1. \A j : j \in (l + 1) .. (l + 1) <=> j = l + 1
    OBVIOUS
  <2>2. QED BY <2>1 DEF Savers
<1>2. T \in SUBSET Nat
  BY <1>1
<1>3. CASE Places(F[l + 1].names, x) = {}
  BY <1>1, <1>3 DEF Held, Restore
<1>4. CASE Places(F[l + 1].names, x) # {}
  <2>1. Min(T) = l + 1 /\ T # {}
    <3> HIDE DEF T
    <3>1. QED BY <1>1, <1>2, <1>4, LeastNat
  <2>2. QED BY <1>4, <2>1 DEF Held, Restore
<1>5. QED BY <1>3, <1>4

LEMMA RestoreAllHeld ==
    ASSUME NEW S, NEW m \in Nat, NEW x \in Names
    PROVE  RestoreAll(S, m)[x] = Held(frames, S, 0, m, x)
<1>1. Savers(frames, 0, m, x) = {k \in 1 .. m : Places(frames[k].names, x) # {}}
  BY DEF Savers
<1>2. QED BY <1>1 DEF RestoreAll, Held

\* What a step of the machine does to the environment.
Scopewise ==
    \/ Environment' = Environment
    \/ Scoped!Enter \/ Scoped!Assign \/ Scoped!Leave
    \/ Scoped!Cut /\ (At("ERROR") \/ (At("HALT") /\ Nested))

LEMMA SameScopes ==
    ASSUME frames' = frames, nv' = nv
    PROVE  Scopewise
BY EnvironmentIs DEF Scopewise

\* The variables keep their values when frames are cut.
LEMMA CutOnly ==
    ASSUME SMInv, NEW l \in Nat, l <= Len(frames), frames' = SubSeq(frames, 1, l), nv' = nv,
           At("ERROR") \/ (At("HALT") /\ Nested) \/ l = Len(frames)
    PROVE  Scopewise
<1>1. Len(frames) \in Nat /\ frames \in Seq(FrameType) /\ nv \in [Names -> Values] /\ l <= l
  <2>1. l <= l
    OBVIOUS
  <2>2. Len(frames) \in Nat
    BY Counts
  <2>3. QED BY <2>1, <2>2 DEF SMInv, Typed
<1>2. CASE l = Len(frames)
  <2>1. Len(frames') = Len(frames) /\ frames' \in Seq(FrameType)
        /\ \A i \in 1 .. Len(frames) : frames'[i] = frames[i]
    BY <1>1, <1>2, PrefixSeq
  <2>2. frames' = frames
    BY <1>1, <2>1, SeqEqual
  <2>3. QED BY <2>2, SameScopes
<1>3. CASE l # Len(frames)
  <2>1. \A x \in Names : nv'[x] = Held(frames, nv, l, l, x)
    <3>1. \A x : Savers(frames, l, l, x) = {}
      BY DEF Savers
    <3>2. QED BY <3>1 DEF Held
  <2>2. Popped(l, l)
    BY <1>1, <2>1 DEF Popped, PutBack
  <2>3. l < Len(frames)
    BY <1>1, <1>3
  <2>4. QED BY <1>3, <2>2, <2>3, TypedFrames, CutStep DEF Scopewise
<1>4. QED BY <1>2, <1>3

\* One frame is popped and puts back what it saved.
LEMMA RestoredOne ==
    ASSUME SMInv, NEW l \in Nat, l + 1 <= Len(frames), frames' = SubSeq(frames, 1, l),
           nv' = Restore(nv, frames[l + 1]),
           (At("HALT") /\ Nested) \/ l + 1 = Len(frames)
    PROVE  Scopewise
<1>1. Len(frames) \in Nat /\ l + 1 \in Nat /\ l <= l + 1 /\ l < Len(frames)
      /\ l + 1 \in 1 .. Len(frames)
  <2>1. Len(frames) \in Nat
    BY Counts
  <2>2. QED BY <2>1
<1>2. nv' \in [Names -> Values]
  <2>1. frames[l + 1] \in FrameType /\ FrameOK(frames[l + 1]) /\ nv \in [Names -> Values]
    BY <1>1, Counts DEF SMInv, Typed
  <2>2. QED BY <2>1, RestoreTyped DEF FrameOK
<1>3. PutBack(frames, nv, nv', l, l + 1)
  BY RestoreHeld DEF PutBack
<1>4. Popped(l, l + 1)
  BY <1>1, <1>2, <1>3 DEF Popped
<1>5. FramesTyped
  BY TypedFrames
<1>6. CASE l + 1 = Len(frames)
  <2>1. l = Len(frames) - 1 /\ Len(frames) > 0
    BY <1>1, <1>6
  <2>2. Popped(Len(frames) - 1, Len(frames))
    BY <1>4, <1>6, <2>1
  <2>3. QED BY <1>5, <2>1, <2>2, LeaveStep DEF Scopewise
<1>7. CASE At("HALT") /\ Nested
  BY <1>1, <1>4, <1>5, <1>7, CutStep DEF Scopewise
<1>8. QED BY <1>6, <1>7

\* A frame that saves each of its names' values before it is set opens a scope.
LEMMA PlacesOne ==
    ASSUME NEW names \in Seq(Names), NEW f, NEW args, NEW x \in Names, Places(names, x) # {}
    PROVE  LET k == Min(Places(names, x)) IN k \in 1 .. Len(names) /\ SavedVals(names, f, args)[k] = nv[x]
<1> DEFINE k == Min(Places(names, x))
           before == {j \in Places(names, names[k]) : j < k}
<1>1. k \in Places(names, x) /\ \A j \in Places(names, x) : k <= j
  BY PlacesNat, LeastNat
<1>2. k \in 1 .. Len(names) /\ names[k] = x /\ Places(names, x) \in SUBSET Nat
  BY <1>1, PlacesNat DEF Places
<1> HIDE DEF k
<1>3. before = {}
  BY <1>1, <1>2
<1>4. SavedVals(names, f, args)[k] = IF before = {} THEN nv[names[k]] ELSE Bound(f, args, Max(before))
  BY <1>2 DEF SavedVals
<1>5. QED BY <1>2, <1>3, <1>4 DEF k

LEMMA CallScope ==
    ASSUME SMInv, Calls(Ins.op), Ins.op \in {"CALL", "APPLY"}, NEW max \in Nat,
           frames' = Append(frames, Frame(Ins.x, Args, max)),
           nv' = Binds(Declared(Ins.x, max), Ins.x, Args)
    PROVE  Scopewise
<1> DEFINE fr == Frame(Ins.x, Args, max)
           names == Declared(Ins.x, max)
<1>1. /\ fr \in FrameType /\ FrameOK(fr) /\ fr.names = names
      /\ fr.vals = SavedVals(names, Ins.x, Args)
      /\ nv' \in [Names -> Values]
  BY FrameTyped
<1>2. names \in Seq(Names)
  BY ArgsTyped, DeclaredTyped
<1>3. frames' = Append(frames, fr) /\ nv' = Binds(names, Ins.x, Args)
  OBVIOUS
<1> HIDE DEF fr, names
<1>4. ASSUME NEW x \in Names
      PROVE  nv[x] = IF Places(fr.names, x) = {} THEN nv'[x] ELSE SavedOf(fr, x)
  <2>1. CASE Places(names, x) = {}
    BY <1>1, <1>3, <2>1 DEF Binds
  <2>2. CASE Places(names, x) # {}
    <3>1. SavedVals(names, Ins.x, Args)[Min(Places(names, x))] = nv[x]
      BY <1>2, <2>2, PlacesOne
    <3>2. QED BY <1>1, <2>2, <3>1 DEF SavedOf
  <2>3. QED BY <2>1, <2>2
<1>5. Scoped!Enter
  BY <1>1, <1>3, <1>4, TypedFrames, EnterStep DEF FrameOK
<1>6. QED BY <1>5 DEF Scopewise

LEMMA StoreScope == ASSUME SMInv, Store PROVE Scopewise
<1> DEFINE v == Last1(Run.stack)
<1>1. /\ status = "running" /\ Ins.op = "STORE" /\ frames' = frames
      /\ nv' = IF v = Fail THEN nv ELSE [nv EXCEPT ![Ins.x] = v]
  BY DEF Store, At
<1>2. Ins.x \in Names /\ nv \in [Names -> Values]
  BY <1>1, Reached DEF WellFormed, SMInv, Typed
<1>3. SMInv'
  BY StoreStep
<1>4. nv' \in [Names -> Values] /\ \A y \in Names : y # Ins.x => nv'[y] = nv[y]
  <2>1. nv' \in [Names -> Values]
    BY <1>3 DEF SMInv, Typed
  <2>2. QED BY <1>1, <1>2, <2>1
<1>5. QED BY <1>1, <1>2, <1>4, TypedFrames, AssignStep DEF Scopewise

LEMMA HookCallScope == ASSUME SMInv, HookCall PROVE Scopewise
<1>1. Calls(Ins.op) /\ Ins.op \in {"CALL", "APPLY"}
  BY DEF HookCall, Calls, At
<1>2. CASE HasLabel(Ins.x)
  <2>1. frames' = Append(frames, Frame(Ins.x, Args, HookSavedMax))
        /\ nv' = Binds(Declared(Ins.x, HookSavedMax), Ins.x, Args)
    BY <1>2 DEF HookCall
  <2>2. HookSavedMax \in Nat
    BY SMAssumption
  <2>3. QED BY <1>1, <2>1, <2>2, CallScope
<1>3. CASE ~HasLabel(Ins.x)
  BY <1>3, SameScopes DEF HookCall
<1>4. QED BY <1>2, <1>3

LEMMA CallFunctionScope == ASSUME SMInv, CallFunction PROVE Scopewise
<1>1. Calls(Ins.op) /\ Ins.op \in {"CALL", "APPLY"}
      /\ frames' = Append(frames, Frame(Ins.x, Args, SavedMax))
      /\ nv' = Binds(Declared(Ins.x, SavedMax), Ins.x, Args)
  BY DEF CallFunction, Calls, At
<1>2. SavedMax \in Nat
  BY SMAssumption
<1>3. QED BY <1>1, <1>2, CallScope

LEMMA CallExpressionScope == ASSUME SMInv, CallExpression PROVE Scopewise
<1> DEFINE fr == [retPc |-> Run.pc + 1, ret |-> NoName, names |-> <<>>, vals |-> <<>>,
                  stack |-> Run.stack]
<1>1. /\ status = "running" /\ Ins.op = "CALL_EXPRESSION" /\ nv' = nv
      /\ frames' = Append(frames, fr) \/ frames' = frames
  BY DEF CallExpression, At
<1>2. CASE frames' = frames
  BY <1>1, <1>2, SameScopes
<1>3. CASE frames' = Append(frames, fr)
  <2>1. /\ <<>> \in Seq(Names) /\ <<>> \in Seq(Values) /\ Run.pc + 1 \in Nat
        /\ Run.stack \in Seq(Operands)
    <3>1. Run.pc \in Nat
      BY Counts DEF RunType
    <3>2. QED BY <3>1, Counts, EmptySeq
  <2>2. fr \in FrameType /\ fr.names = <<>> /\ fr.vals = <<>>
    BY <2>1 DEF FrameType
  <2>3. ASSUME NEW x PROVE Places(<<>>, x) = {}
    <3>1. Len(<<>>) = 0
      BY EmptySeq
    <3>2. QED BY <3>1 DEF Places
  <2> HIDE DEF fr
  <2>4. nv' \in [Names -> Values]
    BY <1>1 DEF SMInv, Typed
  <2>5. \A x \in Names : nv[x] = IF Places(fr.names, x) = {} THEN nv'[x] ELSE SavedOf(fr, x)
    BY <1>1, <2>2, <2>3
  <2>6. Scoped!Enter
    BY <1>3, <2>2, <2>4, <2>5, TypedFrames, EnterStep
  <2>7. QED BY <2>6 DEF Scopewise
<1>4. QED BY <1>1, <1>2, <1>3

LEMMA ReturnFromScope ==
    ASSUME SMInv, Depth > 0, NEW kind, ReturnFrom(Last1(frames), kind)
    PROVE  Scopewise
<1> DEFINE l == Len(frames) - 1
<1>1. nv' = Restore(nv, frames[Len(frames)]) /\ frames' = SubSeq(frames, 1, l)
  BY DEF ReturnFrom, Last1, Drop
<1>2. l \in Nat /\ l + 1 = Len(frames) /\ l + 1 <= Len(frames)
  <2>1. Len(frames) \in Nat /\ Run.base \in Nat
    BY Counts, BaseBelow
  <2>2. QED BY <2>1 DEF Depth
<1>3. nv' = Restore(nv, frames[l + 1])
  BY <1>1, <1>2
<1> HIDE DEF l
<1>4. QED BY <1>1, <1>2, <1>3, RestoredOne

\* A nested run ends: its frames go, and a hook puts back what its own saved.
LEMMA EndRunScope ==
    ASSUME SMInv, Nested, NEW how, EndRun(how), At("HALT") \/ Depth = 0
    PROVE  Scopewise
<1> DEFINE l == Run.floor
<1>1. /\ nv' = IF Run.kind = "hook" THEN Restore(nv, frames[Run.base]) ELSE nv
      /\ frames' = SubSeq(frames, 1, l)
  BY DEF EndRun
<1>2. /\ l \in Nat /\ Len(frames) \in Nat /\ Run.base \in Nat /\ Run.base <= Len(frames)
      /\ Run.base = l + (IF Run.kind = "hook" THEN 1 ELSE 0)
  <2>1. Len(runs) \in 1 .. Len(runs)
    BY Counts
  <2>2. QED BY <2>1, Counts, BaseBelow DEF SMInv, Layered
<1>3. At("HALT") \/ Run.base = Len(frames)
  BY <1>2 DEF Depth
<1> HIDE DEF l
<1>4. CASE Run.kind = "hook"
  <2>1. Run.base = l + 1 /\ nv' = Restore(nv, frames[l + 1])
    BY <1>1, <1>2, <1>4
  <2>2. QED BY <1>1, <1>2, <1>3, <2>1, RestoredOne
<1>5. CASE Run.kind # "hook"
  <2>1. l <= Len(frames) /\ nv' = nv /\ Run.base = l
    BY <1>1, <1>2, <1>5
  <2>2. QED BY <1>1, <1>2, <1>3, <2>1, CutOnly
<1>6. QED BY <1>4, <1>5

LEMMA ReturnScope == ASSUME SMInv, Return PROVE Scopewise
<1> DEFINE skip == (Ins.x[2] = "S" /\ ~Run.ok) \/ (Ins.x[2] = "F" /\ Run.ok)
           kind == Ins.x[1]
<1>1. \/ nv' = nv /\ frames' = frames
      \/ Depth > 0 /\ ReturnFrom(Last1(frames), kind)
      \/ Depth = 0 /\ Nested /\ EndRun(kind)
  <2>1. CASE skip
    BY <2>1 DEF Return
  <2>2. CASE ~skip
    BY <2>2 DEF Return
  <2>3. QED BY <2>1, <2>2
<1> HIDE DEF kind
<1>2. QED BY <1>1, SameScopes, ReturnFromScope, EndRunScope

LEMMA HaltScope == ASSUME SMInv, Halt PROVE Scopewise
<1>1. At("HALT") /\ ((Nested /\ EndRun(rtntype)) \/ (nv' = nv /\ frames' = frames))
  BY DEF Halt
<1>2. QED BY <1>1, SameScopes, EndRunScope

LEMMA ErrorScope == ASSUME SMInv, Error PROVE Scopewise
<1>1. At("ERROR") /\ IF Catcher > 1 THEN EvalFails(Catcher) ELSE MainRecovers
  BY DEF Error
<1>2. CASE Catcher > 1
  <2> DEFINE l == runs[Catcher].floor
  <2>1. frames' = SubSeq(frames, 1, l) /\ nv' = nv
    BY <1>1, <1>2 DEF EvalFails
  <2>2. l \in Nat /\ l <= Len(frames)
    <3> DEFINE k == Catcher
    <3>1. k \in 1 .. Len(runs) /\ Len(frames) \in Nat
      BY CatcherThere, Counts
    <3> HIDE DEF k
    <3>2. /\ runs[k].floor \in Nat /\ runs[k].base \in Nat /\ runs[k].floor <= runs[k].base
          /\ runs[k].base <= Len(frames)
      BY <3>1, Counts DEF SMInv, Layered
    <3>3. \A a, b, c \in Nat : a <= b /\ b <= c => a <= c
      OBVIOUS
    <3>4. runs[k].floor <= Len(frames)
      BY <3>1, <3>2, <3>3, Zenon
    <3>5. QED BY <3>2, <3>4 DEF k
  <2> HIDE DEF l
  <2>3. QED BY <1>1, <2>1, <2>2, CutOnly
<1>3. CASE ~(Catcher > 1)
  <2> DEFINE m == RunTop(1)
  <2>1. m \in Nat /\ m <= Len(frames) /\ Len(frames) \in Nat
    BY RunTopNat, Counts
  <2>2. CASE machine.runner # "jit"
    <3>1. frames' = SubSeq(frames, 1, m) /\ nv' = nv
      BY <1>1, <1>3, <2>2 DEF MainRecovers
    <3> HIDE DEF m
    <3>2. QED BY <1>1, <2>1, <3>1, CutOnly
  <2>3. CASE machine.runner = "jit"
    <3>1. frames' = <<>> /\ nv' = RestoreAll(nv, m)
      BY <1>1, <1>3, <2>3 DEF MainRecovers
    <3> HIDE DEF m
    <3>2. nv' \in [Names -> Values] /\ PutBack(frames, nv, nv', 0, m)
      BY <2>1, <3>1, RestoreAllTyped, RestoreAllHeld DEF PutBack
    <3>3. frames \in Seq(FrameType) /\ nv \in [Names -> Values]
      BY DEF SMInv, Typed
    <3>4. frames' = SubSeq(frames, 1, 0)
      <4>1. SubSeq(frames, 1, 0) \in Seq(FrameType) /\ Len(SubSeq(frames, 1, 0)) = 0
        BY <2>1, <3>3, PrefixSeq
      <4>2. QED BY <3>1, <4>1, EmptySeq
    <3>5. Popped(0, m)
      BY <2>1, <3>2, <3>4 DEF Popped
    <3>6. CASE 0 < Len(frames)
      BY <1>1, <3>5, <3>6, TypedFrames, CutStep DEF Scopewise
    <3>7. CASE ~(0 < Len(frames))
      <4>1. Len(frames) = 0 /\ m = 0
        BY <2>1, <3>7
      <4>2. frames = <<>>
        BY <3>3, <4>1, EmptySeq
      <4>3. ASSUME NEW x \in Names PROVE nv'[x] = nv[x]
        <5>1. Savers(frames, 0, 0, x) = {}
          BY DEF Savers
        <5>2. QED BY <3>2, <4>1, <5>1 DEF PutBack, Held
      <4>4. nv' = nv
        BY <3>2, <3>3, <4>3
      <4>5. QED BY <3>1, <4>2, <4>4, SameScopes
    <3>8. QED BY <3>6, <3>7
  <2>4. QED BY <2>2, <2>3
<1>4. QED BY <1>2, <1>3

LEMMA NextScope == SMInv /\ [Next]_vars => Scopewise
<1> SUFFICES ASSUME SMInv, [Next]_vars PROVE Scopewise
  OBVIOUS
<1>1. CASE Stno             BY <1>1, SameScopes DEF Stno
<1>2. CASE Plain            BY <1>2, SameScopes DEF Plain
<1>3. CASE Store            BY <1>3, StoreScope
<1>4. CASE CallFails        BY <1>4, SameScopes DEF CallFails
<1>5. CASE CallFunction     BY <1>5, CallFunctionScope
<1>6. CASE HookCall         BY <1>6, HookCallScope
<1>7. CASE CallExpression   BY <1>7, CallExpressionScope
<1>8. CASE Eval             BY <1>8, SameScopes DEF Eval
<1>9. CASE Return           BY <1>9, ReturnScope
<1>10. CASE Halt            BY <1>10, HaltScope
<1>11. CASE Error           BY <1>11, ErrorScope
<1>12. CASE UNCHANGED vars  BY <1>12, SameScopes DEF vars
<1>13. QED
  BY <1>1, <1>2, <1>3, <1>4, <1>5, <1>6, <1>7, <1>8, <1>9, <1>10, <1>11, <1>12 DEF Next, Ended

\* A program starts in the global scope, with a value for every variable.
LEMMA InitScope == SMInv /\ Init => Scoped!Init
<1> SUFFICES ASSUME SMInv, Init PROVE Scoped!Init
  OBVIOUS
<1> DEFINE e == Environment
           s == e[1]
           a == <<s>>
<1>1. frames = <<>> /\ Len(frames) = 0 /\ FramesTyped
  BY TypedFrames, EmptySeq DEF Init
<1>2. e = Env(frames, nv, 0) /\ nv \in [Names -> Values] /\ Frames(frames, 0)
  BY <1>1, EnvironmentIs DEF FramesTyped
<1> HIDE DEF e
<1>3. /\ e \in Seq(Scopes1) /\ Len(e) = 0 + 1
      /\ \A d \in 1 .. 0 + 1 : /\ e[d] \in [Scope(frames, d - 1) -> Values]
                               /\ Scope(frames, d - 1) \subseteq Names
  BY <1>2, EnvTyped
<1>4. Len(e) = 1 /\ s \in [Names -> Values]
  <2>1. 0 + 1 = 1 /\ 1 \in 1 .. 0 + 1 /\ 1 - 1 = 0
    OBVIOUS
  <2>2. QED BY <1>3, <2>1 DEF Scope
<1> HIDE DEF s
<1>5. e = a
  <2>1. s \in Scopes1
    BY <1>4 DEF Scopes1
  <2>2. a \in Seq(Scopes1) /\ Len(a) = 1 /\ a[1] = s
    BY <2>1
  <2>3. \A i \in 1 .. Len(e) : e[i] = a[i]
    <3>1. \A i \in 1 .. 1 : i = 1
      OBVIOUS
    <3>2. QED BY <1>4, <2>2, <3>1 DEF s
  <2> HIDE DEF a
  <2>4. QED BY <1>3, <1>4, <2>2, <2>3, SeqEqual
<1>6. QED BY <1>4, <1>5 DEF Scoped!Init, e, s, a

-----------------------------------------------------------------------------
(* The properties.                                                         *)

\* Saving and restoring one value per variable implements a deep-binding environment, for any
\* compiled program: every step opens a scope, closes the innermost, assigns the innermost
\* binding of one variable, or cuts scopes as Cut says, and leaves every other binding that
\* some active call will get back as it was.
THEOREM CallsImplementScopes == Spec => ImplementsScopes
<1>1. SMInv /\ Init => Scoped!Init
  BY InitScope
<1>2. SMInv /\ [Next]_vars
      => [Scoped!Enter \/ Scoped!Assign \/ Scoped!Leave \/ Scoped!Cut]_Environment
  BY NextScope DEF Scopewise
<1>3. QED BY <1>1, <1>2, SMHolds, PTL DEF Spec, ImplementsScopes, Scoped!Spec

\* Only an error, and END in a nested run, take scopes away otherwise than the return of the
\* innermost call does.
THEOREM OnlyErrorsCut == Spec => OnlyErrorsCutScopes
<1>1. SMInv /\ [Next]_vars
      => [At("ERROR") \/ (At("HALT") /\ Nested)
          \/ Scoped!Enter \/ Scoped!Assign \/ Scoped!Leave]_Environment
  BY NextScope DEF Scopewise
<1>2. QED BY <1>1, SMHolds, PTL DEF Spec, OnlyErrorsCutScopes
=============================================================================
