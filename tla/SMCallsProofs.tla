---- MODULE SMCallsProofs ----
(***************************************************************************)
(* For any variables, functions and compiled programs and for call stacks  *)
(* of any size: the machine's state is well formed and no instruction      *)
(* finds fewer operands than it takes, whatever errors and nested runs     *)
(* came before.                                                            *)
(***************************************************************************)
EXTENDS SMCompiled, SequenceTheorems, WellFoundedInduction, TLAPS

\* With n operands the run may go on at pc.
Ready(pc, n) == pc \in 1 .. Len(Code) /\ Height[prog][pc] <= n

\* What a call saved can be put back, and its caller can go on with one more operand.
FrameOK(fr) == Len(fr.names) = Len(fr.vals) /\ Ready(fr.retPc, Len(fr.stack) + 1)

\* Run k lies above the frames of the runs below it; a hook's own frame lies between.
Layered(k) ==
    /\ runs[k].kind = "main" <=> k = 1
    /\ runs[k].base = runs[k].floor + (IF runs[k].kind = "hook" THEN 1 ELSE 0)
    /\ runs[k].base <= Len(frames)
    /\ \A j \in 1 .. k - 1 : runs[j].base <= runs[k].floor
    /\ runs[k].kind = "hook" => frames[runs[k].base].ret \in Names

\* A run that waits for the one above can go on with one more operand.
Waits(k) == Ready(runs[k].pc + 1, Len(runs[k].stack) + 1)

Typed ==
    /\ prog \in DOMAIN Programs /\ machine \in Machines
    /\ nv \in [Names -> Values] /\ frames \in Seq(FrameType) /\ runs \in Seq(RunType)
    /\ rtntype \in {"", "RETURN", "FRETURN", "NRETURN"}
    /\ stcount \in Nat /\ status \in {"running", "stopped", "aborted", "crashed"}

SMInv ==
    /\ Typed
    /\ \A k \in 1 .. Len(frames) : FrameOK(frames[k])
    /\ runs # <<>> /\ runs[1].base = 0
    /\ \A k \in 1 .. Len(runs) : Layered(k)
    /\ \A k \in 1 .. Len(runs) - 1 : Waits(k)
    /\ status = "running" => Ready(Run.pc, Len(Run.stack))

-----------------------------------------------------------------------------
(* Sequences.                                                              *)

LEMMA PrefixSeq ==
    ASSUME NEW S, NEW s \in Seq(S), NEW n \in Nat, n <= Len(s)
    PROVE  /\ SubSeq(s, 1, n) \in Seq(S) /\ Len(SubSeq(s, 1, n)) = n
           /\ \A i \in 1 .. n : SubSeq(s, 1, n)[i] = s[i]
<1> DEFINE t == SubSeq(s, 1, n)
<1>1. Len(s) \in Nat /\ \A i \in 1 .. Len(s) : s[i] \in S
  BY LenProperties, ElementOfSeq
<1>2. \A i \in 1 .. n : s[i] \in S
  BY <1>1
<1>3. t \in Seq(S) /\ Len(t) = (IF 1 <= n THEN n - 1 + 1 ELSE 0)
      /\ \A i \in 1 .. n - 1 + 1 : t[i] = s[1 + i - 1]
  BY <1>2, SubSeqProperties
<1> HIDE DEF t
<1>4. Len(t) = n /\ \A i \in 1 .. n : t[i] = s[i]
  BY <1>3
<1>5. QED BY <1>3, <1>4 DEF t

LEMMA DropSeq ==
    ASSUME NEW S, NEW s \in Seq(S), NEW n \in Nat, n <= Len(s)
    PROVE  /\ Drop(s, n) \in Seq(S) /\ Len(Drop(s, n)) = Len(s) - n /\ Len(s) - n \in Nat
           /\ \A i \in 1 .. Len(s) - n : Drop(s, n)[i] = s[i]
<1>1. Len(s) \in Nat
  BY LenProperties
<1>2. Len(s) - n \in Nat /\ Len(s) - n <= Len(s)
  BY <1>1
<1>3. QED BY <1>2, PrefixSeq DEF Drop

LEMMA LastSeq ==
    ASSUME NEW S, NEW s \in Seq(S), s # <<>>
    PROVE  Len(s) \in 1 .. Len(s) /\ Last1(s) \in S
<1>1. Len(s) \in Nat \ {0}
  BY EmptySeq
<1>2. QED BY <1>1, ElementOfSeq DEF Last1

LEMMA CappedSeq ==
    ASSUME NEW S, NEW s \in Seq(S), NEW n \in Nat
    PROVE  Prefix(s, n) \in Seq(S)
<1>1. Len(s) \in Nat
  BY LenProperties
<1>2. Min2(n, Len(s)) \in Nat /\ Min2(n, Len(s)) <= Len(s)
  BY <1>1 DEF Min2
<1>3. QED BY <1>2, PrefixSeq DEF Prefix

\* A set of numbers has a least one, and one with a bound a greatest.
LEMMA LeastNat ==
    ASSUME NEW T \in SUBSET Nat, T # {}
    PROVE  Min(T) \in T /\ \A m \in T : Min(T) <= m
<1> DEFINE R == {ss \in Nat \X Nat : ss[1] < ss[2]}
<1>1. IsWellFoundedOn(R, Nat)
  BY NatLessThanWellFounded DEF OpToRel
<1>2. PICK n \in T : \A m \in T : ~(<<m, n>> \in R)
  BY <1>1, WFMin
<1>3. ASSUME NEW m \in T PROVE n <= m
  <2>1. m \in Nat /\ n \in Nat /\ <<m, n>> \notin R
    BY <1>2
  <2>2. ~(m < n)
    BY <2>1
  <2>3. QED BY <2>1, <2>2
<1>4. QED BY <1>3 DEF Min

LEMMA GreatestNat ==
    ASSUME NEW b \in Nat, NEW T \in SUBSET (0 .. b), T # {}
    PROVE  Max(T) \in T /\ \A m \in T : m <= Max(T)
<1> DEFINE U == {b - m : m \in T}
<1>1. U \in SUBSET Nat /\ U # {}
  <2>1. ASSUME NEW m \in T PROVE b - m \in Nat
    OBVIOUS
  <2>2. QED BY <2>1
<1> HIDE DEF U
<1>2. Min(U) \in U /\ \A u \in U : Min(U) <= u
  BY <1>1, LeastNat
<1>3. PICK n \in T : Min(U) = b - n
  BY <1>2 DEF U
<1>4. ASSUME NEW m \in T PROVE m <= n
  <2>1. b - n <= b - m
    BY <1>2, <1>3 DEF U
  <2>2. QED BY <2>1
<1>5. QED BY <1>4 DEF Max

-----------------------------------------------------------------------------
(* Values.                                                                 *)

LEMMA Constants ==
    /\ Null \in Values /\ Fail \in Operands /\ Fail \notin Values /\ Values \subseteq Operands
    /\ Null \in Operands
BY DEF Null, Fail, Values, Operands

LEMMA DerefTyped ==
    ASSUME NEW store \in [Names -> Values], NEW v \in Operands
    PROVE  Deref(store, v) \in Operands
<1>1. CASE v = Fail
  BY <1>1 DEF Fail, Deref, Operands
<1>2. CASE v \in {"lit"} \X (Literals \union {""})
  <2>1. v[1] = "lit"
    BY <1>2
  <2>2. QED BY <2>1 DEF Deref
<1>3. CASE v \in {"name"} \X Names
  <2>1. v[1] = "name" /\ v[2] \in Names
    BY <1>3
  <2>2. QED BY <2>1, Constants DEF Deref
<1>4. QED BY <1>1, <1>2, <1>3 DEF Operands, Values

LEMMA TopTyped ==
    ASSUME NEW s \in Seq(Operands)
    PROVE  TopOr(s, Fail) \in Operands
BY LastSeq, Constants DEF TopOr

\* What a function declares is names, what a call saves is their values, and what it binds and
\* later puts back is values again.
LEMMA DeclaredTyped ==
    ASSUME NEW f \in Functions, NEW max \in Nat
    PROVE  Declared(f, max) \in Seq(Names) /\ RetName(f) \in Names
<1>1. RetName(f) \in Names
  BY SMAssumption DEF RetName
<1>2. Prefix(Params[f], SavedMax) \in Seq(Names) /\ Prefix(Locals[f], SavedMax) \in Seq(Names)
  BY SMAssumption, CappedSeq
<1>3. <<RetName(f)>> \in Seq(Names)
  BY <1>1
<1>4. <<RetName(f)>> \o Prefix(Params[f], SavedMax) \o Prefix(Locals[f], SavedMax) \in Seq(Names)
  BY <1>2, <1>3, ConcatProperties
<1>5. QED BY <1>1, <1>4, CappedSeq DEF Declared

LEMMA BoundTyped ==
    ASSUME NEW f, NEW args \in Seq(Values), NEW k
    PROVE  Bound(f, args, k) \in Values
<1>1. CASE k \in 2 .. (1 + Min2(Len(Params[f]), SavedMax)) /\ k - 1 <= Len(args)
  <2>1. k - 1 \in 1 .. Len(args)
    BY <1>1, LenProperties
  <2>2. args[k - 1] \in Values
    BY <2>1, ElementOfSeq
  <2>3. QED BY <1>1, <2>2 DEF Bound
<1>2. CASE ~(k \in 2 .. (1 + Min2(Len(Params[f]), SavedMax)) /\ k - 1 <= Len(args))
  BY <1>2, Constants DEF Bound
<1>3. QED BY <1>1, <1>2

LEMMA SavedTyped ==
    ASSUME NEW names \in Seq(Names), NEW f, NEW args \in Seq(Values), nv \in [Names -> Values]
    PROVE  /\ SavedVals(names, f, args) \in Seq(Values)
           /\ Len(SavedVals(names, f, args)) = Len(names)
           /\ Binds(names, f, args) \in [Names -> Values]
<1> DEFINE s == SavedVals(names, f, args)
<1>1. Len(names) \in Nat /\ \A k \in 1 .. Len(names) : names[k] \in Names
  BY LenProperties, ElementOfSeq
<1>2. s = [k \in 1 .. Len(names) |-> s[k]]
  BY DEF SavedVals
<1>3. ASSUME NEW k \in 1 .. Len(names) PROVE s[k] \in Values
  <2>1. \/ s[k] = nv[names[k]]
        \/ s[k] = Bound(f, args, Max({j \in Places(names, names[k]) : j < k}))
    BY DEF SavedVals
  <2>2. QED BY <1>1, <2>1, BoundTyped
<1> HIDE DEF s
<1>4. s \in [1 .. Len(names) -> Values]
  BY <1>2, <1>3
<1>5. [1 .. Len(names) -> Values] \in {[1 .. n -> Values] : n \in Nat}
  BY <1>1
<1>6. s \in Seq(Values)
  <2>1. s \in UNION {[1 .. n -> Values] : n \in Nat}
    BY <1>4, <1>5
  <2>2. QED BY <2>1, SeqDef
<1>7. DOMAIN s = 1 .. Len(names)
  BY <1>2
<1>8. Len(s) = Len(names)
  BY <1>1, <1>6, <1>7, LenProperties
<1>9. Binds(names, f, args) \in [Names -> Values]
  BY BoundTyped DEF Binds
<1>10. QED BY <1>6, <1>8, <1>9 DEF s

LEMMA PlacesNat ==
    ASSUME NEW names \in Seq(Names), NEW x
    PROVE  Places(names, x) \in SUBSET Nat /\ Places(names, x) \in SUBSET (1 .. Len(names))
<1>1. Len(names) \in Nat
  BY LenProperties
<1>2. QED BY <1>1 DEF Places

LEMMA SavedOfTyped ==
    ASSUME NEW fr \in FrameType, Len(fr.names) = Len(fr.vals), NEW x, Places(fr.names, x) # {}
    PROVE  SavedOf(fr, x) \in Values
<1>1. fr.names \in Seq(Names) /\ fr.vals \in Seq(Values)
  BY DEF FrameType
<1>2. Min(Places(fr.names, x)) \in Places(fr.names, x)
  BY <1>1, PlacesNat, LeastNat
<1>3. Min(Places(fr.names, x)) \in 1 .. Len(fr.vals)
  BY <1>1, <1>2, PlacesNat
<1>4. QED BY <1>1, <1>3, ElementOfSeq DEF SavedOf

LEMMA RestoreTyped ==
    ASSUME NEW store \in [Names -> Values], NEW fr \in FrameType, Len(fr.names) = Len(fr.vals)
    PROVE  Restore(store, fr) \in [Names -> Values]
BY SavedOfTyped DEF Restore

LEMMA RestoreAllTyped ==
    ASSUME SMInv, NEW n \in Nat, n <= Len(frames)
    PROVE  RestoreAll(nv, n) \in [Names -> Values]
<1>1. frames \in Seq(FrameType) /\ nv \in [Names -> Values]
  BY DEF SMInv, Typed
<1>2. ASSUME NEW k \in 1 .. n PROVE frames[k] \in FrameType /\ Len(frames[k].names) = Len(frames[k].vals)
  <2>1. k \in 1 .. Len(frames)
    BY <1>1, LenProperties
  <2>2. QED BY <1>1, <2>1, ElementOfSeq DEF SMInv, FrameOK
<1>3. ASSUME NEW x \in Names PROVE RestoreAll(nv, n)[x] \in Values
  <2> DEFINE savers == {k \in 1 .. n : Places(frames[k].names, x) # {}}
  <2>1. RestoreAll(nv, n)[x] = IF savers = {} THEN nv[x] ELSE SavedOf(frames[Min(savers)], x)
    BY DEF RestoreAll
  <2>2. savers \in SUBSET Nat
    OBVIOUS
  <2>3. savers # {} => Min(savers) \in savers
    BY <2>2, LeastNat
  <2>4. savers # {} => SavedOf(frames[Min(savers)], x) \in Values
    <3> SUFFICES ASSUME savers # {} PROVE SavedOf(frames[Min(savers)], x) \in Values
      OBVIOUS
    <3> DEFINE k == Min(savers)
    <3>1. k \in 1 .. n /\ Places(frames[k].names, x) # {}
      BY <2>3
    <3> HIDE DEF k
    <3>2. SavedOf(frames[k], x) \in Values
      BY <1>2, <3>1, SavedOfTyped
    <3>3. QED BY <3>2 DEF k
  <2> HIDE DEF savers
  <2>5. QED BY <1>1, <2>1, <2>4
<1>4. RestoreAll(nv, n) = [x \in Names |-> RestoreAll(nv, n)[x]]
  BY DEF RestoreAll
<1>5. QED BY <1>3, <1>4

-----------------------------------------------------------------------------
(* A run goes on.                                                          *)

\* Run k becomes the innermost one and is r, the same run further on.
Resumed(k, r) ==
    /\ runs' \in Seq(RunType) /\ Len(runs') = k /\ runs'[k] = r
    /\ \A j \in 1 .. k - 1 : runs'[j] = runs[j]
    /\ r.kind = runs[k].kind /\ r.base = runs[k].base /\ r.floor = runs[k].floor

\* The lowest n frames are what they were.
FramesBelow(n) ==
    /\ frames' \in Seq(FrameType) /\ n <= Len(frames')
    /\ \A i \in 1 .. n : frames'[i] = frames[i]
    /\ \A i \in 1 .. Len(frames') : FrameOK(frames'[i])

\* The rest of a step leaves the program and the kinds of everything alone.
Elsewhere ==
    /\ prog' = prog /\ machine' = machine
    /\ nv' \in [Names -> Values] /\ rtntype' \in {"", "RETURN", "FRETURN", "NRETURN"}
    /\ stcount' \in Nat /\ status' \in {"running", "stopped", "aborted", "crashed"}

LEMMA Counts ==
    ASSUME SMInv
    PROVE  /\ Len(runs) \in Nat /\ Len(runs) >= 1 /\ Len(frames) \in Nat
           /\ \A k \in 1 .. Len(runs) : /\ runs[k] \in RunType /\ runs[k].base \in Nat
                                        /\ runs[k].floor \in Nat /\ runs[k].floor <= runs[k].base
           /\ \A i \in 1 .. Len(frames) : frames[i] \in FrameType
           /\ Run = runs[Len(runs)] /\ Run \in RunType
           /\ Len(Run.stack) \in Nat /\ Run.stack \in Seq(Operands)
<1>1. frames \in Seq(FrameType) /\ runs \in Seq(RunType) /\ runs # <<>>
  BY DEF SMInv, Typed
<1>2. Len(runs) \in Nat \ {0} /\ Len(frames) \in Nat
  BY <1>1, EmptySeq, LenProperties
<1>3. ASSUME NEW k \in 1 .. Len(runs)
      PROVE  /\ runs[k] \in RunType /\ runs[k].base \in Nat
             /\ runs[k].floor \in Nat /\ runs[k].floor <= runs[k].base
  <2>1. runs[k] \in RunType /\ Layered(k)
    BY <1>1, ElementOfSeq DEF SMInv
  <2>2. runs[k].base \in Nat /\ runs[k].floor \in Nat
    BY <2>1 DEF RunType
  <2>3. runs[k].base \in {runs[k].floor, runs[k].floor + 1}
    BY <2>1, <2>2 DEF Layered
  <2>4. QED BY <2>1, <2>2, <2>3
<1>4. Run = runs[Len(runs)] /\ Run \in RunType
  BY <1>2, <1>3 DEF Run, Last1
<1>5. Run.stack \in Seq(Operands)
  BY <1>4 DEF RunType
<1>6. QED BY <1>1, <1>2, <1>3, <1>4, <1>5, ElementOfSeq, LenProperties

LEMMA ResumedStep ==
    ASSUME SMInv, NEW k \in 1 .. Len(runs), NEW r, Resumed(k, r), Elsewhere,
           FramesBelow(runs[k].base), status' = "running" => Ready(r.pc, Len(r.stack))
    PROVE  SMInv'
<1>1. k \in Nat /\ k >= 1 /\ Len(runs) \in Nat /\ runs[k].base \in Nat /\ runs[k].floor \in Nat
      /\ runs[k].floor <= runs[k].base
  BY Counts
<1>2. Typed'
  BY DEF SMInv, Typed, Elsewhere, Resumed, FramesBelow
<1>3. \A pc, n : Ready(pc, n)' <=> Ready(pc, n)
  BY DEF Ready, Code, Elsewhere
<1>4. ASSUME NEW i \in 1 .. Len(frames') PROVE FrameOK(frames[i])'
  BY <1>3 DEF FrameOK, FramesBelow
<1>5. runs' # <<>>
  <2>1. Len(runs') # 0
    BY <1>1 DEF Resumed
  <2>2. QED BY <2>1, EmptySeq
<1>6. ASSUME NEW j \in 1 .. k
      PROVE  /\ runs'[j].kind = runs[j].kind /\ runs'[j].base = runs[j].base
             /\ runs'[j].floor = runs[j].floor
             /\ runs[j].base \in Nat /\ runs[j].floor \in Nat /\ runs[j].base <= runs[k].base
             /\ Layered(j)
  <2>1. j \in 1 .. Len(runs) /\ (j = k \/ j \in 1 .. k - 1)
    BY <1>1
  <2>2. runs'[j].kind = runs[j].kind /\ runs'[j].base = runs[j].base /\ runs'[j].floor = runs[j].floor
    BY <2>1 DEF Resumed
  <2>3. runs[j].base \in Nat /\ runs[j].floor \in Nat
    BY <2>1, Counts
  <2>4. j \in 1 .. k - 1 => runs[j].base <= runs[k].floor
    BY DEF SMInv, Layered
  <2>5. runs[j].base <= runs[k].base
    BY <1>1, <2>1, <2>3, <2>4
  <2>6. QED BY <2>1, <2>2, <2>3, <2>5 DEF SMInv
<1>7. ASSUME NEW j \in 1 .. k PROVE Layered(j)'
  <2>1. /\ runs'[j].kind = runs[j].kind /\ runs'[j].base = runs[j].base
        /\ runs'[j].floor = runs[j].floor
        /\ runs[j].base \in Nat /\ runs[j].floor \in Nat /\ runs[j].base <= runs[k].base
        /\ Layered(j)
    BY <1>6
  <2>2. \A i \in 1 .. j - 1 : runs'[i].base <= runs'[j].floor
    <3> SUFFICES ASSUME NEW i \in 1 .. j - 1 PROVE runs'[i].base <= runs'[j].floor
      OBVIOUS
    <3>1. i \in 1 .. k
      BY <1>1
    <3>2. runs'[i].base = runs[i].base /\ runs[i].base <= runs[j].floor
      BY <1>6, <2>1, <3>1 DEF Layered
    <3>3. QED BY <2>1, <3>2
  <2>3. Len(frames') \in Nat /\ runs[k].base <= Len(frames')
    BY LenProperties DEF FramesBelow
  <2>4. runs'[j].base <= Len(frames')
    BY <1>1, <2>1, <2>3
  <2>5. runs[j].kind = "hook" => frames'[runs[j].base].ret \in Names
    <3> SUFFICES ASSUME runs[j].kind = "hook" PROVE frames'[runs[j].base].ret \in Names
      OBVIOUS
    <3>1. runs[j].base = runs[j].floor + 1 /\ frames[runs[j].base].ret \in Names
      BY <2>1 DEF Layered
    <3>2. runs[j].base \in 1 .. runs[k].base
      BY <1>1, <2>1, <3>1
    <3>3. QED BY <3>1, <3>2 DEF FramesBelow
  <2>6. QED BY <2>1, <2>2, <2>4, <2>5 DEF Layered
<1>8. ASSUME NEW j \in 1 .. k - 1 PROVE Waits(j)'
  <2>1. j \in 1 .. Len(runs) - 1 /\ runs'[j] = runs[j]
    BY <1>1 DEF Resumed
  <2>2. QED BY <1>3, <2>1 DEF SMInv, Waits
<1>9. runs'[1].base = 0
  <2>1. 1 \in 1 .. k
    BY <1>1
  <2>2. QED BY <1>6, <2>1 DEF SMInv
<1>10. Run' = r /\ Len(runs') = k
  BY DEF Run, Last1, Resumed
<1>11. status' = "running" => Ready(Run.pc, Len(Run.stack))'
  BY <1>3, <1>10
<1>12. QED BY <1>2, <1>4, <1>5, <1>7, <1>8, <1>9, <1>10, <1>11 DEF SMInv

\* The frames of the runs that go on are what they were when no frame is touched.
LEMMA FramesStay ==
    ASSUME SMInv, frames' = frames, NEW n \in Nat, n <= Len(frames)
    PROVE  FramesBelow(n)
BY DEF SMInv, Typed, FramesBelow

LEMMA GoesOn ==
    ASSUME SMInv, NEW pc, NEW stack \in Seq(Operands), NEW ok \in BOOLEAN, Goes(pc, stack, ok),
           Ready(pc, Len(stack)), Elsewhere, FramesBelow(Run.base)
    PROVE  SMInv'
<1> DEFINE q == [Run EXCEPT !.pc = pc, !.stack = stack, !.ok = ok]
           n == Len(runs)
<1>1. n \in Nat /\ n >= 1 /\ Run = runs[n] /\ Run \in RunType /\ runs \in Seq(RunType)
  BY Counts DEF SMInv, Typed
<1>2. pc \in Nat /\ pc \in 1 .. Len(Code)
  BY DEF Ready
<1>3. runs' = [runs EXCEPT ![n] = q]
  BY <1>1, Zenon DEF Goes
<1> DEFINE r == Run
<1>4. q = [r EXCEPT !.pc = pc, !.stack = stack, !.ok = ok] /\ r \in RunType
  BY <1>1
<1> HIDE DEF q, n, r
<1>5. q \in RunType /\ q.pc = pc /\ q.stack = stack
      /\ q.kind = Run.kind /\ q.base = Run.base /\ q.floor = Run.floor
  <2>1. q \in RunType /\ q.pc = pc /\ q.stack = stack
        /\ q.kind = r.kind /\ q.base = r.base /\ q.floor = r.floor
    BY <1>2, <1>4 DEF RunType
  <2>2. QED BY <2>1 DEF r
<1>6. runs' \in Seq(RunType) /\ Len(runs') = n
      /\ \A j \in 1 .. n : runs'[j] = IF j = n THEN q ELSE runs[j]
  <2>1. n \in 1 .. Len(runs)
    BY <1>1 DEF n
  <2>2. QED BY <1>1, <1>3, <1>5, <2>1, ExceptSeq DEF n
<1>7. Resumed(n, q)
  BY <1>1, <1>5, <1>6 DEF Resumed
<1>8. n \in 1 .. Len(runs) /\ runs[n].base = Run.base
  BY <1>1 DEF n
<1>9. QED BY <1>5, <1>7, <1>8, ResumedStep

-----------------------------------------------------------------------------
(* Programs.                                                               *)

LEMMA Reached ==
    ASSUME SMInv, status = "running"
    PROVE  /\ Run.pc \in 1 .. Len(Code) /\ Len(Code) \in Nat /\ DOMAIN Code = 1 .. Len(Code)
           /\ Height[prog] \in [1 .. Len(Code) -> Nat]
           /\ WellFormed(Code, Ins) /\ Balanced(Code, Height[prog], Run.pc)
           /\ Code[Len(Code)].op = "HALT"
           /\ Height[prog][Run.pc] <= Len(Run.stack)
<1>1. prog \in DOMAIN Programs /\ Run.pc \in 1 .. Len(Code) /\ Height[prog][Run.pc] <= Len(Run.stack)
  BY DEF SMInv, Typed, Ready
<1>2. QED BY <1>1, CompiledAssumption DEF Code, Ins

LEMMA LabelReached ==
    ASSUME NEW l, Labelled(Code, l) # {}, DOMAIN Code = 1 .. Len(Code)
    PROVE  LabelPc(l) \in Labelled(Code, l)
<1>1. \A p : p \in Labelled(Code, l) <=> p \in DOMAIN Code /\ Code[p].op = "LABEL" /\ Code[p].x = l
  BY DEF Labelled
<1>2. QED BY <1>1 DEF LabelPc

LEMMA TakesNat ==
    ASSUME SMInv, status = "running"
    PROVE  Takes(Ins) \in Nat /\ Gives(Ins) \in {0, 1} /\ Takes(Ins) <= Len(Run.stack)
<1>1. WellFormed(Code, Ins) /\ Takes(Ins) <= Height[prog][Run.pc]
      /\ Height[prog][Run.pc] \in Nat /\ Height[prog][Run.pc] <= Len(Run.stack)
  BY Reached DEF Balanced, Ins
<1>2. Takes(Ins) \in Nat
  BY <1>1 DEF WellFormed, Takes
<1>3. QED BY <1>1, <1>2, Counts DEF Gives

\* The next instruction finds what it needs.
LEMMA NextReady ==
    ASSUME SMInv, status = "running", Ins.op \notin {"HALT", "JUMP"},
           NEW n \in Nat, Len(Run.stack) - Takes(Ins) + Gives(Ins) <= n
    PROVE  Ready(Run.pc + 1, n)
<1>1. /\ Run.pc \in 1 .. Len(Code) /\ Len(Code) \in Nat /\ Run.pc # Len(Code)
      /\ Height[prog] \in [1 .. Len(Code) -> Nat] /\ Height[prog][Run.pc] <= Len(Run.stack)
      /\ Len(Run.stack) \in Nat /\ Takes(Ins) \in Nat /\ Gives(Ins) \in Nat
  BY Reached, Counts, TakesNat DEF Ins
<1>2. Run.pc + 1 \in 1 .. Len(Code) /\ Run.pc < Len(Code)
  BY <1>1
<1>3. Height[prog][Run.pc + 1] <= Height[prog][Run.pc] - Takes(Ins) + Gives(Ins)
  BY <1>2, Reached DEF Balanced, Ins
<1>4. Height[prog][Run.pc + 1] \in Nat /\ Height[prog][Run.pc] \in Nat
  BY <1>1, <1>2
<1>5. Height[prog][Run.pc + 1] <= n
  <2> DEFINE h == Height[prog][Run.pc]
             x == Height[prog][Run.pc + 1]
             l == Len(Run.stack)
             t == Takes(Ins)
             g == Gives(Ins)
  <2>1. /\ h \in Nat /\ x \in Nat /\ l \in Nat /\ t \in Nat /\ g \in Nat
        /\ h <= l /\ x <= h - t + g /\ l - t + g <= n
    BY <1>1, <1>3, <1>4
  <2> HIDE DEF h, x, l, t, g
  <2>2. x <= n
    BY <2>1
  <2>3. QED BY <2>2 DEF x
<1>6. QED BY <1>2, <1>5 DEF Ready

LEMMA ElsewhereSame ==
    ASSUME SMInv, prog' = prog, machine' = machine, nv' = nv, rtntype' = rtntype,
           stcount' = stcount, status' = status
    PROVE  Elsewhere
BY DEF SMInv, Typed, Elsewhere

LEMMA GoesNext ==
    ASSUME SMInv, status = "running", Ins.op \notin {"HALT", "JUMP"}, frames' = frames, Elsewhere,
           NEW stack \in Seq(Operands), NEW ok \in BOOLEAN, Goes(Run.pc + 1, stack, ok),
           Len(Run.stack) - Takes(Ins) + Gives(Ins) <= Len(stack)
    PROVE  SMInv'
<1>1. Len(stack) \in Nat
  BY LenProperties
<1>2. Ready(Run.pc + 1, Len(stack))
  BY <1>1, NextReady
<1>3. FramesBelow(Run.base)
  <2>1. Len(runs) \in 1 .. Len(runs)
    BY Counts
  <2>2. Run.base \in Nat /\ Run.base <= Len(frames)
    BY <2>1, Counts DEF SMInv, Layered
  <2>3. QED BY <2>2, FramesStay
<1>4. QED BY <1>2, <1>3, GoesOn

LEMMA PushesNext ==
    ASSUME SMInv, status = "running", Ins.op \notin {"HALT", "JUMP"}, frames' = frames, Elsewhere,
           NEW stack \in Seq(Operands), NEW v \in Operands,
           Goes(Run.pc + 1, Append(stack, v), v # Fail),
           Len(Run.stack) - Takes(Ins) + Gives(Ins) <= Len(stack) + 1
    PROVE  SMInv'
<1> DEFINE pushed == Append(stack, v)
           ok == v # Fail
<1>1. pushed \in Seq(Operands) /\ Len(pushed) = Len(stack) + 1 /\ ok \in BOOLEAN
  BY AppendProperties
<1>2. Goes(Run.pc + 1, pushed, ok)
  OBVIOUS
<1> HIDE DEF pushed, ok
<1>3. Len(Run.stack) - Takes(Ins) + Gives(Ins) <= Len(pushed)
  BY <1>1
<1>4. QED BY <1>1, <1>2, <1>3, GoesNext

LEMMA JumpsOn ==
    ASSUME SMInv, status = "running", Ins.op \in {"JUMP", "JUMP_S", "JUMP_F"}, frames' = frames,
           Elsewhere, Goes(LabelPc(Ins.x), Run.stack, Run.ok)
    PROVE  SMInv'
<1>1. Labelled(Code, Ins.x) # {} /\ Targets(Code, Ins) = Labelled(Code, Ins.x)
  BY Reached DEF WellFormed, Targets
<1>2. LabelPc(Ins.x) \in Labelled(Code, Ins.x)
  BY <1>1, Reached, LabelReached
<1>3. Height[prog][LabelPc(Ins.x)] <= Height[prog][Run.pc]
  BY <1>1, <1>2, Reached DEF Balanced, Ins
<1>4. LabelPc(Ins.x) \in 1 .. Len(Code)
  BY <1>2, Reached DEF Labelled
<1>5. Height[prog][LabelPc(Ins.x)] <= Len(Run.stack)
  BY <1>3, <1>4, Reached, Counts
<1>6. FramesBelow(Run.base)
  <2>1. Len(runs) \in 1 .. Len(runs)
    BY Counts
  <2>2. Run.base \in Nat /\ Run.base <= Len(frames)
    BY <2>1, Counts DEF SMInv, Layered
  <2>3. QED BY <2>2, FramesStay
<1>7. Run.ok \in BOOLEAN /\ Run.stack \in Seq(Operands)
  BY Counts DEF RunType
<1>8. QED BY <1>4, <1>5, <1>6, <1>7, GoesOn DEF Ready

LEMMA PlainStep == ASSUME SMInv, Plain PROVE SMInv'
<1>1. frames' = frames /\ Elsewhere
  BY ElsewhereSame DEF Plain, setup
<1>2. status = "running" /\ Run.ok \in BOOLEAN /\ Run.stack \in Seq(Operands) /\ Len(Run.stack) \in Nat
  <2>1. Run.ok \in BOOLEAN /\ Run.stack \in Seq(Operands) /\ Len(Run.stack) \in Nat
    BY Counts DEF RunType
  <2>2. QED BY <2>1 DEF Plain, Label, Lit, Var, VoidPop, Jump, JumpS, JumpF, Ident, At
<1>3. Takes(Ins) \in Nat /\ Takes(Ins) <= Len(Run.stack) /\ WellFormed(Code, Ins)
  BY <1>2, TakesNat, Reached
<1>4. CASE Label
  <2>1. Ins.op = "LABEL" /\ Takes(Ins) = 0 /\ Gives(Ins) = 0
    BY <1>4 DEF Label, At, Takes, Gives
  <2>2. QED BY <1>1, <1>2, <1>4, <2>1, GoesNext DEF Label
<1>5. CASE Lit
  <2>1. Ins.op = "LIT" /\ Takes(Ins) = 0 /\ Gives(Ins) = 1
    BY <1>5 DEF Lit, At, Takes, Gives
  <2>2. Ins.x \in Operands
    BY <1>3, <2>1, Constants DEF WellFormed
  <2> DEFINE stack == Append(Run.stack, Ins.x)
  <2>3. stack \in Seq(Operands) /\ Len(stack) = Len(Run.stack) + 1
    BY <1>2, <2>2, AppendProperties
  <2>4. Goes(Run.pc + 1, stack, Run.ok)
    BY <1>5 DEF Lit
  <2> HIDE DEF stack
  <2>5. QED BY <1>1, <1>2, <2>1, <2>3, <2>4, GoesNext
<1>6. CASE Var
  <2>1. Ins.op = "VAR" /\ Takes(Ins) = 0 /\ Gives(Ins) = 1
    BY <1>6 DEF Var, At, Takes, Gives
  <2> DEFINE v == nv[Ins.x]
  <2>2. v \in Operands
    BY <1>3, <2>1, Constants DEF WellFormed, SMInv, Typed
  <2>3. Goes(Run.pc + 1, Append(Run.stack, v), v # Fail)
    BY <1>6 DEF Var, Pushes
  <2> HIDE DEF v
  <2>4. QED BY <1>1, <1>2, <2>1, <2>2, <2>3, PushesNext
<1>7. CASE VoidPop
  <2>1. Ins.op = "POP" /\ Takes(Ins) = 1 /\ Gives(Ins) = 0
    BY <1>7 DEF VoidPop, At, Takes, Gives
  <2>2. Drop(Run.stack, 1) \in Seq(Operands) /\ Len(Drop(Run.stack, 1)) = Len(Run.stack) - 1
    BY <1>2, <1>3, <2>1, DropSeq
  <2>3. QED BY <1>1, <1>2, <1>7, <2>1, <2>2, GoesNext DEF VoidPop
<1>8. CASE Jump
  BY <1>1, <1>2, <1>8, JumpsOn DEF Jump, At
<1>9. CASE JumpS \/ JumpF
  <2>1. Ins.op \in {"JUMP_S", "JUMP_F"} /\ Takes(Ins) = 0 /\ Gives(Ins) = 0
    BY <1>9 DEF JumpS, JumpF, At, Takes, Gives
  <2>2. \/ Goes(LabelPc(Ins.x), Run.stack, Run.ok)
        \/ Goes(Run.pc + 1, Run.stack, Run.ok)
    BY <1>9 DEF JumpS, JumpF
  <2>3. Len(Run.stack) - Takes(Ins) + Gives(Ins) <= Len(Run.stack)
    BY <1>2, <2>1
  <2>4. Ins.op \notin {"HALT", "JUMP"} /\ Ins.op \in {"JUMP", "JUMP_S", "JUMP_F"}
    BY <2>1
  <2>5. QED BY <1>1, <1>2, <2>2, <2>3, <2>4, GoesNext, JumpsOn
<1>10. CASE Ident
  <2>1. Ins.op = "IDENT" /\ Takes(Ins) = 2 /\ Gives(Ins) = 1
    BY <1>10 DEF Ident, At, Takes, Gives
  <2>2. PICK v \in {Null, Fail} : Pushes(v, Drop(Run.stack, 2))
    BY <1>10 DEF Ident
  <2>3. v \in Operands
    BY Constants
  <2> DEFINE rest == Drop(Run.stack, 2)
  <2>4. rest \in Seq(Operands) /\ Len(rest) = Len(Run.stack) - 2
    BY <1>2, <1>3, <2>1, DropSeq
  <2>5. Goes(Run.pc + 1, Append(rest, v), v # Fail)
    BY <2>2 DEF Pushes
  <2> HIDE DEF rest
  <2>6. QED BY <1>1, <1>2, <2>1, <2>3, <2>4, <2>5, PushesNext
<1>11. QED BY <1>4, <1>5, <1>6, <1>7, <1>8, <1>9, <1>10 DEF Plain

LEMMA BaseBelow == ASSUME SMInv PROVE Run.base \in Nat /\ Run.base <= Len(frames)
<1>1. Len(runs) \in 1 .. Len(runs)
  BY Counts
<1>2. QED BY <1>1, Counts DEF SMInv, Layered

\* The machine stops where it is.
LEMMA StopsStep ==
    ASSUME SMInv, runs' = runs, frames' = frames, Elsewhere, status' # "running"
    PROVE  SMInv'
<1>1. Len(runs) \in 1 .. Len(runs) /\ Run = runs[Len(runs)]
  BY Counts
<1>2. FramesBelow(Run.base)
  BY BaseBelow, FramesStay
<1>3. Resumed(Len(runs), Run)
  BY <1>1 DEF Resumed, SMInv, Typed
<1>4. QED BY <1>1, <1>2, <1>3, ResumedStep

LEMMA StnoStep == ASSUME SMInv, Stno PROVE SMInv'
<1>1. /\ status = "running" /\ Ins.op = "STNO" /\ stcount' = stcount + 1
      /\ prog' = prog /\ machine' = machine /\ nv' = nv /\ frames' = frames /\ rtntype' = rtntype
      /\ \/ status' = "aborted" /\ runs' = runs
         \/ status' = "running" /\ Goes(Run.pc + 1, <<>>, Run.ok)
  BY DEF Stno, At, setup
<1>2. Elsewhere
  <2>1. stcount \in Nat /\ nv \in [Names -> Values]
        /\ rtntype \in {"", "RETURN", "FRETURN", "NRETURN"}
    BY DEF SMInv, Typed
  <2>2. stcount' \in Nat
    <3>1. stcount' = stcount + 1
      BY <1>1
    <3>2. \A n \in Nat : n + 1 \in Nat
      OBVIOUS
    <3>3. QED BY <2>1, <3>1, <3>2, Zenon
  <2>3. status' \in {"running", "stopped", "aborted", "crashed"}
    BY <1>1
  <2>4. QED BY <1>1, <2>1, <2>2, <2>3 DEF Elsewhere
<1>3. CASE Goes(Run.pc + 1, <<>>, Run.ok)
  <2>1. Takes(Ins) = 0 /\ Gives(Ins) = 0 /\ Height[prog][Run.pc] = 0
    BY <1>1, Reached DEF Takes, Gives, Balanced, Ins
  <2>2. Run.pc \in 1 .. Len(Code) /\ Len(Code) \in Nat /\ Run.pc # Len(Code)
    BY <1>1, Reached DEF Ins
  <2>3. Run.pc + 1 \in 1 .. Len(Code) /\ Run.pc < Len(Code)
    BY <2>2
  <2>4. Height[prog][Run.pc + 1] <= 0
    BY <1>1, <2>1, <2>3, Reached DEF Balanced, Ins
  <2>5. <<>> \in Seq(Operands) /\ Len(<<>>) = 0
    BY EmptySeq
  <2>6. Ready(Run.pc + 1, Len(<<>>)) /\ Run.ok \in BOOLEAN
    BY <2>3, <2>4, <2>5, Counts DEF Ready, RunType
  <2>7. FramesBelow(Run.base)
    BY <1>1, BaseBelow, FramesStay
  <2>8. QED BY <1>2, <1>3, <2>5, <2>6, <2>7, GoesOn
<1>4. CASE status' = "aborted" /\ runs' = runs
  BY <1>1, <1>2, <1>4, StopsStep
<1>5. QED BY <1>1, <1>3, <1>4

LEMMA StoreStep == ASSUME SMInv, Store PROVE SMInv'
<1> DEFINE v == Last1(Run.stack)
           rest == Drop(Run.stack, 1)
<1>1. /\ status = "running" /\ Ins.op = "STORE"
      /\ prog' = prog /\ machine' = machine /\ frames' = frames /\ rtntype' = rtntype
      /\ stcount' = stcount /\ status' = status
      /\ nv' = IF v = Fail THEN nv ELSE [nv EXCEPT ![Ins.x] = v]
      /\ Goes(Run.pc + 1, Append(rest, v), v # Fail)
  BY DEF Store, At, setup, Pushes
<1>2. Takes(Ins) = 1 /\ Gives(Ins) = 1 /\ Takes(Ins) <= Len(Run.stack) /\ Ins.x \in Names
  BY <1>1, TakesNat, Reached DEF Takes, Gives, WellFormed
<1>3. Run.stack \in Seq(Operands) /\ Len(Run.stack) \in Nat
  BY Counts
<1>4. v \in Operands /\ rest \in Seq(Operands) /\ Len(rest) = Len(Run.stack) - 1
  <2>1. Run.stack # <<>>
    BY <1>2, <1>3, EmptySeq
  <2>2. QED BY <1>2, <1>3, <2>1, LastSeq, DropSeq
<1> HIDE DEF v, rest
<1>5. nv' \in [Names -> Values]
  BY <1>1, <1>2, <1>4 DEF SMInv, Typed, Operands
<1>6. Elsewhere
  BY <1>1, <1>5 DEF SMInv, Typed, Elsewhere
<1>7. QED BY <1>1, <1>2, <1>3, <1>4, <1>6, PushesNext

LEMMA CallFailsStep == ASSUME SMInv, CallFails PROVE SMInv'
<1> DEFINE rest == Drop(Run.stack, Ins.n)
           v == Fail
<1>1. /\ status = "running" /\ Ins.op \in {"CALL", "APPLY"}
      /\ prog' = prog /\ machine' = machine /\ frames' = frames /\ rtntype' = rtntype
      /\ nv' = nv /\ stcount' = stcount /\ status' = status
      /\ Goes(Run.pc + 1, Append(rest, v), v # Fail)
  BY DEF CallFails, At, setup, Pushes
<1>2. Takes(Ins) = Ins.n /\ Gives(Ins) = 1 /\ Ins.n <= Len(Run.stack) /\ Ins.n \in Nat
  BY <1>1, TakesNat, Reached DEF Takes, Gives, WellFormed
<1>3. Run.stack \in Seq(Operands) /\ Len(Run.stack) \in Nat
  BY Counts
<1>4. v \in Operands /\ rest \in Seq(Operands) /\ Len(rest) = Len(Run.stack) - Ins.n
  BY <1>2, <1>3, DropSeq, Constants
<1>5. Elsewhere
  BY <1>1, ElsewhereSame
<1> HIDE DEF v, rest
<1>6. Len(Run.stack) - Takes(Ins) + Gives(Ins) <= Len(rest) + 1
  BY <1>2, <1>3, <1>4
<1>7. QED BY <1>1, <1>4, <1>5, <1>6, PushesNext

-----------------------------------------------------------------------------
(* Calls.                                                                  *)

\* A label a call leads to asks for no operands.
LEMMA EntryReady ==
    ASSUME SMInv, status = "running", NEW l, Labelled(Code, l) # {},
           Labelled(Code, l) \subseteq Entries(Code, Ins)
    PROVE  Ready(LabelPc(l), 0)
<1>1. LabelPc(l) \in Labelled(Code, l)
  BY Reached, LabelReached
<1>2. LabelPc(l) \in 1 .. Len(Code) /\ LabelPc(l) \in Entries(Code, Ins)
  BY <1>1, Reached DEF Labelled
<1>3. Height[prog][LabelPc(l)] = 0
  BY <1>2, Reached DEF Balanced, Ins
<1>4. QED BY <1>2, <1>3 DEF Ready

LEMMA HasLabelled ==
    ASSUME NEW l, DOMAIN Code = 1 .. Len(Code)
    PROVE  HasLabel(l) <=> Labelled(Code, l) # {}
<1>1. \A p : p \in Labelled(Code, l) <=> p \in DOMAIN Code /\ Code[p].op = "LABEL" /\ Code[p].x = l
  BY DEF Labelled
<1>2. QED BY <1>1 DEF HasLabel

\* The arguments of a call that is made are values.
LEMMA ArgsTyped ==
    ASSUME SMInv, Calls(Ins.op), Ins.op \in {"CALL", "APPLY"}
    PROVE  /\ Args \in Seq(Values) /\ Ins.n \in Nat /\ Ins.n <= Len(Run.stack)
           /\ Ins.x \in Functions /\ Takes(Ins) = Ins.n /\ Gives(Ins) = 1
<1>1. status = "running" /\ \A k \in 1 .. Ins.n : Args[k] # Fail
  BY DEF Calls, At
<1>2. Takes(Ins) = Ins.n /\ Gives(Ins) = 1 /\ Ins.n <= Len(Run.stack) /\ Ins.n \in Nat
      /\ Ins.x \in Functions
  BY <1>1, TakesNat, Reached DEF Takes, Gives, WellFormed
<1> DEFINE n == Ins.n
           s == Run.stack
           m == Len(s) - n + 1
           a == SubSeq(s, m, Len(s))
<1>3. s \in Seq(Operands) /\ Len(s) \in Nat /\ n \in Nat /\ n <= Len(s)
  BY <1>2, Counts
<1> HIDE DEF n, s
<1>4. m \in Int /\ Len(s) \in Int /\ \A i \in m .. Len(s) : s[i] \in Operands
  <2>1. m \in Int /\ \A i \in m .. Len(s) : i \in 1 .. Len(s)
    BY <1>3
  <2>2. QED BY <1>3, <2>1, ElementOfSeq
<1>5. a \in Seq(Operands) /\ Len(a) = IF m <= Len(s) THEN Len(s) - m + 1 ELSE 0
  BY <1>4, SubSeqProperties
<1>6. Len(a) = n
  BY <1>3, <1>5
<1>7. a = Args
  BY DEF Args, n, s
<1> HIDE DEF a
<1>8. \A k \in 1 .. n : a[k] \in Values
  <2> SUFFICES ASSUME NEW k \in 1 .. n PROVE a[k] \in Values
    OBVIOUS
  <2>1. a[k] \in Operands /\ a[k] # Fail
    BY <1>1, <1>5, <1>6, <1>7, ElementOfSeq DEF n
  <2>2. QED BY <2>1 DEF Operands
<1>9. a \in [1 .. n -> Values]
  <2>1. DOMAIN a = 1 .. n /\ a \in [1 .. n -> Operands]
    BY <1>5, <1>6, LenProperties
  <2>2. QED BY <1>8, <2>1
<1>10. a \in Seq(Values)
  <2>1. [1 .. n -> Values] \in {[1 .. i -> Values] : i \in Nat}
    BY <1>3
  <2>2. a \in UNION {[1 .. i -> Values] : i \in Nat}
    BY <1>9, <2>1
  <2>3. QED BY <2>2, SeqDef
<1>11. QED BY <1>2, <1>7, <1>10

\* A call's frame.
LEMMA FrameTyped ==
    ASSUME SMInv, Calls(Ins.op), Ins.op \in {"CALL", "APPLY"}, NEW max \in Nat,
           NEW fr, fr = Frame(Ins.x, Args, max)
    PROVE  /\ fr \in FrameType /\ FrameOK(fr) /\ fr.ret \in Names
           /\ fr.names = Declared(Ins.x, max) /\ fr.vals = SavedVals(Declared(Ins.x, max), Ins.x, Args)
           /\ Binds(Declared(Ins.x, max), Ins.x, Args) \in [Names -> Values]
<1> DEFINE names == Declared(Ins.x, max)
           vals  == SavedVals(names, Ins.x, Args)
           rest  == Drop(Run.stack, Ins.n)
<1>1. /\ Args \in Seq(Values) /\ Ins.n \in Nat /\ Ins.n <= Len(Run.stack)
      /\ Ins.x \in Functions /\ Takes(Ins) = Ins.n /\ Gives(Ins) = 1
  BY ArgsTyped
<1>2. status = "running" /\ nv \in [Names -> Values]
  BY DEF Calls, At, SMInv, Typed
<1>3. names \in Seq(Names) /\ RetName(Ins.x) \in Names
  BY <1>1, DeclaredTyped
<1>4. vals \in Seq(Values) /\ Len(vals) = Len(names) /\ Binds(names, Ins.x, Args) \in [Names -> Values]
  <2> HIDE DEF names
  <2>1. QED BY <1>1, <1>2, <1>3, SavedTyped
<1>5. rest \in Seq(Operands) /\ Len(rest) = Len(Run.stack) - Ins.n
  BY <1>1, Counts, DropSeq
<1>6. Run.pc \in Nat /\ Run.pc + 1 \in Nat /\ Len(Run.stack) \in Nat
  BY Counts DEF RunType
<1>7. Ready(Run.pc + 1, Len(rest) + 1)
  <2> HIDE DEF rest
  <2>1. Len(rest) \in Nat
    BY <1>5, LenProperties
  <2>2. Len(Run.stack) - Takes(Ins) + Gives(Ins) <= Len(rest) + 1 /\ Len(rest) + 1 \in Nat
    BY <1>1, <1>5, <1>6, <2>1
  <2>3. QED BY <1>2, <2>2, NextReady
<1>8. /\ fr = [retPc |-> Run.pc + 1, ret |-> RetName(Ins.x), names |-> names, vals |-> vals,
               stack |-> rest]
  BY DEF Frame
<1> HIDE DEF names, vals, rest
<1>9. fr \in FrameType
  BY <1>3, <1>4, <1>5, <1>6, <1>8 DEF FrameType
<1>10. FrameOK(fr) /\ fr.ret \in Names /\ fr.names = names /\ fr.vals = vals
  BY <1>3, <1>4, <1>7, <1>8 DEF FrameOK
<1>11. QED BY <1>4, <1>9, <1>10 DEF names, vals

\* A frame on top of the others.
LEMMA FramePushed ==
    ASSUME SMInv, NEW fr \in FrameType, FrameOK(fr), frames' = Append(frames, fr)
    PROVE  /\ \A n \in Nat : n <= Len(frames) => FramesBelow(n)
           /\ Len(frames') = Len(frames) + 1 /\ frames'[Len(frames) + 1] = fr
<1>1. frames \in Seq(FrameType) /\ Len(frames) \in Nat
  BY Counts DEF SMInv, Typed
<1>2. frames' \in Seq(FrameType) /\ Len(frames') = Len(frames) + 1
      /\ (\A i \in 1 .. Len(frames) : frames'[i] = frames[i]) /\ frames'[Len(frames) + 1] = fr
  BY <1>1, AppendProperties
<1>3. ASSUME NEW i \in 1 .. Len(frames') PROVE FrameOK(frames'[i])
  <2>1. i \in 1 .. Len(frames) \/ i = Len(frames) + 1
    BY <1>1, <1>2
  <2>2. QED BY <1>2, <2>1 DEF SMInv
<1>4. ASSUME NEW n \in Nat, n <= Len(frames) PROVE FramesBelow(n)
  <2>1. n <= Len(frames') /\ \A i \in 1 .. n : i \in 1 .. Len(frames)
    BY <1>1, <1>2, <1>4
  <2>2. QED BY <1>2, <1>3, <2>1 DEF FramesBelow
<1>5. QED BY <1>2, <1>4

LEMMA CallFunctionStep == ASSUME SMInv, CallFunction PROVE SMInv'
<1> DEFINE fr == Frame(Ins.x, Args, SavedMax)
           l  == IF HasLabel(Ins.x) THEN Ins.x ELSE Entry[Ins.x]
<1>1. /\ Calls(Ins.op) /\ Ins.op \in {"CALL", "APPLY"} /\ Ins.op = "CALL" /\ status = "running"
      /\ prog' = prog /\ machine' = machine /\ rtntype' = rtntype
      /\ stcount' = stcount /\ status' = status
      /\ frames' = Append(frames, fr)
      /\ nv' = Binds(Declared(Ins.x, SavedMax), Ins.x, Args)
      /\ Goes(LabelPc(l), <<>>, Run.ok)
  BY DEF CallFunction, Calls, At, setup
<1>2. fr \in FrameType /\ FrameOK(fr) /\ nv' \in [Names -> Values]
  BY <1>1, FrameTyped, SMAssumption
<1>3. Elsewhere
  BY <1>1, <1>2 DEF SMInv, Typed, Elsewhere
<1>4. Ready(LabelPc(l), 0)
  <2>1. Entries(Code, Ins) = Labelled(Code, Ins.x) \union Labelled(Code, Entry[Ins.x])
        /\ Entries(Code, Ins) # {}
    BY <1>1, Reached DEF Entries, WellFormed
  <2>2. HasLabel(Ins.x) <=> Labelled(Code, Ins.x) # {}
    BY <1>1, Reached, HasLabelled
  <2>3. Labelled(Code, l) # {} /\ Labelled(Code, l) \subseteq Entries(Code, Ins)
    BY <2>1, <2>2
  <2> HIDE DEF l
  <2>4. QED BY <1>1, <2>3, EntryReady
<1> HIDE DEF fr, l
<1>5. FramesBelow(Run.base)
  BY <1>1, <1>2, BaseBelow, FramePushed
<1>6. <<>> \in Seq(Operands) /\ Len(<<>>) = 0 /\ Run.ok \in BOOLEAN
  BY EmptySeq, Counts DEF RunType
<1>7. QED BY <1>1, <1>3, <1>4, <1>5, <1>6, GoesOn

\* A run is started on top of the innermost, which waits as below.
Nests(kind, pc, below, base) ==
    /\ below \in RunType /\ below.pc = Run.pc /\ below.kind = Run.kind
    /\ below.base = Run.base /\ below.floor = Run.floor
    /\ runs' = Append([runs EXCEPT ![Len(runs)] = below], NestedRun(kind, pc, base))
    /\ base \in Nat /\ base = Len(frames) + (IF kind = "hook" THEN 1 ELSE 0)
    /\ base <= Len(frames') /\ (kind = "hook" => frames'[base].ret \in Names)

LEMMA NestedStep ==
    ASSUME SMInv, status = "running", NEW kind \in {"eval", "hook"}, NEW pc, NEW below, NEW base,
           Nests(kind, pc, below, base), Ready(Run.pc + 1, Len(below.stack) + 1), Ready(pc, 0),
           FramesBelow(Len(frames)), Elsewhere
    PROVE  SMInv'
<1> DEFINE n == Len(runs)
           top == NestedRun(kind, pc, base)
<1>1. n \in Nat /\ n >= 1 /\ Run = runs[n] /\ runs \in Seq(RunType) /\ Len(frames) \in Nat
      /\ n \in 1 .. n
  <2>1. n \in Nat /\ n >= 1 /\ Run = runs[n] /\ runs \in Seq(RunType) /\ Len(frames) \in Nat
    BY Counts DEF SMInv, Typed
  <2>2. QED BY <2>1
<1>2. top = [kind |-> kind, pc |-> pc, stack |-> <<>>, ok |-> TRUE, floor |-> Len(frames), base |-> base]
  BY DEF NestedRun
<1>3. base \in Nat /\ base <= Len(frames')
      /\ (kind = "hook" => frames'[base].ret \in Names /\ base = Len(frames) + 1)
      /\ (kind # "hook" => base = Len(frames) + 0)
      /\ below \in RunType /\ below.pc = Run.pc /\ below.kind = Run.kind
      /\ below.base = Run.base /\ below.floor = Run.floor
  BY DEF Nests
<1> HIDE DEF top, n
<1>4. top \in RunType
  <2>1. <<>> \in Seq(Operands) /\ pc \in Nat
    BY EmptySeq DEF Ready
  <2>2. QED BY <1>1, <1>2, <1>3, <2>1 DEF RunType
<1>5. runs' \in Seq(RunType) /\ Len(runs') = n + 1 /\ runs'[n] = below /\ runs'[n + 1] = top
      /\ \A j \in 1 .. n - 1 : runs'[j] = runs[j]
  <2> DEFINE r == [runs EXCEPT ![n] = below]
  <2>1. r \in Seq(RunType) /\ Len(r) = n /\ \A j \in 1 .. n : r[j] = IF j = n THEN below ELSE runs[j]
    BY <1>1, <1>3, ExceptSeq DEF n
  <2>2. runs' = Append(r, top)
    BY DEF n, top, Nests
  <2> HIDE DEF r
  <2>3. runs' \in Seq(RunType) /\ Len(runs') = n + 1 /\ (\A j \in 1 .. n : runs'[j] = r[j])
        /\ runs'[n + 1] = top
    BY <1>4, <2>1, <2>2, AppendProperties
  <2>4. QED BY <1>1, <2>1, <2>3
<1>6. ASSUME NEW j \in 1 .. n
      PROVE  /\ runs'[j].kind = runs[j].kind /\ runs'[j].base = runs[j].base
             /\ runs'[j].floor = runs[j].floor /\ runs'[j].pc = runs[j].pc
             /\ runs[j].base \in Nat /\ runs[j].floor \in Nat /\ runs[j].base <= Len(frames)
             /\ Layered(j)
  <2>1. j = n \/ j \in 1 .. n - 1
    BY <1>1
  <2>2. runs[j].base \in Nat /\ runs[j].floor \in Nat /\ Layered(j)
    BY Counts DEF SMInv, n
  <2>3. QED BY <1>1, <1>3, <1>5, <2>1, <2>2 DEF Layered
<1>7. Len(frames') \in Nat /\ Len(frames) <= Len(frames') /\ \A i \in 1 .. Len(frames) : frames'[i] = frames[i]
  BY LenProperties DEF FramesBelow
<1>8. ASSUME NEW j \in 1 .. n PROVE Layered(j)'
  <2>1. \A i \in 1 .. j - 1 : runs'[i].base <= runs'[j].floor
    <3> SUFFICES ASSUME NEW i \in 1 .. j - 1 PROVE runs'[i].base <= runs'[j].floor
      OBVIOUS
    <3>1. i \in 1 .. n
      BY <1>1
    <3>2. QED BY <1>6, <3>1 DEF Layered
  <2>2. runs[j].kind = "hook" => runs[j].base \in 1 .. Len(frames)
    BY <1>1, <1>6 DEF Layered
  <2>3. runs[j].base <= Len(frames')
    BY <1>1, <1>6, <1>7
  <2>4. QED BY <1>6, <1>7, <2>1, <2>2, <2>3 DEF Layered
<1>9. ASSUME NEW j, j = n + 1 PROVE Layered(j)'
  <2>1. \A i \in 1 .. j - 1 : runs'[i].base <= runs'[j].floor
    <3> SUFFICES ASSUME NEW i \in 1 .. j - 1 PROVE runs'[i].base <= runs'[j].floor
      OBVIOUS
    <3>1. i \in 1 .. n
      BY <1>1, <1>9
    <3>2. runs'[i].base <= Len(frames) /\ runs'[j].floor = Len(frames)
      BY <1>2, <1>5, <1>6, <1>9, <3>1
    <3>3. QED BY <3>2
  <2>2. j # 1 /\ runs'[j].kind = kind /\ runs'[j].base = base /\ runs'[j].floor = Len(frames)
    BY <1>1, <1>2, <1>5, <1>9
  <2>3. runs'[j].base = runs'[j].floor + (IF runs'[j].kind = "hook" THEN 1 ELSE 0)
    BY <1>3, <2>2
  <2>4. runs'[j].kind # "main" /\ runs'[j].base <= Len(frames')
        /\ (runs'[j].kind = "hook" => frames'[runs'[j].base].ret \in Names)
    BY <1>3, <2>2
  <2>5. QED BY <2>1, <2>2, <2>3, <2>4 DEF Layered
<1>10. \A m, k : Ready(m, k)' <=> Ready(m, k)
  BY DEF Ready, Code, Elsewhere
<1>11. ASSUME NEW j \in 1 .. n PROVE Waits(j)'
  <2>1. CASE j = n
    BY <1>3, <1>5, <1>10, <2>1 DEF Waits
  <2>2. CASE j \in 1 .. n - 1
    <3>1. Waits(j) /\ runs'[j] = runs[j]
      BY <1>5, <2>2 DEF SMInv, n
    <3>2. QED BY <1>10, <3>1 DEF Waits
  <2>3. QED BY <1>1, <2>1, <2>2
<1>12. Run' = top /\ Len(runs') = n + 1
  BY <1>5 DEF Run, Last1
<1>13. Ready(Run.pc, Len(Run.stack))'
  BY <1>2, <1>10, <1>12, EmptySeq
<1>14. Typed'
  BY <1>5 DEF SMInv, Typed, Elsewhere, FramesBelow
<1>15. \A i \in 1 .. Len(frames') : FrameOK(frames[i])'
  BY <1>10 DEF FrameOK, FramesBelow
<1>16. runs' # <<>> /\ runs'[1].base = 0
  <2>1. 1 \in 1 .. n /\ n + 1 # 0
    BY <1>1
  <2>2. QED BY <1>5, <1>6, <2>1, EmptySeq DEF SMInv
<1>17. ASSUME NEW j \in 1 .. n + 1 PROVE Layered(j)'
  <2>1. j \in 1 .. n \/ j = n + 1
    BY <1>1
  <2>2. QED BY <1>8, <1>9, <2>1
<1>18. \A j \in 1 .. Len(runs') - 1 : Waits(j)'
  BY <1>1, <1>11, <1>12
<1>19. QED BY <1>12, <1>13, <1>14, <1>15, <1>16, <1>17, <1>18 DEF SMInv

LEMMA HookCallStep == ASSUME SMInv, HookCall PROVE SMInv'
<1> DEFINE fr == Frame(Ins.x, Args, HookSavedMax)
           rest == Drop(Run.stack, Ins.n)
           below == [Run EXCEPT !.stack = rest]
           base == Len(frames) + 1
<1>1. /\ Calls(Ins.op) /\ Ins.op \in {"CALL", "APPLY"} /\ status = "running"
      /\ prog' = prog /\ machine' = machine /\ rtntype' = rtntype /\ stcount' = stcount
  BY DEF HookCall, Calls, At, setup
<1>2. CASE HasLabel(Ins.x)
  <2>1. /\ status' = status /\ frames' = Append(frames, fr)
        /\ nv' = Binds(Declared(Ins.x, HookSavedMax), Ins.x, Args)
        /\ runs' = Append([runs EXCEPT ![Len(runs)].stack = Drop(@, Ins.n)],
                          NestedRun("hook", LabelPc(Ins.x), base))
    BY <1>2 DEF HookCall
  <2>2. fr \in FrameType /\ FrameOK(fr) /\ fr.ret \in Names /\ nv' \in [Names -> Values]
    BY <1>1, <2>1, FrameTyped, SMAssumption
  <2>3. Elsewhere
    BY <1>1, <2>1, <2>2 DEF SMInv, Typed, Elsewhere
  <2>4. /\ Ins.n \in Nat /\ Ins.n <= Len(Run.stack) /\ Takes(Ins) = Ins.n /\ Gives(Ins) = 1
        /\ Run.stack \in Seq(Operands) /\ Len(Run.stack) \in Nat /\ Run \in RunType
        /\ Len(frames) \in Nat
    BY <1>1, ArgsTyped, Counts
  <2>5. rest \in Seq(Operands) /\ Len(rest) = Len(Run.stack) - Ins.n
    BY <2>4, DropSeq
  <2>6. Ready(LabelPc(Ins.x), 0)
    <3>1. Labelled(Code, Ins.x) # {}
      BY <1>1, <1>2, Reached, HasLabelled
    <3>2. Labelled(Code, Ins.x) \subseteq Entries(Code, Ins)
      BY <1>1 DEF Entries
    <3>3. QED BY <1>1, <3>1, <3>2, EntryReady
  <2>7. [runs EXCEPT ![Len(runs)].stack = Drop(@, Ins.n)] = [runs EXCEPT ![Len(runs)] = below]
    BY Zenon DEF Run, Last1
  <2>8. runs' = Append([runs EXCEPT ![Len(runs)] = below], NestedRun("hook", LabelPc(Ins.x), base))
    BY <2>1, <2>7, Zenon
  <2> HIDE DEF fr, rest
  <2>9. below \in RunType /\ below.pc = Run.pc /\ below.kind = Run.kind /\ below.base = Run.base
        /\ below.floor = Run.floor /\ below.stack = rest
    BY <2>4, <2>5 DEF RunType
  <2>10. Len(frames') = Len(frames) + 1 /\ frames'[Len(frames) + 1] = fr /\ FramesBelow(Len(frames))
    BY <2>1, <2>2, <2>4, FramePushed
  <2> HIDE DEF below
  <2>11. Nests("hook", LabelPc(Ins.x), below, base)
    <3>1. base \in Nat /\ base <= Len(frames') /\ frames'[base].ret \in Names
      BY <2>2, <2>4, <2>10
    <3>2. QED BY <2>8, <2>9, <3>1 DEF Nests
  <2>12. Ready(Run.pc + 1, Len(below.stack) + 1)
    <3>1. Len(rest) + 1 \in Nat /\ Len(Run.stack) - Takes(Ins) + Gives(Ins) <= Len(rest) + 1
      BY <2>4, <2>5
    <3>2. Ready(Run.pc + 1, Len(rest) + 1)
      BY <1>1, <3>1, NextReady
    <3>3. QED BY <2>9, <3>2
  <2> HIDE DEF base
  <2>13. QED BY <1>1, <2>3, <2>6, <2>10, <2>11, <2>12, NestedStep
<1>3. CASE ~HasLabel(Ins.x)
  <2>1. status' = "crashed" /\ frames' = frames /\ nv' = nv /\ runs' = runs
    BY <1>3 DEF HookCall
  <2>2. Elsewhere
    BY <1>1, <2>1 DEF SMInv, Typed, Elsewhere
  <2>3. QED BY <2>1, <2>2, StopsStep
<1>4. QED BY <1>2, <1>3

\* An expression's code asks for no operands.
LEMMA ExpressionReady ==
    ASSUME SMInv, status = "running", Ins.op \in {"CALL_EXPRESSION", "EVAL"}
    PROVE  /\ Ready(LabelPc(Ins.x), 0) /\ Ready(Run.pc + 1, Len(Run.stack) + 1)
           /\ Takes(Ins) = 0 /\ Gives(Ins) = 1
<1>1. Entries(Code, Ins) = Labelled(Code, Ins.x) /\ Entries(Code, Ins) # {}
  BY Reached DEF Entries, WellFormed
<1>2. Takes(Ins) = 0 /\ Gives(Ins) = 1
  BY DEF Takes, Gives
<1>3. Len(Run.stack) + 1 \in Nat /\ Len(Run.stack) - Takes(Ins) + Gives(Ins) <= Len(Run.stack) + 1
  BY <1>2, Counts
<1>4. QED BY <1>1, <1>2, <1>3, EntryReady, NextReady

LEMMA CallExpressionStep == ASSUME SMInv, CallExpression PROVE SMInv'
<1> DEFINE fr == [retPc |-> Run.pc + 1, ret |-> NoName, names |-> <<>>, vals |-> <<>>,
                  stack |-> Run.stack]
           v == Fail
<1>1. /\ status = "running" /\ Ins.op = "CALL_EXPRESSION"
      /\ prog' = prog /\ machine' = machine /\ nv' = nv /\ rtntype' = rtntype
      /\ stcount' = stcount /\ status' = status
      /\ \/ frames' = Append(frames, fr) /\ Goes(LabelPc(Ins.x), <<>>, Run.ok)
         \/ frames' = frames /\ Goes(Run.pc + 1, Append(Run.stack, v), v # Fail)
  BY DEF CallExpression, At, setup, Pushes
<1>2. Elsewhere
  BY <1>1, ElsewhereSame
<1>3. Ready(LabelPc(Ins.x), 0) /\ Ready(Run.pc + 1, Len(Run.stack) + 1)
      /\ Takes(Ins) = 0 /\ Gives(Ins) = 1
  BY <1>1, ExpressionReady
<1>4. Run.stack \in Seq(Operands) /\ Len(Run.stack) \in Nat /\ Run.pc \in Nat /\ Run.ok \in BOOLEAN
  BY Counts DEF RunType
<1>5. fr \in FrameType /\ FrameOK(fr)
  <2>1. <<>> \in Seq(Names) /\ <<>> \in Seq(Values) /\ Run.pc + 1 \in Nat
    BY <1>4, EmptySeq
  <2>2. QED BY <1>3, <1>4, <2>1 DEF FrameType, FrameOK
<1>6. CASE frames' = Append(frames, fr) /\ Goes(LabelPc(Ins.x), <<>>, Run.ok)
  <2> HIDE DEF fr
  <2>1. FramesBelow(Run.base)
    BY <1>5, <1>6, BaseBelow, FramePushed
  <2>2. <<>> \in Seq(Operands) /\ Len(<<>>) = 0
    BY EmptySeq
  <2>3. QED BY <1>2, <1>3, <1>4, <1>6, <2>1, <2>2, GoesOn
<1>7. CASE frames' = frames /\ Goes(Run.pc + 1, Append(Run.stack, v), v # Fail)
  <2>1. v \in Operands /\ Len(Run.stack) - Takes(Ins) + Gives(Ins) <= Len(Run.stack) + 1
    BY <1>3, <1>4, Constants
  <2> HIDE DEF v, fr
  <2>2. QED BY <1>1, <1>2, <1>4, <1>7, <2>1, PushesNext
<1>8. QED BY <1>1, <1>6, <1>7

LEMMA EvalStep == ASSUME SMInv, Eval PROVE SMInv'
<1>1. /\ status = "running" /\ Ins.op = "EVAL" /\ rtntype' = ""
      /\ prog' = prog /\ machine' = machine /\ nv' = nv /\ frames' = frames
      /\ stcount' = stcount /\ status' = status
      /\ runs' = Append(runs, NestedRun("eval", LabelPc(Ins.x), Len(frames)))
  BY DEF Eval, At, setup
<1>2. Elsewhere
  BY <1>1 DEF SMInv, Typed, Elsewhere
<1>3. Ready(LabelPc(Ins.x), 0) /\ Ready(Run.pc + 1, Len(Run.stack) + 1)
  BY <1>1, ExpressionReady
<1>4. /\ Run \in RunType /\ Run = runs[Len(runs)] /\ Len(frames) \in Nat
      /\ Len(frames) <= Len(frames) /\ FramesBelow(Len(frames))
  <2>1. Run \in RunType /\ Run = runs[Len(runs)] /\ Len(frames) \in Nat
    BY Counts
  <2>2. Len(frames) <= Len(frames)
    BY <2>1
  <2>3. FramesBelow(Len(frames))
    BY <1>1, <2>1, <2>2, FramesStay
  <2>4. QED BY <2>1, <2>2, <2>3
<1>5. runs = [runs EXCEPT ![Len(runs)] = Run]
  <2> DEFINE n == Len(runs)
  <2>1. runs \in Seq(RunType) /\ n \in 1 .. Len(runs)
    <3>1. \A m \in Nat : m >= 1 => m \in 1 .. m
      OBVIOUS
    <3>2. n \in Nat /\ n >= 1
      BY Counts
    <3>3. n \in 1 .. n
      BY <3>1, <3>2, Zenon
    <3>4. runs \in Seq(RunType)
      BY DEF SMInv, Typed
    <3>5. QED BY <3>3, <3>4, Zenon
  <2> DEFINE r == [runs EXCEPT ![n] = Run]
  <2>2. r \in Seq(RunType) /\ Len(r) = Len(runs) /\ \A j \in 1 .. Len(runs) : r[j] = IF j = n THEN Run ELSE runs[j]
    BY <1>4, <2>1, ExceptSeq
  <2>3. \A j \in 1 .. Len(runs) : r[j] = runs[j]
    BY <1>4, <2>2
  <2> HIDE DEF r
  <2>4. r = runs
    BY <2>1, <2>2, <2>3, SeqEqual
  <2>5. QED BY <2>4 DEF r
<1>6. Nests("eval", LabelPc(Ins.x), Run, Len(frames))
  <2>1. Len(frames) = Len(frames) + 0 /\ Len(frames) <= Len(frames')
    <3>1. \A n \in Nat : n = n + 0
      OBVIOUS
    <3>2. QED BY <1>1, <1>4, <3>1, Zenon
  <2>2. runs' = Append([runs EXCEPT ![Len(runs)] = Run], NestedRun("eval", LabelPc(Ins.x), Len(frames)))
    BY <1>1, <1>5
  <2>3. QED BY <1>4, <2>1, <2>2 DEF Nests
<1>7. QED BY <1>1, <1>2, <1>3, <1>4, <1>6, NestedStep

-----------------------------------------------------------------------------
(* Returns.                                                                *)

\* The lowest m frames are left.
LEMMA FramesCut ==
    ASSUME SMInv, NEW m \in Nat, m <= Len(frames), frames' = SubSeq(frames, 1, m)
    PROVE  (\A n \in Nat : n <= m => FramesBelow(n)) /\ Len(frames') = m
<1>1. frames \in Seq(FrameType) /\ Len(frames) \in Nat
  BY Counts DEF SMInv, Typed
<1>2. frames' \in Seq(FrameType) /\ Len(frames') = m /\ \A i \in 1 .. m : frames'[i] = frames[i]
  BY <1>1, PrefixSeq
<1>3. ASSUME NEW i \in 1 .. Len(frames') PROVE FrameOK(frames'[i])
  <2>1. i \in 1 .. Len(frames) /\ frames'[i] = frames[i]
    BY <1>1, <1>2
  <2>2. QED BY <2>1 DEF SMInv
<1>4. ASSUME NEW n \in Nat, n <= m PROVE FramesBelow(n)
  <2>1. n <= Len(frames') /\ \A i \in 1 .. n : i \in 1 .. m
    BY <1>2, <1>4
  <2>2. QED BY <1>2, <1>3, <2>1 DEF FramesBelow
<1>5. QED BY <1>2, <1>4

LEMMA ReturnFromStep ==
    ASSUME SMInv, status = "running", Depth > 0, NEW kind \in {"RETURN", "FRETURN", "NRETURN"},
           ReturnFrom(Last1(frames), kind), prog' = prog, machine' = machine,
           stcount' = stcount, status' = status
    PROVE  SMInv'
<1> DEFINE fr == Last1(frames)
           retval == IF fr.ret = NoName THEN TopOr(Run.stack, Fail) ELSE nv[fr.ret]
           v == CASE kind = "FRETURN" -> Fail
                  [] kind = "NRETURN" -> Deref(nv', retval)
                  [] OTHER -> retval
           ok == kind = "NRETURN" \/ v # Fail
           pushed == Append(fr.stack, v)
<1>1. /\ nv' = Restore(nv, fr) /\ frames' = Drop(frames, 1) /\ rtntype' = kind
      /\ Goes(fr.retPc, pushed, ok)
  BY DEF ReturnFrom
<1>2. /\ Len(frames) \in Nat /\ Run.base \in Nat /\ frames \in Seq(FrameType)
      /\ nv \in [Names -> Values] /\ Run.stack \in Seq(Operands)
  BY Counts, BaseBelow DEF SMInv, Typed
<1>3. Len(frames) >= 1 /\ Run.base <= Len(frames) - 1 /\ Len(frames) - 1 \in Nat
      /\ Len(frames) - 1 <= Len(frames)
  BY <1>2 DEF Depth
<1>4. fr \in FrameType /\ FrameOK(fr)
  <2>1. frames # <<>>
    BY <1>2, <1>3, EmptySeq
  <2>2. fr \in FrameType /\ Len(frames) \in 1 .. Len(frames)
    BY <1>2, <2>1, LastSeq
  <2>3. QED BY <2>2 DEF SMInv, Last1
<1> HIDE DEF fr
<1>5. nv' \in [Names -> Values]
  BY <1>1, <1>2, <1>4, RestoreTyped DEF FrameOK
<1>6. retval \in Operands
  <2>1. fr.ret \in Names \union {NoName}
    BY <1>4 DEF FrameType
  <2>2. CASE fr.ret = NoName
    BY <1>2, <2>2, TopTyped
  <2>3. CASE fr.ret # NoName
    BY <1>2, <2>1, <2>3, Constants
  <2>4. QED BY <2>2, <2>3
<1> HIDE DEF retval
<1>7. v \in Operands
  BY <1>5, <1>6, DerefTyped, Constants
<1> HIDE DEF v
<1>8. pushed \in Seq(Operands) /\ Len(pushed) = Len(fr.stack) + 1 /\ ok \in BOOLEAN
  <2>1. fr.stack \in Seq(Operands)
    BY <1>4 DEF FrameType
  <2>2. QED BY <1>7, <2>1, AppendProperties
<1>9. Ready(fr.retPc, Len(pushed))
  BY <1>4, <1>8 DEF FrameOK
<1>10. Elsewhere
  BY <1>1, <1>5 DEF SMInv, Typed, Elsewhere
<1>11. FramesBelow(Run.base)
  BY <1>1, <1>2, <1>3, FramesCut DEF Drop
<1> HIDE DEF ok, pushed
<1>12. QED BY <1>1, <1>8, <1>9, <1>10, <1>11, GoesOn

\* Run k and those above it are over, and the run below k goes on with v.
RunEnds(k, v, ok) ==
    /\ runs' = Append(SubSeq(runs, 1, k - 2),
                      [runs[k - 1] EXCEPT !.pc = @ + 1, !.stack = Append(@, v), !.ok = ok])
    /\ frames' = SubSeq(frames, 1, runs[k].floor)

LEMMA RunEndsStep ==
    ASSUME SMInv, Elsewhere, NEW k \in 2 .. Len(runs), NEW v \in Operands, NEW ok \in BOOLEAN,
           RunEnds(k, v, ok)
    PROVE  SMInv'
<1> DEFINE r == runs[k - 1]
           pushed == Append(r.stack, v)
           q == [r EXCEPT !.pc = r.pc + 1, !.stack = pushed, !.ok = ok]
           kept == SubSeq(runs, 1, k - 2)
<1>1. Len(runs) \in Nat /\ k \in 1 .. Len(runs) /\ k - 1 \in 1 .. Len(runs) /\ k \in Nat
      /\ k - 1 \in 1 .. Len(runs) - 1 /\ k - 2 \in Nat /\ k - 2 <= Len(runs) /\ k - 1 \in 1 .. k - 1
  BY Counts
<1>2. /\ runs \in Seq(RunType) /\ r \in RunType /\ r.stack \in Seq(Operands) /\ r.pc \in Nat
      /\ Len(frames) \in Nat /\ runs[k].floor \in Nat /\ runs[k].floor <= runs[k].base
      /\ runs[k].base \in Nat /\ r.base \in Nat /\ Layered(k)
  BY <1>1, Counts DEF SMInv, Typed, RunType
<1>3. r.base <= runs[k].floor /\ runs[k].floor <= Len(frames)
  <2>1. runs[k].base <= Len(frames) /\ \A j \in 1 .. k - 1 : runs[j].base <= runs[k].floor
    BY <1>2 DEF Layered
  <2>2. r.base <= runs[k].floor
    BY <1>1, <2>1
  <2>3. \A a, b, c \in Nat : a <= b /\ b <= c => a <= c
    OBVIOUS
  <2>4. QED BY <1>2, <2>1, <2>2, <2>3, Zenon
<1>4. FramesBelow(r.base)
  BY <1>2, <1>3, FramesCut DEF RunEnds
<1>5. Waits(k - 1)
  BY <1>1 DEF SMInv
<1>6. pushed \in Seq(Operands) /\ Len(pushed) = Len(r.stack) + 1
  BY <1>2, AppendProperties
<1>7. Ready(r.pc + 1, Len(pushed)) /\ r.pc + 1 \in Nat
  BY <1>2, <1>5, <1>6 DEF Waits
<1>8. runs' = Append(kept, q)
  BY Zenon DEF RunEnds
<1>9. kept \in Seq(RunType) /\ Len(kept) = k - 2 /\ \A j \in 1 .. k - 2 : kept[j] = runs[j]
  BY <1>1, <1>2, PrefixSeq
<1> DEFINE m == k - 1
<1>10. m \in 1 .. Len(runs) /\ r = runs[m] /\ Len(kept) + 1 = m
       /\ \A j \in 1 .. m - 1 : j \in 1 .. Len(kept) /\ j \in 1 .. k - 2
  BY <1>1, <1>9
<1> HIDE DEF pushed, r, m, kept
<1>11. q \in RunType /\ q.pc = r.pc + 1 /\ q.stack = pushed
       /\ q.kind = r.kind /\ q.base = r.base /\ q.floor = r.floor
  BY <1>2, <1>6, <1>7 DEF RunType
<1> HIDE DEF q
<1>12. /\ runs' \in Seq(RunType) /\ Len(runs') = m /\ runs'[m] = q
       /\ \A j \in 1 .. m - 1 : runs'[j] = runs[j]
  <2>1. /\ runs' \in Seq(RunType) /\ Len(runs') = Len(kept) + 1 /\ runs'[Len(kept) + 1] = q
        /\ \A j \in 1 .. Len(kept) : runs'[j] = kept[j]
    BY <1>8, <1>9, <1>11, AppendProperties
  <2>2. QED BY <1>9, <1>10, <2>1
<1>13. Resumed(m, q)
  BY <1>10, <1>11, <1>12 DEF Resumed
<1>14. FramesBelow(runs[m].base) /\ Ready(q.pc, Len(q.stack))
  BY <1>4, <1>7, <1>10, <1>11
<1>15. QED BY <1>10, <1>13, <1>14, ResumedStep

LEMMA Ranges ==
    /\ \A n \in Nat : (n >= 1 => n \in 1 .. n) /\ (n > 1 => n >= 2 /\ n \in 2 .. n)
    /\ \A n, m \in Nat : \A b : b = n + 1 /\ b <= m => b \in 1 .. m
OBVIOUS

LEMMA EndRunStep ==
    ASSUME SMInv, Nested, NEW how, EndRun(how), prog' = prog, machine' = machine,
           stcount' = stcount, status' = status, rtntype' \in {"", "RETURN", "FRETURN", "NRETURN"}
    PROVE  SMInv'
<1> DEFINE k == Len(runs)
           hook == frames[Run.base]
           result == IF how = "FRETURN" THEN Fail
                     ELSE IF Run.kind = "hook" THEN nv[hook.ret]
                     ELSE TopOr(Run.stack, Fail)
           v == Deref(nv', result)
           ok == v # Fail
<1>1. /\ nv' = IF Run.kind = "hook" THEN Restore(nv, hook) ELSE nv
      /\ RunEnds(k, v, ok)
  <2>1. Run = runs[k]
    BY Counts
  <2>2. nv' = IF Run.kind = "hook" THEN Restore(nv, hook) ELSE nv
    BY DEF EndRun
  <2>3. QED BY <2>1, <2>2, Zenon DEF EndRun, RunEnds
<1>2. /\ k \in Nat /\ k >= 2 /\ Run = runs[k] /\ Run.stack \in Seq(Operands)
      /\ nv \in [Names -> Values] /\ Len(frames) \in Nat /\ Run.base \in Nat /\ Run.floor \in Nat
  <2> HIDE DEF result, v, ok, hook
  <2>1. k \in Nat /\ k >= 1 /\ k > 1
    BY Counts DEF Nested
  <2>2. k >= 2 /\ k \in 1 .. k
    BY <2>1, Ranges, Zenon
  <2>3. Run = runs[k] /\ Len(frames) \in Nat /\ Run.stack \in Seq(Operands)
        /\ Run.base \in Nat /\ Run.floor \in Nat
    BY <2>2, Counts
  <2>4. nv \in [Names -> Values]
    BY DEF SMInv, Typed
  <2>5. QED BY <2>1, <2>2, <2>3, <2>4
<1>3. k \in 2 .. Len(runs) /\ Layered(k)
  <2> HIDE DEF result, v, ok, hook
  <2>1. k >= 1 /\ k > 1
    BY Counts DEF Nested
  <2>2. k \in 2 .. k /\ k \in 1 .. k
    BY <1>2, <2>1, Ranges, Zenon
  <2>3. QED BY <2>2 DEF SMInv
<1>4. Run.kind = "hook" => /\ hook \in FrameType /\ hook.ret \in Names
                           /\ Len(hook.names) = Len(hook.vals)
  <2> SUFFICES ASSUME Run.kind = "hook"
               PROVE  hook \in FrameType /\ hook.ret \in Names /\ Len(hook.names) = Len(hook.vals)
    OBVIOUS
  <2> HIDE DEF result, v, ok
  <2>1. Run.base = Run.floor + 1 /\ Run.base <= Len(frames) /\ hook.ret \in Names
    BY <1>2, <1>3 DEF Layered
  <2>2. Run.base \in 1 .. Len(frames)
    BY <1>2, <2>1, Ranges, Zenon
  <2>3. hook \in FrameType /\ FrameOK(hook)
    BY <2>2, Counts DEF SMInv
  <2>4. QED BY <2>1, <2>3 DEF FrameOK
<1> HIDE DEF hook, k
<1>5. nv' \in [Names -> Values]
  BY <1>1, <1>2, <1>4, RestoreTyped
<1>6. result \in Operands
  BY <1>2, <1>4, TopTyped, Constants
<1> HIDE DEF result
<1>7. v \in Operands /\ ok \in BOOLEAN
  BY <1>5, <1>6, DerefTyped
<1> HIDE DEF v, ok
<1>8. Elsewhere
  BY <1>5 DEF SMInv, Typed, Elsewhere
<1>9. QED BY <1>1, <1>3, <1>7, <1>8, RunEndsStep

LEMMA ReturnStep == ASSUME SMInv, Return PROVE SMInv'
<1> DEFINE skip == (Ins.x[2] = "S" /\ ~Run.ok) \/ (Ins.x[2] = "F" /\ Run.ok)
           kind == Ins.x[1]
<1>1. /\ status = "running" /\ Ins.op = "RETURN"
      /\ prog' = prog /\ machine' = machine /\ stcount' = stcount
      /\ \/ /\ Goes(Run.pc + 1, Run.stack, Run.ok)
            /\ nv' = nv /\ frames' = frames /\ rtntype' = rtntype /\ status' = status
         \/ Depth > 0 /\ ReturnFrom(Last1(frames), kind) /\ status' = status
         \/ Nested /\ EndRun(kind) /\ rtntype' = kind /\ status' = status
         \/ /\ rtntype' = kind /\ status' = "stopped"
            /\ nv' = nv /\ frames' = frames /\ runs' = runs
  <2>1. status = "running" /\ Ins.op = "RETURN" /\ prog' = prog /\ machine' = machine
        /\ stcount' = stcount
    BY DEF Return, At, setup
  <2>2. CASE skip
    BY <2>1, <2>2 DEF Return
  <2>3. CASE ~skip
    BY <2>1, <2>3 DEF Return
  <2>4. QED BY <2>2, <2>3
<1>2. kind \in {"RETURN", "FRETURN", "NRETURN"}
  BY <1>1, Reached DEF WellFormed
<1> HIDE DEF kind
<1>3. CASE Goes(Run.pc + 1, Run.stack, Run.ok)
           /\ nv' = nv /\ frames' = frames /\ rtntype' = rtntype /\ status' = status
  <2>1. Elsewhere
    BY <1>1, <1>3, ElsewhereSame
  <2>2. Run.ok \in BOOLEAN /\ Run.stack \in Seq(Operands) /\ Len(Run.stack) \in Nat
    BY Counts DEF RunType
  <2>3. Takes(Ins) = 0 /\ Gives(Ins) = 0
    BY <1>1 DEF Takes, Gives
  <2>4. Len(Run.stack) - Takes(Ins) + Gives(Ins) <= Len(Run.stack)
    BY <2>2, <2>3
  <2>5. QED BY <1>1, <1>3, <2>1, <2>2, <2>4, GoesNext
<1>4. CASE Depth > 0 /\ ReturnFrom(Last1(frames), kind) /\ status' = status
  BY <1>1, <1>2, <1>4, ReturnFromStep
<1>5. CASE Nested /\ EndRun(kind) /\ rtntype' = kind /\ status' = status
  BY <1>1, <1>2, <1>5, EndRunStep
<1>6. CASE rtntype' = kind /\ status' = "stopped" /\ nv' = nv /\ frames' = frames /\ runs' = runs
  <2>1. Elsewhere
    BY <1>1, <1>2, <1>6 DEF SMInv, Typed, Elsewhere
  <2>2. QED BY <1>6, <2>1, StopsStep
<1>7. QED BY <1>1, <1>3, <1>4, <1>5, <1>6

LEMMA HaltStep == ASSUME SMInv, Halt PROVE SMInv'
<1>1. /\ status = "running" /\ prog' = prog /\ machine' = machine /\ stcount' = stcount
      /\ rtntype' = rtntype
      /\ \/ Nested /\ EndRun(rtntype) /\ status' = status
         \/ status' = "stopped" /\ nv' = nv /\ frames' = frames /\ runs' = runs
  BY DEF Halt, At, setup
<1>2. rtntype' \in {"", "RETURN", "FRETURN", "NRETURN"}
  BY <1>1 DEF SMInv, Typed
<1>3. CASE Nested /\ EndRun(rtntype) /\ status' = status
  BY <1>1, <1>2, <1>3, EndRunStep
<1>4. CASE status' = "stopped" /\ nv' = nv /\ frames' = frames /\ runs' = runs
  <2>1. Elsewhere
    BY <1>1, <1>2, <1>4 DEF SMInv, Typed, Elsewhere
  <2>2. QED BY <1>4, <2>1, StopsStep
<1>5. QED BY <1>1, <1>3, <1>4

-----------------------------------------------------------------------------
(* Errors.                                                                 *)

LEMMA CatcherThere ==
    ASSUME SMInv
    PROVE  Catcher \in 1 .. Len(runs) /\ runs[Catcher].kind # "hook"
<1> DEFINE T == {k \in 1 .. Len(runs) : runs[k].kind # "hook"}
<1>1. Len(runs) \in Nat /\ 1 \in 1 .. Len(runs)
  BY Counts
<1>2. 1 \in T
  <2>1. Layered(1)
    BY <1>1 DEF SMInv
  <2>2. runs[1].kind # "hook"
    BY <2>1 DEF Layered
  <2>3. QED BY <1>1, <2>2
<1>3. T \in SUBSET (0 .. Len(runs))
  BY <1>1
<1>4. Catcher = Max(T)
  BY DEF Catcher
<1>5. Catcher \in T
  <2> HIDE DEF T
  <2>1. T # {}
    BY <1>2
  <2>2. QED BY <1>1, <1>3, <1>4, <2>1, GreatestNat
<1>6. QED BY <1>5

\* Where the main run goes on after an error the operand stack may be empty.
LEMMA RecoverReady ==
    ASSUME SMInv, status = "running", NEW p \in Nat
    PROVE  Ready(RecoverPc(p), 0)
<1> DEFINE from == IF p + 1 <= Len(Code) THEN p + 2 ELSE p + 1
           starts == {j \in from .. Len(Code) : Code[j].op \in {"STNO", "HALT"}}
<1>1. Len(Code) \in Nat /\ Len(Code) \in 1 .. Len(Code) /\ Code[Len(Code)].op = "HALT"
  BY Reached
<1>2. ASSUME NEW q \in 1 .. Len(Code), Code[q].op \in {"STNO", "HALT"} PROVE Ready(q, 0)
  <2>1. Balanced(Code, Height[prog], q)
    BY CompiledAssumption DEF Code, SMInv, Typed
  <2>2. Height[prog][q] = 0
    BY <1>2, <2>1 DEF Balanced
  <2>3. QED BY <2>2 DEF Ready
<1>3. RecoverPc(p) = IF starts = {} THEN Len(Code) ELSE Min(starts)
  BY DEF RecoverPc
<1>4. from \in Nat /\ from >= 1
  OBVIOUS
<1> HIDE DEF from
<1>5. starts \in SUBSET Nat /\ \A q \in starts : q \in 1 .. Len(Code) /\ Code[q].op \in {"STNO", "HALT"}
  BY <1>1, <1>4
<1> HIDE DEF starts
<1>6. CASE starts = {}
  BY <1>1, <1>2, <1>3, <1>6
<1>7. CASE starts # {}
  <2>1. Min(starts) \in starts
    BY <1>5, <1>7, LeastNat
  <2>2. QED BY <1>2, <1>3, <1>5, <1>7, <2>1
<1>8. QED BY <1>6, <1>7

LEMMA RunTopNat ==
    ASSUME SMInv
    PROVE  RunTop(1) \in Nat /\ RunTop(1) <= Len(frames)
<1>1. Len(runs) \in Nat /\ Len(frames) \in Nat
  BY Counts
<1>2. CASE 1 < Len(runs)
  <2>1. 2 \in 1 .. Len(runs) /\ RunTop(1) = runs[2].floor
    BY <1>1, <1>2 DEF RunTop
  <2>2. runs[2].floor \in Nat /\ runs[2].base \in Nat /\ runs[2].floor <= runs[2].base
        /\ runs[2].base <= Len(frames)
    BY <2>1, Counts DEF SMInv, Layered
  <2>3. QED BY <1>1, <2>1, <2>2
<1>3. CASE ~(1 < Len(runs))
  <2>1. RunTop(1) = Len(frames)
    BY <1>3 DEF RunTop
  <2>2. QED BY <1>1, <2>1
<1>4. QED BY <1>2, <1>3

LEMMA MainRecoversStep ==
    ASSUME SMInv, status = "running", MainRecovers, prog' = prog, machine' = machine,
           stcount' = stcount, status' = status, rtntype' = rtntype
    PROVE  SMInv'
<1> DEFINE r == runs[1]
           pc == RecoverPc(r.pc)
           q == [r EXCEPT !.pc = pc, !.stack = <<>>, !.ok = FALSE]
<1>1. runs' = <<q>>
  BY Zenon DEF MainRecovers
<1>2. 1 \in 1 .. Len(runs) /\ r \in RunType /\ r.pc \in Nat /\ r.base = 0
  <2>1. 1 \in 1 .. Len(runs)
    BY Counts
  <2>2. r \in RunType
    BY <2>1, Counts
  <2>3. QED BY <2>1, <2>2 DEF RunType, SMInv
<1>3. Ready(pc, 0) /\ pc \in Nat
  <2>1. Ready(pc, 0)
    BY <1>2, RecoverReady
  <2>2. Len(Code) \in Nat
    BY Reached
  <2> HIDE DEF pc
  <2>3. QED BY <2>1, <2>2 DEF Ready
<1>4. FramesBelow(0) /\ nv' \in [Names -> Values]
  <2>1. RunTop(1) \in Nat /\ RunTop(1) <= Len(frames) /\ 0 \in Nat /\ 0 <= RunTop(1)
    BY RunTopNat
  <2>2. CASE machine.runner = "jit"
    <3>1. frames' = <<>> /\ nv' = RestoreAll(nv, RunTop(1))
      BY <2>2 DEF MainRecovers
    <3>2. nv' \in [Names -> Values]
      BY <2>1, <3>1, RestoreAllTyped
    <3>3. FramesBelow(0)
      BY <3>1, EmptySeq DEF FramesBelow
    <3>4. QED BY <3>2, <3>3
  <2>3. CASE machine.runner # "jit"
    <3>1. frames' = SubSeq(frames, 1, RunTop(1)) /\ nv' = nv
      BY <2>3 DEF MainRecovers
    <3>2. FramesBelow(0)
      BY <2>1, <3>1, FramesCut
    <3>3. QED BY <3>1, <3>2 DEF SMInv, Typed
  <2>4. QED BY <2>2, <2>3
<1>5. Elsewhere
  BY <1>4 DEF SMInv, Typed, Elsewhere
<1> HIDE DEF pc, r
<1>6. q \in RunType /\ q.pc = pc /\ q.stack = <<>>
      /\ q.kind = r.kind /\ q.base = r.base /\ q.floor = r.floor
  <2>1. <<>> \in Seq(Operands)
    BY EmptySeq
  <2>2. QED BY <1>2, <1>3, <2>1 DEF RunType
<1> HIDE DEF q
<1>7. Resumed(1, q)
  <2>1. runs' \in Seq(RunType) /\ Len(runs') = 1 /\ runs'[1] = q
    BY <1>1, <1>6
  <2>2. QED BY <1>6, <2>1 DEF Resumed, r
<1>8. Ready(q.pc, Len(q.stack)) /\ FramesBelow(runs[1].base)
  BY <1>2, <1>3, <1>4, <1>6, EmptySeq DEF r
<1>9. QED BY <1>2, <1>5, <1>7, <1>8, ResumedStep

LEMMA ErrorStep == ASSUME SMInv, Error PROVE SMInv'
<1>1. /\ status = "running" /\ prog' = prog /\ machine' = machine /\ stcount' = stcount
      /\ rtntype' = rtntype /\ status' = status
      /\ IF Catcher > 1 THEN EvalFails(Catcher) ELSE MainRecovers
  BY DEF Error, At, setup
<1>2. CASE Catcher > 1
  <2> DEFINE k == Catcher
             v == Fail
             ok == FALSE
  <2>1. k \in 2 .. Len(runs)
    BY <1>2, CatcherThere, Counts
  <2>2. RunEnds(k, v, ok) /\ nv' = nv
    BY <1>1, <1>2, Zenon DEF EvalFails, RunEnds
  <2>3. Elsewhere
    BY <1>1, <2>2, ElsewhereSame
  <2>4. v \in Operands /\ ok \in BOOLEAN
    BY Constants
  <2> HIDE DEF k, v, ok
  <2>5. QED BY <2>1, <2>2, <2>3, <2>4, RunEndsStep
<1>3. CASE ~(Catcher > 1)
  BY <1>1, <1>3, MainRecoversStep
<1>4. QED BY <1>2, <1>3

-----------------------------------------------------------------------------
(* The invariant.                                                          *)

LEMMA SMInitially == Init => SMInv
<1> SUFFICES ASSUME Init PROVE SMInv
  OBVIOUS
<1>1. /\ prog \in DOMAIN Programs /\ machine \in Machines /\ nv = [x \in Names |-> Null]
      /\ frames = <<>> /\ runs = <<MainRun>> /\ rtntype = "" /\ stcount = 0 /\ status = "running"
  BY DEF Init
<1>2. MainRun \in RunType /\ MainRun.pc = 1 /\ MainRun.stack = <<>> /\ MainRun.kind = "main"
      /\ MainRun.base = 0 /\ MainRun.floor = 0
  BY EmptySeq DEF MainRun, RunType
<1>3. Typed
  <2>1. nv \in [Names -> Values]
    BY <1>1, Constants
  <2>2. runs \in Seq(RunType) /\ frames \in Seq(FrameType)
    <3>1. <<MainRun>> \in Seq(RunType)
      BY <1>2
    <3>2. <<>> \in Seq(FrameType)
      BY EmptySeq
    <3>3. QED BY <1>1, <3>1, <3>2
  <2>3. QED BY <1>1, <2>1, <2>2 DEF Typed
<1> HIDE DEF MainRun
<1>4. Len(runs) = 1 /\ Len(frames) = 0 /\ runs[1] = MainRun /\ Run = MainRun /\ runs # <<>>
  BY <1>1 DEF Run, Last1
<1>5. Layered(1)
  BY <1>2, <1>4 DEF Layered
<1>6. Ready(1, 0)
  <2>1. Len(Code) \in Nat \ {0} /\ Height[prog][1] = 0
    BY <1>1, CompiledAssumption DEF Code
  <2>2. 1 \in 1 .. Len(Code) /\ 0 <= 0
    BY <2>1
  <2>3. QED BY <2>1, <2>2 DEF Ready
<1>7. \A k \in 1 .. Len(frames) : FrameOK(frames[k])
  BY <1>4
<1>8. \A k \in 1 .. Len(runs) : Layered(k)
  <2>1. \A k \in 1 .. 1 : k = 1
    OBVIOUS
  <2>2. QED BY <1>4, <1>5, <2>1
<1>9. \A k \in 1 .. Len(runs) - 1 : Waits(k)
  <2>1. \A k : k \notin 1 .. 1 - 1
    OBVIOUS
  <2>2. QED BY <1>4, <2>1
<1>10. Ready(Run.pc, Len(Run.stack)) /\ runs[1].base = 0
  BY <1>2, <1>4, <1>6, EmptySeq
<1>11. QED BY <1>3, <1>4, <1>7, <1>8, <1>9, <1>10 DEF SMInv

LEMMA SMNext == SMInv /\ [Next]_vars => SMInv'
<1> SUFFICES ASSUME SMInv, [Next]_vars PROVE SMInv'
  OBVIOUS
<1>1. CASE Stno             BY <1>1, StnoStep
<1>2. CASE Plain            BY <1>2, PlainStep
<1>3. CASE Store            BY <1>3, StoreStep
<1>4. CASE CallFails        BY <1>4, CallFailsStep
<1>5. CASE CallFunction     BY <1>5, CallFunctionStep
<1>6. CASE HookCall         BY <1>6, HookCallStep
<1>7. CASE CallExpression   BY <1>7, CallExpressionStep
<1>8. CASE Eval             BY <1>8, EvalStep
<1>9. CASE Return           BY <1>9, ReturnStep
<1>10. CASE Halt            BY <1>10, HaltStep
<1>11. CASE Error           BY <1>11, ErrorStep
<1>12. CASE UNCHANGED vars
  <2>1. prog' = prog /\ runs' = runs /\ frames' = frames /\ status' = status
        /\ machine' = machine /\ nv' = nv /\ rtntype' = rtntype /\ stcount' = stcount
    BY <1>12 DEF vars, setup
  <2>2. QED BY <2>1 DEF SMInv, Typed, FrameOK, Layered, Waits, Ready, Code, Run
<1>13. QED
  BY <1>1, <1>2, <1>3, <1>4, <1>5, <1>6, <1>7, <1>8, <1>9, <1>10, <1>11, <1>12 DEF Next, Ended

LEMMA SMHolds == Spec => []SMInv
<1>1. QED BY SMInitially, SMNext, PTL DEF Spec

-----------------------------------------------------------------------------
(* The properties.                                                         *)

LEMMA TypeFollows == SMInv => TypeOK
<1> SUFFICES ASSUME SMInv PROVE TypeOK
  OBVIOUS
<1>1. /\ prog \in DOMAIN Programs /\ machine \in Machines /\ nv \in [Names -> Values]
      /\ rtntype \in {"", "RETURN", "FRETURN", "NRETURN"}
      /\ stcount \in Nat /\ status \in {"running", "stopped", "aborted", "crashed"}
      /\ runs # <<>> /\ runs[1].base = 0
  BY DEF SMInv, Typed
<1>2. \A k \in 1 .. Len(frames) : frames[k] \in FrameType /\ Len(frames[k].names) = Len(frames[k].vals)
  BY Counts DEF SMInv, FrameOK
<1>3. \A k \in 1 .. Len(runs) : runs[k] \in RunType /\ Layered(k)
  BY Counts DEF SMInv
<1>4. \A k \in 1 .. Len(runs) : runs[k] \in RunType /\ (runs[k].kind = "main" <=> k = 1)
  BY <1>3 DEF Layered
<1>5. ASSUME NEW k \in 2 .. Len(runs)
      PROVE  /\ runs[k].base = runs[k].floor + (IF runs[k].kind = "hook" THEN 1 ELSE 0)
             /\ runs[k - 1].base <= runs[k].floor
  <2>1. k \in 1 .. Len(runs) /\ k - 1 \in 1 .. k - 1
    BY Counts
  <2>2. QED BY <1>3, <2>1 DEF Layered
<1>6. Run.base <= Len(frames)
  BY BaseBelow
<1>7. QED BY <1>1, <1>2, <1>4, <1>5, <1>6 DEF TypeOK

LEMMA OperandsFollow == SMInv => OperandsPresent
<1> SUFFICES ASSUME SMInv, status = "running"
             PROVE  Run.pc <= Len(Code) /\ Len(Run.stack) >= Takes(Ins)
  BY DEF OperandsPresent
<1>1. Run.pc \in 1 .. Len(Code) /\ Len(Code) \in Nat /\ Takes(Ins) \in Nat
      /\ Takes(Ins) <= Len(Run.stack) /\ Len(Run.stack) \in Nat
  BY Reached, TakesNat, Counts
<1>2. QED BY <1>1

\* The machine's state is well formed in every run of every compiled program: however calls,
\* nested runs, returns and errors follow one another, the runs' frames lie one above the
\* other and a frame has one saved value for each name.
THEOREM StateIsTyped == Spec => []TypeOK
<1>1. QED BY SMHolds, TypeFollows, PTL

\* Where lower() has every instruction reached with the operands it takes, none finds the
\* operand stack too short at run time: not after a return, a caught error, or a nested run
\* that ended early.
THEOREM OperandsArePresent == Spec => []OperandsPresent
<1>1. QED BY SMHolds, OperandsFollow, PTL
=============================================================================
