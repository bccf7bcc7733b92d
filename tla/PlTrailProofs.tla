--------------------------- MODULE PlTrailProofs ---------------------------
(***************************************************************************)
(* For every program's terms and goals: the trail invariant, that the      *)
(* trail implements the backtrackable store of PlStore, and what           *)
(* unification computes.                                                   *)
(***************************************************************************)
EXTENDS PlTrail, SequenceTheorems, TLAPS

\* A function on 1 .. n is a sequence.
LEMMA FunctionIsSeq ==
    \A S : \A n \in Nat : \A f \in [1 .. n -> S] : f \in Seq(S)
<1> TAKE S
<1> TAKE n \in Nat
<1> TAKE f \in [1 .. n -> S]
<1> DEFINE Of(k) == [1 .. k -> S]
<1>1. f \in Of(n)
  OBVIOUS
<1>2. f \in UNION {Of(k) : k \in Nat}
  <2> HIDE DEF Of
  <2>1. QED BY <1>1
<1>3. QED BY <1>2, SeqDef

\* bind leaves a store of terms and a trail of named variables.
LEMMA BindTypes ==
    ASSUME TypeOK, NEW var \in Vars, NEW val \in Terms, bind(var, val)
    PROVE  ref' \in [Vars -> Terms \cup {Unbound}] /\ trail' \in Seq(Vars \ Anonymous)
<1>1. ref' \in [Vars -> Terms \cup {Unbound}]
  BY DEF TypeOK, bind
<1>2. trail' \in Seq(Vars \ Anonymous)
  <2>1. CASE var \in Anonymous
    BY <2>1 DEF TypeOK, bind
  <2>2. CASE var \notin Anonymous
    BY <2>2, AppendProperties DEF TypeOK, bind
  <2>3. QED BY <2>1, <2>2
<1>3. QED BY <1>1, <1>2

\* So does trail_unwind.
LEMMA UnwindTypes ==
    ASSUME TypeOK
    PROVE  \A m \in Nat : trail_unwind(m) =>
             ref' \in [Vars -> Terms \cup {Unbound}] /\ trail' \in Seq(Vars \ Anonymous)
<1> SUFFICES ASSUME NEW m \in Nat, trail_unwind(m)
             PROVE  ref' \in [Vars -> Terms \cup {Unbound}] /\ trail' \in Seq(Vars \ Anonymous)
  OBVIOUS
<1>1. ref' \in [Vars -> Terms \cup {Unbound}]
  BY DEF TypeOK, trail_unwind
<1>2. trail' \in Seq(Vars \ Anonymous)
  BY SubSeqProperties DEF TypeOK, trail_unwind
<1>3. QED BY <1>1, <1>2

\* The head of the agenda is a pair of terms and its tail an agenda.
LEMMA AgendaParts ==
    ASSUME TypeOK, agenda # <<>>
    PROVE  /\ left \in Terms /\ right \in Terms
           /\ Tail(agenda) \in Seq(Terms \X Terms)
           /\ Running /\ Len(marks) \in Nat \ {0} /\ marks[Len(marks)] \in Nat
<1>1. Head(agenda) \in Terms \X Terms /\ Tail(agenda) \in Seq(Terms \X Terms)
  BY HeadTailProperties DEF TypeOK
<1>2. marks # <<>> /\ Running
  BY DEF TypeOK
<1>3. Len(marks) \in Nat \ {0} /\ marks[Len(marks)] \in Nat
  BY <1>2, EmptySeq DEF TypeOK
<1>4. QED BY <1>1, <1>2, <1>3 DEF left, right

\* Keeping the first marks keeps them natural numbers.
LEMMA MarksKept ==
    ASSUME TypeOK
    PROVE  \A k \in 0 .. Len(marks) :
             /\ SubSeq(marks, 1, k) \in Seq(Nat)
             /\ Len(SubSeq(marks, 1, k)) = k
             /\ \A i \in 1 .. k : SubSeq(marks, 1, k)[i] = marks[i]
<1> TAKE k \in 0 .. Len(marks)
<1>1. \A i \in 1 .. k : marks[i] \in Nat
  BY ElementOfSeq DEF TypeOK
<1>2. QED BY <1>1, SubSeqProperties DEF TypeOK

\* Every step of unification and of its callers keeps the variables' types.
THEOREM TypeStep == TypeOK /\ [Next]_vars => TypeOK'
<1> SUFFICES ASSUME TypeOK, [Next]_vars PROVE TypeOK'
  OBVIOUS
<1> USE TermAssumption DEF TypeOK
<1>1. CASE UNCHANGED vars
  BY <1>1 DEF vars, Running
<1>2. ASSUME NEW g \in Goals, Unify(g) PROVE TypeOK'
  <2>1. Append(marks, Len(trail)) \in Seq(Nat) /\ Append(marks, Len(trail)) # <<>>
    <3>1. Len(trail) \in Nat
      BY LenProperties
    <3>2. Append(marks, Len(trail)) \in Seq(Nat) /\ Len(Append(marks, Len(trail))) = Len(marks) + 1
      BY <3>1, AppendProperties
    <3>3. Len(marks) \in Nat /\ Len(<<>>) = 0
      BY LenProperties, EmptySeq
    <3>4. Len(Append(marks, Len(trail))) # Len(<<>>)
      BY <3>2, <3>3
    <3>5. QED BY <3>2, <3>4, Zenon
  <2>2. QED BY <1>2, <2>1 DEF Unify, Running
<1>3. CASE DerefLeft
  <2>1. left \in Terms /\ right \in Terms /\ Tail(agenda) \in Seq(Terms \X Terms) /\ Running
    BY <1>3, AgendaParts DEF DerefLeft
  <2>2. ref[left] \in Terms
    BY <1>3 DEF DerefLeft, IsRef
  <2>3. <<<<ref[left], right>>>> \in Seq(Terms \X Terms)
    BY <2>1, <2>2
  <2>4. agenda' \in Seq(Terms \X Terms)
    BY <1>3, <2>1, <2>3, ConcatProperties DEF DerefLeft
  <2>5. QED BY <1>3, <2>1, <2>4 DEF DerefLeft, Running
<1>4. CASE DerefRight
  <2>1. left \in Terms /\ right \in Terms /\ Tail(agenda) \in Seq(Terms \X Terms) /\ Running
    BY <1>4, AgendaParts DEF DerefRight
  <2>2. ref[right] \in Terms
    BY <1>4 DEF DerefRight, IsRef
  <2>3. <<<<left, ref[right]>>>> \in Seq(Terms \X Terms)
    BY <2>1, <2>2
  <2>4. agenda' \in Seq(Terms \X Terms)
    BY <1>4, <2>1, <2>3, ConcatProperties DEF DerefRight
  <2>5. QED BY <1>4, <2>1, <2>4 DEF DerefRight, Running
<1>5. CASE UnifySame
  BY <1>5, AgendaParts DEF UnifySame, Pair, Running
<1>6. CASE UnifyVar
  <2>1. left \in Terms /\ right \in Terms /\ Tail(agenda) \in Seq(Terms \X Terms) /\ Running
    BY <1>6, AgendaParts DEF UnifyVar, Pair
  <2>2. ref' \in [Vars -> Terms \cup {Unbound}] /\ trail' \in Seq(Vars \ Anonymous)
    BY <1>6, <2>1, BindTypes DEF UnifyVar
  <2>3. QED BY <1>6, <2>1, <2>2 DEF UnifyVar, Running
<1>7. CASE UnifyArgs
  <2>1. Tail(agenda) \in Seq(Terms \X Terms) /\ Running
    BY <1>7, AgendaParts DEF UnifyArgs, Pair
  <2> DEFINE pairs == [i \in 1 .. Len(Args[left]) |-> <<Args[left][i], Args[right][i]>>]
  <2>2. pairs \in Seq(Terms \X Terms)
    <3>1. Args[left] \in Seq(Terms) /\ Args[right] \in Seq(Terms) /\ Len(Args[left]) = Len(Args[right])
      BY <1>7 DEF UnifyArgs, BothCompound, SameFunctor
    <3>2. Len(Args[left]) \in Nat /\ \A i \in 1 .. Len(Args[left]) : pairs[i] \in Terms \X Terms
      BY <3>1, LenProperties, ElementOfSeq
    <3>3. pairs \in [1 .. Len(Args[left]) -> Terms \X Terms]
      BY <3>2
    <3>4. QED BY <3>2, <3>3, FunctionIsSeq, Zenon
  <2>3. agenda' \in Seq(Terms \X Terms)
    BY <1>7, <2>1, <2>2, ConcatProperties DEF UnifyArgs
  <2>4. QED BY <1>7, <2>1, <2>3 DEF UnifyArgs, Running
<1>8. CASE UnifyFails
  <2>1. Len(marks) \in Nat \ {0} /\ marks[Len(marks)] \in Nat
    BY <1>8, AgendaParts DEF UnifyFails, Clash, Pair
  <2>2. ref' \in [Vars -> Terms \cup {Unbound}] /\ trail' \in Seq(Vars \ Anonymous)
    BY <1>8, <2>1, UnwindTypes DEF UnifyFails
  <2>3. marks' \in Seq(Nat)
    <3>1. Len(marks) - 1 \in 0 .. Len(marks)
      BY <2>1
    <3>2. SubSeq(marks, 1, Len(marks) - 1) \in Seq(Nat)
      BY <3>1, MarksKept, Zenon
    <3>3. QED BY <1>8, <3>2 DEF UnifyFails
  <2>4. QED BY <1>8, <2>2, <2>3 DEF UnifyFails, Running
<1>9. CASE UnifySucceeds
  <2>1. Len(marks) \in Nat \ {0}
    BY <1>9, EmptySeq DEF UnifySucceeds
  <2>2. marks' \in Seq(Nat)
    <3>1. Len(marks) - 1 \in 0 .. Len(marks)
      BY <2>1
    <3>2. SubSeq(marks, 1, Len(marks) - 1) \in Seq(Nat)
      BY <3>1, MarksKept, Zenon
    <3>3. QED BY <1>9, <3>2 DEF UnifySucceeds
  <2>3. QED BY <1>9, <2>2 DEF UnifySucceeds, Running
<1>10. CASE TryAlternative
  <2>1. Append(marks, Len(trail)) \in Seq(Nat)
    <3>1. Len(trail) \in Nat
      BY LenProperties
    <3>2. Append(marks, Len(trail)) \in Seq(Nat) /\ Len(Append(marks, Len(trail))) = Len(marks) + 1
      BY <3>1, AppendProperties
    <3>3. Len(marks) \in Nat /\ Len(<<>>) = 0
      BY LenProperties, EmptySeq
    <3>4. Len(Append(marks, Len(trail))) # Len(<<>>)
      BY <3>2, <3>3
    <3>5. QED BY <3>2, <3>4, Zenon
  <2>2. QED BY <1>10, <2>1 DEF TryAlternative, Running
<1>11. ASSUME NEW k \in DOMAIN marks, Backtrack(k) \/ LastAlternative(k) \/ Commit(k)
       PROVE  TypeOK'
  <2>1. k \in 1 .. Len(marks) /\ marks[k] \in Nat
    BY LenProperties, ElementOfSeq
  <2>2. marks' \in Seq(Nat)
    <3>1. k \in 0 .. Len(marks) /\ k - 1 \in 0 .. Len(marks)
      BY <2>1, LenProperties
    <3>2. SubSeq(marks, 1, k) \in Seq(Nat) /\ SubSeq(marks, 1, k - 1) \in Seq(Nat)
      BY <3>1, MarksKept, Zenon
    <3>3. QED BY <1>11, <3>2 DEF Backtrack, LastAlternative, Commit
  <2>3. ref' \in [Vars -> Terms \cup {Unbound}] /\ trail' \in Seq(Vars \ Anonymous)
    BY <1>11, <2>1, UnwindTypes DEF Backtrack, LastAlternative, Commit
  <2>4. QED BY <1>11, <2>2, <2>3 DEF Backtrack, LastAlternative, Commit, Running
<1>12. QED
  BY <1>1, <1>2, <1>3, <1>4, <1>5, <1>6, <1>7, <1>8, <1>9, <1>10, <1>11 DEF Next

-----------------------------------------------------------------------------
(* The trail and the marks                                                 *)

\* What the trail holds, as facts about one state.
LEMMA TrailFacts ==
    ASSUME TypeOK
    PROVE  /\ Len(trail) \in Nat /\ DOMAIN trail = 1 .. Len(trail)
           /\ \A i \in 1 .. Len(trail) : trail[i] \in Vars /\ trail[i] \notin Anonymous
           /\ Len(marks) \in Nat /\ DOMAIN marks = 1 .. Len(marks)
           /\ \A k \in 1 .. Len(marks) : marks[k] \in Nat
<1>1. Len(trail) \in Nat /\ DOMAIN trail = 1 .. Len(trail) /\ Len(marks) \in Nat /\ DOMAIN marks = 1 .. Len(marks)
  BY LenProperties DEF TypeOK
<1>2. \A i \in 1 .. Len(trail) : trail[i] \in Vars \ Anonymous
  BY ElementOfSeq DEF TypeOK
<1>3. \A k \in 1 .. Len(marks) : marks[k] \in Nat
  BY ElementOfSeq DEF TypeOK
<1>4. QED BY <1>1, <1>2, <1>3

\* A trail after a push.
LEMMA PushFacts ==
    ASSUME TypeOK, NEW var \in Vars \ Anonymous, trail' = Append(trail, var)
    PROVE  /\ Len(trail') = Len(trail) + 1
           /\ DOMAIN trail' = 1 .. Len(trail) + 1
           /\ \A i \in 1 .. Len(trail) : trail'[i] = trail[i]
           /\ trail'[Len(trail) + 1] = var
BY AppendProperties, LenProperties DEF TypeOK

\* A trail after an unwinding.
LEMMA UnwoundTrail ==
    ASSUME TypeOK
    PROVE  \A m \in Nat : m <= Len(trail) /\ trail_unwind(m) =>
             /\ Len(trail') = m /\ DOMAIN trail' = 1 .. m
             /\ \A i \in 1 .. m : trail'[i] = trail[i]
<1> TAKE m \in Nat
<1> HAVE m <= Len(trail) /\ trail_unwind(m)
<1>1. CASE m < Len(trail)
  <2>1. \A i \in 1 .. m : trail[i] \in Vars
    BY TrailFacts, <1>1
  <2>2. /\ SubSeq(trail, 1, m) \in Seq(Vars)
        /\ Len(SubSeq(trail, 1, m)) = m
        /\ \A i \in 1 .. m : SubSeq(trail, 1, m)[i] = trail[i]
    BY <2>1, SubSeqProperties
  <2>3. DOMAIN SubSeq(trail, 1, m) = 1 .. m
    BY <2>2, LenProperties
  <2>4. QED BY <1>1, <2>2, <2>3 DEF trail_unwind
<1>2. CASE m = Len(trail)
  BY <1>2, TrailFacts DEF trail_unwind
<1>3. Len(trail) \in Nat
  BY TrailFacts
<1>4. m < Len(trail) \/ m = Len(trail)
  BY <1>3
<1>5. QED BY <1>1, <1>2, <1>4

\* Binding an unbound variable keeps the trail a record of the bindings.
LEMMA BindRecords ==
    ASSUME TypeOK, TrailRecordsBindings, NEW var \in Vars, NEW val \in Terms,
           ref[var] = Unbound, bind(var, val)
    PROVE  TrailRecordsBindings' /\ Len(trail) <= Len(trail')
<1>1. CASE var \in Anonymous
  <2>1. trail' = trail /\ \A v \in Vars \ Anonymous : ref'[v] = ref[v]
    BY <1>1 DEF bind, TypeOK
  <2>2. QED BY <2>1, TrailFacts DEF TrailRecordsBindings
<1>2. CASE var \notin Anonymous
  <2>1. /\ Len(trail') = Len(trail) + 1 /\ DOMAIN trail' = 1 .. Len(trail) + 1
        /\ \A i \in 1 .. Len(trail) : trail'[i] = trail[i]
        /\ trail'[Len(trail) + 1] = var
    BY <1>2, PushFacts DEF bind
  <2>2. Len(trail) \in Nat /\ DOMAIN trail = 1 .. Len(trail)
    BY TrailFacts
  <2>3. \A i \in 1 .. Len(trail) : trail[i] # var
    BY <1>2, <2>2 DEF TrailRecordsBindings
  <2>4. ref'[var] # Unbound /\ \A v \in Vars : v # var => ref'[v] = ref[v]
    BY TermAssumption DEF bind, TypeOK
  <2>5. \A i, j \in DOMAIN trail' : trail'[i] = trail'[j] => i = j
    BY <2>1, <2>2, <2>3 DEF TrailRecordsBindings
  <2>6. ASSUME NEW v \in Vars \ Anonymous
        PROVE  ref'[v] # Unbound <=> \E i \in DOMAIN trail' : trail'[i] = v
    <3>1. CASE v = var
      BY <3>1, <2>1, <2>2, <2>4
    <3>2. CASE v # var
      <4>1. (\E i \in DOMAIN trail' : trail'[i] = v) <=> (\E i \in DOMAIN trail : trail[i] = v)
        BY <3>2, <2>1, <2>2
      <4>2. QED BY <3>2, <4>1, <2>4 DEF TrailRecordsBindings
    <3>3. QED BY <3>1, <3>2
  <2>7. QED BY <2>1, <2>2, <2>5, <2>6 DEF TrailRecordsBindings
<1>3. QED BY <1>1, <1>2

\* So does unwinding to a mark that is not above the trail.
LEMMA UnwindRecords ==
    ASSUME TypeOK, TrailRecordsBindings
    PROVE  \A m \in Nat : m <= Len(trail) /\ trail_unwind(m) => TrailRecordsBindings'
<1> TAKE m \in Nat
<1> HAVE m <= Len(trail) /\ trail_unwind(m)
<1>1. DOMAIN trail' = 1 .. m /\ \A i \in 1 .. m : trail'[i] = trail[i]
  BY UnwoundTrail
<1>2. Len(trail) \in Nat /\ DOMAIN trail = 1 .. Len(trail)
  BY TrailFacts
<1>3. \A i, j \in DOMAIN trail' : trail'[i] = trail'[j] => i = j
  BY <1>1, <1>2 DEF TrailRecordsBindings
<1>4. ASSUME NEW v \in Vars \ Anonymous
      PROVE  ref'[v] # Unbound <=> \E i \in DOMAIN trail' : trail'[i] = v
  <2>1. ref'[v] = IF v \in Above(m) THEN Unbound ELSE ref[v]
    BY DEF trail_unwind
  <2>2. ref[v] # Unbound <=> \E i \in 1 .. Len(trail) : trail[i] = v
    BY <1>2 DEF TrailRecordsBindings
  <2>3. v \in Above(m) <=> \E i \in m + 1 .. Len(trail) : trail[i] = v
    BY DEF Above
  <2>4. CASE v \in Above(m)
    <3>1. PICK i \in m + 1 .. Len(trail) : trail[i] = v
      BY <2>3, <2>4
    <3>2. \A j \in 1 .. m : trail[j] # v
      BY <3>1, <1>2 DEF TrailRecordsBindings
    <3>3. QED BY <2>1, <2>4, <3>2, <1>1
  <2>5. CASE v \notin Above(m)
    <3>1. (\E i \in 1 .. Len(trail) : trail[i] = v) <=> (\E i \in 1 .. m : trail[i] = v)
      BY <2>5, <2>3, <1>2
    <3>2. QED BY <2>1, <2>2, <2>5, <3>1, <1>1
  <2>6. QED BY <2>4, <2>5
<1>5. QED BY <1>3, <1>4 DEF TrailRecordsBindings

\* Noting a mark keeps the marks nested.
LEMMA MarkNoted ==
    ASSUME TypeOK, MarksNested, marks' = Append(marks, Len(trail)), trail' = trail
    PROVE  MarksNested'
<1>1. /\ Len(marks) \in Nat /\ DOMAIN marks = 1 .. Len(marks) /\ Len(trail) \in Nat
      /\ \A k \in 1 .. Len(marks) : marks[k] \in Nat
  BY TrailFacts
<1>2. /\ DOMAIN marks' = 1 .. Len(marks) + 1
      /\ \A k \in 1 .. Len(marks) : marks'[k] = marks[k]
      /\ marks'[Len(marks) + 1] = Len(trail)
  BY <1>1, AppendProperties, LenProperties DEF TypeOK
<1>3. QED BY <1>1, <1>2 DEF MarksNested

\* So does giving up the marks after one that is kept.
LEMMA MarksGivenUp ==
    ASSUME TypeOK, MarksNested
    PROVE  \A k \in 0 .. Len(marks) :
             marks' = SubSeq(marks, 1, k) /\ (\A i \in 1 .. k : marks[i] <= Len(trail')) => MarksNested'
<1> TAKE k \in 0 .. Len(marks)
<1> HAVE marks' = SubSeq(marks, 1, k) /\ \A i \in 1 .. k : marks[i] <= Len(trail')
<1>1. Len(marks) \in Nat /\ DOMAIN marks = 1 .. Len(marks)
  BY TrailFacts
<1>2. DOMAIN marks' = 1 .. k /\ \A i \in 1 .. k : marks'[i] = marks[i]
  BY MarksKept, LenProperties
<1>3. \A i \in 1 .. k : marks'[i] <= Len(trail')
  BY <1>2
<1>4. QED BY <1>1, <1>2, <1>3 DEF MarksNested

\* The variable that a pair binds is unbound, and its value a term.
LEMMA VarToBind ==
    ASSUME TypeOK, UnifyVar
    PROVE  \E var \in Vars, val \in Terms : ref[var] = Unbound /\ bind(var, val)
<1>1. left \in Terms /\ right \in Terms
  BY AgendaParts DEF UnifyVar, Pair
<1>2. CASE left \in Vars /\ bind(left, right)
  BY <1>1, <1>2 DEF UnifyVar, Pair, IsRef
<1>3. CASE right \in Vars /\ bind(right, left)
  BY <1>1, <1>3 DEF UnifyVar, Pair, IsRef
<1>4. QED BY <1>2, <1>3 DEF UnifyVar

\* Every step keeps the trail a record of the bindings and the marks nested in it.
THEOREM RecordsStep == TypeOK /\ TrailRecordsBindings /\ MarksNested /\ [Next]_vars => TrailRecordsBindings' /\ MarksNested'
<1> SUFFICES ASSUME TypeOK, TrailRecordsBindings, MarksNested, [Next]_vars
             PROVE  TrailRecordsBindings' /\ MarksNested'
  OBVIOUS
<1>1. /\ Len(trail) \in Nat /\ Len(marks) \in Nat /\ DOMAIN marks = 1 .. Len(marks)
      /\ \A k \in 1 .. Len(marks) : marks[k] \in Nat /\ marks[k] <= Len(trail)
      /\ \A j, k \in 1 .. Len(marks) : j <= k => marks[j] <= marks[k]
  BY TrailFacts DEF MarksNested
<1>2. CASE UNCHANGED <<ref, trail, marks>>
  BY <1>2 DEF TrailRecordsBindings, MarksNested
<1>3. CASE UNCHANGED <<ref, trail>> /\ marks' = Append(marks, Len(trail))
  BY <1>3, MarkNoted DEF TrailRecordsBindings
<1>4. ASSUME NEW k \in 0 .. Len(marks), UNCHANGED <<ref, trail>>, marks' = SubSeq(marks, 1, k)
      PROVE  TrailRecordsBindings' /\ MarksNested'
  <2>1. \A i \in 1 .. k : marks[i] <= Len(trail')
    BY <1>1, <1>4
  <2>2. MarksNested'
    BY <1>4, <2>1, MarksGivenUp
  <2>3. QED BY <1>4, <2>2 DEF TrailRecordsBindings
<1>5. ASSUME NEW j \in 1 .. Len(marks), NEW k \in 0 .. j, trail_unwind(marks[j]), marks' = SubSeq(marks, 1, k)
      PROVE  TrailRecordsBindings' /\ MarksNested'
  <2>1. PICK m \in Nat : m = marks[j] /\ m <= Len(trail)
    BY <1>1
  <2>2. Len(trail') = m
    BY <1>5, <2>1, UnwoundTrail
  <2>3. k \in 0 .. Len(marks) /\ \A i \in 1 .. k : marks[i] <= Len(trail')
    BY <1>1, <2>1, <2>2
  <2>4. MarksNested'
    BY <1>5, <2>3, MarksGivenUp
  <2>5. QED BY <1>5, <2>1, <2>4, UnwindRecords
<1>6. CASE UnifyVar
  <2>1. TrailRecordsBindings' /\ Len(trail) <= Len(trail')
    BY <1>6, VarToBind, BindRecords
  <2>2. Len(trail') \in Nat
    <3>1. TypeOK'
      BY TypeStep
    <3>2. QED BY <3>1, LenProperties DEF TypeOK
  <2>3. marks' = marks
    BY <1>6 DEF UnifyVar
  <2>4. QED BY <2>1, <2>2, <2>3, <1>1 DEF MarksNested
<1>7. CASE UnifyFails
  <2>1. Len(marks) \in 1 .. Len(marks) /\ Len(marks) - 1 \in 0 .. Len(marks)
    BY <1>1, <1>7, AgendaParts DEF UnifyFails, Clash, Pair
  <2>2. QED BY <2>1, <1>5, <1>7 DEF UnifyFails
<1>8. CASE UnifySucceeds
  <2>1. Len(marks) - 1 \in 0 .. Len(marks)
    BY <1>8, EmptySeq DEF UnifySucceeds, TypeOK
  <2>2. QED BY <2>1, <1>2, <1>4, <1>8 DEF UnifySucceeds
<1>9. ASSUME NEW k \in DOMAIN marks, Backtrack(k) \/ LastAlternative(k) \/ Commit(k)
      PROVE  TrailRecordsBindings' /\ MarksNested'
  <2>1. k \in 1 .. Len(marks) /\ k \in 0 .. k /\ k - 1 \in 0 .. k /\ k - 1 \in 0 .. Len(marks)
    BY <1>1
  <2>2. QED BY <2>1, <1>4, <1>5, <1>9 DEF Backtrack, LastAlternative, Commit
<1>10. QED
  BY <1>2, <1>3, <1>6, <1>7, <1>8, <1>9
  DEF Next, vars, Unify, DerefLeft, DerefRight, UnifySame, UnifyArgs, TryAlternative

\* Along every run the trail records the bindings of the named variables, each
\* once, and the marks held are nested and within the trail.
THEOREM TrailInvariant == Spec => []TrailInv
<1>1. Init => TrailInv
  BY EmptySeq, TermAssumption DEF Init, TrailInv, TypeOK, TrailRecordsBindings, MarksNested, Running
<1>2. TrailInv /\ [Next]_vars => TrailInv'
  BY TypeStep, RecordsStep DEF TrailInv
<1>3. QED BY <1>1, <1>2, PTL DEF Spec

\* trail_push in bind and the pops of trail_unwind keep the trail an exact record:
\* a named variable is bound exactly while it is on the trail, where it is once,
\* and no mark a caller still holds points above it or below an older one.
THEOREM TrailIsExact == Spec => [](TrailRecordsBindings /\ MarksNested)
<1>1. TrailInv => TrailRecordsBindings /\ MarksNested
  BY DEF TrailInv
<1>2. QED BY <1>1, TrailInvariant, PTL

\* Bindings lead to terms, only named variables are on the trail, and a unification that is under
\* way has its mark, whatever the goals.
THEOREM TrailTypes == Spec => []TypeOK
<1>1. TrailInv => TypeOK
  BY DEF TrailInv
<1>2. QED BY <1>1, TrailInvariant, PTL

\* No mark a caller still holds points above the trail, or below an older mark: trail_unwind
\* never has to restore what is gone already.
THEOREM MarksAlwaysNested == Spec => []MarksNested
<1>1. TrailInv => MarksNested
  BY DEF TrailInv
<1>2. QED BY <1>1, TrailInvariant, PTL

-----------------------------------------------------------------------------
(* The refinement                                                          *)

\* Undone, with the bindings and the trail it looks at as parameters, and the
\* store and the saves that the trail stands for.
UndoneIn(r, t, m) ==
    [v \in Named |-> IF v \in {t[i] : i \in m + 1 .. Len(t)} THEN Unbound ELSE r[v]]
StoreBar == [v \in Named |-> ref[v]]
SavesBar == [k \in DOMAIN marks |-> UndoneIn(ref, trail, marks[k])]
Snapshots == [Named -> Terms \cup {Unbound}]

\* They are what the instance of PlStore is given.
LEMMA BarDefinitions ==
    /\ StoreBar = [v \in Named |-> ref[v]]
    /\ SavesBar = [k \in DOMAIN marks |-> Undone(marks[k])]
    /\ StoreBar' = [v \in Named |-> ref[v]]'
    /\ SavesBar' = [k \in DOMAIN marks |-> Undone(marks[k])]'
BY DEF StoreBar, SavesBar, UndoneIn, Undone, Above

\* There is a saved store for each mark.
LEMMA SavesType ==
    ASSUME TypeOK
    PROVE  SavesBar \in Seq(Snapshots) /\ Len(SavesBar) = Len(marks) /\ DOMAIN SavesBar = 1 .. Len(marks)
<1>1. Len(marks) \in Nat /\ DOMAIN marks = 1 .. Len(marks)
  BY TrailFacts
<1>2. \A m : UndoneIn(ref, trail, m) \in Snapshots
  BY DEF UndoneIn, Snapshots, TypeOK, Named
<1>3. SavesBar \in [1 .. Len(marks) -> Snapshots]
  BY <1>1, <1>2 DEF SavesBar
<1>4. SavesBar \in Seq(Snapshots)
  BY <1>1, <1>3, FunctionIsSeq, Zenon
<1>5. QED BY <1>1, <1>3, <1>4, LenProperties

\* What a mark would undo to is not changed by binding an unbound variable.
LEMMA BindKeepsUndone ==
    ASSUME TypeOK, TrailRecordsBindings, NEW var \in Named, NEW val \in Terms,
           ref[var] = Unbound, bind(var, val)
    PROVE  \A m \in 0 .. Len(trail) : UndoneIn(ref', trail', m) = UndoneIn(ref, trail, m)
<1> TAKE m \in 0 .. Len(trail)
<1>1. /\ Len(trail') = Len(trail) + 1
      /\ \A i \in 1 .. Len(trail) : trail'[i] = trail[i]
      /\ trail'[Len(trail) + 1] = var
  BY PushFacts DEF bind, Named
<1>2. Len(trail) \in Nat /\ DOMAIN trail = 1 .. Len(trail)
  BY TrailFacts
<1>3. {trail'[i] : i \in m + 1 .. Len(trail')} = {trail[i] : i \in m + 1 .. Len(trail)} \cup {var}
  BY <1>1, <1>2
<1>4. \A v \in Named : v # var => ref'[v] = ref[v]
  BY DEF bind, TypeOK, Named
<1>5. QED BY <1>3, <1>4 DEF UndoneIn

\* Unwinding to a mark gives what the mark undoes to, and keeps what older marks undo to.
LEMMA UnwindIsUndone ==
    ASSUME TypeOK
    PROVE  \A m \in Nat : m <= Len(trail) /\ trail_unwind(m) =>
             /\ [v \in Named |-> ref'[v]] = UndoneIn(ref, trail, m)
             /\ \A n \in 0 .. m : UndoneIn(ref', trail', n) = UndoneIn(ref, trail, n)
<1> TAKE m \in Nat
<1> HAVE m <= Len(trail) /\ trail_unwind(m)
<1>1. \A v \in Named : ref'[v] = IF v \in {trail[i] : i \in m + 1 .. Len(trail)} THEN Unbound ELSE ref[v]
  BY DEF trail_unwind, Above, Named
<1>2. Len(trail') = m /\ \A i \in 1 .. m : trail'[i] = trail[i]
  BY UnwoundTrail
<1>3. ASSUME NEW n \in 0 .. m PROVE UndoneIn(ref', trail', n) = UndoneIn(ref, trail, n)
  <2>1. {trail[i] : i \in n + 1 .. Len(trail)}
          = {trail'[i] : i \in n + 1 .. Len(trail')} \cup {trail[i] : i \in m + 1 .. Len(trail)}
    BY <1>2, TrailFacts
  <2>2. QED BY <1>1, <2>1 DEF UndoneIn
<1>4. QED BY <1>1, <1>3 DEF UndoneIn

\* Marks given up are saves given up.
LEMMA SavesGivenUp ==
    ASSUME TypeOK
    PROVE  \A k \in 0 .. Len(marks) :
             /\ marks' = SubSeq(marks, 1, k)
             /\ \A i \in 1 .. k : UndoneIn(ref', trail', marks[i]) = UndoneIn(ref, trail, marks[i])
             => SavesBar' = SubSeq(SavesBar, 1, k)
<1> TAKE k \in 0 .. Len(marks)
<1> HAVE /\ marks' = SubSeq(marks, 1, k)
         /\ \A i \in 1 .. k : UndoneIn(ref', trail', marks[i]) = UndoneIn(ref, trail, marks[i])
<1>1. DOMAIN marks' = 1 .. k /\ \A i \in 1 .. k : marks'[i] = marks[i]
  BY MarksKept, LenProperties
<1>2. Len(marks) \in Nat /\ DOMAIN marks = 1 .. Len(marks)
  BY TrailFacts
<1>3. SavesBar' = [i \in 1 .. k |-> UndoneIn(ref, trail, marks[i])]
  BY <1>1 DEF SavesBar
<1>4. \A i \in 1 .. k : SavesBar[i] \in Snapshots /\ SavesBar[i] = UndoneIn(ref, trail, marks[i])
  BY <1>2, SavesType, ElementOfSeq DEF SavesBar
<1>5. /\ SubSeq(SavesBar, 1, k) \in Seq(Snapshots)
      /\ Len(SubSeq(SavesBar, 1, k)) = k
      /\ \A i \in 1 .. k : SubSeq(SavesBar, 1, k)[i] = SavesBar[i]
  BY <1>4, SubSeqProperties
<1>6. SubSeq(SavesBar, 1, k) \in [1 .. k -> Snapshots]
  BY <1>5, LenProperties
<1>7. QED BY <1>3, <1>4, <1>5, <1>6

\* Noting a mark saves the store.
LEMMA SaveNoted ==
    ASSUME TypeOK, UNCHANGED <<ref, trail>>, marks' = Append(marks, Len(trail))
    PROVE  SavesBar' = Append(SavesBar, StoreBar)
<1>1. Len(marks) \in Nat /\ DOMAIN marks = 1 .. Len(marks) /\ Len(trail) \in Nat
  BY TrailFacts
<1>2. /\ DOMAIN marks' = 1 .. Len(marks) + 1
      /\ \A k \in 1 .. Len(marks) : marks'[k] = marks[k]
      /\ marks'[Len(marks) + 1] = Len(trail)
  BY <1>1, AppendProperties, LenProperties DEF TypeOK
<1>3. UndoneIn(ref, trail, Len(trail)) = StoreBar
  BY <1>1 DEF UndoneIn, StoreBar
<1>4. StoreBar \in Snapshots
  BY DEF StoreBar, Snapshots, TypeOK, Named
<1>5. /\ Append(SavesBar, StoreBar) \in Seq(Snapshots)
      /\ Len(Append(SavesBar, StoreBar)) = Len(marks) + 1
      /\ \A k \in 1 .. Len(marks) : Append(SavesBar, StoreBar)[k] = SavesBar[k]
      /\ Append(SavesBar, StoreBar)[Len(marks) + 1] = StoreBar
  BY <1>4, SavesType, AppendProperties
<1>6. SavesBar' = [k \in 1 .. Len(marks) + 1 |-> UndoneIn(ref, trail, marks'[k])]
  BY <1>2 DEF SavesBar
<1>7. Append(SavesBar, StoreBar) \in [1 .. Len(marks) + 1 -> Snapshots]
  BY <1>5, LenProperties
<1>8. \A k \in 1 .. Len(marks) + 1 : UndoneIn(ref, trail, marks'[k]) = Append(SavesBar, StoreBar)[k]
  BY <1>1, <1>2, <1>3, <1>5 DEF SavesBar
<1>9. QED BY <1>6, <1>7, <1>8

\* Every step is a step of the abstract store or leaves it as it is.
THEOREM StoreStep == TrailInv /\ [Next]_vars => [Store!Next]_<<StoreBar, SavesBar>>
<1> SUFFICES ASSUME TrailInv, [Next]_vars
             PROVE  Store!Next \/ UNCHANGED <<StoreBar, SavesBar>>
  OBVIOUS
<1> USE DEF TrailInv
<1> DEFINE Kept(k) == SubSeq(SavesBar, 1, k)
<1>1. /\ Len(trail) \in Nat /\ Len(marks) \in Nat /\ DOMAIN marks = 1 .. Len(marks)
      /\ \A k \in 1 .. Len(marks) : marks[k] \in Nat /\ marks[k] <= Len(trail)
      /\ \A j, k \in 1 .. Len(marks) : j <= k => marks[j] <= marks[k]
      /\ DOMAIN SavesBar = 1 .. Len(marks)
  BY TrailFacts, SavesType DEF MarksNested
<1>2. ASSUME UNCHANGED <<ref, trail, marks>>
      PROVE  UNCHANGED <<StoreBar, SavesBar>>
  BY <1>2 DEF StoreBar, SavesBar
<1>3. ASSUME UNCHANGED <<ref, trail>>, marks' = Append(marks, Len(trail))
      PROVE  Store!Next
  BY <1>3, SaveNoted, BarDefinitions DEF Store!Next, Store!Save, StoreBar
<1>4. ASSUME NEW k \in 1 .. Len(marks), UNCHANGED <<ref, trail>>, marks' = SubSeq(marks, 1, k - 1)
      PROVE  Store!Next
  <2>1. k - 1 \in 0 .. Len(marks)
    BY <1>1
  <2>2. SavesBar' = Kept(k - 1)
    BY <1>4, <2>1, SavesGivenUp
  <2>3. StoreBar' = StoreBar
    BY <1>4 DEF StoreBar
  <2>4. Store!Forget(k)
    BY <2>2, <2>3, BarDefinitions DEF Store!Forget
  <2>5. k \in DOMAIN SavesBar
    BY <1>1
  <2>6. QED BY <2>4, <2>5, BarDefinitions DEF Store!Next
<1>5. ASSUME NEW k \in 1 .. Len(marks), trail_unwind(marks[k]),
             marks' = SubSeq(marks, 1, k) \/ marks' = SubSeq(marks, 1, k - 1)
      PROVE  Store!Next
  <2>1. PICK m \in Nat : m = marks[k] /\ m <= Len(trail)
    BY <1>1
  <2>2. /\ StoreBar' = UndoneIn(ref, trail, m)
        /\ \A n \in 0 .. m : UndoneIn(ref', trail', n) = UndoneIn(ref, trail, n)
    BY <1>5, <2>1, UnwindIsUndone DEF StoreBar
  <2>3. \A i \in 1 .. k : UndoneIn(ref', trail', marks[i]) = UndoneIn(ref, trail, marks[i])
    BY <1>1, <2>1, <2>2
  <2>4. k - 1 \in 0 .. Len(marks) /\ k \in 0 .. Len(marks) /\ k \in DOMAIN SavesBar
    BY <1>1
  <2>5. StoreBar' = SavesBar[k]
    BY <1>1, <2>1, <2>2 DEF SavesBar
  <2>6. CASE marks' = SubSeq(marks, 1, k)
    <3>1. SavesBar' = Kept(k)
      BY <2>3, <2>4, <2>6, SavesGivenUp
    <3>2. Store!RestoreTo(k)
      BY <2>5, <3>1, BarDefinitions DEF Store!RestoreTo
    <3>3. QED BY <2>4, <3>2, BarDefinitions DEF Store!Next
  <2>7. CASE marks' = SubSeq(marks, 1, k - 1)
    <3>1. SavesBar' = Kept(k - 1)
      <4>1. \A i \in 1 .. k - 1 : UndoneIn(ref', trail', marks[i]) = UndoneIn(ref, trail, marks[i])
        BY <2>3
      <4>2. QED BY <2>4, <2>7, <4>1, SavesGivenUp
    <3>2. Store!RestoreLast(k)
      BY <2>5, <3>1, BarDefinitions DEF Store!RestoreLast
    <3>3. QED BY <2>4, <3>2, BarDefinitions DEF Store!Next
  <2>8. QED BY <1>5, <2>6, <2>7
<1>6. CASE UnifyVar
  <2>1. PICK var \in Vars, val \in Terms : ref[var] = Unbound /\ bind(var, val)
    BY <1>6, VarToBind
  <2>2. marks' = marks
    BY <1>6 DEF UnifyVar
  <2>3. CASE var \in Anonymous
    <3>1. trail' = trail /\ \A v \in Named : ref'[v] = ref[v]
      BY <2>1, <2>3 DEF bind, TypeOK, Named
    <3>2. QED BY <2>2, <3>1 DEF StoreBar, SavesBar, UndoneIn
  <2>4. CASE var \in Named
    <3>1. \A m \in 0 .. Len(trail) : UndoneIn(ref', trail', m) = UndoneIn(ref, trail, m)
      BY <2>1, <2>4, BindKeepsUndone
    <3>2. SavesBar' = SavesBar
      BY <1>1, <2>2, <3>1 DEF SavesBar
    <3>3. StoreBar' = [StoreBar EXCEPT ![var] = val]
      BY <2>1, <2>4 DEF bind, StoreBar, TypeOK, Named
    <3>4. StoreBar[var] = Unbound
      BY <2>1, <2>4 DEF StoreBar
    <3>5. Store!Bind(var, val)
      BY <3>2, <3>3, <3>4, BarDefinitions DEF Store!Bind
    <3>6. QED BY <2>1, <2>4, <3>5 DEF Store!Next
  <2>5. QED BY <2>3, <2>4 DEF Named
<1>7. CASE UnifyFails
  <2>1. Len(marks) \in 1 .. Len(marks)
    BY <1>1, <1>7, AgendaParts DEF UnifyFails, Clash, Pair
  <2>2. QED BY <2>1, <1>5, <1>7 DEF UnifyFails
<1>8. CASE UnifySucceeds
  <2>1. Len(marks) \in 1 .. Len(marks)
    BY <1>1, <1>8, EmptySeq DEF UnifySucceeds, TypeOK
  <2>2. QED BY <2>1, <1>2, <1>4, <1>8 DEF UnifySucceeds
<1>9. ASSUME NEW k \in DOMAIN marks, Backtrack(k) \/ LastAlternative(k) \/ Commit(k)
      PROVE  Store!Next
  BY <1>1, <1>4, <1>5, <1>9 DEF Backtrack, LastAlternative, Commit
<1>10. QED
  BY <1>2, <1>3, <1>6, <1>7, <1>8, <1>9
  DEF Next, vars, Unify, DerefLeft, DerefRight, UnifySame, UnifyArgs, TryAlternative

\* Whatever terms and goals a program has and however its unifications end, going
\* back to a choice point gives each named variable the value it had there.
THEOREM BacktrackingIsExact == Spec => BacktrackingRestores
<1>1. Init => Store!Init
  <2>1. ASSUME Init PROVE [v \in Named |-> ref[v]] = [v \in Named |-> Unbound]
    BY <2>1 DEF Init, Named
  <2>2. ASSUME Init PROVE [k \in DOMAIN marks |-> Undone(marks[k])] = <<>>
    <3>1. marks = <<>> /\ DOMAIN <<>> = 1 .. 0
      BY <2>2 DEF Init
    <3>2. SavesBar \in [1 .. 0 -> Snapshots]
      BY <3>1 DEF SavesBar
    <3>3. <<>> \in [1 .. 0 -> Snapshots]
      BY EmptySeq, LenProperties
    <3>4. QED BY <3>2, <3>3, BarDefinitions
  <2>3. QED BY <2>1, <2>2 DEF Store!Init
<1>2. TrailInv /\ [Next]_vars => [Store!Next]_<<[v \in Named |-> ref[v]], [k \in DOMAIN marks |-> Undone(marks[k])]>>
  BY StoreStep, BarDefinitions
<1>3. QED BY <1>1, <1>2, TrailInvariant, PTL DEF Spec, BacktrackingRestores, Store!Spec

-----------------------------------------------------------------------------
(***************************************************************************)
(* What unification computes, for every program's terms and goals: its     *)
(* bindings never form a ring, say neither more nor less than the pairs it *)
(* was given, and it fails only when no substitution makes them equal.     *)
(*                                                                         *)
(* A substitution, by finite or infinite terms, is known here by what it   *)
(* makes equal: class[t] is whatever stands for the value of t under it.   *)
(***************************************************************************)

Shape(s, t) == Functor[s] = Functor[t] /\ Len(Args[s]) = Len(Args[t])
ArgsEqual(class, s, t) == \A i \in 1 .. Len(Args[s]) : class[Args[s][i]] = class[Args[t][i]]

\* What it is to make terms equal: an atom equals itself only, a compound only compounds of its
\* functor, and those exactly when their arguments are equal.
Substitution(class) ==
    /\ \A s, t \in Atoms \cup Compounds :
          class[s] = class[t] => s = t \/ (s \in Compounds /\ t \in Compounds /\ Shape(s, t))
    /\ \A s, t \in Compounds :
          Shape(s, t) => (class[s] = class[t] <=> ArgsEqual(class, s, t))

\* It makes each bound variable equal to what the variable refers to, and each pair equal.
Satisfies(class, store) == \A v \in Vars : store[v] # Unbound => class[v] = class[store[v]]
Unifies(class, pairs) == \A i \in 1 .. Len(pairs) : class[pairs[i][1]] = class[pairs[i][2]]

\* While a unification runs, what it has bound and what it has still to unify have the
\* solutions of what it was given: the bindings it found and its goal.
SolutionsKept ==
    Running => \A class : Substitution(class) =>
        (Satisfies(class, Before) /\ Unifies(class, goal) <=>
         Satisfies(class, ref) /\ Unifies(class, agenda))

-----------------------------------------------------------------------------
(* Rings                                                                   *)

\* Binding an unbound variable to another term closes no ring.
LEMMA BindMakesNoRing ==
    ASSUME TypeOK, NoRefRing, NEW var \in Vars, NEW val \in Terms,
           ref[var] = Unbound, val \in Vars => ref[val] = Unbound, val # var, bind(var, val)
    PROVE  NoRefRing'
<1> SUFFICES ASSUME NEW S \in SUBSET Vars, S # {}
             PROVE  \E v \in S : ref'[v] \notin S
  BY DEF NoRefRing
<1>1. ref'[var] = val /\ \A v \in Vars : v # var => ref'[v] = ref[v]
  BY DEF bind, TypeOK
<1>2. Unbound \notin S
  BY TermAssumption DEF Terms
<1>3. CASE var \notin S
  BY <1>1, <1>3 DEF NoRefRing
<1>4. CASE var \in S /\ val \notin S
  BY <1>1, <1>4
<1>5. CASE val \in S
  BY <1>1, <1>2, <1>5
<1>6. QED BY <1>3, <1>4, <1>5

LEMMA UnwindMakesNoRing ==
    ASSUME NoRefRing, NEW m, trail_unwind(m)
    PROVE  NoRefRing'
<1> SUFFICES ASSUME NEW S \in SUBSET Vars, S # {}
             PROVE  \E v \in S : ref'[v] \notin S
  BY DEF NoRefRing
<1>1. PICK v \in S : ref[v] \notin S
  BY DEF NoRefRing
<1>2. ref'[v] = ref[v] \/ ref'[v] = Unbound
  BY DEF trail_unwind
<1>3. Unbound \notin S
  BY TermAssumption DEF Terms
<1>4. QED BY <1>1, <1>2, <1>3

\* The variable a pair binds, and the term it is bound to, are dereferenced and differ.
LEMMA PairToBind ==
    ASSUME TypeOK, UnifyVar
    PROVE  \E var \in Vars, val \in Terms :
              /\ ref[var] = Unbound /\ (val \in Vars => ref[val] = Unbound) /\ val # var
              /\ bind(var, val)
              /\ \/ var = left /\ val = right
                 \/ var = right /\ val = left
<1>1. left \in Terms /\ right \in Terms
  BY AgendaParts DEF UnifyVar, Pair
<1>2. /\ left \in Vars => ref[left] = Unbound
      /\ right \in Vars => ref[right] = Unbound
      /\ left # right
  BY DEF UnifyVar, Pair, IsRef
<1>3. CASE left \in Vars /\ bind(left, right)
  BY <1>1, <1>2, <1>3
<1>4. CASE right \in Vars /\ bind(right, left)
  BY <1>1, <1>2, <1>4
<1>5. QED BY <1>3, <1>4 DEF UnifyVar

LEMMA RingStep == TypeOK /\ NoRefRing /\ [Next]_vars => NoRefRing'
<1> SUFFICES ASSUME TypeOK, NoRefRing, [Next]_vars PROVE NoRefRing'
  OBVIOUS
<1>1. CASE ref' = ref
  BY <1>1 DEF NoRefRing
<1>2. CASE UnifyVar
  BY <1>2, PairToBind, BindMakesNoRing
<1>3. ASSUME NEW m, trail_unwind(m) PROVE NoRefRing'
  BY <1>3, UnwindMakesNoRing
<1>4. \/ ref' = ref \/ UnifyVar \/ \E m : trail_unwind(m)
  BY DEF Next, vars, Unify, DerefLeft, DerefRight, UnifySame, UnifyArgs, UnifyFails, UnifySucceeds,
         TryAlternative, Backtrack, LastAlternative, Commit
<1>5. QED BY <1>1, <1>2, <1>3, <1>4

\* Whatever is unified, undone and unified again, following references always ends:
\* term_deref's loop (prolog_unify.c:23) runs into no ring.
THEOREM ReferencesNeverRing == Spec => []NoRefRing
<1>1. Init => NoRefRing
  <2> SUFFICES ASSUME Init, NEW S \in SUBSET Vars, S # {} PROVE \E v \in S : ref[v] \notin S
    BY DEF NoRefRing
  <2>1. QED BY TermAssumption DEF Init, Terms
<1>2. QED BY <1>1, RingStep, TrailTypes, PTL DEF Spec

-----------------------------------------------------------------------------
(* Solutions                                                               *)

\* An agenda is its first pair and the rest of it.
LEMMA UnifiesHead ==
    ASSUME TypeOK, agenda # <<>>
    PROVE  \A class : Unifies(class, agenda) <=> class[left] = class[right] /\ Unifies(class, Tail(agenda))
<1> SUFFICES ASSUME NEW class
             PROVE Unifies(class, agenda) <=> class[left] = class[right] /\ Unifies(class, Tail(agenda))
  OBVIOUS
<1> DEFINE rest == Tail(agenda)
<1>1. /\ Len(agenda) \in Nat \ {0} /\ Head(agenda) = agenda[1]
      /\ Len(rest) = Len(agenda) - 1
      /\ \A i \in 1 .. Len(agenda) - 1 : rest[i] = agenda[i + 1]
  BY HeadTailProperties, EmptySeq, LenProperties DEF TypeOK
<1> HIDE DEF rest
<1>2. ASSUME Unifies(class, agenda)
      PROVE  class[left] = class[right] /\ Unifies(class, rest)
  <2>1. class[left] = class[right]
    BY <1>1, <1>2 DEF Unifies, left, right
  <2>2. ASSUME NEW i \in 1 .. Len(rest) PROVE class[rest[i][1]] = class[rest[i][2]]
    <3>1. i + 1 \in 1 .. Len(agenda) /\ rest[i] = agenda[i + 1]
      BY <1>1
    <3>2. QED BY <1>2, <3>1 DEF Unifies
  <2>3. QED BY <2>1, <2>2 DEF Unifies
<1>3. ASSUME class[left] = class[right], Unifies(class, rest), NEW i \in 1 .. Len(agenda)
      PROVE  class[agenda[i][1]] = class[agenda[i][2]]
  <2>1. CASE i = 1
    BY <1>1, <1>3, <2>1 DEF left, right
  <2>2. CASE i # 1
    <3>1. i - 1 \in 1 .. Len(rest) /\ agenda[i] = rest[i - 1]
      BY <1>1, <2>2
    <3>2. QED BY <1>3, <3>1 DEF Unifies
  <2>3. QED BY <2>1, <2>2
<1>4. QED BY <1>2, <1>3 DEF Unifies, rest

\* One list of pairs before another.
LEMMA UnifiesBoth ==
    ASSUME NEW p \in Seq(Terms \X Terms), NEW q \in Seq(Terms \X Terms)
    PROVE  \A class : Unifies(class, p \o q) <=> Unifies(class, p) /\ Unifies(class, q)
<1> SUFFICES ASSUME NEW class
             PROVE Unifies(class, p \o q) <=> Unifies(class, p) /\ Unifies(class, q)
  OBVIOUS
<1> DEFINE r == p \o q
<1>1. /\ Len(p) \in Nat /\ Len(q) \in Nat /\ Len(r) = Len(p) + Len(q)
      /\ \A i \in 1 .. Len(p) + Len(q) : r[i] = IF i <= Len(p) THEN p[i] ELSE q[i - Len(p)]
  BY ConcatProperties, LenProperties
<1> HIDE DEF r
<1>2. ASSUME Unifies(class, r) PROVE Unifies(class, p) /\ Unifies(class, q)
  <2>1. ASSUME NEW i \in 1 .. Len(p) PROVE class[p[i][1]] = class[p[i][2]]
    <3>1. i \in 1 .. Len(r) /\ r[i] = p[i]
      BY <1>1
    <3>2. QED BY <1>2, <3>1 DEF Unifies
  <2>2. ASSUME NEW i \in 1 .. Len(q) PROVE class[q[i][1]] = class[q[i][2]]
    <3>1. Len(p) + i \in 1 .. Len(r) /\ ~(Len(p) + i <= Len(p)) /\ (Len(p) + i) - Len(p) = i
      BY <1>1
    <3>2. r[Len(p) + i] = q[i]
      BY <1>1, <3>1, Zenon
    <3>3. QED BY <1>2, <3>1, <3>2 DEF Unifies
  <2>3. QED BY <2>1, <2>2 DEF Unifies
<1>3. ASSUME Unifies(class, p), Unifies(class, q), NEW i \in 1 .. Len(r)
      PROVE  class[r[i][1]] = class[r[i][2]]
  <2>1. CASE i <= Len(p)
    <3>1. i \in 1 .. Len(p) /\ r[i] = p[i]
      BY <1>1, <2>1
    <3>2. QED BY <1>3, <3>1 DEF Unifies
  <2>2. CASE ~(i <= Len(p))
    <3>1. i - Len(p) \in 1 .. Len(q) /\ r[i] = q[i - Len(p)]
      BY <1>1, <2>2
    <3>2. QED BY <1>3, <3>1 DEF Unifies
  <2>3. QED BY <2>1, <2>2
<1>4. QED BY <1>2, <1>3 DEF Unifies, r

\* The agenda with another first pair.
LEMMA UnifiesCons ==
    ASSUME NEW s \in Terms, NEW t \in Terms, NEW q \in Seq(Terms \X Terms)
    PROVE  \A class : Unifies(class, <<<<s, t>>>> \o q) <=> class[s] = class[t] /\ Unifies(class, q)
<1>1. <<<<s, t>>>> \in Seq(Terms \X Terms)
  OBVIOUS
<1>2. \A class : Unifies(class, <<<<s, t>>>>) <=> class[s] = class[t]
  BY DEF Unifies
<1>3. QED BY <1>1, <1>2, UnifiesBoth

\* Pairs of arguments.
LEMMA UnifiesArgs ==
    ASSUME NEW s \in Compounds, NEW t \in Compounds, Len(Args[s]) = Len(Args[t])
    PROVE  LET pairs == [i \in 1 .. Len(Args[s]) |-> <<Args[s][i], Args[t][i]>>]
           IN /\ pairs \in Seq(Terms \X Terms)
              /\ \A class : Unifies(class, pairs) <=> ArgsEqual(class, s, t)
<1> DEFINE n == Len(Args[s])
           pairs == [i \in 1 .. n |-> <<Args[s][i], Args[t][i]>>]
<1>1. n \in Nat /\ \A i \in 1 .. n : Args[s][i] \in Terms /\ Args[t][i] \in Terms
  <2>1. Args[s] \in Seq(Terms) /\ Args[t] \in Seq(Terms)
    BY TermAssumption
  <2>2. QED BY <2>1, ElementOfSeq, LenProperties
<1> HIDE DEF n
<1>2. pairs \in [1 .. n -> Terms \X Terms]
  BY <1>1
<1>3. pairs \in Seq(Terms \X Terms) /\ Len(pairs) = n
  BY <1>1, <1>2, FunctionIsSeq, LenProperties
<1>4. \A i \in 1 .. n : pairs[i][1] = Args[s][i] /\ pairs[i][2] = Args[t][i]
  OBVIOUS
<1> HIDE DEF pairs
<1>5. \A class : Unifies(class, pairs) <=> ArgsEqual(class, s, t)
  BY <1>3, <1>4 DEF Unifies, ArgsEqual, n
<1>6. QED BY <1>3, <1>5 DEF pairs, n

\* A step that leaves the store as it is and changes the agenda into one with the same solutions.
LEMMA AgendaStep ==
    ASSUME SolutionsKept, Running, ref' = ref, trail' = trail, marks' = marks, goal' = goal,
           \A class : Substitution(class) /\ Satisfies(class, ref)
                      => (Unifies(class, agenda) <=> Unifies(class, agenda'))
    PROVE  SolutionsKept'
<1>1. Before' = Before
  BY DEF Before, Above
<1>2. \A class : (Substitution(class) <=> Substitution(class)')
  BY DEF Substitution, Shape, ArgsEqual
<1>3. QED BY <1>1 DEF SolutionsKept, Satisfies, Unifies, Running

LEMMA DerefStep == ASSUME TypeOK, SolutionsKept, DerefLeft \/ DerefRight PROVE SolutionsKept'
<1>1. /\ agenda # <<>> /\ ref' = ref /\ trail' = trail /\ marks' = marks /\ goal' = goal
  BY DEF DerefLeft, DerefRight
<1>2. left \in Terms /\ right \in Terms /\ Tail(agenda) \in Seq(Terms \X Terms) /\ Running
  BY <1>1, AgendaParts
<1>3. CASE DerefLeft
  <2>1. /\ left \in Vars /\ ref[left] # Unbound /\ ref[left] \in Terms
        /\ agenda' = <<<<ref[left], right>>>> \o Tail(agenda)
    BY <1>3 DEF DerefLeft, IsRef, TypeOK
  <2>2. ASSUME NEW class, Satisfies(class, ref) PROVE Unifies(class, agenda) <=> Unifies(class, agenda')
    <3>1. class[left] = class[ref[left]]
      BY <2>1, <2>2 DEF Satisfies
    <3>2. Unifies(class, agenda') <=> class[ref[left]] = class[right] /\ Unifies(class, Tail(agenda))
      BY <1>2, <2>1, UnifiesCons
    <3>3. QED BY <1>1, <3>1, <3>2, UnifiesHead
  <2>3. QED BY <1>1, <1>2, <2>2, AgendaStep
<1>4. CASE DerefRight
  <2>1. /\ right \in Vars /\ ref[right] # Unbound /\ ref[right] \in Terms
        /\ agenda' = <<<<left, ref[right]>>>> \o Tail(agenda)
    BY <1>4 DEF DerefRight, IsRef, TypeOK
  <2>2. ASSUME NEW class, Satisfies(class, ref) PROVE Unifies(class, agenda) <=> Unifies(class, agenda')
    <3>1. class[right] = class[ref[right]]
      BY <2>1, <2>2 DEF Satisfies
    <3>2. Unifies(class, agenda') <=> class[left] = class[ref[right]] /\ Unifies(class, Tail(agenda))
      BY <1>2, <2>1, UnifiesCons
    <3>3. QED BY <1>1, <3>1, <3>2, UnifiesHead
  <2>3. QED BY <1>1, <1>2, <2>2, AgendaStep
<1>5. QED BY <1>3, <1>4

LEMMA SameStep == ASSUME TypeOK, SolutionsKept, UnifySame PROVE SolutionsKept'
<1>1. /\ agenda # <<>> /\ left = right /\ agenda' = Tail(agenda)
      /\ ref' = ref /\ trail' = trail /\ marks' = marks /\ goal' = goal
  BY DEF UnifySame, Pair
<1>2. Running
  BY <1>1, AgendaParts
<1>3. QED BY <1>1, <1>2, UnifiesHead, AgendaStep

LEMMA ArgsStep == ASSUME TypeOK, SolutionsKept, UnifyArgs PROVE SolutionsKept'
<1> DEFINE pairs == [i \in 1 .. Len(Args[left]) |-> <<Args[left][i], Args[right][i]>>]
<1>1. /\ agenda # <<>> /\ agenda' = pairs \o Tail(agenda)
      /\ left \in Compounds /\ right \in Compounds /\ Shape(left, right)
      /\ ref' = ref /\ trail' = trail /\ marks' = marks /\ goal' = goal
  BY DEF UnifyArgs, Pair, BothCompound, SameFunctor, Shape
<1>2. Tail(agenda) \in Seq(Terms \X Terms) /\ Running
  BY <1>1, AgendaParts
<1>3. /\ pairs \in Seq(Terms \X Terms)
      /\ \A class : Unifies(class, pairs) <=> ArgsEqual(class, left, right)
  BY <1>1, UnifiesArgs DEF Shape
<1> HIDE DEF pairs
<1>4. ASSUME NEW class, Substitution(class)
      PROVE  Unifies(class, agenda) <=> Unifies(class, agenda')
  <2>1. class[left] = class[right] <=> ArgsEqual(class, left, right)
    BY <1>1, <1>4 DEF Substitution
  <2>2. Unifies(class, agenda') <=> Unifies(class, pairs) /\ Unifies(class, Tail(agenda))
    BY <1>1, <1>2, <1>3, UnifiesBoth
  <2>3. QED BY <1>1, <1>3, <2>1, <2>2, UnifiesHead
<1>5. QED BY <1>1, <1>2, <1>4, AgendaStep

\* A store in which one variable more is bound says that one equation more.
LEMMA SatisfiesOneMore ==
    ASSUME NEW store \in [Vars -> Terms \cup {Unbound}], NEW var \in Vars, NEW val \in Terms,
           store[var] = Unbound
    PROVE  \A class : Satisfies(class, [store EXCEPT ![var] = val])
                      <=> Satisfies(class, store) /\ class[var] = class[val]
<1>1. val # Unbound
  BY TermAssumption
<1>2. QED BY <1>1 DEF Satisfies

LEMMA BeforeType == ASSUME TypeOK PROVE Before \in [Vars -> Terms \cup {Unbound}]
BY DEF TypeOK, Before

\* A variable that is recorded changes nothing in the store as it was found; a nameless one, which
\* is never undone, is bound in both.
LEMMA BindFound ==
    ASSUME TrailInv, Running, NEW var \in Vars, NEW val \in Terms, ref[var] = Unbound,
           bind(var, val), marks' = marks
    PROVE  Before' = IF var \in Anonymous THEN [Before EXCEPT ![var] = val] ELSE Before
<1> DEFINE m == marks[Len(marks)]
<1>1. m \in Nat /\ m <= Len(trail) /\ Len(trail) \in Nat /\ Len(marks) \in Nat \ {0}
      /\ DOMAIN marks = 1 .. Len(marks)
  <2>1. Len(marks) \in Nat /\ DOMAIN marks = 1 .. Len(marks) /\ Len(marks) # 0
    BY TrailFacts, EmptySeq DEF TrailInv, TypeOK
  <2>2. Len(marks) \in DOMAIN marks
    BY <2>1
  <2>3. QED BY <2>1, <2>2, TrailFacts DEF TrailInv, MarksNested
<1>2. m' = m
  OBVIOUS
<1> HIDE DEF m
<1>3. ref' = [ref EXCEPT ![var] = val] /\ ref \in [Vars -> Terms \cup {Unbound}]
  BY DEF bind, TrailInv, TypeOK
<1>4. CASE var \in Anonymous
  <2>1. trail' = trail
    BY <1>4 DEF bind
  <2>2. var \notin Above(m)
    BY <1>1, <1>4, TrailFacts DEF Above, TrailInv
  <2>3. Above(m)' = Above(m)
    BY <1>2, <2>1 DEF Above
  <2>4. QED BY <1>2, <1>3, <1>4, <2>2, <2>3 DEF Before, m
<1>5. CASE var \notin Anonymous
  <2>1. trail' = Append(trail, var)
    BY <1>5 DEF bind
  <2>2. /\ Len(trail') = Len(trail) + 1
        /\ \A i \in 1 .. Len(trail) : trail'[i] = trail[i]
        /\ trail'[Len(trail) + 1] = var
    BY <1>5, <2>1, PushFacts DEF TrailInv
  <2>3. Above(m)' = Above(m) \cup {var}
    <3>1. \A i \in m + 1 .. Len(trail) : trail'[i] = trail[i]
      BY <1>1, <2>2
    <3>2. m + 1 .. Len(trail') = (m + 1 .. Len(trail)) \cup {Len(trail) + 1}
      BY <1>1, <2>2
    <3>3. QED BY <1>2, <2>2, <3>1, <3>2 DEF Above
  <2>4. ASSUME NEW v \in Vars
        PROVE  (IF v \in Above(m)' THEN Unbound ELSE ref'[v]) = (IF v \in Above(m) THEN Unbound ELSE ref[v])
    BY <1>3, <2>3
  <2>5. QED BY <1>2, <1>5, <2>4, Zenon DEF Before, m
<1>6. QED BY <1>4, <1>5

LEMMA BindStep == ASSUME TrailInv, SolutionsKept, UnifyVar PROVE SolutionsKept'
<1>1. PICK var \in Vars, val \in Terms :
              /\ ref[var] = Unbound /\ (val \in Vars => ref[val] = Unbound) /\ val # var
              /\ bind(var, val)
              /\ \/ var = left /\ val = right
                 \/ var = right /\ val = left
  BY PairToBind DEF TrailInv
<1>2. agenda # <<>> /\ agenda' = Tail(agenda) /\ marks' = marks /\ goal' = goal
  BY DEF UnifyVar, Pair
<1>3. Running
  BY <1>2, AgendaParts DEF TrailInv
<1>4. \A class : Unifies(class, agenda) <=> class[var] = class[val] /\ Unifies(class, agenda')
  BY <1>1, <1>2, UnifiesHead DEF TrailInv
<1>5. \A class : Satisfies(class, ref') <=> Satisfies(class, ref) /\ class[var] = class[val]
  <2>1. ref' = [ref EXCEPT ![var] = val]
    BY <1>1 DEF bind
  <2>2. ref \in [Vars -> Terms \cup {Unbound}] /\ ref[var] = Unbound
    BY <1>1 DEF TrailInv, TypeOK
  <2>3. val # Unbound
    BY TermAssumption
  <2>4. QED BY <2>1, <2>2, <2>3 DEF Satisfies
<1>6. \A class : \/ Satisfies(class, Before') <=> Satisfies(class, Before)
                 \/ Satisfies(class, Before') <=> Satisfies(class, Before) /\ class[var] = class[val]
  <2>1. Before' = Before \/ Before' = [Before EXCEPT ![var] = val]
    BY <1>1, <1>2, <1>3, BindFound
  <2>2. Before[var] = Unbound
    BY <1>1 DEF Before
  <2>3. Before \in [Vars -> Terms \cup {Unbound}]
    BY BeforeType DEF TrailInv
  <2>4. QED BY <2>1, <2>2, <2>3, SatisfiesOneMore
<1>7. ASSUME NEW class, Substitution(class)
      PROVE  Satisfies(class, Before') /\ Unifies(class, goal')
             <=> Satisfies(class, ref') /\ Unifies(class, agenda')
  <2>1. Satisfies(class, Before) /\ Unifies(class, goal) <=> Satisfies(class, ref) /\ Unifies(class, agenda)
    BY <1>3, <1>7 DEF SolutionsKept
  <2>2. QED BY <1>2, <1>4, <1>5, <1>6, <2>1
<1>8. QED BY <1>7 DEF SolutionsKept, Satisfies, Unifies, Substitution, Shape, ArgsEqual

\* A unification begins with nothing bound and all of its goal to do.
LEMMA BeginStep == ASSUME TypeOK, NEW g \in Goals, Unify(g) PROVE SolutionsKept'
<1>1. /\ goal' = g /\ agenda' = g /\ ref' = ref /\ trail' = trail
      /\ marks' = Append(marks, Len(trail))
  BY DEF Unify
<1>2. Len(trail) \in Nat /\ marks \in Seq(Nat)
  BY TrailFacts DEF TypeOK
<1>3. marks'[Len(marks')] = Len(trail)
  BY <1>1, <1>2, AppendProperties
<1>4. \A i \in Len(trail) + 1 .. Len(trail) : FALSE
  BY <1>2
<1>5. Above(marks[Len(marks)])' = {}
  BY <1>1, <1>3, <1>4 DEF Above
<1>6. Before' = ref'
  <2>1. ref \in [Vars -> Terms \cup {Unbound}]
    BY DEF TypeOK
  <2>2. QED BY <1>1, <1>5, <2>1, Zenon DEF Before
<1>7. QED BY <1>1, <1>6 DEF SolutionsKept, Satisfies, Unifies, Substitution, Shape, ArgsEqual

LEMMA SolutionsStep == TrailInv /\ SolutionsKept /\ [Next]_vars => SolutionsKept'
<1> SUFFICES ASSUME TrailInv, SolutionsKept, [Next]_vars PROVE SolutionsKept'
  OBVIOUS
<1>1. TypeOK
  BY DEF TrailInv
<1>2. ASSUME NEW g \in Goals, Unify(g) PROVE SolutionsKept'
  BY <1>1, <1>2, BeginStep
<1>3. CASE DerefLeft \/ DerefRight
  BY <1>1, <1>3, DerefStep
<1>4. CASE UnifySame
  BY <1>1, <1>4, SameStep
<1>5. CASE UnifyVar
  BY <1>5, BindStep
<1>6. CASE UnifyArgs
  BY <1>1, <1>6, ArgsStep
<1>7. CASE goal' = <<>>
  BY <1>7 DEF SolutionsKept, Running
<1>8. CASE UNCHANGED vars
  <2>1. Before' = Before /\ ref' = ref /\ agenda' = agenda /\ goal' = goal
    BY <1>8 DEF vars, Before, Above
  <2>2. QED BY <2>1 DEF SolutionsKept, Running, Satisfies, Unifies, Substitution, Shape, ArgsEqual
<1>9. ASSUME ~Running, goal' = goal PROVE SolutionsKept'
  BY <1>9 DEF SolutionsKept, Running
<1>10. QED
  BY <1>2, <1>3, <1>4, <1>5, <1>6, <1>7, <1>8, <1>9
  DEF Next, UnifyFails, UnifySucceeds, TryAlternative, Backtrack, LastAlternative, Commit

\* While unify runs (prolog_unify.c:52), at every turn of its work and for any terms that share
\* variables, the bindings made so far and the pairs left have exactly the solutions that the
\* bindings it found and the pairs it was given have: no binding says too much or too little.
THEOREM UnifyKeepsSolutions == Spec => []SolutionsKept
<1>1. Init => SolutionsKept
  BY DEF Init, SolutionsKept, Running
<1>2. QED BY <1>1, SolutionsStep, TrailInvariant, PTL DEF Spec

\* What unify has bound when it succeeds is a most general unifier of what it was given: the
\* substitutions it allows are those that unify the goal under the bindings found.
MostGeneral ==
    Running /\ agenda = <<>> =>
        \A class : Substitution(class) =>
            (Satisfies(class, ref) <=> Satisfies(class, Before) /\ Unifies(class, goal))

\* When unify fails, no substitution, by finite or infinite terms, unifies the goal under the
\* bindings found.
NoUnifier ==
    Clash => \A class : Substitution(class) => ~(Satisfies(class, Before) /\ Unifies(class, goal))

\* unify (prolog_unify.c:52) is right on every goal: it succeeds with a most general unifier and
\* fails only when there is none, occurs check aside, which it does not make.
THEOREM UnifyIsRight == Spec => [](MostGeneral /\ NoUnifier)
<1>1. TypeOK /\ SolutionsKept => MostGeneral
  BY EmptySeq DEF SolutionsKept, MostGeneral, Unifies
<1>2. TypeOK /\ SolutionsKept => NoUnifier
  <2> SUFFICES ASSUME TypeOK, SolutionsKept, Clash, NEW class, Substitution(class),
                      Satisfies(class, Before), Unifies(class, goal)
               PROVE  FALSE
    BY DEF NoUnifier
  <2>1. /\ agenda # <<>> /\ left # right /\ left \notin Vars /\ right \notin Vars
        /\ ~(left \in Compounds /\ right \in Compounds /\ Shape(left, right))
    BY DEF Clash, Pair, BothCompound, SameFunctor, Shape
  <2>2. left \in Terms /\ right \in Terms /\ Running
    BY <2>1, AgendaParts
  <2>3. class[left] = class[right]
    BY <2>1, <2>2, UnifiesHead DEF SolutionsKept
  <2>4. left \in Atoms \cup Compounds /\ right \in Atoms \cup Compounds
    BY <2>1, <2>2 DEF Terms
  <2>5. QED BY <2>1, <2>3, <2>4 DEF Substitution
<1>3. QED BY <1>1, <1>2, TrailTypes, UnifyKeepsSolutions, PTL

=============================================================================
