--------------------------- MODULE SyncStepProofs ---------------------------
(***************************************************************************)
(* For any number of participants, programs and sizes of pipes: a          *)
(* participant whose writes went through is never more than the one event  *)
(* ahead that the controller holds; what the controller compares is what   *)
(* the programs said; and every verdict it gives is one Lockstep allows.   *)
(***************************************************************************)
EXTENDS SyncStep, SequenceTheorems, TLAPS

\* A sequence, of whatever elements.
IsSeq(s) == s \in Seq({s[i] : i \in DOMAIN s})

\* The controller is within the value of a record of p, and has read so much of it.
Reading(p) == cpc = "value" /\ ci = p
Taken(p) == IF Reading(p) THEN rd.got + 1 ELSE 0

\* The controller has heard p in this step, or seen the end of it, and has not answered.
HoldsTurn(p) ==
    \/ cpc \in {"header", "value"} /\ skip.on /\ p # ci
    \/ cpc \in {"header", "value"} /\ ~skip.on /\ p < ci
    \/ cpc \in {"judge", "skip", "recheck"}
    \/ cpc \in {"go", "stop"} /\ p >= ci

\* Of record r the controller has read k pieces; a and then b are the rest of it and nothing else.
Rest(r, k, a, b) ==
    /\ Len(a) + Len(b) + k = r.len + 1
    /\ \A i \in 1 .. Len(a) : a[i] = [rec |-> r, at |-> k + i - 1]
    /\ \A i \in 1 .. Len(b) : b[i] = [rec |-> r, at |-> k + Len(a) + i - 1]

\* So it is with the record p is sending.
Underway(p) ==
    LET r == Head(todo[p]) IN
    /\ Reading(p) => rd.rec = r /\ rd.got \in Nat /\ rd.got < r.len
    /\ Rest(r, Taken(p), ready[p], out[p])

Announces(p) == Head(todo[p]).kind = "NAME_DEF"

\* Between two events nothing of p is anywhere.
Quiet(p) ==
    /\ ready[p] = <<>> /\ go[p] = <<>> /\ ~HoldsTurn(p) /\ ~Reading(p)
    /\ Len(said[p]) = pos[p]

Writing(p) ==
    /\ Underway(p) /\ out[p] # <<>> /\ go[p] = <<>>
    /\ ~HoldsTurn(p) /\ Len(said[p]) = pos[p]

\* A participant waits for its answer: its record is on the way, or the controller has it, or the
\* answer is there, or the controller is no more.
OnItsWay(p) == /\ Underway(p) /\ out[p] = <<>> /\ go[p] = <<>> /\ ~HoldsTurn(p)
               /\ Len(said[p]) = pos[p] + (IF Announces(p) THEN 0 ELSE 1)
InHand(p)   == /\ HoldsTurn(p) /\ ready[p] = <<>> /\ go[p] = <<>> /\ ~Announces(p)
               /\ Len(said[p]) = pos[p] + (IF cpc = "go" THEN 0 ELSE 1)
Answered(p) == /\ ~HoldsTurn(p) /\ ready[p] = <<>> /\ ~Reading(p) /\ Len(go[p]) = 1
               /\ Len(said[p]) <= pos[p] + 1
               /\ go[p][1] = "G" => Len(said[p]) = pos[p]
Abandoned(p) == cpc = "done" /\ go[p] = <<>> /\ Len(said[p]) <= pos[p] + 1

InStep(p) ==
    /\ pc[p] \in {"openReady", "openGo", "run"} => Quiet(p)
    /\ pc[p] = "write" => Writing(p)
    /\ pc[p] = "ack"   => OnItsWay(p) \/ InHand(p) \/ Answered(p) \/ Abandoned(p)
    /\ pc[p] = "exited" => Len(said[p]) <= pos[p] + 1

\* The records p has to send: an announcement is followed by its event.
Sending(p) ==
    pc[p] \in {"write", "ack"} =>
        /\ todo[p] # <<>> /\ Head(todo[p]).len \in Nat
        /\ Announces(p) => Len(todo[p]) = 2 /\ todo[p][2].len \in Nat /\ todo[p][2].kind # "NAME_DEF"
        /\ ~Announces(p) => Len(todo[p]) = 1

WellFormed(p) ==
    /\ IsSeq(ready[p]) /\ IsSeq(go[p]) /\ IsSeq(todo[p]) /\ IsSeq(out[p]) /\ IsSeq(said[p])
    /\ pos[p] \in Nat
    /\ pc[p] \in {"openReady", "openGo", "run", "write", "ack", "exited"}

ParticipantOK(p) == WellFormed(p) /\ Sending(p) /\ InStep(p)

ControllerOK ==
    /\ ci \in P /\ "on" \in DOMAIN skip /\ skip.on \in BOOLEAN
    /\ cpc \in {"openReady", "openGo", "header", "value", "judge", "skip", "recheck",
                "go", "stop", "done"}
    /\ cpc \in {"openReady", "openGo", "judge", "go"} => ~skip.on
    /\ cpc \in {"skip", "recheck"} => skip.on

Domains == /\ DOMAIN pc = P /\ DOMAIN todo = P /\ DOMAIN out = P /\ DOMAIN ready = P
           /\ DOMAIN go = P /\ DOMAIN said = P /\ DOMAIN pos = P
           /\ DOMAIN rd = {"rec", "got", "whole"}

SyncInv == ControllerOK /\ Domains /\ \A p \in P \ torn : ParticipantOK(p)

LEMMA IsSeqOf == \A S, s : s \in Seq(S) => IsSeq(s)
<1> SUFFICES ASSUME NEW S, NEW s, s \in Seq(S) PROVE IsSeq(s)
  OBVIOUS
<1> DEFINE R == {s[i] : i \in DOMAIN s}
<1>1. Len(s) \in Nat /\ s \in [1 .. Len(s) -> S] /\ DOMAIN s = 1 .. Len(s)
  BY LenProperties
<1>2. s \in [1 .. Len(s) -> R]
  BY <1>1
<1>3. [1 .. Len(s) -> R] \in {[1 .. n -> R] : n \in Nat}
  BY <1>1
<1>4. s \in UNION {[1 .. n -> R] : n \in Nat}
  BY <1>2, <1>3
<1>5. s \in Seq(R)
  BY <1>4, SeqDef
<1>6. QED BY <1>5 DEF IsSeq

\* What holds of appending to a sequence and of taking its head away.
LEMMA AppendSeq ==
    \A s, x : IsSeq(s) => /\ IsSeq(Append(s, x)) /\ Len(Append(s, x)) = Len(s) + 1
                          /\ \A i \in 1 .. Len(s) : Append(s, x)[i] = s[i]
                          /\ Append(s, x)[Len(s) + 1] = x
<1> SUFFICES ASSUME NEW s, NEW x, IsSeq(s)
             PROVE  /\ IsSeq(Append(s, x)) /\ Len(Append(s, x)) = Len(s) + 1
                    /\ \A i \in 1 .. Len(s) : Append(s, x)[i] = s[i]
                    /\ Append(s, x)[Len(s) + 1] = x
  OBVIOUS
<1> DEFINE S == {s[i] : i \in DOMAIN s} \cup {x}
           t == Append(s, x)
<1>1. s \in Seq(S) /\ x \in S
  BY DEF IsSeq
<1>2. t \in Seq(S) /\ Len(t) = Len(s) + 1 /\ Len(s) \in Nat
      /\ (\A i \in 1 .. Len(s) : t[i] = s[i]) /\ t[Len(s) + 1] = x
  BY <1>1, AppendProperties
<1>3. IsSeq(t)
  BY <1>2, IsSeqOf
<1>4. QED BY <1>2, <1>3

LEMMA LenSeq ==
    \A s : IsSeq(s) => Len(s) \in Nat /\ (Len(s) = 0 <=> s = <<>>)
<1> SUFFICES ASSUME NEW s, IsSeq(s) PROVE Len(s) \in Nat /\ (Len(s) = 0 <=> s = <<>>)
  OBVIOUS
<1>1. s \in Seq({s[i] : i \in DOMAIN s})
  BY DEF IsSeq
<1>2. QED BY <1>1, EmptySeq, LenProperties

LEMMA TailSeq ==
    \A s : IsSeq(s) /\ s # <<>> =>
        /\ IsSeq(Tail(s)) /\ Len(Tail(s)) = Len(s) - 1 /\ Head(s) = s[1]
        /\ \A i \in 1 .. Len(s) - 1 : Tail(s)[i] = s[i + 1]
<1> SUFFICES ASSUME NEW s, IsSeq(s), s # <<>>
             PROVE  /\ IsSeq(Tail(s)) /\ Len(Tail(s)) = Len(s) - 1 /\ Head(s) = s[1]
                    /\ \A i \in 1 .. Len(s) - 1 : Tail(s)[i] = s[i + 1]
  OBVIOUS
<1> DEFINE S == {s[i] : i \in DOMAIN s}
           t == Tail(s)
<1>1. s \in Seq(S)
  BY DEF IsSeq
<1>2. t \in Seq(S) /\ Len(t) = Len(s) - 1 /\ Head(s) = s[1]
      /\ \A i \in 1 .. Len(s) - 1 : t[i] = s[i + 1]
  BY <1>1, HeadTailProperties
<1>3. IsSeq(t)
  BY <1>2, IsSeqOf
<1>4. QED BY <1>2, <1>3

LEMMA ConcatSeq ==
    \A s, t : IsSeq(s) /\ IsSeq(t) =>
        /\ IsSeq(s \o t) /\ Len(s \o t) = Len(s) + Len(t)
        /\ \A i \in 1 .. Len(s) : (s \o t)[i] = s[i]
        /\ \A i \in 1 .. Len(t) : (s \o t)[Len(s) + i] = t[i]
<1> SUFFICES ASSUME NEW s, NEW t, IsSeq(s), IsSeq(t)
             PROVE  /\ IsSeq(s \o t) /\ Len(s \o t) = Len(s) + Len(t)
                    /\ \A i \in 1 .. Len(s) : (s \o t)[i] = s[i]
                    /\ \A i \in 1 .. Len(t) : (s \o t)[Len(s) + i] = t[i]
  OBVIOUS
<1> DEFINE S == {s[i] : i \in DOMAIN s} \cup {t[i] : i \in DOMAIN t}
           u == s \o t
<1>1. s \in Seq(S) /\ t \in Seq(S)
  BY DEF IsSeq
<1>2. u \in Seq(S) /\ Len(u) = Len(s) + Len(t) /\ Len(s) \in Nat /\ Len(t) \in Nat
      /\ \A i \in 1 .. Len(s) + Len(t) : u[i] = IF i <= Len(s) THEN s[i] ELSE t[i - Len(s)]
  BY <1>1, ConcatProperties, LenProperties
<1>3. /\ \A i \in 1 .. Len(s) : u[i] = s[i]
      /\ \A i \in 1 .. Len(t) : u[Len(s) + i] = t[i]
  <2> HIDE DEF u
  <2>1. ASSUME NEW i \in 1 .. Len(s) PROVE u[i] = s[i]
    BY <1>2
  <2>2. ASSUME NEW i \in 1 .. Len(t) PROVE u[Len(s) + i] = t[i]
    <3>1. Len(s) + i \in 1 .. Len(s) + Len(t) /\ ~(Len(s) + i <= Len(s))
          /\ (Len(s) + i) - Len(s) = i
      BY <1>2
    <3>2. QED BY <1>2, <3>1, Zenon
  <2>3. QED BY <2>1, <2>2
<1>4. IsSeq(u)
  BY <1>2, IsSeqOf
<1>5. QED BY <1>2, <1>3, <1>4

LEMMA ShortSeq ==
    /\ IsSeq(<<>>) /\ Len(<<>>) = 0
    /\ \A x : IsSeq(<<x>>) /\ Len(<<x>>) = 1 /\ <<x>>[1] = x /\ Head(<<x>>) = x
    /\ \A x, y : IsSeq(<<x, y>>) /\ Len(<<x, y>>) = 2 /\ <<x, y>>[1] = x /\ <<x, y>>[2] = y
BY DEF IsSeq

\* The tokens of a record.
LEMMA TokensSeq ==
    \A r : r.len \in Nat => /\ IsSeq(Tokens(r)) /\ Len(Tokens(r)) = r.len + 1
                            /\ \A i \in 1 .. r.len + 1 : Tokens(r)[i] = [rec |-> r, at |-> i - 1]
<1> SUFFICES ASSUME NEW r, r.len \in Nat
             PROVE  /\ IsSeq(Tokens(r)) /\ Len(Tokens(r)) = r.len + 1
                    /\ \A i \in 1 .. r.len + 1 : Tokens(r)[i] = [rec |-> r, at |-> i - 1]
  OBVIOUS
<1> DEFINE n == r.len + 1
           t == Tokens(r)
<1>1. n \in Nat /\ t = [i \in 1 .. n |-> [rec |-> r, at |-> i - 1]]
  BY DEF Tokens
<1> HIDE DEF n, t
<1> DEFINE S == {t[i] : i \in DOMAIN t}
<1>2. DOMAIN t = 1 .. n /\ \A i \in 1 .. n : t[i] = [rec |-> r, at |-> i - 1]
  BY <1>1
<1>3. t \in [1 .. n -> S]
  BY <1>1, <1>2
<1>4. t \in Seq(S)
  <2>1. [1 .. n -> S] \in {[1 .. m -> S] : m \in Nat}
    BY <1>1
  <2>2. t \in UNION {[1 .. m -> S] : m \in Nat}
    BY <1>3, <2>1
  <2>3. QED BY <2>2, SeqDef
<1>5. Len(t) = n
  BY <1>1, <1>2, <1>4, LenProperties
<1>6. IsSeq(t)
  BY <1>4, IsSeqOf
<1>7. QED BY <1>2, <1>5, <1>6 DEF t, n

\* What is left of a record when a piece of it is written, when all of it is, and when a piece
\* is read.
LEMMA RestNew ==
    ASSUME NEW r, r.len \in Nat
    PROVE  /\ Rest(r, 0, <<>>, Tokens(r))
           /\ IsSeq(Tokens(r)) /\ Tokens(r) # <<>>
<1> DEFINE o == Tokens(r)
<1>1. IsSeq(o) /\ Len(o) = r.len + 1 /\ \A i \in 1 .. r.len + 1 : o[i] = [rec |-> r, at |-> i - 1]
  BY TokensSeq
<1> HIDE DEF o
<1>2. o # <<>>
  BY <1>1, ShortSeq
<1> DEFINE e == <<>>
<1>3. Len(e) = 0
  BY ShortSeq
<1> HIDE DEF e
<1>4. Rest(r, 0, e, o)
  BY <1>1, <1>3 DEF Rest
<1>5. QED BY <1>1, <1>2, <1>4 DEF o, e

LEMMA RestWritten ==
    ASSUME NEW r, r.len \in Nat, NEW k \in Nat, NEW a, NEW b, IsSeq(a), IsSeq(b), b # <<>>,
           Rest(r, k, a, b)
    PROVE  Rest(r, k, Append(a, Head(b)), Tail(b))
<1> DEFINE a2 == Append(a, Head(b))
           b2 == Tail(b)
<1>1. Len(a2) = Len(a) + 1 /\ (\A i \in 1 .. Len(a) : a2[i] = a[i]) /\ a2[Len(a) + 1] = b[1]
  BY AppendSeq, TailSeq
<1>2. Len(b2) = Len(b) - 1 /\ \A i \in 1 .. Len(b) - 1 : b2[i] = b[i + 1]
  BY TailSeq
<1>3. Len(a) \in Nat /\ Len(b) \in Nat /\ Len(b) > 0
  BY LenSeq
<1> HIDE DEF a2, b2
<1>4. \A i \in 1 .. Len(a2) : a2[i] = [rec |-> r, at |-> k + i - 1]
  <2> SUFFICES ASSUME NEW i \in 1 .. Len(a2)
               PROVE  a2[i] = [rec |-> r, at |-> k + i - 1]
    OBVIOUS
  <2>1. CASE i = Len(a) + 1
    <3>1. b[1] = [rec |-> r, at |-> k + Len(a) + 1 - 1]
      BY <1>3 DEF Rest
    <3>2. k + Len(a) + 1 - 1 = k + i - 1
      BY <1>3, <2>1
    <3>3. QED BY <1>1, <2>1, <3>1, <3>2
  <2>2. CASE i \in 1 .. Len(a)
    BY <1>1, <2>2, Zenon DEF Rest
  <2>3. QED BY <1>1, <1>3, <2>1, <2>2
<1>5. \A i \in 1 .. Len(b2) : b2[i] = [rec |-> r, at |-> k + Len(a2) + i - 1]
  <2> SUFFICES ASSUME NEW i \in 1 .. Len(b2)
               PROVE  b2[i] = [rec |-> r, at |-> k + Len(a2) + i - 1]
    OBVIOUS
  <2>1. i + 1 \in 1 .. Len(b) /\ b2[i] = b[i + 1]
    BY <1>2, <1>3
  <2>2. b[i + 1] = [rec |-> r, at |-> k + Len(a) + (i + 1) - 1]
    BY <2>1 DEF Rest
  <2>3. k + Len(a) + (i + 1) - 1 = k + Len(a2) + i - 1
    BY <1>1, <1>2, <1>3
  <2>4. QED BY <2>1, <2>2, <2>3
<1>6. Len(a2) + Len(b2) + k = r.len + 1
  BY <1>1, <1>2, <1>3 DEF Rest
<1>7. QED BY <1>4, <1>5, <1>6 DEF Rest, a2, b2

LEMMA RestWhole ==
    ASSUME NEW r, r.len \in Nat, NEW k \in Nat, NEW a, NEW b, IsSeq(a), IsSeq(b),
           Rest(r, k, a, b)
    PROVE  Rest(r, k, a \o b, <<>>)
<1> DEFINE a2 == a \o b
           e  == <<>>
<1>1. Len(a2) = Len(a) + Len(b) /\ (\A i \in 1 .. Len(a) : a2[i] = a[i])
      /\ (\A i \in 1 .. Len(b) : a2[Len(a) + i] = b[i])
  BY ConcatSeq
<1>2. Len(a) \in Nat /\ Len(b) \in Nat /\ Len(e) = 0
  BY LenSeq, ShortSeq
<1> HIDE DEF a2, e
<1>3. \A i \in 1 .. Len(a2) : a2[i] = [rec |-> r, at |-> k + i - 1]
  <2> SUFFICES ASSUME NEW i \in 1 .. Len(a2)
               PROVE  a2[i] = [rec |-> r, at |-> k + i - 1]
    OBVIOUS
  <2>1. CASE i \in 1 .. Len(a)
    BY <1>1, <2>1, Zenon DEF Rest
  <2>2. CASE i \notin 1 .. Len(a)
    <3> DEFINE j == i - Len(a)
    <3>1. j \in 1 .. Len(b) /\ i = Len(a) + j
      BY <1>1, <1>2, <2>2
    <3> HIDE DEF j
    <3>2. a2[i] = b[j] /\ b[j] = [rec |-> r, at |-> k + Len(a) + j - 1]
      BY <1>1, <3>1 DEF Rest
    <3>3. k + Len(a) + j - 1 = k + i - 1
      BY <1>2, <3>1
    <3>4. QED BY <3>2, <3>3
  <2>3. QED BY <2>1, <2>2
<1>4. Len(a2) + Len(e) + k = r.len + 1
  BY <1>1, <1>2 DEF Rest
<1>5. QED BY <1>2, <1>3, <1>4 DEF Rest, a2, e

LEMMA RestRead ==
    ASSUME NEW r, r.len \in Nat, NEW k \in Nat, NEW a, NEW b, IsSeq(a), IsSeq(b), a # <<>>,
           Rest(r, k, a, b)
    PROVE  Rest(r, k + 1, Tail(a), b) /\ Head(a) = [rec |-> r, at |-> k]
<1> DEFINE a2 == Tail(a)
<1>1. Len(a2) = Len(a) - 1 /\ (\A i \in 1 .. Len(a) - 1 : a2[i] = a[i + 1]) /\ Head(a) = a[1]
  BY TailSeq
<1>2. Len(a) \in Nat /\ Len(b) \in Nat /\ Len(a) > 0
  BY LenSeq
<1> HIDE DEF a2
<1>3. \A i \in 1 .. Len(a2) : a2[i] = [rec |-> r, at |-> (k + 1) + i - 1]
  <2> SUFFICES ASSUME NEW i \in 1 .. Len(a2)
               PROVE  a2[i] = [rec |-> r, at |-> (k + 1) + i - 1]
    OBVIOUS
  <2>1. i + 1 \in 1 .. Len(a) /\ a2[i] = a[i + 1]
    BY <1>1, <1>2
  <2>2. a[i + 1] = [rec |-> r, at |-> k + (i + 1) - 1]
    BY <2>1 DEF Rest
  <2>3. k + (i + 1) - 1 = (k + 1) + i - 1
    BY <1>1
  <2>4. QED BY <2>1, <2>2, <2>3
<1>4. \A i \in 1 .. Len(b) : b[i] = [rec |-> r, at |-> (k + 1) + Len(a2) + i - 1]
  <2> SUFFICES ASSUME NEW i \in 1 .. Len(b)
               PROVE  b[i] = [rec |-> r, at |-> (k + 1) + Len(a2) + i - 1]
    OBVIOUS
  <2>1. b[i] = [rec |-> r, at |-> k + Len(a) + i - 1]
    BY DEF Rest
  <2>2. k + Len(a) + i - 1 = (k + 1) + Len(a2) + i - 1
    BY <1>1, <1>2
  <2>3. QED BY <2>1, <2>2
<1>5. Len(a2) + Len(b) + (k + 1) = r.len + 1
  BY <1>1, <1>2 DEF Rest
<1>6. a[1] = [rec |-> r, at |-> k]
  <2>1. a[1] = [rec |-> r, at |-> k + 1 - 1]
    BY <1>2 DEF Rest
  <2>2. QED BY <2>1
<1>7. QED BY <1>1, <1>3, <1>4, <1>5, <1>6 DEF Rest, a2

-----------------------------------------------------------------------------
(* A participant that takes no part in a step.                             *)

\* Nothing of q's own changes ...
Still(q) == /\ pc'[q] = pc[q] /\ todo'[q] = todo[q] /\ out'[q] = out[q] /\ ready'[q] = ready[q]
            /\ go'[q] = go[q] /\ said'[q] = said[q] /\ pos'[q] = pos[q]

\* ... and the controller is to q what it was.
SameTo(q) == /\ HoldsTurn(q)' <=> HoldsTurn(q)
             /\ Reading(q)' <=> Reading(q)
             /\ Reading(q) => rd' = rd
             /\ cpc = "done" => cpc' = "done"
             /\ HoldsTurn(q) => (cpc = "go" <=> cpc' = "go")

LEMMA UnderwayFrame ==
    ASSUME NEW q \in P, Underway(q), todo'[q] = todo[q], out'[q] = out[q], ready'[q] = ready[q],
           Reading(q)' <=> Reading(q), Reading(q) => rd' = rd
    PROVE  Underway(q)'
<1>1. Taken(q)' = Taken(q)
  BY DEF Taken
<1>2. QED BY <1>1 DEF Underway

LEMMA Frame ==
    ASSUME NEW q \in P, ParticipantOK(q), Still(q), SameTo(q)
    PROVE  ParticipantOK(q)'
<1>1. WellFormed(q)' /\ Sending(q)' /\ (Announces(q)' <=> Announces(q))
  BY DEF ParticipantOK, WellFormed, Sending, Announces, Still
<1>2. Underway(q) => Underway(q)'
  BY UnderwayFrame DEF Still, SameTo
<1>3. Quiet(q) => Quiet(q)'
  BY DEF Quiet, Still, SameTo
<1>4. Writing(q) => Writing(q)'
  BY <1>2 DEF Writing, Still, SameTo
<1>5. OnItsWay(q) => OnItsWay(q)'
  BY <1>1, <1>2 DEF OnItsWay, Still, SameTo
<1>6. InHand(q) => InHand(q)'
  BY <1>1 DEF InHand, Still, SameTo
<1>7. Answered(q) => Answered(q)'
  BY DEF Answered, Still, SameTo
<1>8. Abandoned(q) => Abandoned(q)'
  BY DEF Abandoned, Still, SameTo
<1>9. InStep(q)'
  BY <1>3, <1>4, <1>5, <1>6, <1>7, <1>8 DEF InStep, ParticipantOK, Still
<1>10. QED BY <1>1, <1>9 DEF ParticipantOK

\* The controller ends, and was not in the middle of a record of q.
LEMMA Finished ==
    ASSUME NEW q \in P, ParticipantOK(q), Still(q), cpc' = "done", ~Reading(q)
    PROVE  ParticipantOK(q)'
<1>1. WellFormed(q)' /\ Sending(q)' /\ (Announces(q)' <=> Announces(q))
  BY DEF ParticipantOK, WellFormed, Sending, Announces, Still
<1>2. ~HoldsTurn(q)' /\ ~Reading(q)'
  BY DEF HoldsTurn, Reading
<1>3. Underway(q) => Underway(q)'
  BY <1>2, UnderwayFrame DEF Still
<1>4. Quiet(q) => Quiet(q)'
  BY <1>2 DEF Quiet, Still
<1>5. Writing(q) => Writing(q)'
  BY <1>2, <1>3 DEF Writing, Still
<1>6. OnItsWay(q) => OnItsWay(q)'
  BY <1>1, <1>2, <1>3 DEF OnItsWay, Still
<1>7. Answered(q) => Answered(q)'
  BY <1>2 DEF Answered, Still
<1>8. InHand(q) \/ Abandoned(q) => Abandoned(q)'
  <2>1. Len(said[q]) \in Nat /\ pos[q] \in Nat
    BY LenSeq DEF ParticipantOK, WellFormed
  <2>2. InHand(q) \/ Abandoned(q) => go[q] = <<>> /\ Len(said[q]) <= pos[q] + 1
    BY <2>1 DEF InHand, Abandoned
  <2>3. QED BY <2>2 DEF Abandoned, Still
<1>9. InStep(q)'
  BY <1>4, <1>5, <1>6, <1>7, <1>8 DEF InStep, ParticipantOK, Still
<1>10. QED BY <1>1, <1>9 DEF ParticipantOK

\* A participant that has exited: all it said is accounted for but the last event.
LEMMA ExitedOK ==
    ASSUME NEW q \in P, WellFormed(q)', pc'[q] = "exited", Len(said'[q]) <= pos'[q] + 1
    PROVE  ParticipantOK(q)'
BY DEF ParticipantOK, Sending, InStep

LEMMA SaidBound ==
    ASSUME NEW q \in P, ParticipantOK(q)
    PROVE  /\ Len(said[q]) \in Nat /\ pos[q] \in Nat /\ Len(said[q]) <= pos[q] + 1
           /\ pc[q] \in {"openReady", "openGo", "run", "write"} => Len(said[q]) = pos[q]
<1>1. Len(said[q]) \in Nat /\ pos[q] \in Nat
  BY LenSeq DEF ParticipantOK, WellFormed
<1>2. pc[q] \in {"openReady", "openGo", "run", "write"} => Len(said[q]) = pos[q]
  BY DEF ParticipantOK, InStep, Quiet, Writing
<1>3. OnItsWay(q) \/ InHand(q) \/ Answered(q) \/ Abandoned(q) => Len(said[q]) <= pos[q] + 1
  BY <1>1 DEF OnItsWay, InHand, Answered, Abandoned
<1>4. pc[q] \in {"ack", "exited"} => Len(said[q]) <= pos[q] + 1
  BY <1>3 DEF ParticipantOK, InStep
<1>5. pc[q] \in {"openReady", "openGo", "run", "write", "ack", "exited"}
  BY DEF ParticipantOK, WellFormed
<1>6. QED BY <1>1, <1>2, <1>4, <1>5

-----------------------------------------------------------------------------
(* The steps of a participant.                                             *)

\* A step of p is nobody else's.
LEMMA MovesOthers ==
    ASSUME Domains, NEW p \in P, Moves(p) \/ Kill(p)
    PROVE  /\ cpc' = cpc /\ ci' = ci /\ rd' = rd /\ skip' = skip /\ pos' = pos
           /\ Domains' /\ torn \subseteq torn'
           /\ \A q \in P : q # p => Still(q)
<1>1. CASE \E e \in Events : Emit(p, e)
  BY <1>1 DEF Emit, Domains, Still, controller, history
<1>2. CASE WriteBlocking(p)
  BY <1>2 DEF WriteBlocking, Said, Domains, Still, controller
<1>3. CASE WriteWhole(p)
  BY <1>3 DEF WriteWhole, Said, Domains, Still, controller
<1>4. CASE WriteTorn(p)
  BY <1>4 DEF WriteTorn, NextRecord, Said, Domains, Still, controller
<1>5. CASE AckGo(p)
  BY <1>5 DEF AckGo, NextRecord, Domains, Still, controller, history
<1>6. CASE AckStop(p)
  BY <1>6 DEF AckStop, Exit, AtExit, Domains, Still, controller, history
<1>7. CASE HangUp(p)
  BY <1>7 DEF HangUp, Exit, Domains, Still, controller, history
<1>8. CASE Finish(p)
  BY <1>8 DEF Finish, Exit, AtExit, Domains, Still, controller
<1>9. CASE Kill(p)
  BY <1>9 DEF Kill, Exit, Domains, Still, controller
<1>10. QED BY <1>1, <1>2, <1>3, <1>4, <1>5, <1>6, <1>7, <1>8, <1>9 DEF Moves

\* ... so the controller is to everyone what it was.
LEMMA ControllerStill ==
    ASSUME cpc' = cpc, ci' = ci, rd' = rd, skip' = skip, NEW q \in P
    PROVE  SameTo(q) /\ Taken(q)' = Taken(q)
BY DEF SameTo, HoldsTurn, Reading, Taken

\* A participant that ends, after an answer or without one.
LEMMA ExitStep ==
    ASSUME NEW p \in P, ParticipantOK(p), Domains, Exit(p), AtExit(p) \/ ready' = ready,
           go'[p] = go[p] \/ (go[p] # <<>> /\ go'[p] = Tail(go[p])),
           pos' = pos, IsSeq(said'[p]), Len(said'[p]) <= pos[p] + 1
    PROVE  ParticipantOK(p)'
<1>1. IsSeq(ready[p]) /\ IsSeq(go[p]) /\ pos[p] \in Nat
  BY DEF ParticipantOK, WellFormed
<1>2. pc'[p] = "exited" /\ todo'[p] = <<>> /\ out'[p] = <<>>
  BY DEF Exit, Domains
<1>3. IsSeq(ready'[p])
  <2> DEFINE x == Tokens(Wire(END, 0))[1]
  <2>1. IsSeq(Append(ready[p], x))
    BY <1>1, AppendSeq
  <2>2. ready'[p] = ready[p] \/ ready'[p] = Append(ready[p], x)
    BY DEF AtExit, Domains
  <2>3. QED BY <1>1, <2>1, <2>2
<1>4. IsSeq(go'[p])
  BY <1>1, TailSeq
<1>5. WellFormed(p)'
  BY <1>1, <1>2, <1>3, <1>4, ShortSeq DEF WellFormed
<1>6. QED BY <1>2, <1>5, ExitedOK

LEMMA EmitStep ==
    ASSUME NEW p \in P, ParticipantOK(p), Domains, NEW e \in Events, Emit(p, e)
    PROVE  ParticipantOK(p)'
<1> DEFINE table == IF Known(p, e.name) THEN interned[p] ELSE Append(interned[p], e.name)
           id    == IF e.name = NoName THEN 0 ELSE Id(p, e.name, table)
           def   == NameDef(id, e.name)
           rec   == Wire(e, id)
<1>1. /\ todo'[p] = IF Known(p, e.name) THEN <<rec>> ELSE <<def, rec>>
      /\ out'[p] = Tokens((IF Known(p, e.name) THEN <<rec>> ELSE <<def, rec>>)[1])
      /\ pc'[p] = "write" /\ pc[p] = "run"
      /\ ready'[p] = ready[p] /\ go'[p] = go[p] /\ said'[p] = said[p] /\ pos'[p] = pos[p]
      /\ cpc' = cpc /\ ci' = ci /\ rd' = rd /\ skip' = skip
  BY DEF Emit, Domains, controller, history
<1>2. /\ rec.len \in Nat /\ rec.kind # "NAME_DEF"
      /\ def.len \in Nat /\ def.kind = "NAME_DEF"
  BY SyncAssumption DEF Wire, NameDef
<1> HIDE DEF def, rec, id, table
<1> DEFINE r == IF Known(p, e.name) THEN rec ELSE def
<1>3. /\ IsSeq(todo'[p]) /\ todo'[p] # <<>> /\ Head(todo'[p]) = r /\ out'[p] = Tokens(r)
      /\ r.len \in Nat
      /\ r.kind = "NAME_DEF" => Len(todo'[p]) = 2 /\ todo'[p][2].len \in Nat
                                /\ todo'[p][2].kind # "NAME_DEF"
      /\ r.kind # "NAME_DEF" => Len(todo'[p]) = 1
  <2>1. CASE Known(p, e.name)
    BY <1>1, <1>2, <2>1, ShortSeq
  <2>2. CASE ~Known(p, e.name)
    BY <1>1, <1>2, <2>2, ShortSeq
  <2>3. QED BY <2>1, <2>2
<1> HIDE DEF r
<1>4. IsSeq(out'[p]) /\ out'[p] # <<>> /\ Rest(r, 0, <<>>, out'[p])
  BY <1>3, RestNew
<1>5. Quiet(p) /\ IsSeq(ready[p]) /\ IsSeq(go[p]) /\ IsSeq(said[p]) /\ pos[p] \in Nat
  BY <1>1 DEF ParticipantOK, InStep, WellFormed
<1>6. ready'[p] = <<>> /\ go'[p] = <<>> /\ ~HoldsTurn(p)' /\ ~Reading(p)' /\ Taken(p)' = 0
      /\ Len(said'[p]) = pos'[p]
  BY <1>1, <1>5, ControllerStill DEF Quiet, SameTo, Taken
<1>7. Underway(p)'
  BY <1>3, <1>4, <1>6 DEF Underway
<1>8. Writing(p)'
  BY <1>4, <1>6, <1>7 DEF Writing
<1>9. WellFormed(p)'
  BY <1>1, <1>3, <1>4, <1>5 DEF WellFormed
<1>10. Sending(p)'
  BY <1>3 DEF Sending, Announces
<1>11. QED BY <1>1, <1>8, <1>9, <1>10 DEF ParticipantOK, InStep

LEMMA TakenNat == ASSUME NEW p \in P, Underway(p) PROVE Taken(p) \in Nat
BY DEF Underway, Taken

LEMMA SaidStep ==
    ASSUME NEW p \in P, ParticipantOK(p), Domains, todo[p] # <<>>, Said(p)
    PROVE  /\ IsSeq(said'[p])
           /\ Len(said'[p]) = Len(said[p]) + (IF Announces(p) THEN 0 ELSE 1)
<1> DEFINE s == said[p]
           x == EventOf(p, todo[p][1])
<1>1. IsSeq(s) /\ IsSeq(todo[p])
  BY DEF ParticipantOK, WellFormed
<1>2. Announces(p) <=> todo[p][1].kind = "NAME_DEF"
  BY <1>1, TailSeq DEF Announces
<1>3. said'[p] = IF Announces(p) THEN s ELSE Append(s, x)
  BY <1>2 DEF Said, Domains
<1>4. Len(s) \in Nat /\ IsSeq(Append(s, x)) /\ Len(Append(s, x)) = Len(s) + 1
  BY <1>1, LenSeq, AppendSeq
<1> HIDE DEF x
<1>5. CASE Announces(p)
  BY <1>1, <1>3, <1>4, <1>5
<1>6. CASE ~Announces(p)
  BY <1>3, <1>4, <1>6
<1>7. QED BY <1>5, <1>6

\* The whole record is written: p waits for its answer.
LEMMA WrittenStep ==
    ASSUME NEW p \in P, ParticipantOK(p), pc[p] = "write", Domains,
           cpc' = cpc, ci' = ci, rd' = rd, skip' = skip, pos' = pos,
           todo'[p] = todo[p], go'[p] = go[p], Said(p), pc'[p] = "ack",
           IsSeq(ready'[p]), out'[p] = <<>>,
           Rest(Head(todo[p]), Taken(p), ready'[p], <<>>)
    PROVE  ParticipantOK(p)'
<1>1. Writing(p) /\ Sending(p) /\ WellFormed(p)
  BY DEF ParticipantOK, InStep
<1>2. SameTo(p) /\ Taken(p)' = Taken(p) /\ (Announces(p)' <=> Announces(p))
  BY ControllerStill DEF Announces
<1>3. todo[p] # <<>>
  BY <1>1 DEF Sending
<1>4. IsSeq(said'[p]) /\ Len(said'[p]) = Len(said[p]) + (IF Announces(p) THEN 0 ELSE 1)
  BY <1>3, SaidStep
<1>5. Underway(p)'
  BY <1>1, <1>2 DEF Underway, Writing, SameTo
<1>6. OnItsWay(p)'
  BY <1>1, <1>2, <1>4, <1>5 DEF OnItsWay, Writing, SameTo
<1>7. WellFormed(p)'
  BY <1>1, <1>4, ShortSeq DEF WellFormed
<1>8. Sending(p)'
  BY <1>1, <1>2 DEF Sending
<1>9. QED BY <1>6, <1>7, <1>8 DEF ParticipantOK, InStep

LEMMA WriteWholeStep ==
    ASSUME NEW p \in P, ParticipantOK(p), Domains, WriteWhole(p)
    PROVE  ParticipantOK(p)'
<1>1. /\ pc[p] = "write" /\ todo'[p] = todo[p] /\ go'[p] = go[p] /\ Said(p)
      /\ pc'[p] = "ack" /\ ready'[p] = ready[p] \o out[p] /\ out'[p] = <<>>
      /\ cpc' = cpc /\ ci' = ci /\ rd' = rd /\ skip' = skip /\ pos' = pos
  BY DEF WriteWhole, Domains, controller
<1>2. Writing(p) /\ Sending(p) /\ IsSeq(ready[p]) /\ IsSeq(out[p])
  BY <1>1 DEF ParticipantOK, InStep, WellFormed
<1>3. Head(todo[p]).len \in Nat /\ Taken(p) \in Nat
      /\ Rest(Head(todo[p]), Taken(p), ready[p], out[p])
  BY <1>1, <1>2, TakenNat DEF Sending, Writing, Underway
<1>4. Rest(Head(todo[p]), Taken(p), ready[p] \o out[p], <<>>)
  BY <1>2, <1>3, RestWhole
<1>5. IsSeq(ready'[p])
  BY <1>1, <1>2, ConcatSeq
<1>6. QED BY <1>1, <1>4, <1>5, WrittenStep

LEMMA WriteBlockingStep ==
    ASSUME NEW p \in P, ParticipantOK(p), Domains, WriteBlocking(p)
    PROVE  ParticipantOK(p)'
<1>1. /\ pc[p] = "write" /\ todo'[p] = todo[p] /\ go'[p] = go[p]
      /\ ready'[p] = Append(ready[p], Head(out[p])) /\ out'[p] = Tail(out[p])
      /\ cpc' = cpc /\ ci' = ci /\ rd' = rd /\ skip' = skip /\ pos' = pos
  BY DEF WriteBlocking, Domains, controller
<1>2. IF Len(out[p]) = 1 THEN pc'[p] = "ack" /\ Said(p)
                         ELSE pc'[p] = "write" /\ said'[p] = said[p]
  BY <1>1 DEF WriteBlocking, Domains
<1>3. Writing(p) /\ Sending(p) /\ WellFormed(p)
  BY <1>1 DEF ParticipantOK, InStep
<1>4. Head(todo[p]).len \in Nat /\ Taken(p) \in Nat
      /\ Rest(Head(todo[p]), Taken(p), ready[p], out[p])
      /\ IsSeq(ready[p]) /\ IsSeq(out[p]) /\ out[p] # <<>>
  BY <1>1, <1>3, TakenNat DEF Sending, Writing, Underway, WellFormed
<1>5. Rest(Head(todo[p]), Taken(p), ready'[p], out'[p])
  BY <1>1, <1>4, RestWritten
<1>6. IsSeq(ready'[p]) /\ IsSeq(out'[p]) /\ Len(out'[p]) = Len(out[p]) - 1
  BY <1>1, <1>4, AppendSeq, TailSeq
<1>7. Len(out[p]) \in Nat /\ (out'[p] = <<>> <=> Len(out'[p]) = 0)
  BY <1>4, <1>6, LenSeq
<1>8. CASE Len(out[p]) = 1
  <2>1. out'[p] = <<>>
    BY <1>6, <1>7, <1>8
  <2>2. QED BY <1>1, <1>2, <1>5, <1>6, <1>8, <2>1, WrittenStep
<1>9. CASE Len(out[p]) # 1
  <2>1. out'[p] # <<>>
    BY <1>6, <1>7, <1>9
  <2>2. SameTo(p) /\ Taken(p)' = Taken(p) /\ (Announces(p)' <=> Announces(p))
    BY <1>1, ControllerStill DEF Announces
  <2>3. Underway(p)'
    BY <1>1, <1>3, <1>5, <2>2 DEF Underway, Writing, SameTo
  <2>4. Writing(p)'
    BY <1>1, <1>2, <1>3, <1>9, <2>1, <2>2, <2>3 DEF Writing, SameTo
  <2>5. WellFormed(p)'
    BY <1>1, <1>2, <1>3, <1>6, <1>9 DEF WellFormed
  <2>6. Sending(p)'
    BY <1>1, <1>3, <2>2 DEF Sending
  <2>7. QED BY <1>2, <1>9, <2>4, <2>5, <2>6 DEF ParticipantOK, InStep
<1>10. QED BY <1>8, <1>9

\* 'G': the next record, or the program goes on.
LEMMA AckGoStep ==
    ASSUME NEW p \in P, ParticipantOK(p), Domains, AckGo(p)
    PROVE  ParticipantOK(p)'
<1>1. /\ pc[p] = "ack" /\ go[p] # <<>> /\ Head(go[p]) = "G" /\ go'[p] = Tail(go[p])
      /\ ready'[p] = ready[p] /\ said'[p] = said[p] /\ pos' = pos
      /\ cpc' = cpc /\ ci' = ci /\ rd' = rd /\ skip' = skip
  BY DEF AckGo, Domains, controller, history
<1>2. /\ todo'[p] = Tail(todo[p])
      /\ Tail(todo[p]) = <<>> => pc'[p] = "run" /\ out'[p] = <<>>
      /\ Tail(todo[p]) # <<>> => pc'[p] = "write" /\ out'[p] = Tokens(Tail(todo[p])[1])
  BY DEF AckGo, NextRecord, Domains
<1>3. Answered(p) /\ Sending(p) /\ WellFormed(p)
  BY <1>1 DEF ParticipantOK, InStep, OnItsWay, InHand, Abandoned
<1>4. SameTo(p)
  BY <1>1, ControllerStill
<1>5. IsSeq(go[p]) /\ IsSeq(todo[p]) /\ todo[p] # <<>>
  BY <1>1, <1>3 DEF WellFormed, Sending
<1>6. Head(go[p]) = go[p][1] /\ go'[p] = <<>> /\ IsSeq(go'[p])
  <2>1. Len(go[p]) = 1 /\ Len(Tail(go[p])) = Len(go[p]) - 1 /\ IsSeq(Tail(go[p]))
        /\ Head(go[p]) = go[p][1]
    BY <1>1, <1>3, <1>5, TailSeq DEF Answered
  <2>2. Len(Tail(go[p])) = 0
    BY <2>1
  <2>3. QED BY <1>1, <2>1, <2>2, LenSeq
<1>7. /\ ready'[p] = <<>> /\ ~HoldsTurn(p)' /\ ~Reading(p)' /\ Len(said'[p]) = pos'[p]
  BY <1>1, <1>3, <1>4, <1>6 DEF Answered, SameTo
<1>8. IsSeq(Tail(todo[p])) /\ Len(Tail(todo[p])) = Len(todo[p]) - 1
      /\ \A i \in 1 .. Len(todo[p]) - 1 : Tail(todo[p])[i] = todo[p][i + 1]
  BY <1>5, TailSeq
<1>9. CASE Tail(todo[p]) = <<>>
  <2>1. Quiet(p)'
    BY <1>6, <1>7 DEF Quiet
  <2>2. WellFormed(p)'
    BY <1>1, <1>2, <1>3, <1>6, <1>8, <1>9, ShortSeq DEF WellFormed
  <2>3. QED BY <1>2, <1>9, <2>1, <2>2 DEF ParticipantOK, InStep, Sending
<1>10. CASE Tail(todo[p]) # <<>>
  <2> DEFINE t == Tail(todo[p])
             r == t[1]
  <2>1. Announces(p) /\ Len(todo[p]) = 2
    <3>1. Len(t) # 0
      BY <1>8, <1>10, LenSeq
    <3>2. QED BY <1>1, <1>3, <1>8, <3>1 DEF Sending
  <2>2. Len(t) = 1 /\ r = todo[p][2] /\ Head(t) = r
    BY <1>8, <1>10, <2>1, TailSeq
  <2>3. r.len \in Nat /\ r.kind # "NAME_DEF"
    BY <1>1, <1>3, <2>1, <2>2 DEF Sending
  <2>4. todo'[p] = t /\ pc'[p] = "write" /\ out'[p] = Tokens(r)
    BY <1>2, <1>10
  <2> HIDE DEF t
  <2>5. Sending(p)'
    BY <1>10, <2>2, <2>3, <2>4 DEF Sending, Announces, t
  <2> HIDE DEF r
  <2>6. Rest(r, 0, <<>>, out'[p]) /\ IsSeq(out'[p]) /\ out'[p] # <<>>
    BY <2>3, <2>4, RestNew
  <2>7. Underway(p)'
    BY <1>7, <2>2, <2>4, <2>6 DEF Underway, Taken
  <2>8. Writing(p)'
    BY <1>6, <1>7, <2>6, <2>7 DEF Writing
  <2>9. WellFormed(p)'
    BY <1>1, <1>3, <1>6, <1>8, <2>4, <2>6 DEF WellFormed, t
  <2>10. QED BY <2>4, <2>5, <2>8, <2>9 DEF ParticipantOK, InStep
<1>11. QED BY <1>9, <1>10

LEMMA MovesStep ==
    ASSUME SyncInv, NEW p \in P, Moves(p) \/ Kill(p)
    PROVE  SyncInv'
<1>1. /\ cpc' = cpc /\ ci' = ci /\ rd' = rd /\ skip' = skip /\ pos' = pos
      /\ Domains' /\ torn \subseteq torn'
      /\ \A q \in P : q # p => Still(q)
  BY MovesOthers DEF SyncInv
<1>2. ControllerOK'
  BY <1>1 DEF SyncInv, ControllerOK
<1>3. ASSUME NEW q \in P \ torn, q # p PROVE ParticipantOK(q)'
  BY <1>1, <1>3, ControllerStill, Frame DEF SyncInv
<1>4. ASSUME p \in P \ torn' PROVE ParticipantOK(p)'
  <2>1. ParticipantOK(p) /\ Domains
    BY <1>1, <1>4 DEF SyncInv
  <2>2. CASE \E e \in Events : Emit(p, e)
    BY <2>1, <2>2, EmitStep
  <2>3. CASE WriteBlocking(p)
    BY <2>1, <2>3, WriteBlockingStep
  <2>4. CASE WriteWhole(p)
    BY <2>1, <2>4, WriteWholeStep
  <2>5. CASE WriteTorn(p)
    BY <1>4, <2>5 DEF WriteTorn
  <2>6. CASE AckGo(p)
    BY <2>1, <2>6, AckGoStep
  <2>7. IsSeq(said[p]) /\ Len(said[p]) \in Nat /\ pos[p] \in Nat /\ Len(said[p]) <= pos[p] + 1
        /\ (pc[p] = "run" => Len(said[p]) = pos[p])
    BY <2>1, SaidBound DEF ParticipantOK, WellFormed
  <2>8. CASE AckStop(p)
    <3>1. Exit(p) /\ AtExit(p) /\ go[p] # <<>> /\ go'[p] = Tail(go[p]) /\ said' = said
      BY <2>1, <2>8 DEF AckStop, history, Domains
    <3>2. QED BY <1>1, <2>1, <2>7, <3>1, ExitStep
  <2>9. CASE HangUp(p)
    <3>1. Exit(p) /\ ready' = ready /\ go' = go /\ said' = said
      BY <2>9 DEF HangUp, history
    <3>2. QED BY <1>1, <2>1, <2>7, <3>1, ExitStep
  <2>10. CASE Finish(p)
    <3> DEFINE x == EventOf(p, Wire(END, 0))
    <3>1. pc[p] = "run" /\ Exit(p) /\ AtExit(p) /\ go' = go /\ said'[p] = Append(said[p], x)
      BY <2>1, <2>10 DEF Finish, Domains
    <3>2. IsSeq(Append(said[p], x)) /\ Len(Append(said[p], x)) = Len(said[p]) + 1
      BY <2>7, AppendSeq
    <3>3. Len(said'[p]) <= pos[p] + 1
      BY <2>7, <3>1, <3>2
    <3>4. QED BY <1>1, <2>1, <3>1, <3>2, <3>3, ExitStep
  <2>11. CASE Kill(p)
    <3>1. Exit(p) /\ ready' = ready /\ go' = go /\ said' = said
      BY <2>11 DEF Kill
    <3>2. QED BY <1>1, <2>1, <2>7, <3>1, ExitStep
  <2>12. QED BY <2>2, <2>3, <2>4, <2>5, <2>6, <2>8, <2>9, <2>10, <2>11 DEF Moves
<1>5. \A q \in P \ torn' : ParticipantOK(q)'
  <2>1. ASSUME NEW q \in P \ torn' PROVE ParticipantOK(q)'
    BY <1>1, <1>3, <1>4
  <2>2. QED BY <2>1
<1>6. QED BY <1>1, <1>2, <1>5 DEF SyncInv

-----------------------------------------------------------------------------
(* The steps of the controller.                                            *)

\* An answer is one byte for whoever is spoken to, and for nobody else.
LEMMA TellStep ==
    ASSUME Domains, ci \in P, NEW byte, Tell(byte), IsSeq(go[ci]), go[ci] = <<>>
    PROVE  /\ DOMAIN go' = P /\ \A q \in P : q # ci => go'[q] = go[q]
           /\ IsSeq(go'[ci])
           /\ Gone(ci) => go'[ci] = <<>>
           /\ ~Gone(ci) => go'[ci] = <<byte>> /\ Len(go'[ci]) = 1 /\ go'[ci][1] = byte
<1>1. go' = IF Gone(ci) THEN go ELSE [go EXCEPT ![ci] = Append(@, byte)]
  BY DEF Tell
<1>2. DOMAIN go' = P /\ \A q \in P : q # ci => go'[q] = go[q]
  BY <1>1 DEF Domains
<1>3. Append(<<>>, byte) = <<byte>> /\ IsSeq(<<byte>>) /\ Len(<<byte>>) = 1 /\ <<byte>>[1] = byte
  BY ShortSeq
<1>4. ~Gone(ci) => go'[ci] = <<byte>>
  BY <1>1, <1>3 DEF Domains
<1>5. Gone(ci) => go'[ci] = go[ci]
  BY <1>1
<1>6. QED BY <1>2, <1>3, <1>4, <1>5

\* Whatever the byte, and whatever is in the FIFO already, the others are left alone.
LEMMA TellOthers ==
    ASSUME Domains, NEW byte, Tell(byte)
    PROVE  DOMAIN go' = P /\ \A q \in P : q # ci => go'[q] = go[q]
BY DEF Tell, Domains

LEMMA AfterReadStep ==
    ASSUME ControllerOK, cpc \in {"header", "value"}, AfterRead, skip'.on = skip.on,
           DOMAIN skip' = DOMAIN skip
    PROVE  /\ ControllerOK' /\ cpc' \in {"header", "judge", "skip", "recheck"}
           /\ \A q \in P : q # ci => SameTo(q)
           /\ \A q \in P : q = ci => HoldsTurn(q)'
<1>1. N \in Nat \ {0} /\ ci \in 1 .. N /\ skip.on \in BOOLEAN
  BY SyncAssumption DEF ControllerOK, P
<1>2. /\ ~skip.on /\ ci < N => cpc' = "header" /\ ci' = ci + 1
      /\ ~skip.on /\ ~(ci < N) => cpc' = "judge" /\ ci' = 1 /\ ci = N
      /\ skip.on => \/ cpc' = "skip" /\ ci' = ci + 1 /\ ci < N
                    \/ cpc' = "recheck" /\ ci' = 1
  BY <1>1 DEF AfterRead
<1>3. ControllerOK' /\ cpc' \in {"header", "judge", "skip", "recheck"}
  BY <1>1, <1>2 DEF ControllerOK, P
<1>4. ASSUME NEW q \in P, q # ci PROVE SameTo(q)
  <2>1. ~Reading(q) /\ ~Reading(q)' /\ cpc # "done" /\ cpc # "go" /\ cpc' # "go"
    BY <1>3, <1>4 DEF Reading
  <2>2. HoldsTurn(q)' <=> HoldsTurn(q)
    <3>1. q \in 1 .. N
      BY DEF P
    <3>2. CASE skip.on
      BY <1>2, <1>4, <3>2 DEF HoldsTurn
    <3>3. CASE ~skip.on /\ ci < N
      BY <1>1, <1>2, <1>4, <3>1, <3>3 DEF HoldsTurn
    <3>4. CASE ~skip.on /\ ~(ci < N)
      BY <1>1, <1>2, <1>4, <3>1, <3>4 DEF HoldsTurn
    <3>5. QED BY <1>1, <3>2, <3>3, <3>4
  <2>3. QED BY <2>1, <2>2 DEF SameTo
<1>5. ASSUME NEW q \in P, q = ci PROVE HoldsTurn(q)'
  <2>1. CASE skip.on
    BY <1>2, <2>1 DEF HoldsTurn
  <2>2. CASE ~skip.on /\ ci < N
    BY <1>1, <1>2, <1>5, <2>2 DEF HoldsTurn
  <2>3. CASE ~skip.on /\ ~(ci < N)
    BY <1>2, <2>3 DEF HoldsTurn
  <2>4. QED BY <1>1, <2>1, <2>2, <2>3
<1>6. QED BY <1>3, <1>4, <1>5

\* A whole record was read: what it means for the others ...
LEMMA ReceiveOthers ==
    ASSUME ControllerOK, Domains, cpc \in {"header", "value"}, NEW r, NEW val, Receive(r, val)
    PROVE  /\ ControllerOK' /\ DOMAIN go' = P
           /\ \A q \in P : q # ci => SameTo(q) /\ go'[q] = go[q]
<1>1. CASE r.kind = "NAME_DEF" /\ ~Gone(ci)
  <2>1. cpc' = "header" /\ ci' = ci /\ skip' = skip /\ Tell("G")
    BY <1>1 DEF Receive
  <2>2. ControllerOK'
    BY <2>1 DEF ControllerOK
  <2>3. ASSUME NEW q \in P, q # ci PROVE SameTo(q)
    BY <2>1, <2>3 DEF SameTo, HoldsTurn, Reading
  <2>4. QED BY <2>1, <2>2, <2>3, TellOthers
<1>2. CASE r.kind = "NAME_DEF" /\ Gone(ci)
  BY <1>2, AfterReadStep, TellOthers DEF Receive
<1>3. CASE r.kind # "NAME_DEF"
  <2>1. AfterRead /\ go' = go
    BY <1>3 DEF Receive
  <2>2. skip'.on = skip.on /\ DOMAIN skip' = DOMAIN skip
    BY <1>3 DEF Receive, ControllerOK
  <2>3. QED BY <2>1, <2>2, AfterReadStep DEF Domains
<1>4. QED BY <1>1, <1>2, <1>3

\* ... and for the one that sent it: it is answered at once, or the controller has its event.
LEMMA ReceiveOwn ==
    ASSUME ControllerOK, Domains, cpc \in {"header", "value"}, ParticipantOK(ci),
           pc[ci] = "ack", OnItsWay(ci), NEW val, Receive(Head(todo[ci]), val),
           NEW p \in P, p = ci,
           pc' = pc, todo' = todo, out' = out, said' = said, pos' = pos,
           ready'[p] = <<>>
    PROVE  ParticipantOK(p)'
<1> DEFINE r == Head(todo[ci])
<1>1. WellFormed(p) /\ Sending(p) /\ OnItsWay(p) /\ (Announces(p) <=> r.kind = "NAME_DEF")
      /\ (Announces(p)' <=> Announces(p))
  BY DEF ParticipantOK, Announces
<1>2. Sending(p)'
  BY <1>1 DEF Sending
<1>3. IsSeq(ready'[p])
  BY ShortSeq
<1>4. CASE r.kind = "NAME_DEF"
  <2>1. Tell("G") /\ cpc' = "header" /\ ci' = ci /\ skip' = skip
    BY <1>4 DEF Receive, Gone
  <2>2. IsSeq(go'[p]) /\ Len(go'[p]) = 1
    BY <1>1, <2>1, TellStep DEF WellFormed, OnItsWay, Gone
  <2>3. ~HoldsTurn(p)' /\ ~Reading(p)'
    BY <1>1, <2>1 DEF HoldsTurn, Reading, OnItsWay
  <2>4. Len(said'[p]) = pos'[p] /\ pos[p] \in Nat
    BY <1>1, <1>4 DEF OnItsWay, WellFormed
  <2>5. Answered(p)'
    BY <2>2, <2>3, <2>4 DEF Answered
  <2>6. WellFormed(p)'
    BY <1>1, <1>3, <2>2 DEF WellFormed
  <2>7. QED BY <1>2, <2>5, <2>6 DEF ParticipantOK, InStep
<1>5. CASE r.kind # "NAME_DEF"
  <2>1. AfterRead /\ go' = go
    BY <1>5 DEF Receive
  <2>2. skip'.on = skip.on /\ DOMAIN skip' = DOMAIN skip
    BY <1>5 DEF Receive, ControllerOK
  <2>3. HoldsTurn(p)' /\ cpc' # "go"
    BY <2>1, <2>2, AfterReadStep
  <2>4. InHand(p)'
    BY <1>1, <1>5, <2>1, <2>3 DEF InHand, OnItsWay
  <2>5. WellFormed(p)'
    BY <1>1, <1>3, <2>1 DEF WellFormed
  <2>6. QED BY <1>2, <2>4, <2>5 DEF ParticipantOK, InStep
<1>6. QED BY <1>4, <1>5

\* Who is being read and has bytes in its FIFO is sending a record, or has exited.
LEMMA ReadFrom ==
    ASSUME NEW p \in P, ParticipantOK(p), p = ci, cpc \in {"header", "value"}, ready[p] # <<>>
    PROVE  \/ pc[p] = "exited"
           \/ pc[p] = "write" /\ Writing(p) /\ Underway(p) /\ out[p] # <<>>
           \/ pc[p] = "ack" /\ OnItsWay(p) /\ Underway(p)
<1>1. ~HoldsTurn(p)
  <2>1. ~(p < ci)
    BY DEF P
  <2>2. QED BY <2>1 DEF HoldsTurn
<1>2. QED
  BY <1>1 DEF ParticipantOK, WellFormed, InStep, Quiet, Writing, OnItsWay, InHand, Answered,
              Abandoned

\* A piece of the record was read and there is more of it to come.
LEMMA PieceStep ==
    ASSUME NEW p \in P, ParticipantOK(p), p = ci, cpc \in {"header", "value"},
           (pc[p] = "write" /\ Writing(p)) \/ (pc[p] = "ack" /\ OnItsWay(p)),
           cpc' = "value", ci' = ci, skip' = skip, go' = go,
           pc' = pc, todo' = todo, out' = out, said' = said, pos' = pos, IsSeq(ready'[p]),
           rd'.rec = Head(todo[p]), rd'.got \in Nat, rd'.got < Head(todo[p]).len,
           Rest(Head(todo[p]), rd'.got + 1, ready'[p], out[p])
    PROVE  ParticipantOK(p)'
<1>1. WellFormed(p)' /\ Sending(p)' /\ (Announces(p)' <=> Announces(p))
  BY DEF ParticipantOK, WellFormed, Sending, Announces
<1>2. Reading(p)' /\ Taken(p)' = rd'.got + 1
  BY DEF Reading, Taken
<1>3. ~HoldsTurn(p)'
  <2>1. ~(p < ci)
    BY DEF P
  <2>2. QED BY <2>1 DEF HoldsTurn
<1>4. Underway(p)'
  BY <1>2 DEF Underway
<1>5. CASE pc[p] = "write" /\ Writing(p)
  BY <1>1, <1>3, <1>4, <1>5 DEF Writing, ParticipantOK, InStep
<1>6. CASE pc[p] = "ack" /\ OnItsWay(p)
  BY <1>1, <1>3, <1>4, <1>6 DEF OnItsWay, ParticipantOK, InStep
<1>7. QED BY <1>5, <1>6

LEMMA ReceiveGone == ASSUME NEW r, NEW val, Receive(r, val), Gone(ci) PROVE go' = go
BY DEF Receive, Tell

\* Nothing but the FIFO of ci, and an answer to it, changes when the controller reads.
LEMMA ReadRest ==
    ASSUME SyncInv, cpc \in {"header", "value"}, pc' = pc, todo' = todo, out' = out, said' = said,
           pos' = pos, torn' = torn, ready' = [ready EXCEPT ![ci] = Tail(@)],
           ready[ci] # <<>>,
           \/ \E r, val : Receive(r, val)
           \/ cpc' = "value" /\ ci' = ci /\ skip' = skip /\ go' = go,
           DOMAIN rd' = DOMAIN rd,
           ci \notin torn /\ ParticipantOK(ci) => \A p \in P : p = ci => ParticipantOK(p)'
    PROVE  SyncInv'
<1>1. ControllerOK /\ Domains /\ ci \in P
  BY DEF SyncInv, ControllerOK
<1>2. ControllerOK' /\ DOMAIN go' = P /\ \A q \in P : q # ci => SameTo(q) /\ go'[q] = go[q]
  <2>1. CASE \E r, val : Receive(r, val)
    BY <1>1, <2>1, ReceiveOthers
  <2>2. CASE cpc' = "value" /\ ci' = ci /\ skip' = skip /\ go' = go
    <3>1. ControllerOK'
      BY <1>1, <2>2 DEF ControllerOK
    <3>2. ASSUME NEW q \in P, q # ci PROVE SameTo(q)
      BY <2>2, <3>2 DEF SameTo, HoldsTurn, Reading
    <3>3. QED BY <1>1, <2>2, <3>1, <3>2 DEF Domains
  <2>3. QED BY <2>1, <2>2
<1>3. Domains' /\ \A q \in P : q # ci => ready'[q] = ready[q]
  BY <1>1, <1>2 DEF Domains
<1>4. ASSUME NEW q \in P \ torn', q # ci PROVE ParticipantOK(q)'
  <2>1. Still(q) /\ SameTo(q) /\ ParticipantOK(q)
    BY <1>2, <1>3, <1>4 DEF Still, SyncInv
  <2>2. QED BY <2>1, Frame
<1>5. ASSUME NEW q \in P \ torn', q = ci PROVE ParticipantOK(q)'
  BY <1>1, <1>5 DEF SyncInv
<1>6. \A q \in P \ torn' : ParticipantOK(q)'
  <2>1. ASSUME NEW q \in P \ torn' PROVE ParticipantOK(q)'
    BY <1>4, <1>5
  <2>2. QED BY <2>1
<1>7. QED BY <1>2, <1>3, <1>6 DEF SyncInv

LEMMA ReadHeaderStep == ASSUME SyncInv, ReadHeader PROVE SyncInv'
<1>1. /\ cpc = "header" /\ pc' = pc /\ todo' = todo /\ out' = out /\ said' = said /\ pos' = pos
      /\ torn' = torn /\ ready' = [ready EXCEPT ![ci] = Tail(@)] /\ ready[ci] # <<>>
  BY DEF ReadHeader, controlled, participant
<1>2. PICK r \in IF Head(ready[ci]).at = 0 THEN {Head(ready[ci]).rec} ELSE JunkRecords :
        /\ rd' = [rec |-> r, got |-> 0, whole |-> TRUE]
        /\ IF r.len = 0 THEN Receive(r, r.val)
                        ELSE cpc' = "value" /\ UNCHANGED <<ci, cur, names, skip, go>>
  BY DEF ReadHeader
<1>3. ControllerOK /\ Domains /\ ci \in P
  BY DEF SyncInv, ControllerOK
<1>4. ASSUME ci \notin torn, ParticipantOK(ci), NEW p \in P, p = ci PROVE ParticipantOK(p)'
  <2>1. IsSeq(ready[p]) /\ IsSeq(out[p]) /\ ready'[p] = Tail(ready[p]) /\ IsSeq(Tail(ready[p]))
    BY <1>1, <1>3, <1>4, TailSeq DEF ParticipantOK, WellFormed, Domains
  <2>2. CASE pc[p] = "exited"
    <3>1. go' = go
      BY <1>2, <1>4, <2>2, ReceiveGone DEF Gone
    <3>2. WellFormed(p)'
      BY <1>1, <1>4, <2>1, <3>1 DEF WellFormed, ParticipantOK
    <3>3. Len(said[p]) <= pos[p] + 1
      BY <1>4, SaidBound
    <3>4. QED BY <1>1, <2>2, <3>2, <3>3, ExitedOK
  <2>3. ASSUME pc[p] # "exited" PROVE ParticipantOK(p)'
    <3> DEFINE s == Head(todo[p])
    <3>1. \/ pc[p] = "write" /\ Writing(p) /\ Underway(p) /\ out[p] # <<>>
          \/ pc[p] = "ack" /\ OnItsWay(p) /\ Underway(p)
      BY <1>1, <1>4, <2>3, ReadFrom
    <3>2. s.len \in Nat /\ Rest(s, 0, ready[p], out[p])
      BY <1>1, <1>4, <3>1 DEF Underway, Taken, Reading, ParticipantOK, Sending
    <3>3. Rest(s, 1, Tail(ready[p]), out[p]) /\ Head(ready[p]) = [rec |-> s, at |-> 0]
      <4> HIDE DEF s
      <4>1. Rest(s, 0 + 1, Tail(ready[p]), out[p]) /\ Head(ready[p]) = [rec |-> s, at |-> 0]
        BY <1>1, <1>4, <2>1, <3>2, RestRead
      <4>2. QED BY <4>1
    <3>4. r = s
      BY <1>2, <1>4, <3>3
    <3>5. CASE s.len = 0
      <4>1. Receive(s, s.val)
        BY <1>2, <3>4, <3>5
      <4>2. Len(Tail(ready[p])) \in Nat /\ Len(out[p]) \in Nat
            /\ Len(Tail(ready[p])) + Len(out[p]) + 1 = 0 + 1
        BY <2>1, <3>3, <3>5, LenSeq DEF Rest
      <4>3. Tail(ready[p]) = <<>> /\ out[p] = <<>>
        <5>1. \A a, b \in Nat : a + b + 1 = 0 + 1 => a = 0 /\ b = 0
          OBVIOUS
        <5>2. Len(Tail(ready[p])) = 0 /\ Len(out[p]) = 0
          BY <4>2, <5>1, Zenon
        <5>3. QED BY <2>1, <5>2, LenSeq
      <4>4. pc[ci] = "ack" /\ OnItsWay(ci)
        BY <1>4, <3>1, <4>3
      <4>5. QED BY <1>1, <1>3, <1>4, <2>1, <4>1, <4>3, <4>4, ReceiveOwn
    <3>6. CASE s.len # 0
      <4>1. cpc' = "value" /\ ci' = ci /\ skip' = skip /\ go' = go /\ rd'.rec = s /\ rd'.got = 0
        BY <1>2, <3>4, <3>6
      <4>2. rd'.got \in Nat /\ rd'.got < s.len /\ rd'.got + 1 = 1
        BY <3>2, <3>6, <4>1
      <4>3. Rest(s, rd'.got + 1, ready'[p], out[p]) /\ IsSeq(ready'[p])
        BY <2>1, <3>3, <4>2
      <4>4. (pc[p] = "write" /\ Writing(p)) \/ (pc[p] = "ack" /\ OnItsWay(p))
        BY <3>1
      <4>5. cpc \in {"header", "value"}
        BY <1>1
      <4>6. QED BY <1>1, <1>4, <4>1, <4>2, <4>3, <4>4, <4>5, PieceStep, Zenon
    <3>7. QED BY <3>5, <3>6
  <2>4. QED BY <2>2, <2>3
<1>5. \/ \E q, val : Receive(q, val)
      \/ cpc' = "value" /\ ci' = ci /\ skip' = skip /\ go' = go
  BY <1>2
<1>6. DOMAIN rd' = DOMAIN rd
  BY <1>2, <1>3 DEF Domains
<1>7. QED BY <1>1, <1>4, <1>5, <1>6, ReadRest

LEMMA ReadValueStep == ASSUME SyncInv, ReadValue PROVE SyncInv'
<1>1. /\ cpc = "value" /\ pc' = pc /\ todo' = todo /\ out' = out /\ said' = said /\ pos' = pos
      /\ torn' = torn /\ ready' = [ready EXCEPT ![ci] = Tail(@)] /\ ready[ci] # <<>>
  BY DEF ReadValue, controlled, participant
<1>2. ControllerOK /\ Domains /\ ci \in P
  BY DEF SyncInv, ControllerOK
<1>3. /\ DOMAIN rd' = DOMAIN rd /\ rd'.rec = rd.rec /\ rd'.got = rd.got + 1
      /\ \/ rd.got + 1 = rd.rec.len /\ \E val : Receive(rd.rec, val)
         \/ /\ rd.got + 1 # rd.rec.len
            /\ cpc' = cpc /\ ci' = ci /\ skip' = skip /\ go' = go
  BY <1>2 DEF ReadValue, Domains
<1>4. ASSUME ci \notin torn, ParticipantOK(ci), NEW p \in P, p = ci PROVE ParticipantOK(p)'
  <2>1. IsSeq(ready[p]) /\ IsSeq(out[p]) /\ ready'[p] = Tail(ready[p]) /\ IsSeq(Tail(ready[p]))
    BY <1>1, <1>2, <1>4, TailSeq DEF ParticipantOK, WellFormed, Domains
  <2>2. CASE pc[p] = "exited"
    <3>1. go' = go
      BY <1>3, <1>4, <2>2, ReceiveGone DEF Gone
    <3>2. WellFormed(p)'
      BY <1>1, <1>4, <2>1, <3>1 DEF WellFormed, ParticipantOK
    <3>3. Len(said[p]) <= pos[p] + 1
      BY <1>4, SaidBound
    <3>4. QED BY <1>1, <2>2, <3>2, <3>3, ExitedOK
  <2>3. ASSUME pc[p] # "exited" PROVE ParticipantOK(p)'
    <3> DEFINE s == Head(todo[p])
               k == rd.got + 1
    <3>1. \/ pc[p] = "write" /\ Writing(p) /\ Underway(p) /\ out[p] # <<>>
          \/ pc[p] = "ack" /\ OnItsWay(p) /\ Underway(p)
      BY <1>1, <1>4, <2>3, ReadFrom
    <3>2. /\ s.len \in Nat /\ rd.rec = s /\ rd.got \in Nat /\ rd.got < s.len
          /\ Rest(s, k, ready[p], out[p])
      BY <1>1, <1>4, <3>1 DEF Underway, Taken, Reading, ParticipantOK, Sending
    <3>3. k \in Nat
      BY <3>2
    <3>4. Rest(s, k + 1, Tail(ready[p]), out[p])
      <4> HIDE DEF s, k
      <4>1. QED BY <1>1, <1>4, <2>1, <3>2, <3>3, RestRead
    <3>5. CASE k = s.len
      <4>1. PICK val : Receive(s, val)
        BY <1>3, <3>2, <3>5
      <4>2. Len(Tail(ready[p])) \in Nat /\ Len(out[p]) \in Nat
            /\ Len(Tail(ready[p])) + Len(out[p]) + (k + 1) = k + 1
        <5> HIDE DEF k
        <5>1. QED BY <2>1, <3>4, <3>5, LenSeq DEF Rest
      <4>3. Tail(ready[p]) = <<>> /\ out[p] = <<>>
        <5>1. \A a, b \in Nat : a + b + (k + 1) = k + 1 => a = 0 /\ b = 0
          BY <3>3
        <5>2. Len(Tail(ready[p])) = 0 /\ Len(out[p]) = 0
          BY <4>2, <5>1, Zenon
        <5>3. QED BY <2>1, <5>2, LenSeq
      <4>4. pc[ci] = "ack" /\ OnItsWay(ci)
        BY <1>4, <3>1, <4>3
      <4>5. QED BY <1>1, <1>2, <1>4, <2>1, <4>1, <4>3, <4>4, ReceiveOwn
    <3>6. CASE k # s.len
      <4>1. cpc' = "value" /\ ci' = ci /\ skip' = skip /\ go' = go /\ rd'.rec = s /\ rd'.got = k
        BY <1>1, <1>3, <3>2, <3>6
      <4>2. rd'.got \in Nat /\ rd'.got < s.len
        BY <3>2, <3>6, <4>1
      <4>3. Rest(s, rd'.got + 1, ready'[p], out[p]) /\ IsSeq(ready'[p])
        BY <2>1, <3>4, <4>1
      <4>4. (pc[p] = "write" /\ Writing(p)) \/ (pc[p] = "ack" /\ OnItsWay(p))
        BY <3>1
      <4>5. cpc \in {"header", "value"}
        BY <1>1
      <4>6. QED BY <1>1, <1>4, <4>1, <4>2, <4>3, <4>4, <4>5, PieceStep, Zenon
    <3>7. QED BY <3>5, <3>6
  <2>4. QED BY <2>2, <2>3
<1>5. \/ \E q, val : Receive(q, val)
      \/ cpc' = "value" /\ ci' = ci /\ skip' = skip /\ go' = go
  BY <1>1, <1>3
<1>6. QED BY <1>1, <1>3, <1>4, <1>5, ReadRest

\* The controller turns elsewhere: nobody but it moves.
LEMMA TurnStep ==
    ASSUME SyncInv, pc' = pc, todo' = todo, out' = out, ready' = ready, said' = said,
           torn' = torn, rd' = rd, go' = go, pos' = pos, ControllerOK',
           \A q \in P : pc[q] # "exited" =>
               SameTo(q) \/ (cpc' = "done" /\ ~Reading(q))
    PROVE  SyncInv'
<1>1. Domains'
  BY DEF SyncInv, Domains
<1>2. ASSUME NEW q \in P \ torn' PROVE ParticipantOK(q)'
  <2>1. ParticipantOK(q) /\ Still(q)
    BY DEF SyncInv, Still
  <2>2. CASE pc[q] = "exited"
    BY <2>1, <2>2 DEF ParticipantOK, WellFormed, Sending, InStep
  <2>3. CASE pc[q] # "exited"
    BY <2>1, <2>3, Frame, Finished
  <2>4. QED BY <2>2, <2>3
<1>3. QED BY <1>1, <1>2 DEF SyncInv

LEMMA ReadEofStep == ASSUME SyncInv, ReadEof PROVE SyncInv'
<1>1. /\ cpc \in {"header", "value"} /\ Gone(ci) /\ pc' = pc /\ todo' = todo /\ out' = out
      /\ ready' = ready /\ said' = said /\ torn' = torn /\ rd' = rd /\ go' = go /\ pos' = pos
      /\ skip' = skip
      /\ \/ cpc' = "done" /\ ci' = ci
         \/ AfterRead
  BY DEF ReadEof, controlled, participant, Exited
<1>2. ControllerOK
  BY DEF SyncInv
<1>3. CASE cpc' = "done" /\ ci' = ci
  <2>1. ControllerOK'
    BY <1>1, <1>2, <1>3 DEF ControllerOK
  <2>2. \A q \in P : pc[q] # "exited" => ~Reading(q)
    BY <1>1 DEF Reading, Gone
  <2>3. QED BY <1>1, <1>3, <2>1, <2>2, TurnStep
<1>4. CASE AfterRead
  <2>1. ControllerOK' /\ \A q \in P : q # ci => SameTo(q)
    BY <1>1, <1>2, <1>4, AfterReadStep
  <2>2. \A q \in P : pc[q] # "exited" => SameTo(q)
    BY <1>1, <2>1 DEF Gone
  <2>3. QED BY <1>1, <2>1, <2>2, TurnStep
<1>5. QED BY <1>1, <1>3, <1>4

LEMMA OpenReadyStep == ASSUME SyncInv, OpenReady PROVE SyncInv'
<1>1. /\ cpc = "openReady" /\ pc[ci] = "openReady" /\ pc' = [pc EXCEPT ![ci] = "openGo"]
      /\ cpc' = "openGo" /\ ci' = ci /\ skip' = skip /\ rd' = rd /\ todo' = todo /\ out' = out
      /\ ready' = ready /\ go' = go /\ said' = said /\ pos' = pos /\ torn' = torn
  BY DEF OpenReady, history
<1>2. ControllerOK' /\ Domains'
  BY <1>1 DEF SyncInv, ControllerOK, Domains
<1>3. ASSUME NEW q \in P \ torn' PROVE ParticipantOK(q)'
  <2>1. SameTo(q) /\ ParticipantOK(q)
    BY <1>1 DEF SameTo, HoldsTurn, Reading, SyncInv
  <2>2. CASE q # ci
    BY <1>1, <2>1, <2>2, Frame DEF Still, SyncInv, Domains
  <2>3. CASE q = ci
    <3>1. Quiet(q)'
      BY <1>1, <2>1, <2>3 DEF ParticipantOK, InStep, Quiet, SameTo
    <3>2. pc'[q] = "openGo"
      BY <1>1, <2>3 DEF SyncInv, Domains
    <3>3. WellFormed(q)'
      BY <1>1, <2>1, <3>2 DEF ParticipantOK, WellFormed
    <3>4. QED BY <3>1, <3>2, <3>3 DEF ParticipantOK, InStep, Sending
  <2>4. QED BY <2>2, <2>3
<1>4. QED BY <1>2, <1>3 DEF SyncInv

LEMMA OpenGoStep == ASSUME SyncInv, OpenGo PROVE SyncInv'
<1>1. /\ cpc = "openGo" /\ pc[ci] = "openGo" /\ pc' = [pc EXCEPT ![ci] = "run"]
      /\ \/ cpc' = "openReady" /\ ci' = ci + 1 /\ ci < N
         \/ cpc' = "header" /\ ci' = 1
      /\ skip' = skip /\ rd' = rd /\ todo' = todo /\ out' = out
      /\ ready' = ready /\ go' = go /\ said' = said /\ pos' = pos /\ torn' = torn
  BY DEF OpenGo, history
<1>2. ControllerOK' /\ Domains' /\ ~skip.on
  <2>1. N \in Nat \ {0} /\ ci \in 1 .. N /\ ~skip.on
    BY <1>1, SyncAssumption DEF SyncInv, ControllerOK, P
  <2>2. ci' \in P
    BY <1>1, <2>1 DEF P
  <2>3. QED BY <1>1, <2>1, <2>2 DEF SyncInv, ControllerOK, Domains
<1>3. ASSUME NEW q \in P \ torn' PROVE ParticipantOK(q)'
  <2>1. ~HoldsTurn(q) /\ ~HoldsTurn(q)'
    <3>1. ~(q < 1)
      BY DEF P
    <3>2. QED BY <1>1, <1>2, <3>1 DEF HoldsTurn
  <2>2. SameTo(q) /\ ParticipantOK(q)
    BY <1>1, <2>1 DEF SameTo, Reading, SyncInv
  <2>3. CASE q # ci
    BY <1>1, <2>2, <2>3, Frame DEF Still, SyncInv, Domains
  <2>4. CASE q = ci
    <3>1. Quiet(q)'
      BY <1>1, <2>2, <2>4 DEF ParticipantOK, InStep, Quiet, SameTo
    <3>2. pc'[q] = "run"
      BY <1>1, <2>4 DEF SyncInv, Domains
    <3>3. WellFormed(q)'
      BY <1>1, <2>2, <3>2 DEF ParticipantOK, WellFormed
    <3>4. QED BY <3>1, <3>2, <3>3 DEF ParticipantOK, InStep, Sending
  <2>5. QED BY <2>3, <2>4
<1>4. QED BY <1>2, <1>3 DEF SyncInv

\* Whoever the controller has heard and not answered waits, with nothing on the way.
LEMMA InTurn ==
    ASSUME NEW q \in P, ParticipantOK(q), HoldsTurn(q), pc[q] # "exited"
    PROVE  pc[q] = "ack" /\ InHand(q)
BY DEF ParticipantOK, WellFormed, InStep, Quiet, Writing, OnItsWay, Answered, Abandoned, HoldsTurn

\* All events agree: one more step is accounted for, and everyone is about to be told.
LEMMA GoAllStep ==
    ASSUME SyncInv, cpc \in {"judge", "recheck"}, GoAll, pc' = pc, todo' = todo, out' = out,
           ready' = ready, said' = said, torn' = torn, rd' = rd, go' = go
    PROVE  SyncInv'
<1>1. /\ cpc' = "go" /\ ci' = 1 /\ pos' = [p \in P |-> pos[p] + 1]
      /\ skip' = [skip EXCEPT !.on = FALSE]
  BY DEF GoAll
<1>2. ControllerOK' /\ Domains'
  <2>1. 1 \in P
    BY SyncAssumption DEF P
  <2>2. QED BY <1>1, <2>1 DEF SyncInv, ControllerOK, Domains
<1>3. ASSUME NEW q \in P \ torn' PROVE ParticipantOK(q)'
  <2>1. ParticipantOK(q) /\ HoldsTurn(q) /\ pos'[q] = pos[q] + 1
    BY <1>1 DEF SyncInv, HoldsTurn
  <2>2. Len(said[q]) \in Nat /\ pos[q] \in Nat /\ Len(said[q]) <= pos[q] + 1
    BY <2>1, SaidBound
  <2>3. WellFormed(q)'
    BY <2>1, <2>2 DEF ParticipantOK, WellFormed
  <2>4. CASE pc[q] = "exited"
    BY <2>1, <2>2, <2>3, <2>4, ExitedOK
  <2>5. CASE pc[q] # "exited"
    <3>1. pc[q] = "ack" /\ InHand(q)
      BY <2>1, <2>5, InTurn
    <3>2. HoldsTurn(q)' /\ (Announces(q)' <=> Announces(q))
      <4>1. q >= 1
        BY DEF P
      <4>2. QED BY <1>1, <4>1 DEF HoldsTurn, Announces
    <3>3. Len(said'[q]) = pos'[q]
      BY <2>1, <2>2, <3>1 DEF InHand
    <3>4. pos'[q] \in Nat
      BY <2>1, <2>2
    <3>5. Len(said'[q]) = pos'[q] + 0
      BY <3>3, <3>4
    <3>6. InHand(q)'
      BY <1>1, <3>1, <3>2, <3>5 DEF InHand
    <3>7. Sending(q)'
      BY <2>1, <3>2 DEF ParticipantOK, Sending
    <3>8. QED BY <2>3, <3>1, <3>6, <3>7 DEF ParticipantOK, InStep
  <2>6. QED BY <2>4, <2>5
<1>4. QED BY <1>2, <1>3 DEF SyncInv

\* From one place where everyone waits to another.
LEMMA StillTheirTurn ==
    ASSUME SyncInv, cpc \in {"judge", "skip", "recheck"}, cpc' \in {"skip", "recheck", "stop"},
           pc' = pc, todo' = todo, out' = out, ready' = ready, said' = said, torn' = torn,
           rd' = rd, go' = go, pos' = pos, ControllerOK', cpc' = "stop" => ci' = 1
    PROVE  SyncInv'
<1>1. ASSUME NEW q \in P PROVE SameTo(q)
  <2>1. q >= 1
    BY DEF P
  <2>2. HoldsTurn(q) /\ HoldsTurn(q)'
    BY <2>1 DEF HoldsTurn
  <2>3. QED BY <2>2 DEF SameTo, Reading
<1>2. QED BY <1>1, TurnStep

LEMMA ExitTurn ==
    ASSUME SyncInv, cpc # "value", cpc' = "done", ci' = ci, skip' = skip, pc' = pc, todo' = todo,
           out' = out, ready' = ready, said' = said, torn' = torn, rd' = rd, go' = go, pos' = pos
    PROVE  SyncInv'
<1>1. ControllerOK'
  BY DEF SyncInv, ControllerOK
<1>2. \A q \in P : ~Reading(q)
  BY DEF Reading
<1>3. QED BY <1>1, <1>2, TurnStep

LEMMA JudgeStep == ASSUME SyncInv, Judge PROVE SyncInv'
<1>1. /\ cpc = "judge" /\ pc' = pc /\ todo' = todo /\ out' = out /\ ready' = ready
      /\ said' = said /\ torn' = torn /\ rd' = rd /\ go' = go
  BY DEF Judge, controlled, participant
<1>2. 1 \in P /\ ControllerOK
  BY SyncAssumption DEF P, SyncInv
<1>3. ASSUME cpc' = "stop", ci' = 1, skip' = skip, pos' = pos PROVE SyncInv'
  <2>1. ControllerOK'
    BY <1>2, <1>3 DEF ControllerOK
  <2>2. QED BY <1>1, <1>3, <2>1, StillTheirTurn
<1>4. CASE JudgeError
  BY <1>3, <1>4 DEF JudgeError, StopAll
<1>5. CASE JudgeEnded
  BY <1>1, <1>5, ExitTurn DEF JudgeEnded, Exited
<1>6. CASE JudgePartial
  BY <1>3, <1>6 DEF JudgePartial, StopAll
<1>7. CASE JudgeAgree
  BY <1>1, <1>7, GoAllStep DEF JudgeAgree
<1>8. CASE JudgeDiffer
  <2>1. CASE StartSkip /\ cpc' = "skip" /\ ci' = 1
    <3>1. ControllerOK'
      BY <1>2, <2>1 DEF ControllerOK, StartSkip
    <3>2. QED BY <1>1, <1>8, <2>1, <3>1, StillTheirTurn DEF JudgeDiffer
  <2>2. CASE cpc' = "stop" /\ ci' = 1 /\ skip' = skip
    BY <1>3, <1>8, <2>2 DEF JudgeDiffer
  <2>3. QED BY <1>8, <2>1, <2>2 DEF JudgeDiffer, StopAll
<1>9. QED BY <1>4, <1>5, <1>6, <1>7, <1>8 DEF Judge

LEMMA RecheckStep == ASSUME SyncInv, Recheck PROVE SyncInv'
<1>1. /\ cpc = "recheck" /\ pc' = pc /\ todo' = todo /\ out' = out /\ ready' = ready
      /\ said' = said /\ torn' = torn /\ rd' = rd /\ go' = go
  BY DEF Recheck, controlled, participant
<1>2. 1 \in P /\ ControllerOK
  BY SyncAssumption DEF P, SyncInv
<1>3. \/ GoAll
      \/ cpc' = "done" /\ ci' = ci /\ skip' = skip /\ pos' = pos
      \/ cpc' = "stop" /\ ci' = 1 /\ skip' = skip /\ pos' = pos
      \/ cpc' = "skip" /\ ci' = 1 /\ skip' = [skip EXCEPT !.moved = FALSE] /\ pos' = pos
  BY DEF Recheck, Exited, StopAll
<1>4. CASE GoAll
  BY <1>1, <1>4, GoAllStep
<1>5. CASE cpc' = "done" /\ ci' = ci /\ skip' = skip /\ pos' = pos
  BY <1>1, <1>5, ExitTurn
<1>6. CASE cpc' = "stop" /\ ci' = 1 /\ skip' = skip /\ pos' = pos
  <2>1. ControllerOK'
    BY <1>2, <1>6 DEF ControllerOK
  <2>2. QED BY <1>1, <1>6, <2>1, StillTheirTurn
<1>7. CASE cpc' = "skip" /\ ci' = 1 /\ skip' = [skip EXCEPT !.moved = FALSE] /\ pos' = pos
  <2>1. ControllerOK'
    BY <1>1, <1>2, <1>7 DEF ControllerOK
  <2>2. QED BY <1>1, <1>7, <2>1, StillTheirTurn
<1>8. QED BY <1>3, <1>4, <1>5, <1>6, <1>7

\* The participant whose turn it is gets its answer; in a skip its event is accounted for.
LEMMA SpokenTo ==
    ASSUME SyncInv, cpc \in {"skip", "go", "stop"}, NEW byte, Tell(byte),
           pc' = pc, todo' = todo, out' = out, ready' = ready, said' = said, torn' = torn,
           rd' = rd, ControllerOK',
           pos' = IF cpc = "skip" THEN [pos EXCEPT ![ci] = @ + 1] ELSE pos,
           cpc = "skip" => ~Gone(ci),
           cpc = "stop" => byte # "G",
           \A q \in P : q = ci => ~HoldsTurn(q)' /\ ~Reading(q)',
           \A q \in P : q # ci => SameTo(q) \/ (cpc' = "done" /\ ~Reading(q))
    PROVE  SyncInv'
<1>1. Domains /\ ci \in P
  BY DEF SyncInv, ControllerOK
<1>2. DOMAIN go' = P /\ \A q \in P : q # ci => go'[q] = go[q] /\ pos'[q] = pos[q]
  BY <1>1, TellOthers DEF Domains
<1>3. Domains'
  BY <1>1, <1>2 DEF Domains
<1>4. ASSUME NEW q \in P \ torn' PROVE ParticipantOK(q)'
  <2>1. ParticipantOK(q)
    BY DEF SyncInv
  <2>2. CASE q # ci
    <3>1. Still(q)
      BY <1>2, <2>2 DEF Still
    <3>2. QED BY <2>1, <2>2, <3>1, Frame, Finished
  <2>3. CASE q = ci
    <3>1. HoldsTurn(q)
      <4>1. q >= ci
        BY <2>3 DEF P
      <4>2. QED BY <4>1 DEF HoldsTurn
    <3>2. Len(said[q]) \in Nat /\ pos[q] \in Nat /\ Len(said[q]) <= pos[q] + 1
          /\ pos'[q] = IF cpc = "skip" THEN pos[q] + 1 ELSE pos[q]
      BY <1>1, <2>1, <2>3, SaidBound DEF Domains
    <3>3. WellFormed(q) /\ Sending(q)
      BY <2>1 DEF ParticipantOK
    <3>4. CASE Gone(q)
      <4>1. go' = go /\ pos' = pos
        BY <2>3, <3>4 DEF Tell
      <4>2. WellFormed(q)'
        BY <3>3, <4>1 DEF WellFormed
      <4>3. QED BY <3>2, <3>4, <4>1, <4>2, ExitedOK DEF Gone
    <3>5. CASE ~Gone(q)
      <4>1. pc[q] = "ack" /\ InHand(q)
        BY <2>1, <3>1, <3>5, InTurn DEF Gone
      <4>2. IsSeq(go[ci]) /\ go[ci] = <<>> /\ ~Gone(ci)
        BY <2>3, <3>3, <3>5, <4>1 DEF WellFormed, InHand
      <4>3. IsSeq(go'[q]) /\ Len(go'[q]) = 1 /\ go'[q][1] = byte
        BY <1>1, <2>3, <4>2, TellStep
      <4>4. Len(said[q]) <= pos'[q] + 1 /\ (cpc # "stop" => Len(said[q]) = pos'[q])
            /\ pos'[q] \in Nat
        BY <3>2, <4>1 DEF InHand
      <4>5. Answered(q)'
        BY <2>3, <4>1, <4>3, <4>4 DEF Answered, InHand
      <4>6. WellFormed(q)' /\ Sending(q)'
        BY <3>3, <4>3, <4>4 DEF WellFormed, Sending, Announces
      <4>7. QED BY <4>1, <4>5, <4>6 DEF ParticipantOK, InStep
    <3>6. QED BY <3>4, <3>5
  <2>4. QED BY <2>2, <2>3
<1>5. QED BY <1>3, <1>4 DEF SyncInv

LEMMA SkipVisitStep == ASSUME SyncInv, SkipVisit PROVE SyncInv'
<1>1. /\ cpc = "skip" /\ pc' = pc /\ todo' = todo /\ out' = out /\ ready' = ready
      /\ said' = said /\ torn' = torn /\ rd' = rd /\ skip' = skip
  BY DEF SkipVisit, controlled, participant
<1>2. ControllerOK /\ ci \in P /\ skip.on /\ N \in Nat \ {0}
  BY <1>1, SyncAssumption DEF SyncInv, ControllerOK
<1>3. CASE CanSkip(ci) /\ Gone(ci)
  BY <1>1, <1>3, ExitTurn DEF SkipVisit, Exited
<1>4. CASE CanSkip(ci) /\ ~Gone(ci)
  <2>1. Tell("G") /\ pos' = [pos EXCEPT ![ci] = @ + 1] /\ cpc' = "header" /\ ci' = ci
    BY <1>1, <1>4 DEF SkipVisit
  <2>2. ControllerOK'
    BY <1>1, <1>2, <2>1 DEF ControllerOK
  <2>3. \A q \in P : q = ci => ~HoldsTurn(q)' /\ ~Reading(q)'
    BY <1>1, <1>2, <2>1 DEF HoldsTurn, Reading
  <2>4. \A q \in P : q # ci => SameTo(q)
    BY <1>1, <1>2, <2>1 DEF SameTo, HoldsTurn, Reading
  <2>5. QED BY <1>1, <1>4, <2>1, <2>2, <2>3, <2>4, SpokenTo
<1>5. CASE ~CanSkip(ci)
  <2>1. /\ go' = go /\ pos' = pos
        /\ \/ ci' = ci + 1 /\ ci < N /\ cpc' = "skip"
           \/ ci' = 1 /\ cpc' = "recheck"
    BY <1>1, <1>5 DEF SkipVisit
  <2>2. ci' \in P
    BY <1>2, <2>1 DEF P
  <2>3. ControllerOK'
    BY <1>1, <1>2, <2>1, <2>2 DEF ControllerOK
  <2>4. QED BY <1>1, <2>1, <2>3, StillTheirTurn
<1>6. QED BY <1>3, <1>4, <1>5

LEMMA SendGoStep == ASSUME SyncInv, SendGo PROVE SyncInv'
<1>1. /\ cpc = "go" /\ pc' = pc /\ todo' = todo /\ out' = out /\ ready' = ready
      /\ said' = said /\ torn' = torn /\ rd' = rd /\ skip' = skip /\ pos' = pos
  BY DEF SendGo, controlled, participant
<1>2. ControllerOK /\ ci \in 1 .. N /\ ~skip.on /\ N \in Nat \ {0}
  BY <1>1, SyncAssumption DEF SyncInv, ControllerOK, P
<1>3. \/ cpc' = "done" /\ ci' = ci /\ go' = go
      \/ /\ Tell("G")
         /\ \/ ci < N /\ ci' = ci + 1 /\ cpc' = "go"
            \/ ci = N /\ ci' = ci /\ cpc' = "done"
            \/ ci = N /\ ci' = 1 /\ cpc' = "header"
  BY <1>1, <1>2 DEF SendGo, Exited
<1>4. CASE cpc' = "done" /\ ci' = ci /\ go' = go
  BY <1>1, <1>4, ExitTurn
<1>5. CASE /\ Tell("G")
           /\ \/ ci < N /\ ci' = ci + 1 /\ cpc' = "go"
              \/ ci = N /\ ci' = ci /\ cpc' = "done"
              \/ ci = N /\ ci' = 1 /\ cpc' = "header"
  <2>1. ci' \in P
    BY <1>2, <1>5 DEF P
  <2>2. ControllerOK'
    BY <1>1, <1>2, <1>5, <2>1 DEF ControllerOK
  <2>3. ASSUME NEW q \in P, q = ci PROVE ~HoldsTurn(q)' /\ ~Reading(q)'
    <3>1. ~(ci >= ci + 1) /\ ~(ci < 1)
      BY <1>2
    <3>2. QED BY <1>1, <1>2, <1>5, <2>3, <3>1 DEF HoldsTurn, Reading
  <2>4. ASSUME NEW q \in P, q # ci PROVE SameTo(q) \/ (cpc' = "done" /\ ~Reading(q))
    <3>1. q \in 1 .. N
      BY DEF P
    <3>2. ~Reading(q)
      BY <1>1 DEF Reading
    <3>3. CASE ci < N /\ ci' = ci + 1 /\ cpc' = "go"
      <4>1. q >= ci + 1 <=> q >= ci
        BY <1>2, <2>4, <3>1
      <4>2. QED BY <1>1, <3>3, <4>1 DEF SameTo, HoldsTurn, Reading
    <3>4. CASE ci = N /\ ci' = 1 /\ cpc' = "header"
      <4>1. ~(q >= ci) /\ ~(q < 1)
        BY <1>2, <2>4, <3>1, <3>4
      <4>2. QED BY <1>1, <1>2, <3>4, <4>1 DEF SameTo, HoldsTurn, Reading
    <3>5. QED BY <1>5, <3>2, <3>3, <3>4
  <2>5. QED BY <1>1, <1>5, <2>2, <2>3, <2>4, SpokenTo
<1>6. QED BY <1>3, <1>4, <1>5

LEMMA SendStopStep == ASSUME SyncInv, SendStop PROVE SyncInv'
<1>1. /\ cpc = "stop" /\ pc' = pc /\ todo' = todo /\ out' = out /\ ready' = ready
      /\ said' = said /\ torn' = torn /\ rd' = rd /\ skip' = skip /\ pos' = pos /\ Tell("S")
  BY DEF SendStop, controlled, participant
<1>2. ControllerOK /\ ci \in 1 .. N /\ N \in Nat \ {0}
  BY SyncAssumption DEF SyncInv, ControllerOK, P
<1>3. \/ ci < N /\ ci' = ci + 1 /\ cpc' = "stop"
      \/ ci = N /\ ci' = ci /\ cpc' = "done"
  BY <1>1, <1>2 DEF SendStop
<1>4. ci' \in P
  BY <1>2, <1>3 DEF P
<1>5. ControllerOK'
  BY <1>1, <1>2, <1>3, <1>4 DEF ControllerOK
<1>6. ASSUME NEW q \in P, q = ci PROVE ~HoldsTurn(q)' /\ ~Reading(q)'
  <2>1. ~(ci >= ci + 1)
    BY <1>2
  <2>2. QED BY <1>1, <1>3, <1>6, <2>1 DEF HoldsTurn, Reading
<1>7. ASSUME NEW q \in P, q # ci PROVE SameTo(q) \/ (cpc' = "done" /\ ~Reading(q))
  <2>1. ~Reading(q)
    BY <1>1 DEF Reading
  <2>2. CASE ci < N /\ ci' = ci + 1 /\ cpc' = "stop"
    <3>1. q >= ci + 1 <=> q >= ci
      BY <1>2, <1>7 DEF P
    <3>2. QED BY <1>1, <2>2, <3>1 DEF SameTo, HoldsTurn, Reading
  <2>3. QED BY <1>3, <2>1, <2>2
<1>8. QED BY <1>1, <1>5, <1>6, <1>7, SpokenTo

-----------------------------------------------------------------------------
LEMMA SyncInit == Init => SyncInv
<1> SUFFICES ASSUME Init PROVE SyncInv
  OBVIOUS
<1>1. 1 \in P
  BY SyncAssumption DEF P
<1>2. ControllerOK
  <2>1. skip \in [allowed : SkipModes, on : {FALSE}, left : {[p \in P |-> 0]}, moved : {FALSE}]
    BY DEF Init
  <2>2. DOMAIN skip = {"allowed", "on", "left", "moved"} /\ skip.on = FALSE
    BY <2>1
  <2>3. QED BY <1>1, <2>2 DEF Init, ControllerOK
<1>3. Domains
  BY DEF Init, Domains
<1>4. ASSUME NEW p \in P PROVE ParticipantOK(p)
  <2>1. WellFormed(p)
    BY ShortSeq DEF Init, WellFormed
  <2>2. Quiet(p)
    BY ShortSeq DEF Init, Quiet, HoldsTurn, Reading
  <2>3. QED BY <2>1, <2>2 DEF Init, ParticipantOK, Sending, InStep
<1>5. QED BY <1>2, <1>3, <1>4 DEF SyncInv

LEMMA SyncStutter == ASSUME SyncInv, UNCHANGED vars PROVE SyncInv'
<1>1. /\ pc' = pc /\ todo' = todo /\ out' = out /\ ready' = ready /\ go' = go /\ cpc' = cpc
      /\ ci' = ci /\ rd' = rd /\ skip' = skip /\ said' = said /\ pos' = pos /\ torn' = torn
  BY DEF vars, participant, controller, history
<1>2. ControllerOK'
  BY <1>1 DEF SyncInv, ControllerOK
<1>3. \A q \in P : SameTo(q)
  BY <1>1, ControllerStill
<1>4. QED BY <1>1, <1>2, <1>3, TurnStep

\* The bookkeeping of the two sides holds in every reachable state.
THEOREM SyncInvariant == Spec => []SyncInv
<1>1. Init => SyncInv
  BY SyncInit
<1>2. SyncInv /\ [Next]_vars => SyncInv'
  <2> SUFFICES ASSUME SyncInv, [Next]_vars PROVE SyncInv'
    OBVIOUS
  <2>1. CASE Controller
    BY <2>1, OpenReadyStep, OpenGoStep, ReadHeaderStep, ReadValueStep, ReadEofStep, JudgeStep,
       SkipVisitStep, RecheckStep, SendGoStep, SendStopStep DEF Controller
  <2>2. CASE \E p \in P : Moves(p) \/ Kill(p)
    BY <2>2, MovesStep
  <2>3. CASE UNCHANGED vars
    BY <2>3, SyncStutter
  <2>4. QED BY <2>1, <2>2, <2>3 DEF Next
<1>3. QED BY <1>1, <1>2, PTL DEF Spec

\* However many participants there are, however long their programs and values and however small
\* the pipes: a participant whose writes went through has never said more than the one event the
\* controller has not accounted for, and none while its program runs; skipping keyword values,
\* announcements, deaths and the end of the controller included.
THEOREM NobodyRunsAhead == Spec => []AheadByOne
<1>1. SyncInv => AheadByOne
  <2> SUFFICES ASSUME SyncInv, NEW p \in P \ torn
               PROVE  /\ Len(said[p]) <= pos[p] + 1
                      /\ pc[p] \in {"run", "write"} => Len(said[p]) = pos[p]
    BY DEF AheadByOne
  <2>1. ParticipantOK(p)
    BY DEF SyncInv
  <2>2. QED BY <2>1, SaidBound
<1>2. QED BY <1>1, SyncInvariant, PTL

-----------------------------------------------------------------------------
(* Types, of whoever's state, the participants that broke loose included.  *)

\* The records p has to send have a length, and what is to be written is there while it writes.
Typed(p) ==
    /\ IsSeq(todo[p]) /\ IsSeq(out[p]) /\ IsSeq(ready[p])
    /\ \A i \in 1 .. Len(todo[p]) : todo[p][i].len \in Nat
    /\ Len(todo[p]) <= 2 /\ Len(ready[p]) <= PipeCap
    /\ pc[p] \in {"write", "ack"} <=> todo[p] # <<>>
    /\ pc[p] = "write" <=> out[p] # <<>>

Types ==
    /\ pc \in [P -> {"openReady", "openGo", "run", "write", "ack", "exited"}]
    /\ nonblock \in [P -> BOOLEAN] /\ rc \in 0 .. 3
    /\ torn \subseteq P /\ killed \subseteq P
    /\ \A p \in P : Typed(p)

\* A participant has its next record ready, or goes on.
LEMMA NextTyped ==
    ASSUME NEW p \in P, Typed(p), Domains, todo[p] # <<>>, NextRecord(p)
    PROVE  /\ IsSeq(todo'[p]) /\ IsSeq(out'[p]) /\ Len(todo'[p]) <= 2
           /\ \A i \in 1 .. Len(todo'[p]) : todo'[p][i].len \in Nat
           /\ pc'[p] \in {"run", "write"} /\ (pc'[p] = "write" <=> todo'[p] # <<>>)
           /\ pc'[p] = "write" <=> out'[p] # <<>>
<1> DEFINE s == todo[p]
           t == Tail(todo[p])
<1>1. /\ todo'[p] = t
      /\ IF t = <<>> THEN pc'[p] = "run" /\ out'[p] = <<>>
                     ELSE pc'[p] = "write" /\ out'[p] = Tokens(t[1])
  BY DEF NextRecord, Domains
<1>2. IsSeq(t) /\ Len(t) = Len(s) - 1 /\ Len(s) \in Nat /\ Len(s) <= 2
      /\ \A i \in 1 .. Len(s) - 1 : t[i] = s[i + 1]
  BY TailSeq, LenSeq DEF Typed
<1> HIDE DEF t
<1>3. \A i \in 1 .. Len(t) : t[i].len \in Nat
  BY <1>2 DEF Typed
<1>4. t # <<>> => Len(t) # 0 /\ Len(t) \in Nat
  BY <1>2, LenSeq
<1>5. t # <<>> => t[1].len \in Nat
  BY <1>3, <1>4
<1>6. t # <<>> => IsSeq(Tokens(t[1])) /\ Tokens(t[1]) # <<>>
  BY <1>5, RestNew
<1>7. QED BY <1>1, <1>2, <1>3, <1>6, ShortSeq

\* A participant that ends, with or without an END.
LEMMA ExitTyped ==
    ASSUME NEW p \in P, Typed(p), Domains, Exit(p), AtExit(p) \/ ready' = ready
    PROVE  Typed(p)'
<1>1. pc'[p] = "exited" /\ todo'[p] = <<>> /\ out'[p] = <<>>
  BY DEF Exit, Domains
<1>2. IsSeq(ready'[p]) /\ Len(ready'[p]) <= PipeCap
  <2> DEFINE x == Tokens(Wire(END, 0))[1]
  <2>1. IsSeq(ready[p]) /\ Len(ready[p]) \in Nat /\ Len(ready[p]) <= PipeCap
    BY LenSeq DEF Typed
  <2>2. IsSeq(Append(ready[p], x)) /\ Len(Append(ready[p], x)) = Len(ready[p]) + 1
    BY <2>1, AppendSeq
  <2>3. \/ ready'[p] = ready[p]
        \/ ready'[p] = Append(ready[p], x) /\ Room(p) > 0
    BY DEF AtExit, Domains
  <2> HIDE DEF x
  <2>4. Room(p) > 0 => Len(ready[p]) + 1 <= PipeCap
    BY <2>1, SyncAssumption DEF Room
  <2>5. QED BY <2>1, <2>2, <2>3, <2>4
<1>3. QED BY <1>1, <1>2, ShortSeq DEF Typed

LEMMA FitsIn ==
    \A a, b, cap \in Nat :
        /\ b <= cap - a => a + b <= cap
        /\ a <= cap => cap - a \in Nat /\ a + (cap - a) <= cap /\ a + 0 <= cap
        /\ a <= cap /\ b > cap - a => cap - a <= b /\ 0 <= b
OBVIOUS

LEMMA MovesTyped ==
    ASSUME SyncInv, Types, NEW p \in P, Moves(p) \/ Kill(p)
    PROVE  Typed(p)'
<1>1. Typed(p) /\ Domains /\ PipeCap \in Nat /\ Len(ready[p]) \in Nat /\ Len(out[p]) \in Nat
  BY SyncAssumption, LenSeq DEF SyncInv, Types, Typed
<1>2. CASE \E e \in Events : Emit(p, e)
  <2>1. PICK e \in Events : Emit(p, e)
    BY <1>2
  <2> DEFINE table == IF Known(p, e.name) THEN interned[p] ELSE Append(interned[p], e.name)
             id    == IF e.name = NoName THEN 0 ELSE Id(p, e.name, table)
             def   == NameDef(id, e.name)
             rec   == Wire(e, id)
  <2>2. /\ todo'[p] = IF Known(p, e.name) THEN <<rec>> ELSE <<def, rec>>
        /\ out'[p] = Tokens((IF Known(p, e.name) THEN <<rec>> ELSE <<def, rec>>)[1])
        /\ pc'[p] = "write" /\ ready'[p] = ready[p]
    BY <1>1, <2>1 DEF Emit, Domains
  <2>3. rec.len \in Nat /\ def.len \in Nat
    BY SyncAssumption DEF Wire, NameDef
  <2> HIDE DEF def, rec, id, table
  <2>4. \A r : r.len \in Nat => IsSeq(Tokens(r)) /\ Tokens(r) # <<>>
    BY RestNew
  <2>5. CASE Known(p, e.name)
    <3>1. todo'[p] = <<rec>> /\ out'[p] = Tokens(rec)
      BY <2>2, <2>5, ShortSeq
    <3>2. QED BY <1>1, <2>2, <2>3, <2>4, <3>1, ShortSeq DEF Typed
  <2>6. CASE ~Known(p, e.name)
    <3>1. todo'[p] = <<def, rec>> /\ out'[p] = Tokens(def)
      BY <2>2, <2>6, ShortSeq
    <3>2. \A i \in 1 .. Len(<<def, rec>>) : <<def, rec>>[i].len \in Nat
      BY <2>3
    <3>3. QED BY <1>1, <2>2, <2>3, <2>4, <3>1, <3>2, ShortSeq DEF Typed
  <2>7. QED BY <2>5, <2>6
<1>3. CASE WriteBlocking(p)
  <2>1. /\ pc[p] = "write" /\ todo'[p] = todo[p] /\ Room(p) > 0
        /\ ready'[p] = Append(ready[p], Head(out[p])) /\ out'[p] = Tail(out[p])
        /\ pc'[p] = IF Len(out[p]) = 1 THEN "ack" ELSE "write"
    BY <1>1, <1>3 DEF WriteBlocking, Domains
  <2>2. IsSeq(ready'[p]) /\ Len(ready'[p]) = Len(ready[p]) + 1
    BY <1>1, <2>1, AppendSeq DEF Typed
  <2>3. IsSeq(out'[p]) /\ Len(out'[p]) = Len(out[p]) - 1 /\ Len(out[p]) # 0
    BY <1>1, <2>1, TailSeq, LenSeq DEF Typed
  <2>4. Len(ready[p]) + 1 <= PipeCap
    BY <1>1, <2>1 DEF Room
  <2>5. Len(out[p]) = 1 <=> out'[p] = <<>>
    <3>1. Len(out[p]) = 1 <=> Len(out'[p]) = 0
      BY <1>1, <2>3
    <3>2. QED BY <2>3, <3>1, LenSeq
  <2>6. QED BY <1>1, <2>1, <2>2, <2>3, <2>4, <2>5 DEF Typed
<1>4. CASE WriteWhole(p)
  <2>1. /\ pc[p] = "write" /\ todo'[p] = todo[p] /\ Len(out[p]) <= Room(p)
        /\ ready'[p] = ready[p] \o out[p] /\ out'[p] = <<>> /\ pc'[p] = "ack"
    BY <1>1, <1>4 DEF WriteWhole, Domains
  <2>2. IsSeq(ready'[p]) /\ Len(ready'[p]) = Len(ready[p]) + Len(out[p])
    BY <1>1, <2>1, ConcatSeq DEF Typed
  <2>3. Len(ready[p]) + Len(out[p]) <= PipeCap
    BY <1>1, <2>1, FitsIn DEF Room
  <2>4. QED BY <1>1, <2>1, <2>2, <2>3, ShortSeq DEF Typed
<1>5. CASE WriteTorn(p)
  <2> DEFINE fits == IF Len(out[p]) <= PipeBuf THEN 0 ELSE Room(p)
             part == SubSeq(out[p], 1, fits)
  <2>1. /\ pc[p] = "write" /\ Len(out[p]) > Room(p) /\ NextRecord(p)
        /\ ready'[p] = ready[p] \o part
    BY <1>1, <1>5 DEF WriteTorn, Domains
  <2>2. fits \in Nat /\ fits <= Len(out[p]) /\ Len(ready[p]) + fits <= PipeCap
    <3>1. Len(ready[p]) <= PipeCap
      BY <1>1 DEF Typed
    <3>2. Room(p) \in Nat /\ Len(ready[p]) + Room(p) <= PipeCap /\ Len(ready[p]) + 0 <= PipeCap
          /\ Room(p) <= Len(out[p]) /\ 0 <= Len(out[p])
      BY <1>1, <2>1, <3>1, FitsIn DEF Room
    <3>3. QED BY <3>2
  <2> HIDE DEF fits
  <2>3. IsSeq(part) /\ Len(part) = fits
    <3> DEFINE S == {out[p][i] : i \in DOMAIN out[p]}
    <3>1. out[p] \in Seq(S)
      BY <1>1 DEF Typed, IsSeq
    <3>2. CASE fits = 0
      <4>1. part = <<>>
        BY <3>2, SubSeqEmpty
      <4>2. QED BY <3>2, <4>1, ShortSeq
    <3>3. CASE fits # 0
      <4>1. 1 \in 1 .. Len(out[p]) /\ fits \in 1 .. Len(out[p])
        BY <1>1, <2>2, <3>3
      <4>2. part \in Seq(S) /\ Len(part) = fits
        BY <2>2, <3>1, <4>1, SubSeqProperties
      <4>3. QED BY <4>2, IsSeqOf
    <3>4. QED BY <3>2, <3>3
  <2> HIDE DEF part
  <2>4. IsSeq(ready'[p]) /\ Len(ready'[p]) = Len(ready[p]) + fits
    <3>1. IsSeq(ready[p])
      BY <1>1 DEF Typed
    <3>2. QED BY <2>1, <2>3, <3>1, ConcatSeq
  <2>5. todo[p] # <<>>
    BY <1>1, <2>1 DEF Typed
  <2>6. QED BY <1>1, <2>1, <2>2, <2>4, <2>5, NextTyped DEF Typed
<1>6. CASE AckGo(p)
  <2>1. pc[p] = "ack" /\ NextRecord(p) /\ ready' = ready
    BY <1>6 DEF AckGo
  <2>2. todo[p] # <<>>
    BY <1>1, <2>1 DEF Typed
  <2>3. QED BY <1>1, <2>1, <2>2, NextTyped DEF Typed
<1>7. CASE AckStop(p) \/ HangUp(p) \/ Finish(p) \/ Kill(p)
  BY <1>1, <1>7, ExitTyped DEF AckStop, HangUp, Finish, Kill
<1>8. QED BY <1>2, <1>3, <1>4, <1>5, <1>6, <1>7 DEF Moves

\* A step of a participant leaves its place in the program a place, and the rest of the state what
\* it was.
LEMMA MovesPlaces ==
    ASSUME Types, NEW p \in P, Moves(p) \/ Kill(p)
    PROVE  /\ pc' \in [P -> {"openReady", "openGo", "run", "write", "ack", "exited"}]
           /\ nonblock' = nonblock /\ rc' = rc /\ torn' \subseteq P /\ killed' \subseteq P
<1> DEFINE Places == {"openReady", "openGo", "run", "write", "ack", "exited"}
<1>1. /\ \/ pc' = pc
         \/ \E place \in Places : pc' = [pc EXCEPT ![p] = place]
      /\ torn' \in {torn, torn \cup {p}} /\ killed' \in {killed, killed \cup {p}}
      /\ nonblock' = nonblock /\ rc' = rc
  <2>1. CASE \E e \in Events : Emit(p, e)
    BY <2>1 DEF Emit, controller, history
  <2>2. CASE WriteBlocking(p)
    BY <2>2 DEF WriteBlocking, controller
  <2>3. CASE WriteWhole(p)
    BY <2>3 DEF WriteWhole, controller
  <2>4. CASE WriteTorn(p)
    BY <2>4 DEF WriteTorn, NextRecord, controller
  <2>5. CASE AckGo(p)
    BY <2>5 DEF AckGo, NextRecord, controller, history
  <2>6. CASE AckStop(p)
    BY <2>6 DEF AckStop, Exit, controller, history
  <2>7. CASE HangUp(p)
    BY <2>7 DEF HangUp, Exit, controller, history
  <2>8. CASE Finish(p)
    BY <2>8 DEF Finish, Exit, controller
  <2>9. CASE Kill(p)
    BY <2>9 DEF Kill, Exit, controller
  <2>10. QED BY <2>1, <2>2, <2>3, <2>4, <2>5, <2>6, <2>7, <2>8, <2>9 DEF Moves
<1>2. pc \in [P -> Places] /\ torn \subseteq P /\ killed \subseteq P
  BY DEF Types
<1>3. QED BY <1>1, <1>2

LEMMA StillTyped ==
    ASSUME NEW q \in P, Typed(q), pc'[q] = pc[q], todo'[q] = todo[q], out'[q] = out[q],
           ready'[q] = ready[q]
    PROVE  Typed(q)'
BY DEF Typed

LEMMA MovesTypes ==
    ASSUME SyncInv, Types, NEW p \in P, Moves(p) \/ Kill(p)
    PROVE  Types'
<1>1. ASSUME NEW q \in P PROVE Typed(q)'
  <2>1. CASE q = p
    BY <2>1, MovesTyped
  <2>2. CASE q # p
    <3>1. Still(q) /\ Typed(q)
      BY <2>2, MovesOthers DEF SyncInv, Types
    <3>2. QED BY <3>1, StillTyped DEF Still
  <2>3. QED BY <2>1, <2>2
<1>2. QED BY <1>1, MovesPlaces DEF Types

\* The controller takes pieces from the pipe it reads, and touches nothing else of a participant's.
LEMMA ControllerLeaves ==
    ASSUME Controller, ~OpenReady, ~OpenGo
    PROVE  /\ pc' = pc /\ nonblock' = nonblock /\ todo' = todo /\ out' = out
           /\ torn' = torn /\ killed' = killed /\ rc' \in {rc, 0, 1, 2, 3}
           /\ \/ ready' = ready
              \/ ready[ci] # <<>> /\ ready' = [ready EXCEPT ![ci] = Tail(@)]
<1>1. CASE ReadHeader
  BY <1>1 DEF ReadHeader, controlled, participant
<1>2. CASE ReadValue
  BY <1>2 DEF ReadValue, controlled, participant
<1>3. CASE ReadEof
  BY <1>3 DEF ReadEof, Exited, controlled, participant
<1>4. CASE Judge
  BY <1>4 DEF Judge, JudgeError, JudgeEnded, JudgePartial, JudgeAgree, JudgeDiffer, GoAll,
     Exited, StopAll, controlled, participant
<1>5. CASE SkipVisit
  BY <1>5 DEF SkipVisit, Exited, controlled, participant
<1>6. CASE Recheck
  BY <1>6 DEF Recheck, GoAll, Exited, StopAll, controlled, participant
<1>7. CASE SendGo
  BY <1>7 DEF SendGo, Exited, controlled, participant
<1>8. CASE SendStop
  BY <1>8 DEF SendStop, controlled, participant
<1>9. QED BY <1>1, <1>2, <1>3, <1>4, <1>5, <1>6, <1>7, <1>8 DEF Controller

LEMMA ControllerTypes == ASSUME SyncInv, Types, Controller PROVE Types'
<1>1. Domains /\ ci \in P
  BY DEF SyncInv, ControllerOK
<1>2. CASE OpenReady \/ OpenGo
  <2>1. /\ todo' = todo /\ out' = out /\ ready' = ready /\ rc' = rc
        /\ torn' = torn /\ killed' = killed
    BY <1>2 DEF OpenReady, OpenGo, history
  <2>2. \/ pc[ci] = "openReady" /\ pc' = [pc EXCEPT ![ci] = "openGo"]
        \/ pc[ci] = "openGo" /\ pc' = [pc EXCEPT ![ci] = "run"]
    BY <1>2 DEF OpenReady, OpenGo
  <2>3. nonblock' = nonblock \/ \E first \in BOOLEAN : nonblock' = [nonblock EXCEPT ![ci] = first]
    BY <1>2 DEF OpenReady, OpenGo
  <2>4. pc' \in [P -> {"openReady", "openGo", "run", "write", "ack", "exited"}]
        /\ nonblock' \in [P -> BOOLEAN]
    BY <1>1, <2>2, <2>3 DEF Types
  <2>5. ASSUME NEW q \in P PROVE Typed(q)'
    <3>1. pc'[q] = pc[q] \/ {pc[q], pc'[q]} \subseteq {"openReady", "openGo", "run"}
      BY <1>1, <2>2 DEF Domains
    <3>2. Typed(q) /\ todo'[q] = todo[q] /\ out'[q] = out[q] /\ ready'[q] = ready[q]
      BY <2>1 DEF Types
    <3>3. QED BY <3>1, <3>2 DEF Typed
  <2>6. QED BY <2>1, <2>4, <2>5 DEF Types
<1>3. CASE ~OpenReady /\ ~OpenGo
  <2>1. /\ pc' = pc /\ nonblock' = nonblock /\ todo' = todo /\ out' = out
        /\ torn' = torn /\ killed' = killed /\ rc' \in {rc, 0, 1, 2, 3}
        /\ \/ ready' = ready
           \/ ready[ci] # <<>> /\ ready' = [ready EXCEPT ![ci] = Tail(@)]
    BY <1>3, ControllerLeaves
  <2>2. ASSUME NEW q \in P PROVE Typed(q)'
    <3>1. Typed(q)
      BY DEF Types
    <3>2. \/ ready'[q] = ready[q]
          \/ ready[q] # <<>> /\ ready'[q] = Tail(ready[q])
      BY <1>1, <2>1 DEF Domains
    <3>3. IsSeq(ready'[q]) /\ Len(ready'[q]) <= PipeCap
      <4>1. IsSeq(ready[q]) /\ Len(ready[q]) \in Nat /\ Len(ready[q]) <= PipeCap /\ PipeCap \in Nat
        BY <3>1, LenSeq, SyncAssumption DEF Typed
      <4>2. ready[q] # <<>> => IsSeq(Tail(ready[q])) /\ Len(Tail(ready[q])) = Len(ready[q]) - 1
        BY <4>1, TailSeq
      <4>3. \A n \in Nat : n <= PipeCap => n - 1 <= PipeCap
        BY <4>1
      <4>4. QED BY <3>2, <4>1, <4>2, <4>3
    <3>4. QED BY <2>1, <3>1, <3>3 DEF Typed
  <2>3. rc' \in 0 .. 3
    BY <2>1 DEF Types
  <2>4. QED BY <2>1, <2>2, <2>3 DEF Types
<1>4. QED BY <1>2, <1>3

LEMMA InitTypes == Init => Types
<1> SUFFICES ASSUME Init PROVE Types
  OBVIOUS
<1>1. ASSUME NEW p \in P PROVE Typed(p)
  <2>1. todo[p] = <<>> /\ out[p] = <<>> /\ ready[p] = <<>> /\ pc[p] = "openReady"
    BY DEF Init
  <2>2. PipeCap \in Nat
    BY SyncAssumption
  <2>3. QED BY <2>1, <2>2, ShortSeq DEF Typed
<1>2. pc \in [P -> {"openReady", "openGo", "run", "write", "ack", "exited"}]
      /\ nonblock \in [P -> BOOLEAN] /\ rc \in 0 .. 3 /\ torn \subseteq P /\ killed \subseteq P
  BY DEF Init
<1>3. QED BY <1>1, <1>2 DEF Types

LEMMA StutterTypes == ASSUME Types, UNCHANGED vars PROVE Types'
<1>1. /\ pc' = pc /\ nonblock' = nonblock /\ todo' = todo /\ out' = out /\ ready' = ready
      /\ rc' = rc /\ torn' = torn /\ killed' = killed
  BY DEF vars, participant, controller, history
<1>2. \A q \in P : Typed(q)'
  BY <1>1, StillTyped DEF Types
<1>3. QED BY <1>1, <1>2 DEF Types

\* However many participants there are and whatever they say, the ones whose writes were cut short
\* included: a participant has at most an announcement and its event to send, has them just as long
\* as it is writing or waiting for an answer, and never puts more into its pipe than that holds.
THEOREM StateIsTyped == Spec => []TypeOK
<1>1. Init => Types
  BY InitTypes
<1>2. SyncInv /\ Types /\ [Next]_vars => Types'
  <2> SUFFICES ASSUME SyncInv, Types, [Next]_vars PROVE Types'
    OBVIOUS
  <2>1. CASE Controller
    BY <2>1, ControllerTypes
  <2>2. CASE \E p \in P : Moves(p) \/ Kill(p)
    BY <2>2, MovesTypes
  <2>3. CASE UNCHANGED vars
    BY <2>3, StutterTypes
  <2>4. QED BY <2>1, <2>2, <2>3 DEF Next
<1>3. SyncInv /\ Types => TypeOK
  BY DEF SyncInv, ControllerOK, Types, Typed, TypeOK
<1>4. QED BY <1>1, <1>2, <1>3, SyncInvariant, PTL DEF Spec

-----------------------------------------------------------------------------
(***************************************************************************)
(* From here on: what is said and what is heard, and the refinement.       *)
(***************************************************************************)

Live == cpc \notin {"stop", "done"}      \* the verdict is still open
Lost == torn # {} \/ killed # {}

(***************************************************************************)
(* Records, given the names a participant has interned (in) and those the  *)
(* controller has kept for it (nm).                                        *)
(***************************************************************************)
Knows(nm, in, n) == \A i \in 1 .. n : i \in DOMAIN nm /\ nm[i] = in[i]

\* The record of an event refers to a name announced before, the record that announces a name
\* is that of the newest.
EventRecord(r, in) ==
    /\ r.len \in Nat /\ r.kind \notin {"NAME_DEF", "EOF", "ERR", "NONE"}
    /\ r.id \in 0 .. Len(in)
NameRecord(r, in) ==
    /\ r.len \in Nat /\ r.kind = "NAME_DEF"
    /\ r.id = Len(in) /\ r.id # 0 /\ r.val = in[r.id]
Good(r, in, nm) ==
    \/ EventRecord(r, in) /\ Knows(nm, in, Len(in))
    \/ NameRecord(r, in) /\ Knows(nm, in, Len(in) - 1)

\* The event a record stands for, and the key the controller compares it by.
Meant(r, in) == [kind |-> r.kind, name |-> IF r.id = 0 THEN NoName ELSE in[r.id],
                 type |-> r.type, val |-> r.val]
KeyOf(ev, nm) ==
    [kind |-> ev.kind,
     name |-> IF ev.id = 0 THEN <<NoName>> ELSE IF ev.id \in DOMAIN nm THEN <<nm[ev.id]>> ELSE <<"id", ev.id>>,
     type |-> ev.type, val |-> ev.val]
Key(e) == [e EXCEPT !.name = <<@>>]

(***************************************************************************)
(* One participant and what the controller knows of it.                    *)
(***************************************************************************)
AllKnown(p) == Knows(names[p], interned[p], Len(interned[p]))
LastSaid(p) == said[p][Len(said[p])]

\* The records p has to send.
Records(p) ==
    LET r == Head(todo[p]) IN
    /\ IF Announces(p) THEN /\ NameRecord(r, interned[p]) /\ EventRecord(todo[p][2], interned[p])
                            /\ todo[p][2].kind # "END"
                       ELSE EventRecord(r, interned[p]) /\ r.kind # "END"
    /\ IF pc[p] = "write" \/ (~HoldsTurn(p) /\ go[p] = <<>>)
       THEN /\ Good(r, interned[p], names[p])
            /\ pc[p] = "ack" /\ ~Announces(p) => LastSaid(p) = Meant(r, interned[p])
       ELSE AllKnown(p)

\* The controller holds what p said; or p was killed and there was nothing more to hold.
KeyIsSaid(p) ==
    /\ Len(said[p]) = pos[p] + 1 /\ AllKnown(p)
    /\ KeyOf(cur[p], names[p]) = Key(LastSaid(p))
Holds(p) ==
    /\ ready[p] = <<>>
    /\ \/ cur[p].kind \notin {"EOF", "ERR"} /\ KeyIsSaid(p)
       \/ cur[p].kind = "EOF" /\ Gone(p) /\ p \in killed /\ Len(said[p]) = pos[p]
       \/ cur[p].kind = "ERR" /\ Gone(p) /\ p \in killed /\ ~skip.on
    /\ ~Gone(p) => cur[p].kind # "END"
    /\ Gone(p) => p \in killed \/ cur[p].kind = "END"

\* Of a record r of p so much is still in the FIFO; if that is all of it, p has said its event.
Partly(p, r) ==
    /\ Good(r, interned[p], names[p])
    /\ Reading(p) => rd.rec = r /\ rd.got \in Nat /\ rd.got < r.len
    /\ \A i \in 1 .. Len(ready[p]) : ready[p][i] = [rec |-> r, at |-> Taken(p) + i - 1]
    /\ Taken(p) + Len(ready[p]) <= r.len + 1
    /\ IF Taken(p) + Len(ready[p]) = r.len + 1 /\ r.kind # "NAME_DEF"
       THEN Len(said[p]) = pos[p] + 1 /\ LastSaid(p) = Meant(r, interned[p])
       ELSE Len(said[p]) = pos[p]

\* What is left on the way of a participant that is gone: the beginning of a record, or the END
\* of a program that was not killed, or nothing.
Remains(p) ==
    \E r : /\ Partly(p, r)
           /\ p \notin killed => r.kind = "END" /\ r.len = 0 /\ Len(ready[p]) = 1
Silent(p) ==
    /\ ready[p] = <<>> /\ ~Reading(p) /\ Len(said[p]) = pos[p]
    /\ p \in killed \/ (cpc = "go" /\ p < ci /\ cur[p].kind = "END")

Talk(p) ==
    /\ IsSeq(interned[p])
    /\ pc[p] \in {"openReady", "openGo", "run"} => AllKnown(p)
    /\ pc[p] \in {"write", "ack"} => Records(p)
    /\ Reading(p) => rd.whole
    /\ go[p] # <<>> => go[p][1] = "G"
    /\ HoldsTurn(p) /\ cpc # "go" => Holds(p)
    /\ HoldsTurn(p) /\ cpc = "go" /\ Gone(p) =>
          ready[p] = <<>> /\ Len(said[p]) = pos[p] /\ (p \in killed \/ cur[p].kind = "END")
    /\ ~HoldsTurn(p) /\ Gone(p) => Remains(p) \/ Silent(p)
    /\ cpc = "go" /\ cur[p].kind = "END" => Gone(p) /\ Len(said[p]) = pos[p]

(***************************************************************************)
(* All of them.                                                            *)
(***************************************************************************)
\* Everyone agreed when the go is given; while skipping, a round in which nothing moved found
\* them in disagreement.
Round ==
    /\ cpc = "go" => \A p \in P : cur[p].kind = cur[1].kind
    /\ cpc = "skip" /\ ~skip.moved => ~Agreed
    /\ cpc = "recheck" /\ ~skip.moved => ~Agreed \/ "EOF" \in Kinds

\* A verdict that is on its way to the participants.
Verdict ==
    cpc = "stop" => /\ rc \in {1, 3}
                    /\ Lost \/ (rc = 1 /\ \E p \in P : Monitor!Mismatch(p))

Shapes == /\ DOMAIN interned = P /\ DOMAIN names = P /\ DOMAIN cur = P
          /\ DOMAIN skip = {"allowed", "on", "left", "moved"} /\ skip.moved \in BOOLEAN
          /\ \A p \in P : IsSeq(said[p]) /\ pos[p] \in Nat

TalkInv == Shapes /\ Verdict /\ (Live => Round /\ \A p \in P \ torn : Talk(p))

-----------------------------------------------------------------------------
\* The key of the event a record stands for, when its name is known.
LEMMA KeyOfMeant ==
    ASSUME NEW r, NEW in, NEW nm, EventRecord(r, in), Knows(nm, in, Len(in)), IsSeq(in),
           NEW ev, ev = [kind |-> r.kind, id |-> r.id, type |-> r.type, val |-> r.val]
    PROVE  KeyOf(ev, nm) = Key(Meant(r, in))
<1> DEFINE n == IF r.id = 0 THEN NoName ELSE in[r.id]
           e == [kind |-> r.kind, name |-> n, type |-> r.type, val |-> r.val]
<1>1. Key(e) = [e EXCEPT !.name = <<e.name>>]
  BY DEF Key
<1>2. e.name = n
  OBVIOUS
<1>3. [e EXCEPT !.name = <<n>>] = [kind |-> r.kind, name |-> <<n>>, type |-> r.type, val |-> r.val]
  OBVIOUS
<1>4. Key(Meant(r, in)) = [kind |-> r.kind, name |-> <<n>>, type |-> r.type, val |-> r.val]
  BY <1>1, <1>2, <1>3 DEF Meant
<1>5. r.id # 0 => r.id \in DOMAIN nm /\ nm[r.id] = in[r.id]
  BY LenSeq DEF EventRecord, Knows
<1>6. KeyOf(ev, nm) = [kind |-> r.kind, name |-> <<n>>, type |-> r.type, val |-> r.val]
  <2>1. CASE r.id = 0
    BY <2>1 DEF KeyOf
  <2>2. CASE r.id # 0
    BY <1>5, <2>2 DEF KeyOf
  <2>3. QED BY <2>1, <2>2
<1>7. QED BY <1>4, <1>6

\* A step in which q takes no part and the controller learns nothing of it.
LEMMA TalkFrame ==
    ASSUME NEW q \in P, Talk(q), Still(q), SameTo(q),
           interned'[q] = interned[q], names'[q] = names[q],
           q \in killed => q \in killed',
           HoldsTurn(q) => cur'[q] = cur[q],
           skip'.on => skip.on \/ cur[q].kind # "ERR",
           cpc' = "go" => cpc = "go" /\ cur'[q] = cur[q],
           cpc = "go" /\ q < ci /\ cur[q].kind = "END" => cpc' = "go" /\ q < ci'
    PROVE  Talk(q)'
<1>1. Taken(q)' = Taken(q) /\ (AllKnown(q)' <=> AllKnown(q)) /\ LastSaid(q)' = LastSaid(q)
  BY DEF Taken, AllKnown, LastSaid, Still, SameTo
<1>2. pc[q] \in {"write", "ack"} => Records(q)'
  BY <1>1 DEF Talk, Records, Announces, Still, SameTo
<1>3. \A r : Partly(q, r) => Partly(q, r)'
  BY <1>1 DEF Partly, Still, SameTo
<1>4. Remains(q) => Remains(q)'
  BY <1>3 DEF Remains, Still
<1>5. Silent(q) => Silent(q)'
  BY DEF Silent, Still, SameTo
<1>6. HoldsTurn(q) /\ Holds(q) => Holds(q)'
  BY <1>1 DEF Holds, KeyIsSaid, Gone, Still, SameTo
<1>7. IsSeq(interned'[q]) /\ (pc'[q] \in {"openReady", "openGo", "run"} => AllKnown(q)')
  BY <1>1 DEF Talk, Still
<1>8. (Reading(q)' => rd'.whole) /\ (go'[q] # <<>> => go'[q][1] = "G")
  BY DEF Talk, Still, SameTo
<1>9. HoldsTurn(q)' /\ cpc' # "go" => Holds(q)'
  BY <1>6 DEF Talk, SameTo
<1>10. HoldsTurn(q)' /\ cpc' = "go" /\ Gone(q)' =>
         ready'[q] = <<>> /\ Len(said'[q]) = pos'[q] /\ (q \in killed' \/ cur'[q].kind = "END")
  BY DEF Talk, Still, SameTo, Gone
<1>11. ~HoldsTurn(q)' /\ Gone(q)' => Remains(q)' \/ Silent(q)'
  BY <1>4, <1>5 DEF Talk, Still, SameTo, Gone
<1>12. cpc' = "go" /\ cur'[q].kind = "END" => Gone(q)' /\ Len(said'[q]) = pos'[q]
  BY DEF Talk, Still, Gone
<1>13. QED BY <1>2, <1>7, <1>8, <1>9, <1>10, <1>11, <1>12 DEF Talk, Still

-----------------------------------------------------------------------------
(* The steps of a participant.                                             *)

LEMMA MovesNames ==
    ASSUME Shapes, NEW p \in P, Moves(p) \/ Kill(p)
    PROVE  /\ names' = names /\ cur' = cur /\ rc' = rc /\ DOMAIN interned' = P
           /\ killed \subseteq killed'
           /\ \A q \in P : q # p => interned'[q] = interned[q]
<1>1. CASE \E e \in Events : Emit(p, e)
  BY <1>1 DEF Emit, Shapes, controller, history
<1>2. CASE WriteBlocking(p) \/ WriteWhole(p) \/ WriteTorn(p)
  BY <1>2 DEF WriteBlocking, WriteWhole, WriteTorn, Shapes, controller
<1>3. CASE AckGo(p) \/ AckStop(p) \/ HangUp(p) \/ Finish(p)
  BY <1>3 DEF AckGo, AckStop, HangUp, Finish, Shapes, controller, history
<1>4. CASE Kill(p)
  BY <1>4 DEF Kill, Shapes, controller
<1>5. QED BY <1>1, <1>2, <1>3, <1>4 DEF Moves

LEMMA EmitTalk ==
    ASSUME NEW p \in P, ParticipantOK(p), Talk(p), Domains, Shapes,
           NEW e \in Events, Emit(p, e)
    PROVE  Talk(p)'
<1> DEFINE in    == interned[p]
           table == IF Known(p, e.name) THEN in ELSE Append(in, e.name)
           id    == IF e.name = NoName THEN 0 ELSE Id(p, e.name, table)
           def   == NameDef(id, e.name)
           rec   == Wire(e, id)
<1>1. /\ todo'[p] = IF Known(p, e.name) THEN <<rec>> ELSE <<def, rec>>
      /\ interned'[p] = table
      /\ pc'[p] = "write" /\ pc[p] = "run"
      /\ ready'[p] = ready[p] /\ go'[p] = go[p] /\ said'[p] = said[p] /\ pos'[p] = pos[p]
      /\ cpc' = cpc /\ ci' = ci /\ rd' = rd /\ skip' = skip /\ names' = names /\ cur' = cur
  BY DEF Emit, Domains, Shapes, controller, history
<1>2. IsSeq(in) /\ Len(in) \in Nat /\ AllKnown(p)
  BY <1>1, LenSeq DEF Talk
<1>3. DOMAIN in = 1 .. Len(in)
  BY <1>2, LenProperties DEF IsSeq
<1>4. ~HoldsTurn(p)' /\ ~Reading(p)' /\ go'[p] = <<>> /\ (Reading(p)' <=> Reading(p))
  BY <1>1, ControllerStill DEF Quiet, SameTo, ParticipantOK, InStep
<1>5. /\ rec = [kind |-> e.kind, id |-> id, type |-> e.type, val |-> e.val, len |-> e.len]
      /\ def.len = 1 /\ def.kind = "NAME_DEF" /\ def.id = id /\ def.val = e.name
  BY DEF Wire, NameDef
<1>6. rec.kind \notin {"NAME_DEF", "EOF", "ERR", "NONE", "END"} /\ rec.len \in Nat /\ rec.id = id
  BY <1>5, SyncAssumption
<1>7. CASE Known(p, e.name)
  <2>1. id \in 0 .. Len(in) /\ table = in
    <3>1. CASE e.name = NoName
      BY <1>2, <1>7, <3>1
    <3>2. CASE e.name # NoName
      <4>1. \E i \in DOMAIN in : in[i] = e.name
        BY <1>7, <3>2 DEF Known
      <4>2. id = CHOOSE i \in DOMAIN in : in[i] = e.name
        BY <1>7, <3>2 DEF Id
      <4>3. id \in DOMAIN in
        BY <4>1, <4>2
      <4>4. QED BY <1>2, <1>3, <1>7, <4>3
    <3>3. QED BY <3>1, <3>2
  <2> HIDE DEF id, table, rec, def
  <2>2. Head(todo'[p]) = rec
    BY <1>1, <1>7, ShortSeq
  <2>3. EventRecord(rec, in)
    BY <1>6, <2>1 DEF EventRecord
  <2>4. Records(p)'
    <3>1. ~Announces(p)'
      BY <1>6, <2>2 DEF Announces
    <3>2. Good(rec, in, names[p])
      BY <1>2, <2>3 DEF Good, AllKnown
    <3>3. EventRecord(rec, interned'[p]) /\ Good(rec, interned'[p], names'[p])
      BY <1>1, <2>1, <2>3, <3>2
    <3>4. QED BY <1>1, <1>6, <2>2, <3>1, <3>3 DEF Records
  <2>5. QED BY <1>1, <1>2, <1>4, <2>1, <2>4 DEF Talk, Gone
<1>8. CASE ~Known(p, e.name)
  <2> DEFINE n == Len(in) + 1
  <2>1. IsSeq(table) /\ Len(table) = n /\ (\A i \in 1 .. Len(in) : table[i] = in[i])
        /\ table[n] = e.name
    BY <1>2, <1>8, AppendSeq
  <2>2. DOMAIN table = 1 .. n
    BY <2>1, LenProperties DEF IsSeq
  <2>3. id = n
    <3>1. e.name # NoName /\ \A i \in 1 .. Len(in) : in[i] # e.name
      BY <1>3, <1>8 DEF Known
    <3>2. \A i \in DOMAIN table : table[i] = e.name <=> i = n
      BY <1>2, <2>1, <2>2, <3>1
    <3>3. n \in DOMAIN table
      BY <1>2, <2>2
    <3>4. id = CHOOSE i \in DOMAIN table : table[i] = e.name
      BY <3>1 DEF Id
    <3> HIDE DEF table, n, id
    <3>5. \E i \in DOMAIN table : table[i] = e.name
      BY <3>2, <3>3
    <3>6. id \in DOMAIN table /\ table[id] = e.name
      BY <3>4, <3>5
    <3>7. QED BY <3>2, <3>6
  <2> HIDE DEF id, table, rec, def
  <2>4. Head(todo'[p]) = def /\ todo'[p][2] = rec
    BY <1>1, <1>8, ShortSeq, TailSeq
  <2>5. EventRecord(rec, table) /\ NameRecord(def, table)
    BY <1>2, <1>5, <1>6, <2>1, <2>3 DEF EventRecord, NameRecord
  <2>6. Knows(names[p], table, Len(table) - 1)
    BY <1>2, <2>1 DEF Knows, AllKnown
  <2>7. Records(p)'
    <3>1. Announces(p)'
      BY <1>5, <2>4 DEF Announces
    <3>2. Good(def, table, names[p])
      BY <2>5, <2>6 DEF Good
    <3>3. EventRecord(rec, interned'[p]) /\ NameRecord(def, interned'[p])
          /\ Good(def, interned'[p], names'[p])
      BY <1>1, <2>5, <3>2
    <3>4. QED BY <1>1, <1>6, <2>4, <3>1, <3>3 DEF Records
  <2>8. QED BY <1>1, <1>4, <2>1, <2>7 DEF Talk, Gone
<1>9. QED BY <1>7, <1>8

\* A participant that goes on, not being listened to.
LEMMA OwnTalk ==
    ASSUME NEW p \in P, Talk(p), pc[p] # "exited", pc'[p] \in {"run", "write", "ack"},
           cpc' = cpc, ci' = ci, rd' = rd, skip' = skip, cur' = cur, names' = names,
           interned'[p] = interned[p], ~HoldsTurn(p),
           go'[p] = <<>>,
           pc'[p] = "run" => AllKnown(p),
           pc'[p] \in {"write", "ack"} => Records(p)'
    PROVE  Talk(p)'
<1>1. (AllKnown(p)' <=> AllKnown(p)) /\ (Reading(p)' <=> Reading(p)) /\ ~HoldsTurn(p)'
  BY DEF AllKnown, Reading, HoldsTurn
<1>2. QED BY <1>1 DEF Talk, Gone

LEMMA WriteTalk ==
    ASSUME NEW p \in P, ParticipantOK(p), Talk(p), Domains,
           WriteBlocking(p) \/ WriteWhole(p)
    PROVE  Talk(p)'
<1>1. /\ pc[p] = "write" /\ todo'[p] = todo[p] /\ go'[p] = go[p] /\ names' = names /\ cur' = cur
      /\ interned' = interned
      /\ cpc' = cpc /\ ci' = ci /\ rd' = rd /\ skip' = skip
      /\ \/ pc'[p] = "write"
         \/ pc'[p] = "ack" /\ Said(p)
  BY DEF WriteBlocking, WriteWhole, Domains, controller
<1>2. Writing(p) /\ Sending(p) /\ IsSeq(todo[p]) /\ todo[p] # <<>>
  BY <1>1 DEF ParticipantOK, InStep, Sending, WellFormed
<1>3. ~HoldsTurn(p) /\ go'[p] = <<>> /\ Records(p)
  BY <1>1, <1>2 DEF Writing, Talk
<1>4. ~HoldsTurn(p)' /\ (Announces(p)' <=> Announces(p))
  BY <1>1, <1>3 DEF HoldsTurn, Announces
<1>5. pc'[p] = "ack" /\ ~Announces(p) => LastSaid(p)' = Meant(Head(todo[p]), interned[p])
  <2> SUFFICES ASSUME pc'[p] = "ack", ~Announces(p)
               PROVE  LastSaid(p)' = Meant(Head(todo[p]), interned[p])
    OBVIOUS
  <2>1. Head(todo[p]) = todo[p][1]
    BY <1>2, TailSeq
  <2> DEFINE x == EventOf(p, todo[p][1])
             s == said[p]
  <2>2. x = Meant(Head(todo[p]), interned[p])
    BY <2>1 DEF EventOf, Meant
  <2> HIDE DEF x
  <2>3. said'[p] = Append(s, x)
    BY <1>1, <2>1 DEF Said, Announces, Domains, x
  <2>4. IsSeq(s)
    BY DEF ParticipantOK, WellFormed
  <2>5. LastSaid(p)' = x
    BY <2>3, <2>4, AppendSeq DEF LastSaid
  <2>6. QED BY <2>2, <2>5
<1>6. Records(p)'
  BY <1>1, <1>3, <1>4, <1>5 DEF Records
<1>7. QED BY <1>1, <1>3, <1>6, OwnTalk

LEMMA AckGoTalk ==
    ASSUME NEW p \in P, ParticipantOK(p), Talk(p), Domains, AckGo(p)
    PROVE  Talk(p)'
<1>1. /\ pc[p] = "ack" /\ go[p] # <<>> /\ Head(go[p]) = "G" /\ go'[p] = Tail(go[p])
      /\ interned' = interned /\ names' = names /\ cur' = cur
      /\ cpc' = cpc /\ ci' = ci /\ rd' = rd /\ skip' = skip
  BY DEF AckGo, Domains, controller, history
<1>2. /\ todo'[p] = Tail(todo[p])
      /\ Tail(todo[p]) = <<>> => pc'[p] = "run"
      /\ Tail(todo[p]) # <<>> => pc'[p] = "write"
  BY DEF AckGo, NextRecord, Domains
<1>3. Answered(p) /\ Sending(p) /\ IsSeq(todo[p]) /\ IsSeq(go[p]) /\ todo[p] # <<>>
  BY <1>1 DEF ParticipantOK, InStep, OnItsWay, InHand, Abandoned, WellFormed, Sending
<1>4. Len(go[p]) = 1 /\ Len(Tail(go[p])) = Len(go[p]) - 1 /\ IsSeq(Tail(go[p]))
  BY <1>1, <1>3, TailSeq DEF Answered
<1>5. go'[p] = <<>>
  <2>1. Len(Tail(go[p])) = 0
    BY <1>4
  <2>2. QED BY <1>1, <1>4, <2>1, LenSeq
<1>6. ~HoldsTurn(p) /\ Records(p) /\ AllKnown(p)
  BY <1>1, <1>3 DEF Answered, Talk, Records
<1>7. Tail(todo[p]) # <<>> => Records(p)'
  <2> SUFFICES ASSUME Tail(todo[p]) # <<>> PROVE Records(p)'
    OBVIOUS
  <2> DEFINE t == Tail(todo[p])
  <2>1. IsSeq(t) /\ Len(t) = Len(todo[p]) - 1 /\ t # <<>>
        /\ \A i \in 1 .. Len(todo[p]) - 1 : t[i] = todo[p][i + 1]
    BY <1>3, TailSeq
  <2> HIDE DEF t
  <2>2. Len(t) \in Nat /\ Len(t) # 0 /\ Head(t) = t[1]
    BY <2>1, LenSeq, TailSeq
  <2>3. Announces(p) /\ Len(todo[p]) = 2 /\ Head(t) = todo[p][2]
    BY <1>1, <1>3, <2>1, <2>2 DEF Sending
  <2>4. EventRecord(todo[p][2], interned[p]) /\ todo[p][2].kind # "END"
    BY <1>6, <2>3 DEF Records
  <2>5. ~Announces(p)'
    BY <1>2, <2>3, <2>4 DEF Announces, EventRecord, t
  <2>6. Good(todo[p][2], interned[p], names[p])
    BY <1>6, <2>4 DEF Good, AllKnown
  <2>7. QED BY <1>1, <1>2, <2>3, <2>4, <2>5, <2>6 DEF Records, t
<1>8. QED BY <1>1, <1>2, <1>5, <1>6, <1>7, OwnTalk

\* The record of a participant that is heard, or could be.
LEMMA PartlyAlive ==
    ASSUME NEW p \in P, ParticipantOK(p), Talk(p),
           pc[p] = "write" \/ (pc[p] = "ack" /\ OnItsWay(p))
    PROVE  /\ Partly(p, Head(todo[p])) /\ Head(todo[p]).kind # "END"
           /\ pc[p] = "write" => Taken(p) + Len(ready[p]) < Head(todo[p]).len + 1
<1> DEFINE r == Head(todo[p])
<1>1. Underway(p) /\ go[p] = <<>> /\ ~HoldsTurn(p)
  BY DEF ParticipantOK, InStep, Writing, OnItsWay
<1>2. Records(p) /\ Good(r, interned[p], names[p])
  BY <1>1 DEF Talk, Records
<1>3. r.kind # "END"
  BY <1>2 DEF Records, NameRecord
<1>4. r.len \in Nat /\ Taken(p) \in Nat /\ Len(ready[p]) \in Nat /\ Len(out[p]) \in Nat
      /\ (Len(out[p]) = 0 <=> out[p] = <<>>)
  BY <1>1, TakenNat, LenSeq DEF ParticipantOK, WellFormed, Sending
<1>5. /\ Len(ready[p]) + Len(out[p]) + Taken(p) = r.len + 1
      /\ \A i \in 1 .. Len(ready[p]) : ready[p][i] = [rec |-> r, at |-> Taken(p) + i - 1]
      /\ Reading(p) => rd.rec = r /\ rd.got \in Nat /\ rd.got < r.len
  BY <1>1 DEF Underway, Rest
<1>6. CASE pc[p] = "write"
  <2>1. out[p] # <<>> /\ Len(said[p]) = pos[p]
    BY <1>6 DEF ParticipantOK, InStep, Writing
  <2> HIDE DEF r
  <2>2. Taken(p) + Len(ready[p]) < r.len + 1
    <3>1. Len(out[p]) # 0
      BY <1>4, <2>1
    <3>2. \A a, b, c, d \in Nat : a + b + c = d + 1 /\ b # 0 => c + a < d + 1
      OBVIOUS
    <3>3. QED BY <1>4, <1>5, <3>1, <3>2, Zenon
  <2>3. /\ ~(Taken(p) + Len(ready[p]) = r.len + 1)
        /\ Taken(p) + Len(ready[p]) <= r.len + 1
    <3>1. \A a, b, c \in Nat : a + b < c + 1 => ~(a + b = c + 1) /\ a + b <= c + 1
      OBVIOUS
    <3>2. QED BY <1>4, <2>2, <3>1, Zenon
  <2>4. Partly(p, r)
    BY <1>2, <1>5, <2>1, <2>3, Zenon DEF Partly
  <2>5. QED BY <1>3, <2>2, <2>4 DEF r
<1>7. CASE pc[p] = "ack" /\ OnItsWay(p)
  <2>1. out[p] = <<>> /\ pos[p] \in Nat
        /\ Len(said[p]) = pos[p] + (IF r.kind = "NAME_DEF" THEN 0 ELSE 1)
    BY <1>7 DEF OnItsWay, Announces, ParticipantOK, WellFormed
  <2>2. Taken(p) + Len(ready[p]) = r.len + 1
    BY <1>4, <1>5, <2>1
  <2>3. r.kind # "NAME_DEF" => LastSaid(p) = Meant(r, interned[p])
    BY <1>1, <1>2, <1>7 DEF Records, Announces
  <2> HIDE DEF r
  <2>4. IF r.kind # "NAME_DEF" THEN Len(said[p]) = pos[p] + 1 ELSE Len(said[p]) = pos[p]
    BY <2>1
  <2>5. Partly(p, r)
    BY <1>2, <1>4, <1>5, <2>2, <2>3, <2>4 DEF Partly
  <2>6. QED BY <1>3, <1>7, <2>5 DEF r
<1>8. QED BY <1>6, <1>7

LEMMA FinishTalk ==
    ASSUME NEW p \in P, ParticipantOK(p), Talk(p), Domains, cpc # "done", Finish(p)
    PROVE  Talk(p)'
<1> DEFINE r == Wire(END, 0)
           x == Tokens(r)[1]
           e == EventOf(p, r)
           s == said[p]
<1>1. /\ pc[p] = "run" /\ pc'[p] = "exited" /\ go'[p] = go[p] /\ pos' = pos /\ names' = names
      /\ interned' = interned /\ cur' = cur
      /\ cpc' = cpc /\ ci' = ci /\ rd' = rd /\ skip' = skip
  BY DEF Finish, Exit, Domains, controller
<1>2. Quiet(p) /\ AllKnown(p) /\ IsSeq(s) /\ pos[p] \in Nat
  BY <1>1 DEF ParticipantOK, InStep, WellFormed, Talk
<1>3. r.len = 0 /\ r.kind = "END" /\ r.id = 0
  BY DEF Wire, END
<1>4. x = [rec |-> r, at |-> 0]
  <2> HIDE DEF r
  <2>1. \A i \in 1 .. 0 + 1 : Tokens(r)[i] = [rec |-> r, at |-> i - 1]
    BY <1>3, TokensSeq
  <2>2. Tokens(r)[1] = [rec |-> r, at |-> 1 - 1]
    BY <2>1
  <2>3. QED BY <2>2
<1>5. e = Meant(r, interned[p])
  BY DEF EventOf, Meant
<1>6. said'[p] = Append(s, e)
  BY DEF Finish, Domains
<1>7. ready'[p] = <<x>>
  <2>1. Room(p) > 0 /\ ready[p] = <<>>
    <3>1. ready[p] = <<>> /\ Len(ready[p]) = 0
      BY <1>2, ShortSeq DEF Quiet
    <3>2. QED BY <3>1, SyncAssumption DEF Room
  <2>2. ready'[p] = Append(ready[p], x)
    BY <2>1 DEF Finish, AtExit, Domains
  <2> HIDE DEF x
  <2>3. Append(<<>>, x) = <<x>>
    OBVIOUS
  <2>4. QED BY <2>1, <2>2, <2>3
<1> HIDE DEF r, x, e
<1>8. Len(said'[p]) = pos'[p] + 1 /\ LastSaid(p)' = Meant(r, interned[p])
  <2>1. Len(said'[p]) = Len(s) + 1 /\ said'[p][Len(s) + 1] = e
    BY <1>2, <1>6, AppendSeq
  <2>2. QED BY <1>1, <1>2, <1>5, <2>1 DEF Quiet, LastSaid
<1>9. ~HoldsTurn(p)' /\ ~Reading(p)' /\ Taken(p)' = 0 /\ (AllKnown(p)' <=> AllKnown(p))
  BY <1>1, <1>2 DEF Quiet, HoldsTurn, Reading, Taken, AllKnown
<1>10. Good(r, interned[p], names[p])
  <2>1. Len(interned[p]) \in Nat
    BY LenSeq DEF Talk
  <2>2. QED BY <1>2, <1>3, <2>1 DEF Good, EventRecord, AllKnown
<1>11. Len(ready'[p]) = 1 /\ ready'[p][1] = x
  BY <1>7, ShortSeq
<1>12. Partly(p, r)'
  <2>1. \A i \in 1 .. Len(ready'[p]) : ready'[p][i] = [rec |-> r, at |-> 0 + i - 1]
    <3>1. ASSUME NEW i \in 1 .. Len(ready'[p]) PROVE i = 1 /\ 0 + i - 1 = 0
      BY <1>11
    <3>2. QED BY <1>4, <1>11, <3>1
  <2>2. QED BY <1>1, <1>3, <1>8, <1>9, <1>10, <1>11, <2>1 DEF Partly
<1>13. Remains(p)'
  BY <1>3, <1>11, <1>12 DEF Remains
<1>14. QED BY <1>1, <1>2, <1>9, <1>13 DEF Talk, Quiet, Gone

LEMMA KillTalk ==
    ASSUME NEW p \in P, ParticipantOK(p), Talk(p), Domains, cpc # "done", Kill(p)
    PROVE  Talk(p)'
<1>1. /\ ~Gone(p) /\ pc'[p] = "exited" /\ go'[p] = go[p] /\ pos' = pos /\ names' = names
      /\ ready' = ready /\ said' = said
      /\ interned' = interned /\ cur' = cur /\ p \in killed'
      /\ cpc' = cpc /\ ci' = ci /\ rd' = rd /\ skip' = skip
  BY DEF Kill, Exit, Domains, controller
<1>2. Gone(p)' /\ (HoldsTurn(p)' <=> HoldsTurn(p)) /\ (Reading(p)' <=> Reading(p))
      /\ Taken(p)' = Taken(p) /\ (AllKnown(p)' <=> AllKnown(p)) /\ LastSaid(p)' = LastSaid(p)
  BY <1>1 DEF Gone, HoldsTurn, Reading, Taken, AllKnown, LastSaid
<1>3. ~(cpc = "go" /\ cur[p].kind = "END")
  BY <1>1 DEF Talk
<1>4. CASE HoldsTurn(p)
  <2>1. InHand(p)
    BY <1>1, <1>4, InTurn DEF Gone
  <2>2. cpc # "go" => Holds(p)'
    BY <1>1, <1>2, <1>4 DEF Talk, Holds, KeyIsSaid
  <2>3. cpc = "go" => ready'[p] = <<>> /\ Len(said'[p]) = pos'[p]
    BY <1>1, <2>1 DEF InHand, ParticipantOK, WellFormed
  <2>4. QED BY <1>1, <1>2, <1>3, <1>4, <2>2, <2>3 DEF Talk
<1>5. CASE ~HoldsTurn(p)
  <2>1. Remains(p)' \/ Silent(p)'
    <3>1. CASE pc[p] = "write" \/ (pc[p] = "ack" /\ OnItsWay(p))
      <4>1. Partly(p, Head(todo[p]))
        BY <3>1, PartlyAlive
      <4>2. Partly(p, Head(todo[p])) => \E r : Partly(p, r)
        OBVIOUS
      <4>3. PICK r : Partly(p, r)
        BY <4>1, <4>2
      <4>4. Partly(p, r)'
        BY <1>1, <1>2, <4>3 DEF Partly
      <4>5. QED BY <1>1, <4>4 DEF Remains
    <3>2. CASE Quiet(p) \/ Answered(p)
      BY <1>1, <1>2, <3>2, ShortSeq DEF Quiet, Answered, Silent, Talk
    <3>3. ~InHand(p) /\ ~Abandoned(p)
      BY <1>5 DEF InHand, Abandoned
    <3>4. QED BY <1>1, <3>1, <3>2, <3>3 DEF ParticipantOK, InStep, WellFormed, Gone
  <2>2. QED BY <1>1, <1>2, <1>3, <1>5, <2>1 DEF Talk
<1>6. QED BY <1>4, <1>5

\* What the monitor means by a mismatch.
LEMMA MismatchMeans ==
    ASSUME NEW p \in P
    PROVE  Monitor!Mismatch(p) <=>
              /\ Monitor!Owes(p) /\ Monitor!Owes(1)
              /\ ~keys_match(Key(Monitor!Held(p)), Key(Monitor!Held(1)),
                             p \in WILDCARD_NAMES_PARTICIPANTS, 1 \in WILDCARD_NAMES_PARTICIPANTS)
BY DEF Monitor!Mismatch, Key

\* A mismatch stays, whatever more is said.
LEMMA MismatchKept ==
    ASSUME NEW p \in P, Monitor!Mismatch(p), 1 \in P,
           \A q \in P : /\ IsSeq(said[q]) /\ pos[q] \in Nat /\ pos'[q] = pos[q]
                        /\ said'[q] = said[q] \/ \E x : said'[q] = Append(said[q], x)
    PROVE  Monitor!Mismatch(p)'
<1>1. ASSUME NEW q \in P, Monitor!Owes(q)
      PROVE  Monitor!Owes(q)' /\ Monitor!Held(q)' = Monitor!Held(q)
  <2>1. /\ Len(said[q]) \in Nat /\ pos[q] \in Nat /\ pos'[q] = pos[q] /\ Len(said[q]) > pos[q]
    BY <1>1, LenSeq DEF Monitor!Owes
  <2>2. pos[q] + 1 \in 1 .. Len(said[q])
    BY <2>1
  <2>3. /\ Len(said'[q]) \in Nat /\ Len(said'[q]) >= Len(said[q])
        /\ said'[q][pos[q] + 1] = said[q][pos[q] + 1]
    <3>1. CASE said'[q] = said[q]
      BY <2>1, <3>1
    <3>2. CASE \E x : said'[q] = Append(said[q], x)
      BY <2>1, <2>2, <3>2, AppendSeq
    <3>3. QED BY <3>1, <3>2
  <2>4. QED BY <2>1, <2>3 DEF Monitor!Owes, Monitor!Held
<1>2. Monitor!Owes(p) /\ Monitor!Owes(1)
  BY MismatchMeans
<1>3. /\ Monitor!Owes(p)' /\ Monitor!Owes(1)'
      /\ Monitor!Held(p)' = Monitor!Held(p) /\ Monitor!Held(1)' = Monitor!Held(1)
  BY <1>1, <1>2
<1>4. QED BY <1>3 DEF Monitor!Mismatch

\* What is said only grows.
LEMMA SaidGrows ==
    ASSUME Domains, NEW p \in P, Moves(p) \/ Kill(p), NEW q \in P
    PROVE  said'[q] = said[q] \/ \E x : said'[q] = Append(said[q], x)
<1>1. said' = said \/ \E x : said' = [said EXCEPT ![p] = Append(said[p], x)]
  <2>1. CASE \E e \in Events : Emit(p, e)
    BY <2>1 DEF Emit, history
  <2>2. CASE WriteBlocking(p) \/ WriteWhole(p) \/ WriteTorn(p)
    BY <2>2 DEF WriteBlocking, WriteWhole, WriteTorn, Said
  <2>3. CASE AckGo(p) \/ AckStop(p) \/ HangUp(p)
    BY <2>3 DEF AckGo, AckStop, HangUp, history
  <2>4. CASE Finish(p)
    BY <2>4 DEF Finish
  <2>5. CASE Kill(p)
    BY <2>5 DEF Kill
  <2>6. QED BY <2>1, <2>2, <2>3, <2>4, <2>5 DEF Moves
<1>2. QED BY <1>1 DEF Domains

LEMMA MovesTalk ==
    ASSUME SyncInv, TalkInv, NEW p \in P, Moves(p) \/ Kill(p)
    PROVE  TalkInv'
<1>1. /\ cpc' = cpc /\ ci' = ci /\ rd' = rd /\ skip' = skip /\ pos' = pos
      /\ Domains' /\ torn \subseteq torn'
      /\ \A q \in P : q # p => Still(q)
  BY MovesOthers DEF SyncInv
<1>2. /\ names' = names /\ cur' = cur /\ rc' = rc /\ DOMAIN interned' = P
      /\ killed \subseteq killed'
      /\ \A q \in P : q # p => interned'[q] = interned[q]
  BY MovesNames DEF TalkInv
<1>3. \A q \in P : said'[q] = said[q] \/ \E x : said'[q] = Append(said[q], x)
  BY SaidGrows DEF SyncInv
<1>4. Shapes'
  <2>1. ASSUME NEW q \in P PROVE IsSeq(said'[q])
    <3>1. IsSeq(said[q])
      BY DEF TalkInv, Shapes
    <3>2. \A x : IsSeq(Append(said[q], x))
      BY <3>1, AppendSeq
    <3>3. QED BY <1>3, <3>1, <3>2
  <2>2. QED BY <1>1, <1>2, <2>1 DEF TalkInv, Shapes
<1>5. Verdict'
  <2>1. \A q \in P : Monitor!Mismatch(q) => Monitor!Mismatch(q)'
    <3>1. 1 \in P
      BY SyncAssumption DEF P
    <3>2. \A q \in P : IsSeq(said[q]) /\ pos[q] \in Nat /\ pos'[q] = pos[q]
      BY <1>1 DEF TalkInv, Shapes
    <3>3. QED BY <1>3, <3>1, <3>2, MismatchKept
  <2>2. Lost => Lost'
    BY <1>1, <1>2 DEF Lost
  <2>3. QED BY <1>1, <1>2, <2>1, <2>2 DEF TalkInv, Verdict
<1>6. Round /\ Live => Round'
  BY <1>1, <1>2 DEF Round, Agreed, event_key, name_for_id, Kinds
<1>7. ASSUME Live, NEW q \in P \ torn', q # p PROVE Talk(q)'
  <2>1. Talk(q) /\ Still(q) /\ SameTo(q)
    BY <1>1, <1>7, ControllerStill DEF TalkInv
  <2>2. QED BY <1>1, <1>2, <1>7, <2>1, TalkFrame
<1>8. ASSUME Live, p \in P \ torn' PROVE Talk(p)'
  <2>1. ParticipantOK(p) /\ Domains /\ Talk(p) /\ Shapes /\ cpc # "done"
    BY <1>1, <1>8 DEF SyncInv, TalkInv, Live
  <2>2. CASE \E e \in Events : Emit(p, e)
    BY <2>1, <2>2, EmitTalk
  <2>3. CASE WriteBlocking(p) \/ WriteWhole(p)
    BY <2>1, <2>3, WriteTalk
  <2>4. CASE WriteTorn(p)
    BY <1>8, <2>4 DEF WriteTorn
  <2>5. CASE AckGo(p)
    BY <2>1, <2>5, AckGoTalk
  <2>6. CASE AckStop(p)
    <3>1. IsSeq(go[p]) /\ go[p] # <<>> /\ Head(go[p]) = "S"
      BY <2>1, <2>6 DEF AckStop, ParticipantOK, WellFormed
    <3>2. go[p][1] = "S" /\ go[p][1] = "G"
      BY <2>1, <3>1, TailSeq DEF Talk
    <3>3. QED BY <3>2
  <2>7. CASE HangUp(p)
    BY <2>1, <2>7 DEF HangUp
  <2>8. CASE Finish(p)
    BY <2>1, <2>8, FinishTalk
  <2>9. CASE Kill(p)
    BY <2>1, <2>9, KillTalk
  <2>10. QED BY <2>2, <2>3, <2>4, <2>5, <2>6, <2>7, <2>8, <2>9 DEF Moves
<1>9. Live' => Live
  BY <1>1 DEF Live
<1>10. ASSUME Live' PROVE \A q \in P \ torn' : Talk(q)'
  <2>1. ASSUME NEW q \in P \ torn' PROVE Talk(q)'
    BY <1>7, <1>8, <1>9, <1>10
  <2>2. QED BY <2>1
<1>11. QED BY <1>4, <1>5, <1>6, <1>9, <1>10 DEF TalkInv

-----------------------------------------------------------------------------
(* The steps of the controller.                                            *)

\* Nothing is said, and the controller goes on: what is left to show.
LEMMA ControllerTalk ==
    ASSUME TalkInv, Live, DOMAIN cur' = P, DOMAIN names' = P,
           interned' = interned, said' = said, torn' = torn,
           DOMAIN skip' = DOMAIN skip, skip'.moved \in BOOLEAN,
           pos' = pos \/ (\E x \in P : pos' = [pos EXCEPT ![x] = @ + 1])
                      \/ pos' = [x \in P |-> pos[x] + 1],
           Verdict', Live' => Round', \A q \in P \ torn : Live' => Talk(q)'
    PROVE  TalkInv'
<1>1. \A q \in P : pos[q] \in Nat /\ IsSeq(said[q])
  BY DEF TalkInv, Shapes
<1>2. \A q \in P : pos'[q] \in Nat
  <2>1. CASE pos' = pos
    BY <1>1, <2>1
  <2>2. CASE \E x \in P : pos' = [pos EXCEPT ![x] = @ + 1]
    <3>1. PICK x \in P : pos' = [pos EXCEPT ![x] = @ + 1]
      BY <2>2
    <3>2. ASSUME NEW q \in P PROVE pos'[q] = pos[q] \/ pos'[q] = pos[q] + 1
      BY <3>1
    <3>3. QED BY <1>1, <3>2
  <2>3. CASE pos' = [x \in P |-> pos[x] + 1]
    BY <1>1, <2>3
  <2>4. QED BY <2>1, <2>2, <2>3
<1>3. Shapes'
  BY <1>1, <1>2 DEF TalkInv, Shapes
<1>4. QED BY <1>3 DEF TalkInv

LEMMA OpenTalk == ASSUME SyncInv, TalkInv, OpenReady \/ OpenGo PROVE TalkInv'
<1>1. /\ cpc \in {"openReady", "openGo"} /\ cpc' \in {"openReady", "openGo", "header"}
      /\ cpc' = "header" => ci' = 1
      /\ todo' = todo /\ out' = out /\ ready' = ready /\ go' = go /\ said' = said /\ pos' = pos
      /\ interned' = interned /\ names' = names /\ cur' = cur /\ rd' = rd /\ skip' = skip
      /\ torn' = torn /\ killed' = killed
      /\ \A q \in P : q # ci => pc'[q] = pc[q]
      /\ pc[ci] \in {"openReady", "openGo"} /\ pc'[ci] \in {"openGo", "run"}
  BY DEF OpenReady, OpenGo, history, SyncInv, ControllerOK, Domains
<1>2. ~skip.on /\ skip'.on = skip.on
  BY <1>1 DEF SyncInv, ControllerOK
<1>3. ASSUME NEW q \in P
      PROVE  ~HoldsTurn(q) /\ ~HoldsTurn(q)' /\ ~Reading(q) /\ ~Reading(q)'
  <2>1. ~(q < 1)
    BY DEF P
  <2>2. QED BY <1>1, <1>2, <2>1 DEF HoldsTurn, Reading
<1>4. Live /\ Verdict' /\ Round'
  BY <1>1 DEF Live, Verdict, Round
<1>5. ASSUME NEW q \in P \ torn PROVE Talk(q)'
  <2>1. Talk(q)
    BY <1>4 DEF TalkInv
  <2>2. CASE q # ci
    <3>1. Still(q) /\ SameTo(q)
      BY <1>1, <1>3, <2>2 DEF Still, SameTo
    <3>2. QED BY <1>1, <1>2, <2>1, <3>1, TalkFrame
  <2>3. CASE q = ci
    <3>1. AllKnown(q)' <=> AllKnown(q)
      BY <1>1 DEF AllKnown
    <3>2. QED BY <1>1, <1>3, <2>1, <2>3, <3>1 DEF Talk, Gone
  <2>4. QED BY <2>2, <2>3
<1>6. DOMAIN cur' = P /\ DOMAIN names' = P /\ DOMAIN skip' = DOMAIN skip /\ skip'.moved \in BOOLEAN
  BY <1>1 DEF TalkInv, Shapes
<1>7. QED BY <1>1, <1>4, <1>5, <1>6, ControllerTalk

\* What comes down the FIFO of the participant that is listened to: the record whose tokens are
\* there.
LEMMA Line ==
    ASSUME NEW p \in P, ParticipantOK(p), Talk(p), p = ci, cpc \in {"header", "value"},
           ready[p] # <<>>
    PROVE  \E r : /\ Partly(p, r)
                  /\ ~Gone(p) => /\ pc[p] \in {"write", "ack"} /\ r = Head(todo[p])
                                 /\ r.kind # "END"
                  /\ pc[p] = "write" => Taken(p) + Len(ready[p]) < r.len + 1
                  /\ Gone(p) /\ p \notin killed =>
                        r.kind = "END" /\ r.len = 0 /\ Len(ready[p]) = 1
<1>1. ~HoldsTurn(p)
  <2>1. ~(p < ci)
    BY DEF P
  <2>2. QED BY <2>1 DEF HoldsTurn
<1>2. CASE Gone(p)
  <2>1. Remains(p)
    BY <1>1, <1>2 DEF Talk, Silent
  <2>2. QED BY <1>2, <2>1 DEF Remains, Gone
<1>3. CASE ~Gone(p)
  <2>1. pc[p] = "write" \/ (pc[p] = "ack" /\ OnItsWay(p))
    BY <1>3, ReadFrom DEF Gone
  <2>2. /\ Partly(p, Head(todo[p])) /\ Head(todo[p]).kind # "END"
        /\ pc[p] = "write" => Taken(p) + Len(ready[p]) < Head(todo[p]).len + 1
    BY <2>1, PartlyAlive
  <2>3. QED BY <1>3, <2>1, <2>2
<1>4. QED BY <1>2, <1>3

\* One token is read: a record is complete with it, or it is not.
LEMMA TokenRead ==
    ASSUME NEW p \in P, ParticipantOK(p), Talk(p), Domains, p = ci, ReadHeader \/ ReadValue,
           NEW r, Partly(p, r)
    PROVE  /\ ready[p] # <<>> /\ ready' = [ready EXCEPT ![ci] = Tail(@)]
           /\ UNCHANGED controlled /\ pos' = pos /\ rc' = rc
           /\ Taken(p) \in Nat /\ r.len \in Nat
           /\ \/ Taken(p) = r.len /\ Receive(r, r.val)
              \/ /\ Taken(p) # r.len /\ cpc' = "value" /\ UNCHANGED <<ci, cur, names, skip, go>>
                 /\ rd'.rec = r /\ rd'.got = Taken(p) /\ rd'.whole
<1>1. /\ ready[p] # <<>> /\ ready' = [ready EXCEPT ![ci] = Tail(@)]
      /\ UNCHANGED controlled /\ pos' = pos /\ rc' = rc
  BY DEF ReadHeader, ReadValue
<1>2. r.len \in Nat /\ Taken(p) \in Nat
  BY DEF Partly, Good, EventRecord, NameRecord, Taken
<1>3. Head(ready[p]) = [rec |-> r, at |-> Taken(p)]
  <2>1. IsSeq(ready[p]) /\ Len(ready[p]) \in Nat /\ Len(ready[p]) # 0
    BY <1>1, LenSeq DEF ParticipantOK, WellFormed
  <2>2. Head(ready[p]) = ready[p][1] /\ 1 \in 1 .. Len(ready[p])
    BY <1>1, <2>1, TailSeq
  <2>3. ready[p][1] = [rec |-> r, at |-> Taken(p) + 1 - 1]
    BY <2>2 DEF Partly
  <2>4. Taken(p) + 1 - 1 = Taken(p)
    BY <1>2
  <2>5. QED BY <2>2, <2>3, <2>4
<1>4. CASE ReadHeader
  <2>1. Taken(p) = 0
    BY <1>4 DEF ReadHeader, Taken, Reading
  <2>2. PICK s \in IF Head(ready[ci]).at = 0 THEN {Head(ready[ci]).rec} ELSE JunkRecords :
          /\ rd' = [rec |-> s, got |-> 0, whole |-> TRUE]
          /\ IF s.len = 0 THEN Receive(s, s.val)
                          ELSE cpc' = "value" /\ UNCHANGED <<ci, cur, names, skip, go>>
    BY <1>4 DEF ReadHeader
  <2>3. s = r
    BY <1>3, <2>1, <2>2
  <2>4. QED BY <1>1, <1>2, <2>1, <2>2, <2>3
<1>5. CASE ReadValue
  <2> DEFINE t  == Head(ready[ci])
             ok == rd.whole /\ t.rec = rd.rec /\ t.at = rd.got + 1
  <2>1. cpc = "value" /\ Reading(p) /\ rd.rec = r /\ Taken(p) = rd.got + 1 /\ rd.whole
    BY <1>5 DEF ReadValue, Reading, Partly, Taken, Talk
  <2>2. t = [rec |-> r, at |-> Taken(p)]
    BY <1>3
  <2>3. ok
    BY <2>1, <2>2
  <2>4. /\ rd' = [rd EXCEPT !.got = @ + 1, !.whole = ok]
        /\ IF rd.got + 1 = rd.rec.len THEN Receive(rd.rec, IF ok THEN rd.rec.val ELSE Junk)
                                      ELSE UNCHANGED <<cpc, ci, cur, names, skip, go>>
    BY <1>5 DEF ReadValue
  <2> HIDE DEF t, ok
  <2>5. rd'.rec = r /\ rd'.got = Taken(p) /\ rd'.whole
    BY <2>1, <2>3, <2>4 DEF Domains
  <2>6. QED BY <1>1, <1>2, <2>1, <2>3, <2>4, <2>5
<1>6. QED BY <1>4, <1>5

\* There is more of the record to come.
LEMMA PieceTalk ==
    ASSUME NEW p \in P, ParticipantOK(p), Talk(p), Domains, p = ci, cpc \in {"header", "value"},
           NEW r, Partly(p, r),
           Gone(p) /\ p \notin killed => r.kind = "END" /\ r.len = 0 /\ Len(ready[p]) = 1,
           ready[p] # <<>>, ready' = [ready EXCEPT ![ci] = Tail(@)],
           UNCHANGED controlled, pos' = pos,
           Taken(p) \in Nat, r.len \in Nat, Taken(p) # r.len,
           cpc' = "value", UNCHANGED <<ci, cur, names, skip, go>>,
           rd'.rec = r, rd'.got = Taken(p), rd'.whole
    PROVE  Talk(p)'
<1>1. /\ pc' = pc /\ todo' = todo /\ interned' = interned /\ said' = said /\ killed' = killed
      /\ ci' = ci /\ cur' = cur /\ names' = names /\ skip' = skip /\ go' = go
  BY DEF controlled, participant
<1>2. ~HoldsTurn(p) /\ ~HoldsTurn(p)' /\ Reading(p)' /\ Taken(p)' = Taken(p) + 1
  <2>1. ~(p < ci)
    BY DEF P
  <2>2. QED BY <1>1, <2>1 DEF HoldsTurn, Reading, Taken
<1>3. (AllKnown(p)' <=> AllKnown(p)) /\ LastSaid(p)' = LastSaid(p) /\ (Announces(p)' <=> Announces(p))
  BY <1>1 DEF AllKnown, LastSaid, Announces
<1>4. Records(p) => Records(p)'
  BY <1>1, <1>2, <1>3 DEF Records
<1> DEFINE a == ready[p]
           b == Tail(a)
<1>5. /\ ready'[p] = b /\ Len(b) = Len(a) - 1 /\ Len(a) \in Nat /\ Len(a) # 0
      /\ \A i \in 1 .. Len(a) - 1 : b[i] = a[i + 1]
  BY LenSeq, TailSeq DEF Domains, ParticipantOK, WellFormed
<1> HIDE DEF b
<1>6. Taken(p)' + Len(b) = Taken(p) + Len(a)
  BY <1>2, <1>5
<1>7. \A i \in 1 .. Len(b) : b[i] = [rec |-> r, at |-> Taken(p)' + i - 1]
  <2> SUFFICES ASSUME NEW i \in 1 .. Len(b)
               PROVE  b[i] = [rec |-> r, at |-> Taken(p)' + i - 1]
    OBVIOUS
  <2>1. i + 1 \in 1 .. Len(a) /\ b[i] = a[i + 1]
    BY <1>5
  <2>2. a[i + 1] = [rec |-> r, at |-> Taken(p) + (i + 1) - 1]
    BY <2>1 DEF Partly
  <2>3. Taken(p) + (i + 1) - 1 = Taken(p)' + i - 1
    BY <1>2
  <2>4. QED BY <2>1, <2>2, <2>3
<1>8. Partly(p, r)'
  <2>1. Taken(p) < r.len
    BY <1>5 DEF Partly
  <2>2. QED BY <1>1, <1>2, <1>3, <1>5, <1>6, <1>7, <2>1 DEF Partly
<1>9. Gone(p) => Remains(p)'
  <2>1. Gone(p) => p \in killed
    BY <1>5 DEF Partly
  <2>2. QED BY <1>1, <1>8, <2>1 DEF Remains
<1>10. QED BY <1>1, <1>2, <1>3, <1>4, <1>9 DEF Talk, Gone

\* The record is complete: a name is kept and answered, an event is held.
LEMMA ReceiveTalk ==
    ASSUME SyncInv, Shapes, NEW p \in P \ torn, Talk(p), p = ci, cpc \in {"header", "value"},
           NEW r, Partly(p, r),
           ~Gone(p) => pc[p] \in {"write", "ack"} /\ r = Head(todo[p]) /\ r.kind # "END",
           pc[p] = "write" => Taken(p) + Len(ready[p]) < r.len + 1,
           Gone(p) /\ p \notin killed => r.kind = "END",
           ready[p] # <<>>, ready' = [ready EXCEPT ![ci] = Tail(@)],
           UNCHANGED controlled, pos' = pos,
           Taken(p) \in Nat, r.len \in Nat, Taken(p) = r.len, Receive(r, r.val)
    PROVE  Talk(p)'
<1>1. /\ pc' = pc /\ todo' = todo /\ interned' = interned /\ said' = said /\ killed' = killed
  BY DEF controlled, participant
<1>2. ParticipantOK(p) /\ Domains /\ ControllerOK
  BY DEF SyncInv
<1>3. ~HoldsTurn(p)
  <2>1. ~(p < ci)
    BY DEF P
  <2>2. QED BY <2>1 DEF HoldsTurn
<1>4. Len(ready[p]) = 1 /\ Taken(p) + Len(ready[p]) = r.len + 1 /\ pc[p] # "write"
  <2>1. Len(ready[p]) \in Nat /\ Len(ready[p]) # 0
    BY <1>2, LenSeq DEF ParticipantOK, WellFormed
  <2>2. Taken(p) + Len(ready[p]) <= r.len + 1
    BY DEF Partly
  <2>3. \A a, b \in Nat : b # 0 /\ a + b <= a + 1 => b = 1
    OBVIOUS
  <2>4. Len(ready[p]) = 1
    BY <2>1, <2>2, <2>3, Zenon
  <2>5. QED BY <2>4
<1>5. ready'[p] = <<>>
  <2>1. ready'[p] = Tail(ready[p]) /\ IsSeq(Tail(ready[p]))
        /\ Len(Tail(ready[p])) = Len(ready[p]) - 1
    BY <1>2, TailSeq DEF Domains, ParticipantOK, WellFormed
  <2>2. Len(Tail(ready[p])) = 0
    BY <1>4, <2>1
  <2>3. QED BY <2>1, <2>2, LenSeq
<1>6. IsSeq(interned[p]) /\ Len(interned[p]) \in Nat /\ Good(r, interned[p], names[p])
      /\ IsSeq(go[p])
  BY <1>2, LenSeq DEF Talk, Partly, ParticipantOK, WellFormed
<1>7. pc[p] \in {"ack", "exited"}
  BY <1>4, <1>2 DEF Gone
<1>8. (Announces(p)' <=> Announces(p)) /\ LastSaid(p)' = LastSaid(p)
      /\ (~Gone(p) => Records(p) /\ (r.kind = "NAME_DEF" <=> Announces(p)))
  BY <1>1, <1>7 DEF Announces, LastSaid, Talk, Gone
<1>9. CASE r.kind = "NAME_DEF"
  <2> DEFINE nm == names[p]
             in == interned[p]
  <2>1. NameRecord(r, in) /\ Knows(nm, in, Len(in) - 1) /\ Len(said[p]) = pos[p]
    BY <1>4, <1>6, <1>9 DEF Partly, Good, EventRecord
  <2>2. names'[p] = [i \in DOMAIN nm \cup {r.id} |-> IF i = r.id THEN r.val ELSE nm[i]]
        /\ Tell("G") /\ skip' = skip
    BY <1>9 DEF Receive, Shapes
  <2>3. AllKnown(p)'
    <3>1. \A i \in 1 .. Len(in) : i # Len(in) => i \in 1 .. Len(in) - 1
      BY <1>6
    <3>2. \A i \in 1 .. Len(in) : i \in DOMAIN names'[p] /\ names'[p][i] = in[i]
      BY <2>1, <2>2, <3>1 DEF NameRecord, Knows
    <3>3. QED BY <1>1, <3>2 DEF AllKnown, Knows
  <2>4. CASE Gone(p)
    <3>1. AfterRead /\ cur' = [cur EXCEPT ![ci] = Eof]
      BY <1>9, <2>4 DEF Receive
    <3>2. HoldsTurn(p)' /\ cpc' # "go" /\ cpc' # "value"
      BY <1>2, <2>2, <3>1, AfterReadStep
    <3>3. cur'[p].kind = "EOF" /\ p \in killed
      BY <1>9, <2>4, <3>1 DEF Shapes, Eof
    <3>4. Gone(p)' /\ Holds(p)'
      BY <1>1, <1>5, <2>1, <2>4, <3>3 DEF Holds, Gone
    <3>5. go'[p] = go[p]
      BY <2>2, <2>4 DEF Tell
    <3>6. QED BY <1>1, <1>6, <2>3, <2>4, <3>2, <3>4, <3>5 DEF Talk, Gone, Reading
  <2>5. CASE ~Gone(p)
    <3>1. cpc' = "header" /\ ci' = ci /\ cur' = cur
      BY <1>9, <2>5 DEF Receive
    <3>2. ~HoldsTurn(p)' /\ ~Reading(p)'
      BY <1>3, <2>2, <3>1 DEF HoldsTurn, Reading
    <3>3. pc[p] = "ack" /\ OnItsWay(p)
      BY <1>2, <1>4, <1>7, <2>5, ReadFrom DEF Gone
    <3>4. go'[p] = <<"G">>
      BY <1>2, <1>6, <2>2, <2>5, <3>3, TellStep DEF OnItsWay, ControllerOK
    <3>5. go'[p] # <<>> /\ go'[p][1] = "G"
      BY <3>4, ShortSeq
    <3>6. Records(p)'
      BY <1>1, <1>8, <2>3, <2>5, <3>3, <3>5 DEF Records
    <3>7. QED BY <1>1, <1>6, <2>5, <3>1, <3>2, <3>3, <3>5, <3>6 DEF Talk, Gone
  <2>6. QED BY <2>4, <2>5
<1>10. CASE r.kind # "NAME_DEF"
  <2> DEFINE ev == [kind |-> r.kind, id |-> r.id, type |-> r.type, val |-> r.val]
  <2>1. EventRecord(r, interned[p]) /\ AllKnown(p) /\ Len(said[p]) = pos[p] + 1
        /\ LastSaid(p) = Meant(r, interned[p])
    BY <1>4, <1>6, <1>10 DEF Partly, Good, NameRecord, AllKnown
  <2>2. /\ cur' = [cur EXCEPT ![ci] = ev] /\ AfterRead /\ names' = names /\ go' = go
        /\ skip' = IF skip.on THEN [skip EXCEPT !.left[ci] = @ - 1, !.moved = TRUE] ELSE skip
    BY <1>10 DEF Receive
  <2>3. skip'.on = skip.on /\ DOMAIN skip' = DOMAIN skip
    BY <2>2 DEF Shapes
  <2>4. HoldsTurn(p)' /\ cpc' # "go" /\ cpc' # "value"
    BY <1>2, <2>2, <2>3, AfterReadStep
  <2>5. cur'[p] = ev
    BY <2>2 DEF Shapes
  <2>6. ev.kind = r.kind
    OBVIOUS
  <2>7. KeyOf(ev, names[p]) = Key(Meant(r, interned[p]))
    BY <1>6, <2>1, KeyOfMeant DEF AllKnown
  <2> HIDE DEF ev
  <2>8. AllKnown(p)' /\ KeyIsSaid(p)'
    BY <1>1, <1>8, <2>1, <2>2, <2>5, <2>7 DEF KeyIsSaid, AllKnown
  <2>9. r.kind \notin {"EOF", "ERR"}
    BY <2>1 DEF EventRecord
  <2>10. Holds(p)'
    BY <1>1, <1>5, <2>5, <2>6, <2>8, <2>9 DEF Holds, Gone
  <2>11. ~Gone(p) => Records(p)'
    BY <1>1, <1>7, <1>8, <2>4, <2>8 DEF Records, Gone
  <2>12. QED BY <1>1, <1>6, <1>7, <2>2, <2>4, <2>8, <2>10, <2>11 DEF Talk, Gone, Reading
<1>11. QED BY <1>9, <1>10

\* What reading does to what the controller holds of the others, and to its round.
LEMMA ReceiveRest ==
    ASSUME SyncInv, Shapes, cpc \in {"header", "value"}, NEW r, NEW val, Receive(r, val)
    PROVE  /\ DOMAIN cur' = P /\ DOMAIN names' = P
           /\ \A q \in P : q # ci => cur'[q] = cur[q] /\ names'[q] = names[q]
           /\ DOMAIN skip' = DOMAIN skip /\ skip'.moved \in BOOLEAN /\ skip'.on = skip.on
           /\ cpc' \in {"header", "judge", "skip", "recheck"}
           /\ Round'
<1>1. ControllerOK /\ Domains /\ ci \in P /\ skip.on \in BOOLEAN
  BY DEF SyncInv, ControllerOK
<1>2. CASE r.kind = "NAME_DEF" /\ ~Gone(ci)
  BY <1>2 DEF Receive, Shapes, Round
<1>3. CASE r.kind = "NAME_DEF" /\ Gone(ci)
  <2>1. cur' = [cur EXCEPT ![ci] = Eof] /\ AfterRead /\ skip' = skip
        /\ DOMAIN names' = P /\ \A q \in P : q # ci => names'[q] = names[q]
    BY <1>3 DEF Receive, Shapes
  <2>2. DOMAIN cur' = P /\ cur'[ci].kind = "EOF" /\ (\A q \in P : q # ci => cur'[q] = cur[q])
    BY <1>1, <2>1 DEF Shapes, Eof
  <2>3. "EOF" \in Kinds'
    BY <1>1, <2>2 DEF Kinds
  <2>4. cpc' \in {"header", "judge", "recheck"}
    BY <2>1, <2>2 DEF AfterRead
  <2>5. QED BY <2>1, <2>2, <2>3, <2>4 DEF Round, Shapes
<1>4. CASE r.kind # "NAME_DEF"
  <2>1. /\ cur' = [cur EXCEPT ![ci] = [kind |-> r.kind, id |-> r.id, type |-> r.type, val |-> val]]
        /\ AfterRead /\ names' = names
        /\ skip' = IF skip.on THEN [skip EXCEPT !.left[ci] = @ - 1, !.moved = TRUE] ELSE skip
    BY <1>4 DEF Receive
  <2>2. DOMAIN skip' = DOMAIN skip /\ skip'.moved \in BOOLEAN /\ skip'.on = skip.on
        /\ (skip.on => skip'.moved)
    BY <2>1 DEF Shapes
  <2>3. ~skip.on => cpc' \in {"header", "judge"}
    BY <2>1 DEF AfterRead
  <2>4. cpc' \in {"header", "judge", "skip", "recheck"}
    BY <2>1 DEF AfterRead
  <2>5. Round'
    BY <1>1, <2>2, <2>3, <2>4 DEF Round
  <2>6. DOMAIN cur' = P /\ \A q \in P : q # ci => cur'[q] = cur[q]
    BY <2>1 DEF Shapes
  <2>7. QED BY <2>1, <2>2, <2>4, <2>5, <2>6 DEF Shapes
<1>5. QED BY <1>2, <1>3, <1>4

\* A step in which the controller reads leaves the others what they were.
LEMMA ReadOthers ==
    ASSUME SyncInv, TalkInv, cpc \in {"header", "value"}, UNCHANGED controlled, pos' = pos,
           NEW q \in P \ torn, q # ci, SameTo(q), ready'[q] = ready[q], go'[q] = go[q],
           names'[q] = names[q], cur'[q] = cur[q], skip'.on = skip.on, cpc' # "go"
    PROVE  Talk(q)'
<1>1. Talk(q)
  BY DEF TalkInv, Live
<1>2. Still(q) /\ interned' = interned /\ killed' = killed
  BY DEF Still, controlled, participant
<1>3. QED BY <1>1, <1>2, TalkFrame

LEMMA ReadTalk == ASSUME SyncInv, TalkInv, ReadHeader \/ ReadValue PROVE TalkInv'
<1>1. /\ cpc \in {"header", "value"} /\ ready[ci] # <<>> /\ ready' = [ready EXCEPT ![ci] = Tail(@)]
      /\ UNCHANGED controlled /\ pos' = pos
      /\ \/ \E r, val : Receive(r, val)
         \/ cpc' = "value" /\ UNCHANGED <<ci, cur, names, skip, go>>
  BY DEF ReadHeader, ReadValue
<1>2. ControllerOK /\ Domains /\ ci \in P /\ Shapes /\ Live
      /\ skip.moved \in BOOLEAN /\ DOMAIN cur = P /\ DOMAIN names = P
  BY <1>1 DEF SyncInv, ControllerOK, TalkInv, Live, Shapes
<1>3. /\ interned' = interned /\ said' = said /\ torn' = torn /\ killed' = killed
  BY <1>1 DEF controlled, participant
<1>4. /\ DOMAIN cur' = P /\ DOMAIN names' = P
      /\ \A q \in P : q # ci => cur'[q] = cur[q] /\ names'[q] = names[q]
      /\ DOMAIN skip' = DOMAIN skip /\ skip'.moved \in BOOLEAN /\ skip'.on = skip.on
      /\ cpc' \in {"header", "value", "judge", "skip", "recheck"}
      /\ Round'
      /\ \A q \in P : q # ci => SameTo(q) /\ go'[q] = go[q]
  <2>1. CASE \E r, val : Receive(r, val)
    BY <1>1, <1>2, <2>1, ReceiveRest, ReceiveOthers
  <2>2. CASE cpc' = "value" /\ UNCHANGED <<ci, cur, names, skip, go>>
    <3>1. \A q \in P : q # ci => SameTo(q)
      BY <1>1, <2>2 DEF SameTo, HoldsTurn, Reading
    <3>2. Round'
      BY <2>2 DEF Round
    <3>3. QED BY <1>2, <2>2, <3>1, <3>2
  <2>3. QED BY <1>1, <2>1, <2>2
<1>5. Verdict'
  BY <1>4 DEF Verdict
<1>6. ASSUME NEW q \in P \ torn, q # ci PROVE Talk(q)'
  <2>1. ready'[q] = ready[q]
    BY <1>1, <1>6
  <2>2. QED BY <1>1, <1>4, <1>6, <2>1, ReadOthers
<1>7. ASSUME NEW q \in P \ torn, q = ci PROVE Talk(q)'
  <2>1. ParticipantOK(q) /\ Talk(q)
    BY <1>2 DEF SyncInv, TalkInv
  <2>2. PICK r : /\ Partly(q, r)
                 /\ ~Gone(q) => /\ pc[q] \in {"write", "ack"} /\ r = Head(todo[q])
                                /\ r.kind # "END"
                 /\ pc[q] = "write" => Taken(q) + Len(ready[q]) < r.len + 1
                 /\ Gone(q) /\ q \notin killed =>
                        r.kind = "END" /\ r.len = 0 /\ Len(ready[q]) = 1
    BY <1>1, <1>7, <2>1, Line
  <2>3. /\ Taken(q) \in Nat /\ r.len \in Nat
        /\ \/ Taken(q) = r.len /\ Receive(r, r.val)
           \/ /\ Taken(q) # r.len /\ cpc' = "value" /\ UNCHANGED <<ci, cur, names, skip, go>>
              /\ rd'.rec = r /\ rd'.got = Taken(q) /\ rd'.whole
    BY <1>2, <1>7, <2>1, <2>2, TokenRead
  <2>4. CASE Taken(q) = r.len /\ Receive(r, r.val)
    BY <1>1, <1>2, <1>7, <2>1, <2>2, <2>3, <2>4, ReceiveTalk
  <2>5. CASE Taken(q) # r.len
    BY <1>1, <1>2, <1>7, <2>1, <2>2, <2>3, <2>5, PieceTalk
  <2>6. QED BY <2>3, <2>4, <2>5
<1>8. \A q \in P \ torn : Talk(q)'
  <2>1. ASSUME NEW q \in P \ torn PROVE Talk(q)'
    BY <1>6, <1>7
  <2>2. QED BY <2>1
<1>9. QED BY <1>1, <1>2, <1>3, <1>4, <1>5, <1>8, ControllerTalk

\* The end of the file: whoever has ended without a word more was killed.
LEMMA EndOfFile ==
    ASSUME TalkInv, NEW q \in P \ torn, q = ci, cpc \in {"header", "value"}, Gone(q),
           ready[q] = <<>>
    PROVE  q \in killed /\ (cpc = "header" => Len(said[q]) = pos[q])
<1>1. Talk(q)
  BY DEF TalkInv, Live
<1>2. ~HoldsTurn(q)
  <2>1. ~(q < ci)
    BY DEF P
  <2>2. QED BY <2>1 DEF HoldsTurn
<1>3. CASE Silent(q)
  BY <1>3 DEF Silent
<1>4. CASE Remains(q)
  <2>1. PICK r : /\ Partly(q, r)
                 /\ q \notin killed => r.kind = "END" /\ r.len = 0 /\ Len(ready[q]) = 1
    BY <1>4 DEF Remains
  <2>2. Len(ready[q]) = 0
    BY ShortSeq
  <2>3. q \in killed
    BY <2>1, <2>2
  <2>4. cpc = "header" => Taken(q) = 0
    BY DEF Taken, Reading
  <2>5. r.len \in Nat
    BY <2>1 DEF Partly, Good, EventRecord, NameRecord
  <2>6. cpc = "header" => Taken(q) + Len(ready[q]) # r.len + 1
    BY <2>2, <2>4, <2>5
  <2>7. cpc = "header" => Len(said[q]) = pos[q]
    BY <2>1, <2>6 DEF Partly
  <2>8. QED BY <2>3, <2>7
<1>5. QED BY <1>1, <1>2, <1>3, <1>4 DEF Talk

LEMMA ReadEofTalk == ASSUME SyncInv, TalkInv, ReadEof PROVE TalkInv'
<1>1. /\ cpc \in {"header", "value"} /\ ready[ci] = <<>> /\ Gone(ci)
      /\ cur' = [cur EXCEPT ![ci] = IF cpc = "header" THEN Eof ELSE Err]
      /\ ready' = ready /\ go' = go /\ names' = names /\ skip' = skip
      /\ UNCHANGED controlled /\ pos' = pos
      /\ \/ skip.on /\ cpc = "value" /\ cpc' = "done"
         \/ ~(skip.on /\ cpc = "value") /\ AfterRead
  BY DEF ReadEof, Exited
<1>2. ControllerOK /\ Domains /\ ci \in P /\ Shapes /\ Live /\ skip.on \in BOOLEAN
      /\ skip.moved \in BOOLEAN /\ DOMAIN cur = P /\ DOMAIN names = P
  BY <1>1 DEF SyncInv, ControllerOK, TalkInv, Live, Shapes
<1>3. /\ interned' = interned /\ said' = said /\ torn' = torn /\ killed' = killed /\ pc' = pc
      /\ todo' = todo
  BY <1>1 DEF controlled, participant
<1>4. DOMAIN cur' = P /\ \A q \in P : q # ci => cur'[q] = cur[q]
  BY <1>1, <1>2
<1>5. CASE skip.on /\ cpc = "value" /\ cpc' = "done"
  <2>1. Verdict' /\ ~Live'
    BY <1>5 DEF Verdict, Live
  <2>2. QED BY <1>1, <1>2, <1>3, <1>4, <2>1, ControllerTalk
<1>6. CASE ~(skip.on /\ cpc = "value") /\ AfterRead
  <2>1. /\ cpc' \in {"header", "judge", "skip", "recheck"}
        /\ \A q \in P : q # ci => SameTo(q)
        /\ \A q \in P : q = ci => HoldsTurn(q)'
    BY <1>1, <1>2, <1>6, AfterReadStep
  <2>2. Verdict'
    BY <2>1 DEF Verdict
  <2>3. cur'[ci] = IF cpc = "header" THEN Eof ELSE Err
    BY <1>1, <1>2
  <2>4. cpc = "header" => cur'[ci].kind = "EOF"
    <3>1. Eof.kind = "EOF"
      BY DEF Eof
    <3>2. QED BY <2>3, <3>1
  <2>5. cpc = "value" => cur'[ci].kind = "ERR" /\ ~skip.on
    <3>1. Err.kind = "ERR"
      BY DEF Err, Eof
    <3>2. QED BY <1>6, <2>3, <3>1
  <2>6. Round'
    <3>1. skip.on => "EOF" \in Kinds'
      BY <1>1, <1>2, <2>4, <2>5 DEF Kinds
    <3>2. skip.on => cpc' = "recheck"
      BY <1>1, <1>6, <2>4, <2>5 DEF AfterRead
    <3>3. ~skip.on => cpc' \in {"header", "judge"}
      BY <1>6 DEF AfterRead
    <3>4. QED BY <1>2, <2>1, <3>1, <3>2, <3>3 DEF Round
  <2>7. ASSUME NEW q \in P \ torn, q # ci PROVE Talk(q)'
    BY <1>1, <1>4, <2>1, <2>7, ReadOthers
  <2>8. ASSUME NEW q \in P \ torn, q = ci PROVE Talk(q)'
    <3>1. Talk(q)
      BY <1>2 DEF TalkInv
    <3>2. q \in killed /\ (cpc = "header" => Len(said[q]) = pos[q])
      BY <1>1, <2>8, EndOfFile
    <3>3. Holds(q)' /\ Gone(q)'
      BY <1>1, <1>3, <2>4, <2>5, <2>8, <3>2 DEF Holds, Gone
    <3>4. AllKnown(q)' <=> AllKnown(q)
      BY <1>1, <1>3 DEF AllKnown
    <3>5. QED BY <1>1, <1>3, <2>1, <2>8, <3>1, <3>3, <3>4 DEF Talk, Gone, Reading
  <2>9. \A q \in P \ torn : Talk(q)'
    <3>1. ASSUME NEW q \in P \ torn PROVE Talk(q)'
      BY <2>7, <2>8
    <3>2. QED BY <3>1
  <2>10. QED BY <1>1, <1>2, <1>3, <1>4, <2>2, <2>6, <2>9, ControllerTalk
<1>7. QED BY <1>1, <1>5, <1>6

\* What the controller compares is the event that is not accounted for.
LEMMA HeldOwed ==
    ASSUME TalkInv, cpc \in {"judge", "skip", "recheck"}, NEW p \in P \ torn,
           cur[p].kind \notin {"EOF", "ERR"}
    PROVE  /\ Len(said[p]) = pos[p] + 1
           /\ event_key(p, cur[p]) = Key(LastSaid(p))
           /\ Monitor!Owes(p) /\ event_key(p, cur[p]) = Key(Monitor!Held(p))
<1>1. KeyIsSaid(p)
  BY DEF TalkInv, Live, Talk, HoldsTurn, Holds
<1>2. event_key(p, cur[p]) = KeyOf(cur[p], names[p])
  BY DEF event_key, name_for_id, KeyOf
<1>3. LastSaid(p) = Monitor!Held(p)
  BY <1>1 DEF KeyIsSaid, LastSaid, Monitor!Held
<1>4. Monitor!Owes(p)
  BY <1>1 DEF KeyIsSaid, TalkInv, Shapes, Monitor!Owes
<1>5. QED BY <1>1, <1>2, <1>3, <1>4 DEF KeyIsSaid

LEMMA Differ ==
    ASSUME TalkInv, cpc \in {"judge", "skip", "recheck"}, Kinds \cap {"EOF", "ERR"} = {}, ~Agreed
    PROVE  Lost \/ \E p \in P : Monitor!Mismatch(p)
<1> SUFFICES ASSUME torn = {} PROVE \E p \in P : Monitor!Mismatch(p)
  BY DEF Lost
<1>1. \A p \in P : cur[p].kind \notin {"EOF", "ERR"}
  BY DEF Kinds
<1>2. 1 \in P
  BY SyncAssumption DEF P
<1>3. PICK p \in P : ~keys_match(event_key(p, cur[p]), event_key(1, cur[1]),
                                p \in WILDCARD_NAMES_PARTICIPANTS,
                                1 \in WILDCARD_NAMES_PARTICIPANTS)
  BY <1>1 DEF Agreed
<1>4. /\ Monitor!Owes(p) /\ event_key(p, cur[p]) = Key(Monitor!Held(p))
      /\ Monitor!Owes(1) /\ event_key(1, cur[1]) = Key(Monitor!Held(1))
  BY <1>1, <1>2, HeldOwed
<1>5. QED BY <1>3, <1>4, MismatchMeans

\* From one place where the controller holds everyone's events to another.
LEMMA StillHeld ==
    ASSUME SyncInv, TalkInv, cpc \in {"judge", "skip", "recheck"}, cpc' \in {"skip", "recheck"},
           UNCHANGED controlled, UNCHANGED <<ready, go, rd, cur, names, pos>>,
           DOMAIN skip' = DOMAIN skip, skip'.moved \in BOOLEAN,
           skip'.on => skip.on \/ "ERR" \notin Kinds, Round'
    PROVE  TalkInv'
<1>1. /\ interned' = interned /\ said' = said /\ torn' = torn /\ killed' = killed /\ pc' = pc
      /\ todo' = todo /\ out' = out
  BY DEF controlled, participant
<1>2. ASSUME NEW q \in P \ torn PROVE Talk(q)'
  <2>1. Still(q) /\ SameTo(q)
    BY <1>1 DEF Still, SameTo, HoldsTurn, Reading
  <2>2. Talk(q)
    BY DEF TalkInv, Live
  <2>3. skip'.on => skip.on \/ cur[q].kind # "ERR"
    BY DEF Kinds
  <2>4. QED BY <1>1, <2>1, <2>2, <2>3, TalkFrame
<1>3. Live /\ Verdict'
  BY DEF Live, Verdict
<1>4. DOMAIN cur' = P /\ DOMAIN names' = P
  BY DEF TalkInv, Shapes
<1>5. QED BY <1>1, <1>2, <1>3, <1>4, ControllerTalk

\* The verdict is given.
LEMMA Decided ==
    ASSUME SyncInv, TalkInv, Live, cpc' \in {"stop", "done"},
           UNCHANGED controlled, UNCHANGED <<cur, names, skip, pos>>,
           cpc' = "stop" => /\ rc' \in {1, 3}
                            /\ Lost \/ (rc' = 1 /\ \E p \in P : Monitor!Mismatch(p))
    PROVE  TalkInv'
<1>1. /\ interned' = interned /\ said' = said /\ torn' = torn /\ killed' = killed
  BY DEF controlled, participant
<1>2. ~Live'
  BY DEF Live
<1>3. \A p \in P : Monitor!Mismatch(p) => Monitor!Mismatch(p)'
  <2>1. 1 \in P /\ \A q \in P : IsSeq(said[q]) /\ pos[q] \in Nat
    BY SyncAssumption DEF P, TalkInv, Shapes
  <2>2. QED BY <1>1, <2>1, MismatchKept
<1>4. Verdict'
  BY <1>1, <1>3 DEF Verdict, Lost
<1>5. DOMAIN cur' = P /\ DOMAIN names' = P /\ DOMAIN skip' = DOMAIN skip /\ skip'.moved \in BOOLEAN
  BY DEF TalkInv, Shapes
<1>6. QED BY <1>1, <1>2, <1>4, <1>5, ControllerTalk

\* All agree.
LEMMA GoAllTalk ==
    ASSUME SyncInv, TalkInv, cpc \in {"judge", "recheck"}, Agreed, GoAll,
           \A p \in P \ torn : cur[p].kind \notin {"EOF", "ERR"},
           UNCHANGED controlled, UNCHANGED <<ready, go, rd, cur, names>>
    PROVE  TalkInv'
<1>1. /\ interned' = interned /\ said' = said /\ torn' = torn /\ killed' = killed /\ pc' = pc
      /\ todo' = todo
      /\ cpc' = "go" /\ ci' = 1 /\ pos' = [p \in P |-> pos[p] + 1] /\ Live
      /\ skip' = [skip EXCEPT !.on = FALSE]
  BY DEF controlled, participant, GoAll, Live
<1>2. ASSUME NEW q \in P \ torn PROVE Talk(q)'
  <2>1. Talk(q) /\ HoldsTurn(q) /\ KeyIsSaid(q) /\ Holds(q)
    BY <1>1, <1>2 DEF TalkInv, HoldsTurn, Talk, Holds
  <2>2. HoldsTurn(q)' /\ ~Reading(q)'
    <3>1. q >= 1
      BY DEF P
    <3>2. QED BY <1>1, <3>1 DEF HoldsTurn, Reading
  <2>3. Len(said'[q]) = pos'[q] /\ ready'[q] = <<>>
    BY <1>1, <2>1 DEF KeyIsSaid, Holds
  <2>4. (AllKnown(q)' <=> AllKnown(q)) /\ LastSaid(q)' = LastSaid(q)
        /\ (Announces(q)' <=> Announces(q))
    BY <1>1 DEF AllKnown, LastSaid, Announces
  <2>5. Records(q) => Records(q)'
    BY <1>1, <2>1, <2>2, <2>4 DEF Records
  <2>6. QED BY <1>1, <2>1, <2>2, <2>3, <2>4, <2>5 DEF Talk, Holds, Gone
<1>3. Round'
  <2>1. \A p \in P \ {1} : event_key(p, cur[p]).kind = event_key(1, cur[1]).kind
    BY DEF Agreed, keys_match
  <2>2. \A p \in P : cur[p].kind = cur[1].kind
    BY <2>1 DEF event_key
  <2>3. QED BY <1>1, <2>2 DEF Round
<1>4. Verdict'
  BY <1>1 DEF Verdict
<1>5. DOMAIN cur' = P /\ DOMAIN names' = P /\ DOMAIN skip' = DOMAIN skip /\ skip'.moved \in BOOLEAN
  BY <1>1 DEF TalkInv, Shapes
<1>6. QED BY <1>1, <1>2, <1>3, <1>4, <1>5, ControllerTalk

\* An event that is not there: its participant was lost.
LEMMA NotThere ==
    ASSUME TalkInv, cpc \in {"judge", "skip", "recheck"}, NEW p \in P, cur[p].kind \in {"EOF", "ERR"}
    PROVE  Lost /\ (cur[p].kind = "ERR" /\ skip.on => p \in torn)
BY DEF TalkInv, Live, Talk, HoldsTurn, Holds, Lost

LEMMA JudgeTalk == ASSUME SyncInv, TalkInv, Judge PROVE TalkInv'
<1>1. cpc = "judge" /\ Live /\ UNCHANGED controlled /\ UNCHANGED <<ready, go, rd, cur, names>>
  BY DEF Judge, Live
<1>2. CASE JudgeError
  <2>1. Lost
    BY <1>1, <1>2, NotThere DEF JudgeError, Kinds
  <2>2. QED BY <1>1, <1>2, <2>1, Decided DEF JudgeError, StopAll
<1>3. CASE JudgeEnded
  BY <1>1, <1>3, Decided DEF JudgeEnded, Exited
<1>4. CASE JudgePartial
  <2>1. Lost
    BY <1>1, <1>4, NotThere DEF JudgePartial, Kinds
  <2>2. QED BY <1>1, <1>4, <2>1, Decided DEF JudgePartial, StopAll
<1>5. CASE JudgeAgree
  <2>1. \A p \in P \ torn : cur[p].kind \notin {"EOF", "ERR"}
    BY <1>5 DEF JudgeAgree, Kinds
  <2>2. QED BY <1>1, <1>5, <2>1, GoAllTalk DEF JudgeAgree
<1>6. CASE JudgeDiffer
  <2>1. Kinds \cap {"EOF", "ERR"} = {} /\ ~Agreed /\ pos' = pos
    BY <1>6 DEF JudgeDiffer
  <2>2. CASE skip.allowed
    <3>1. /\ cpc' = "skip"
          /\ skip' = [skip EXCEPT !.on = TRUE, !.left = [p \in P |-> SKIP_MAX_PER_STEP],
                                  !.moved = FALSE]
      BY <1>6, <2>2 DEF JudgeDiffer, StartSkip
    <3>2. DOMAIN skip' = DOMAIN skip /\ skip'.moved \in BOOLEAN
      BY <3>1 DEF TalkInv, Shapes
    <3>3. Agreed' <=> Agreed
      BY <1>1 DEF Agreed, event_key, name_for_id
    <3>4. Round'
      BY <2>1, <3>1, <3>3 DEF Round
    <3>5. QED BY <1>1, <2>1, <3>1, <3>2, <3>4, StillHeld
  <2>3. CASE ~skip.allowed
    <3>1. cpc' = "stop" /\ rc' = 1 /\ skip' = skip
      BY <1>6, <2>3 DEF JudgeDiffer, StopAll
    <3>2. Lost \/ \E p \in P : Monitor!Mismatch(p)
      BY <1>1, <2>1, Differ
    <3>3. QED BY <1>1, <2>1, <3>1, <3>2, Decided
  <2>4. QED BY <2>2, <2>3
<1>7. QED BY <1>2, <1>3, <1>4, <1>5, <1>6 DEF Judge

LEMMA RecheckTalk == ASSUME SyncInv, TalkInv, Recheck PROVE TalkInv'
<1> DEFINE surface == ~skip.moved \/ cur[1].kind = "EOF"
<1>1. cpc = "recheck" /\ Live /\ UNCHANGED controlled /\ UNCHANGED <<ready, go, rd, cur, names>>
  BY DEF Recheck, Live
<1>2. skip.on /\ 1 \in P
  BY <1>1, SyncAssumption DEF SyncInv, ControllerOK, P
<1>3. \/ /\ surface /\ UNCHANGED <<skip, pos>>
         /\ IF "EOF" \in Kinds THEN cpc' = "done" ELSE cpc' = "stop" /\ rc' = 1
      \/ ~surface /\ Agreed /\ GoAll
      \/ /\ ~surface /\ ~Agreed /\ pos' = pos
         /\ cpc' = "skip" /\ skip' = [skip EXCEPT !.moved = FALSE]
  BY DEF Recheck, Exited, StopAll
<1>4. CASE /\ surface /\ UNCHANGED <<skip, pos>>
           /\ IF "EOF" \in Kinds THEN cpc' = "done" ELSE cpc' = "stop" /\ rc' = 1
  <2>1. CASE "EOF" \in Kinds
    BY <1>1, <1>4, <2>1, Decided
  <2>2. CASE "EOF" \notin Kinds
    <3>1. ~skip.moved
      BY <1>2, <1>4, <2>2 DEF Kinds
    <3>2. ~Agreed
      BY <1>1, <2>2, <3>1 DEF TalkInv, Round
    <3>3. Lost \/ \E p \in P : Monitor!Mismatch(p)
      <4>1. CASE "ERR" \in Kinds
        BY <1>1, <4>1, NotThere DEF Kinds
      <4>2. CASE "ERR" \notin Kinds
        BY <1>1, <2>2, <3>2, <4>2, Differ
      <4>3. QED BY <4>1, <4>2
    <3>4. QED BY <1>1, <1>4, <2>2, <3>3, Decided
  <2>3. QED BY <2>1, <2>2
<1>5. CASE ~surface /\ Agreed /\ GoAll
  <2>1. ASSUME NEW p \in P \ torn PROVE cur[p].kind \notin {"EOF", "ERR"}
    <3>1. cur[p].kind # "EOF"
      BY <1>5 DEF Agreed
    <3>2. cur[p].kind # "ERR"
      BY <1>1, <1>2, NotThere
    <3>3. QED BY <3>1, <3>2
  <2>2. QED BY <1>1, <1>5, <2>1, GoAllTalk
<1>6. CASE /\ ~surface /\ ~Agreed /\ pos' = pos
           /\ cpc' = "skip" /\ skip' = [skip EXCEPT !.moved = FALSE]
  <2>1. DOMAIN skip' = DOMAIN skip /\ skip'.moved \in BOOLEAN
    BY <1>6 DEF TalkInv, Shapes
  <2>2. Agreed' <=> Agreed
    BY <1>1 DEF Agreed, event_key, name_for_id
  <2>3. Round'
    BY <1>6, <2>2 DEF Round
  <2>4. QED BY <1>1, <1>2, <1>6, <2>1, <2>3, StillHeld
<1>7. QED BY <1>3, <1>4, <1>5, <1>6

LEMMA SkipVisitTalk == ASSUME SyncInv, TalkInv, SkipVisit PROVE TalkInv'
<1>1. cpc = "skip" /\ Live /\ UNCHANGED controlled /\ UNCHANGED <<ready, rd, cur, names, skip>>
  BY DEF SkipVisit, Live
<1>2. ControllerOK /\ Domains /\ ci \in P /\ skip.on /\ Shapes
  BY <1>1 DEF SyncInv, ControllerOK, TalkInv
<1>3. /\ interned' = interned /\ said' = said /\ torn' = torn /\ killed' = killed /\ pc' = pc
      /\ todo' = todo /\ out' = out
  BY <1>1 DEF controlled, participant
<1>4. CASE CanSkip(ci) /\ Gone(ci)
  BY <1>1, <1>4, Decided DEF SkipVisit, Exited
<1>5. CASE ~CanSkip(ci)
  <2>1. go' = go /\ pos' = pos /\ cpc' \in {"skip", "recheck"}
    BY <1>1, <1>5 DEF SkipVisit
  <2>2. Agreed' <=> Agreed
    BY <1>1 DEF Agreed, event_key, name_for_id
  <2>3. Round'
    BY <1>1, <2>1, <2>2 DEF TalkInv, Round
  <2>4. DOMAIN skip' = DOMAIN skip /\ skip'.moved \in BOOLEAN
    BY <1>1, <1>2 DEF Shapes
  <2>5. QED BY <1>1, <1>2, <2>1, <2>3, <2>4, StillHeld
<1>6. CASE CanSkip(ci) /\ ~Gone(ci)
  <2>1. Tell("G") /\ pos' = [pos EXCEPT ![ci] = @ + 1] /\ cpc' = "header" /\ ci' = ci
    BY <1>1, <1>6 DEF SkipVisit
  <2>2. \A q \in P : q # ci => go'[q] = go[q] /\ pos'[q] = pos[q]
    BY <1>2, <2>1, TellOthers DEF Domains
  <2>3. ASSUME NEW q \in P \ torn, q # ci PROVE Talk(q)'
    <3>1. SameTo(q) /\ Still(q)
      BY <1>1, <1>2, <1>3, <2>1, <2>2, <2>3 DEF SameTo, HoldsTurn, Reading, Still
    <3>2. Talk(q)
      BY <1>1 DEF TalkInv
    <3>3. QED BY <1>1, <1>3, <2>1, <3>1, <3>2, TalkFrame
  <2>4. ASSUME NEW q \in P \ torn, q = ci PROVE Talk(q)'
    <3>1. Talk(q) /\ HoldsTurn(q) /\ ParticipantOK(q) /\ ~Gone(q)
      BY <1>1, <1>6, <2>4 DEF TalkInv, HoldsTurn, SyncInv
    <3>2. pc[q] = "ack" /\ InHand(q) /\ IsSeq(go[q])
      BY <3>1, InTurn DEF Gone, ParticipantOK, WellFormed
    <3>3. go'[q] # <<>> /\ go'[q][1] = "G"
      <4>1. Len(go'[q]) = 1 /\ go'[q][1] = "G"
        BY <1>2, <2>1, <2>4, <3>1, <3>2, TellStep DEF InHand
      <4>2. QED BY <4>1, ShortSeq
    <3>4. AllKnown(q) /\ Records(q)
      BY <1>1, <3>1, <3>2 DEF Talk, Records, HoldsTurn
    <3>5. (AllKnown(q)' <=> AllKnown(q)) /\ (Announces(q)' <=> Announces(q))
          /\ ~HoldsTurn(q)' /\ ~Reading(q)'
      BY <1>1, <1>2, <1>3, <2>1, <2>4 DEF AllKnown, Announces, HoldsTurn, Reading
    <3>6. Records(q)'
      BY <1>3, <3>2, <3>3, <3>4, <3>5 DEF Records
    <3>7. QED BY <1>3, <2>1, <3>1, <3>2, <3>3, <3>5, <3>6 DEF Talk, Gone
  <2>5. \A q \in P \ torn : Talk(q)'
    <3>1. ASSUME NEW q \in P \ torn PROVE Talk(q)'
      BY <2>3, <2>4
    <3>2. QED BY <3>1
  <2>6. Verdict' /\ Round'
    BY <2>1 DEF Verdict, Round
  <2>7. DOMAIN cur' = P /\ DOMAIN names' = P /\ DOMAIN skip' = DOMAIN skip /\ skip'.moved \in BOOLEAN
    BY <1>1, <1>2 DEF Shapes
  <2>8. QED BY <1>1, <1>2, <1>3, <2>1, <2>5, <2>6, <2>7, ControllerTalk
<1>7. QED BY <1>4, <1>5, <1>6

LEMMA SendGoTalk == ASSUME SyncInv, TalkInv, SendGo PROVE TalkInv'
<1>1. cpc = "go" /\ Live /\ UNCHANGED controlled /\ UNCHANGED <<ready, rd, names, skip, pos>>
  BY DEF SendGo, Live
<1>2. ControllerOK /\ Domains /\ ci \in 1 .. N /\ ci \in P /\ ~skip.on /\ Shapes /\ N \in Nat \ {0}
      /\ \A q \in P : cur[q].kind = cur[1].kind
  BY <1>1, SyncAssumption DEF SyncInv, ControllerOK, TalkInv, P, Round
<1>3. /\ interned' = interned /\ said' = said /\ torn' = torn /\ killed' = killed /\ pc' = pc
      /\ todo' = todo /\ out' = out
  BY <1>1 DEF controlled, participant
<1>4. \/ cpc' = "done" /\ DOMAIN cur' = P
      \/ /\ Tell("G")
         /\ \/ ci < N /\ ci' = ci + 1 /\ cpc' = "go" /\ cur' = cur
            \/ ci = N /\ ci' = 1 /\ cpc' = "header" /\ cur[1].kind # "END"
         /\ Gone(ci) => cur[1].kind = "END"
         /\ DOMAIN cur' = P
  BY <1>1, <1>2 DEF SendGo, Exited, Shapes
<1>5. DOMAIN names' = P /\ DOMAIN skip' = DOMAIN skip /\ skip'.moved \in BOOLEAN
  BY <1>1, <1>2 DEF Shapes
<1>6. CASE cpc' = "done" /\ DOMAIN cur' = P
  <2>1. Verdict' /\ ~Live'
    BY <1>6 DEF Verdict, Live
  <2>2. QED BY <1>1, <1>2, <1>3, <1>5, <1>6, <2>1, ControllerTalk
<1>7. CASE /\ Tell("G")
           /\ \/ ci < N /\ ci' = ci + 1 /\ cpc' = "go" /\ cur' = cur
              \/ ci = N /\ ci' = 1 /\ cpc' = "header" /\ cur[1].kind # "END"
           /\ Gone(ci) => cur[1].kind = "END"
           /\ DOMAIN cur' = P
  <2>1. \A q \in P : q # ci => go'[q] = go[q]
    BY <1>2, <1>7, TellOthers
  <2>2. ASSUME NEW q \in P \ torn, q # ci PROVE Talk(q)'
    <3>1. q \in 1 .. N /\ Talk(q) /\ Still(q)
      BY <1>1, <1>3, <2>1, <2>2 DEF P, TalkInv, Still
    <3>2. CASE ci < N /\ ci' = ci + 1 /\ cpc' = "go" /\ cur' = cur
      <4>1. (q >= ci + 1 <=> q >= ci) /\ (q < ci => q < ci + 1)
        BY <1>2, <2>2, <3>1
      <4>2. SameTo(q)
        BY <1>1, <3>2, <4>1 DEF SameTo, HoldsTurn, Reading
      <4>3. QED BY <1>1, <1>3, <3>1, <3>2, <4>1, <4>2, TalkFrame
    <3>3. CASE ci = N /\ ci' = 1 /\ cpc' = "header" /\ cur[1].kind # "END"
      <4>1. ~(q >= ci) /\ ~(q < 1)
        BY <1>2, <2>2, <3>1, <3>3
      <4>2. ~HoldsTurn(q)
        BY <1>1, <4>1 DEF HoldsTurn
      <4>3. ~HoldsTurn(q)'
        BY <1>1, <1>2, <3>3, <4>1 DEF HoldsTurn
      <4>4. SameTo(q)
        BY <1>1, <3>3, <4>2, <4>3 DEF SameTo, Reading
      <4>5. cur[q].kind # "END"
        BY <1>2, <3>3
      <4>6. QED BY <1>1, <1>3, <3>1, <3>3, <4>2, <4>4, <4>5, TalkFrame
    <3>4. QED BY <1>7, <3>2, <3>3
  <2>3. ASSUME NEW q \in P \ torn, q = ci PROVE Talk(q)'
    <3>1. Talk(q) /\ HoldsTurn(q) /\ ParticipantOK(q)
      <4>1. q >= ci
        BY <1>2, <2>3
      <4>2. QED BY <1>1, <4>1 DEF TalkInv, HoldsTurn, SyncInv
    <3>2. ~HoldsTurn(q)' /\ ~Reading(q)' /\ ~Reading(q) /\ cpc' \in {"go", "header"}
      <4>1. ~(ci >= ci + 1) /\ ~(ci < 1)
        BY <1>2
      <4>2. QED BY <1>1, <1>2, <1>7, <2>3, <4>1 DEF HoldsTurn, Reading
    <3>3. (AllKnown(q)' <=> AllKnown(q)) /\ (Announces(q)' <=> Announces(q))
      BY <1>1, <1>3 DEF AllKnown, Announces
    <3>4. cpc' = "go" /\ cur'[q].kind = "END" => Gone(q)' /\ Len(said'[q]) = pos'[q]
      BY <1>1, <1>3, <1>7, <3>1, <3>2 DEF Talk, Gone
    <3>5. CASE Gone(q)
      <4>1. go' = go /\ cur[q].kind = "END" /\ ci < N /\ ci' = ci + 1 /\ cpc' = "go" /\ cur' = cur
        BY <1>2, <1>7, <2>3, <3>5 DEF Tell
      <4>2. ready[q] = <<>> /\ Len(said[q]) = pos[q] /\ q < ci'
        BY <1>1, <1>2, <2>3, <3>1, <3>5, <4>1 DEF Talk
      <4>3. Silent(q)'
        BY <1>1, <1>3, <3>2, <4>1, <4>2 DEF Silent
      <4>4. QED BY <1>1, <1>3, <3>1, <3>2, <3>3, <3>4, <3>5, <4>1, <4>3 DEF Talk, Gone
    <3>6. CASE ~Gone(q)
      <4>1. pc[q] = "ack" /\ InHand(q) /\ IsSeq(go[q])
        BY <3>1, <3>6, InTurn DEF Gone, ParticipantOK, WellFormed
      <4>2. go'[q] # <<>> /\ go'[q][1] = "G"
        <5>1. Len(go'[q]) = 1 /\ go'[q][1] = "G"
          BY <1>2, <1>7, <2>3, <3>6, <4>1, TellStep DEF InHand
        <5>2. QED BY <5>1, ShortSeq
      <4>3. AllKnown(q) /\ Records(q)
        BY <3>1, <4>1 DEF Talk, Records
      <4>4. Records(q)'
        BY <1>3, <3>3, <4>1, <4>2, <4>3 DEF Records
      <4>5. QED BY <1>3, <3>1, <3>2, <3>3, <3>4, <3>6, <4>1, <4>2, <4>4 DEF Talk, Gone
    <3>7. QED BY <3>5, <3>6
  <2>4. \A q \in P \ torn : Talk(q)'
    <3>1. ASSUME NEW q \in P \ torn PROVE Talk(q)'
      BY <2>2, <2>3
    <3>2. QED BY <3>1
  <2>5. Verdict' /\ Round'
    BY <1>2, <1>7 DEF Verdict, Round
  <2>6. QED BY <1>1, <1>2, <1>3, <1>5, <1>7, <2>4, <2>5, ControllerTalk
<1>8. QED BY <1>4, <1>6, <1>7

LEMMA SendStopTalk == ASSUME SyncInv, TalkInv, SendStop PROVE TalkInv'
<1>1. /\ cpc = "stop" /\ cpc' \in {"stop", "done"} /\ rc' = rc
      /\ UNCHANGED controlled /\ UNCHANGED <<ready, rd, cur, names, skip, pos>>
  BY DEF SendStop
<1>2. /\ interned' = interned /\ said' = said /\ torn' = torn /\ killed' = killed
  BY <1>1 DEF controlled, participant
<1>3. \A p \in P : Monitor!Mismatch(p) => Monitor!Mismatch(p)'
  <2>1. 1 \in P /\ \A q \in P : IsSeq(said[q]) /\ pos[q] \in Nat
    BY SyncAssumption DEF P, TalkInv, Shapes
  <2>2. QED BY <1>1, <1>2, <2>1, MismatchKept
<1>4. Verdict' /\ ~Live'
  BY <1>1, <1>2, <1>3 DEF TalkInv, Verdict, Lost, Live
<1>5. Shapes'
  BY <1>1, <1>2 DEF TalkInv, Shapes
<1>6. QED BY <1>4, <1>5 DEF TalkInv

LEMMA TalkStutter == ASSUME SyncInv, TalkInv, UNCHANGED vars PROVE TalkInv'
<1>1. /\ cpc' = cpc /\ ci' = ci /\ rd' = rd /\ skip' = skip /\ cur' = cur /\ names' = names
      /\ rc' = rc /\ interned' = interned /\ said' = said /\ pos' = pos /\ torn' = torn
      /\ killed' = killed
      /\ \A q \in P : Still(q)
  BY DEF vars, participant, controller, history, Still
<1>2. \A p \in P : Monitor!Mismatch(p) => Monitor!Mismatch(p)'
  <2>1. 1 \in P /\ \A q \in P : IsSeq(said[q]) /\ pos[q] \in Nat
    BY SyncAssumption DEF P, TalkInv, Shapes
  <2>2. QED BY <1>1, <2>1, MismatchKept
<1>3. Verdict' /\ Shapes' /\ (Live' <=> Live)
  BY <1>1, <1>2 DEF TalkInv, Verdict, Lost, Live, Shapes
<1>4. Round => Round'
  BY <1>1 DEF Round, Agreed, event_key, name_for_id, Kinds
<1>5. ASSUME Live, NEW q \in P \ torn PROVE Talk(q)'
  <2>1. Talk(q) /\ SameTo(q)
    BY <1>1, <1>5, ControllerStill DEF TalkInv
  <2>2. QED BY <1>1, <2>1, TalkFrame
<1>6. QED BY <1>1, <1>3, <1>4, <1>5 DEF TalkInv

LEMMA TalkInit == Init => TalkInv
<1> SUFFICES ASSUME Init PROVE TalkInv
  OBVIOUS
<1>1. 1 \in P
  BY SyncAssumption DEF P
<1>2. skip \in [allowed : SkipModes, on : {FALSE}, left : {[p \in P |-> 0]}, moved : {FALSE}]
  BY DEF Init
<1>3. DOMAIN skip = {"allowed", "on", "left", "moved"} /\ skip.on = FALSE /\ skip.moved = FALSE
  BY <1>2
<1>4. Shapes
  BY <1>3, ShortSeq DEF Init, Shapes
<1>5. Verdict /\ Round
  BY DEF Init, Verdict, Round
<1>6. ASSUME NEW p \in P PROVE Talk(p)
  <2>1. /\ pc[p] = "openReady" /\ interned[p] = <<>> /\ go[p] = <<>> /\ cpc = "openReady"
    BY DEF Init
  <2>2. AllKnown(p) /\ IsSeq(interned[p])
    BY <2>1, ShortSeq DEF AllKnown, Knows
  <2>3. ~HoldsTurn(p) /\ ~Reading(p) /\ ~Gone(p)
    BY <2>1 DEF HoldsTurn, Reading, Gone
  <2>4. QED BY <2>1, <2>2, <2>3 DEF Talk
<1>7. QED BY <1>4, <1>5, <1>6 DEF TalkInv

\* What is on the wire, and what the controller made of it, is what the programs said.
THEOREM TalkInvariant == Spec => [](SyncInv /\ TalkInv)
<1>1. Init => SyncInv /\ TalkInv
  BY SyncInit, TalkInit
<1>2. SyncInv /\ TalkInv /\ [Next]_vars => TalkInv'
  <2> SUFFICES ASSUME SyncInv, TalkInv, [Next]_vars PROVE TalkInv'
    OBVIOUS
  <2>1. CASE Controller
    BY <2>1, OpenTalk, ReadTalk, ReadEofTalk, JudgeTalk, SkipVisitTalk, RecheckTalk, SendGoTalk,
       SendStopTalk DEF Controller
  <2>2. CASE \E p \in P : Moves(p) \/ Kill(p)
    BY <2>2, MovesTalk
  <2>3. CASE UNCHANGED vars
    BY <2>3, TalkStutter
  <2>4. QED BY <2>1, <2>2, <2>3 DEF Next
<1>3. QED BY <1>1, <1>2, SyncInvariant, PTL DEF Spec

\* However a program's values are cut into pieces, whatever names it interns and whenever the
\* others are killed: what the controller compares is the last event the program said, under the
\* name the program used for it.
THEOREM ControllerHoldsWhatWasSaid == Spec => []HeldIsSaid
<1>1. SyncInv /\ TalkInv => HeldIsSaid
  <2> SUFFICES ASSUME TalkInv, NEW p \in P \ torn, cpc \in {"judge", "recheck"},
                      cur[p].kind # "EOF", cur[p].kind # "ERR"
               PROVE  /\ Len(said[p]) = pos[p] + 1
                      /\ event_key(p, cur[p]) = [said[p][Len(said[p])] EXCEPT !.name = <<@>>]
    BY DEF HeldIsSaid
  <2>1. Len(said[p]) = pos[p] + 1 /\ event_key(p, cur[p]) = Key(LastSaid(p))
    BY HeldOwed
  <2>2. QED BY <2>1, Zenon DEF Key, LastSaid
<1>2. QED BY <1>1, TalkInvariant, PTL

-----------------------------------------------------------------------------
(* Each step is one of Lockstep's, or none of its business.                *)

Verdicts == IF cpc = "done" THEN rc ELSE 4      \* the verdict of the mapping

LEMMA KeyParts ==
    ASSUME NEW e, NEW k, NEW n, NEW t, NEW v,
           Key(e) = [kind |-> k, name |-> n, type |-> t, val |-> v]
    PROVE  e.kind = k /\ <<e.name>> = n
<1>1. Key(e) = [i \in DOMAIN e |-> IF i = "name" THEN <<e[i]>> ELSE e[i]]
  BY Zenon DEF Key
<1> HIDE DEF Key
<1>2. DOMAIN Key(e) = DOMAIN e
  BY <1>1
<1>3. DOMAIN Key(e) = {"kind", "name", "type", "val"}
  OBVIOUS
<1>4. Key(e)["kind"] = e["kind"] /\ Key(e)["name"] = <<e["name"]>>
  BY <1>1, <1>2, <1>3
<1>5. QED BY <1>4

LEMMA Unmoved ==
    ASSUME said' = said, pos' = pos, torn' = torn, killed' = killed, Verdicts' = Verdicts
    PROVE  UNCHANGED Monitor!lvars
BY DEF Monitor!lvars, Verdicts

\* A participant says what it has written.
LEMMA SayStep ==
    ASSUME SyncInv, Shapes, NEW p \in P,
           \E x : said' = [said EXCEPT ![p] = Append(@, x)]
    PROVE  Monitor!Says(p)
<1>1. PICK x : said' = [said EXCEPT ![p] = Append(@, x)]
  OBVIOUS
<1>2. IsSeq(said[p]) /\ DOMAIN said = P
  BY DEF SyncInv, Domains, Shapes
<1>3. said'[p] = Append(said[p], x)
  BY <1>1, <1>2
<1>4. Len(said'[p]) = Len(said[p]) + 1 /\ said'[p][Len(said[p]) + 1] = x
  BY <1>2, <1>3, AppendSeq
<1>5. QED BY <1>1, <1>4 DEF Monitor!Says

LEMMA MovesMapped ==
    ASSUME SyncInv, TalkInv, NEW p \in P, Moves(p) \/ Kill(p)
    PROVE  Monitor!Next \/ UNCHANGED Monitor!lvars
<1>1. cpc' = cpc /\ pos' = pos /\ rc' = rc /\ Verdicts' = Verdicts
  BY MovesOthers, MovesNames DEF SyncInv, TalkInv, Verdicts
<1>2. p \notin torn => /\ Len(said[p]) \in Nat /\ pos[p] \in Nat
                       /\ pc[p] \in {"run", "write"} => Len(said[p]) = pos[p]
  BY SaidBound DEF SyncInv
<1>3. pc[p] \in {"run", "write"} => ~Monitor!Owes(p) \/ p \in torn
  BY <1>2 DEF Monitor!Owes
<1>4. CASE \E e \in Events : Emit(p, e)
  BY <1>1, <1>4, Unmoved DEF Emit, history
<1>5. CASE AckGo(p) \/ AckStop(p) \/ HangUp(p)
  BY <1>1, <1>5, Unmoved DEF AckGo, AckStop, HangUp, history
<1>6. ASSUME pc[p] \in {"run", "write"}, torn' = torn, killed' = killed,
             said' = said \/ \E x : said' = [said EXCEPT ![p] = Append(@, x)]
      PROVE  Monitor!Next \/ UNCHANGED Monitor!lvars
  <2>1. CASE said' = said
    BY <1>1, <1>6, <2>1, Unmoved
  <2>2. CASE \E x : said' = [said EXCEPT ![p] = Append(@, x)]
    <3>1. Monitor!Says(p)
      BY <2>2, SayStep DEF TalkInv
    <3>2. Monitor!Say(p)
      BY <1>1, <1>3, <1>6, <3>1 DEF Monitor!Say, Verdicts
    <3>3. QED BY <3>2 DEF Monitor!Next
  <2>3. QED BY <1>6, <2>1, <2>2
<1>7. CASE WriteBlocking(p) \/ WriteWhole(p)
  BY <1>6, <1>7 DEF WriteBlocking, WriteWhole, Said
<1>8. CASE Finish(p)
  BY <1>6, <1>8 DEF Finish
<1>9. CASE WriteTorn(p)
  <2>1. said' = said \/ \E x : said' = [said EXCEPT ![p] = Append(@, x)]
    BY <1>9 DEF WriteTorn, Said
  <2>2. UNCHANGED said \/ Monitor!Says(p)
    BY <2>1, SayStep DEF TalkInv
  <2>3. torn' = torn \cup {p} /\ killed' = killed
    BY <1>9 DEF WriteTorn
  <2>4. Monitor!BreakLoose(p)
    BY <1>1, <2>2, <2>3 DEF Monitor!BreakLoose, Verdicts
  <2>5. QED BY <2>4 DEF Monitor!Next
<1>10. CASE Kill(p)
  <2>1. killed' = killed \cup {p} /\ said' = said /\ torn' = torn
    BY <1>10 DEF Kill
  <2>2. Monitor!Kill(p)
    BY <1>1, <2>1 DEF Monitor!Kill, Verdicts
  <2>3. QED BY <2>2 DEF Monitor!Next
<1>11. QED BY <1>4, <1>5, <1>7, <1>8, <1>9, <1>10 DEF Moves

\* The verdicts.
LEMMA Passed ==
    ASSUME cpc # "done", cpc' = "done", rc' = 0, UNCHANGED <<said, pos, torn, killed>>,
           \A p \in P \ torn : Len(said[p]) = pos[p] /\ pos[p] \in Nat
    PROVE  Monitor!Next
<1>1. \A p \in P \ torn : ~Monitor!Owes(p)
  BY DEF Monitor!Owes
<1>2. Monitor!Pass
  BY <1>1 DEF Monitor!Pass, Monitor!Open, Monitor!NoVerdict
<1>3. QED BY <1>2 DEF Monitor!Next

LEMMA Failed ==
    ASSUME cpc # "done", cpc' = "done", UNCHANGED <<said, pos, torn, killed>>,
           \/ rc' \in {1, 2, 3} /\ Lost
           \/ rc' = 1 /\ \E p \in P : Monitor!Mismatch(p)
    PROVE  Monitor!Next
<1>1. Monitor!Open
  BY DEF Monitor!Open, Monitor!NoVerdict
<1>2. CASE rc' = 1
  <2>1. Monitor!Diverge
    BY <1>1, <1>2 DEF Monitor!Diverge, Lost
  <2>2. QED BY <2>1 DEF Monitor!Next
<1>3. CASE rc' \in {2, 3} /\ Lost
  <2>1. Monitor!GiveUp
    BY <1>1, <1>3 DEF Monitor!GiveUp, Lost
  <2>2. QED BY <2>1 DEF Monitor!Next
<1>4. QED BY <1>2, <1>3

\* The barrier.
LEMMA Barrier ==
    ASSUME SyncInv, TalkInv, cpc \in {"judge", "recheck"}, Agreed, GoAll,
           \A p \in P \ torn : cur[p].kind \notin {"EOF", "ERR"}, UNCHANGED controlled
    PROVE  Monitor!Next
<1>1. said' = said /\ torn' = torn /\ killed' = killed /\ cpc' = "go"
      /\ pos' = [p \in P |-> pos[p] + 1]
  BY DEF controlled, GoAll
<1>2. Monitor!Open /\ UNCHANGED Verdicts
  BY <1>1 DEF Monitor!Open, Monitor!NoVerdict, Verdicts
<1>3. \A p \in P \ torn : Monitor!Owes(p) /\ event_key(p, cur[p]) = Key(Monitor!Held(p))
  BY HeldOwed
<1>4. ASSUME 1 \notin torn, NEW p \in P \ (torn \cup {1}) PROVE ~Monitor!Mismatch(p)
  <2>1. keys_match(event_key(p, cur[p]), event_key(1, cur[1]),
                   p \in WILDCARD_NAMES_PARTICIPANTS, 1 \in WILDCARD_NAMES_PARTICIPANTS)
    BY DEF Agreed
  <2>2. 1 \in P
    BY SyncAssumption DEF P
  <2>3. QED BY <1>3, <1>4, <2>1, <2>2, MismatchMeans
<1>5. Monitor!Agree
  BY <1>1, <1>2, <1>3, <1>4 DEF Monitor!Agree, Verdicts
<1>6. QED BY <1>5 DEF Monitor!Next

\* A skipped event is a keyword's value.
LEMMA Skipped ==
    ASSUME SyncInv, TalkInv, cpc = "skip", CanSkip(ci), cpc' = "header", UNCHANGED controlled,
           pos' = [pos EXCEPT ![ci] = @ + 1]
    PROVE  Monitor!Next
<1>1. said' = said /\ torn' = torn /\ killed' = killed /\ ci \in P
  BY DEF controlled, SyncInv, ControllerOK
<1>2. Monitor!Open /\ UNCHANGED Verdicts
  BY DEF Monitor!Open, Monitor!NoVerdict, Verdicts
<1>3. ASSUME ci \notin torn
      PROVE  Monitor!Owes(ci) /\ Monitor!Held(ci).kind = "VALUE" /\ Monitor!Held(ci).name \in Keywords
  <2> DEFINE e == Monitor!Held(ci)
  <2>1. cur[ci].kind = "VALUE" /\ \E k \in Keywords : name_for_id(ci, cur[ci].id) = <<k>>
    BY DEF CanSkip, IsKeywordValue
  <2>2. Monitor!Owes(ci) /\ event_key(ci, cur[ci]) = Key(e)
    BY <1>1, <1>3, <2>1, HeldOwed
  <2> HIDE DEF e
  <2>3. e.kind = cur[ci].kind /\ <<e.name>> = name_for_id(ci, cur[ci].id)
    BY <2>2, KeyParts DEF event_key
  <2>4. e.name \in Keywords
    BY <2>1, <2>3
  <2>5. QED BY <2>1, <2>2, <2>3, <2>4 DEF e
<1>4. Monitor!Skip(ci)
  BY <1>1, <1>2, <1>3 DEF Monitor!Skip, Verdicts
<1>5. QED BY <1>1, <1>4 DEF Monitor!Next

LEMMA JudgeMapped ==
    ASSUME SyncInv, TalkInv, Judge PROVE Monitor!Next \/ UNCHANGED Monitor!lvars
<1>1. cpc = "judge" /\ UNCHANGED controlled /\ said' = said /\ torn' = torn /\ killed' = killed
  BY DEF Judge, controlled
<1>2. ASSUME pos' = pos, cpc' # "done" PROVE UNCHANGED Monitor!lvars
  BY <1>1, <1>2, Unmoved DEF Verdicts
<1>3. CASE JudgeError \/ JudgePartial \/ JudgeDiffer
  <2>1. pos' = pos /\ cpc' \in {"stop", "skip"}
    BY <1>3 DEF JudgeError, JudgePartial, JudgeDiffer, StopAll
  <2>2. QED BY <1>2, <2>1
<1>4. CASE JudgeEnded
  <2>1. cpc' = "done" /\ rc' = 0 /\ pos' = pos /\ Kinds = {"EOF"}
    BY <1>4 DEF JudgeEnded, Exited
  <2>2. ASSUME NEW p \in P \ torn PROVE Len(said[p]) = pos[p] /\ pos[p] \in Nat
    <3>1. cur[p].kind = "EOF"
      BY <2>1 DEF Kinds
    <3>2. Holds(p) /\ pos[p] \in Nat
      BY <1>1 DEF TalkInv, Live, Talk, HoldsTurn, Shapes
    <3>3. QED BY <3>1, <3>2 DEF Holds
  <2>3. QED BY <1>1, <2>1, <2>2, Passed
<1>5. CASE JudgeAgree
  <2>1. \A p \in P \ torn : cur[p].kind \notin {"EOF", "ERR"}
    BY <1>5 DEF JudgeAgree, Kinds
  <2>2. QED BY <1>1, <1>5, <2>1, Barrier DEF JudgeAgree
<1>6. QED BY <1>3, <1>4, <1>5 DEF Judge

LEMMA RecheckMapped ==
    ASSUME SyncInv, TalkInv, Recheck PROVE Monitor!Next \/ UNCHANGED Monitor!lvars
<1>1. cpc = "recheck" /\ UNCHANGED controlled /\ said' = said /\ torn' = torn /\ killed' = killed
      /\ skip.on
  BY DEF Recheck, controlled, SyncInv, ControllerOK
<1>2. \/ pos' = pos /\ "EOF" \in Kinds /\ cpc' = "done" /\ rc' = 1
      \/ pos' = pos /\ cpc' \in {"stop", "skip"}
      \/ cur[1].kind # "EOF" /\ Agreed /\ GoAll
  BY DEF Recheck, Exited, StopAll
<1>3. CASE pos' = pos /\ "EOF" \in Kinds /\ cpc' = "done" /\ rc' = 1
  <2>1. Lost
    BY <1>1, <1>3, NotThere DEF Kinds
  <2>2. QED BY <1>1, <1>3, <2>1, Failed
<1>4. CASE pos' = pos /\ cpc' \in {"stop", "skip"}
  BY <1>1, <1>4, Unmoved DEF Verdicts
<1>5. CASE cur[1].kind # "EOF" /\ Agreed /\ GoAll
  <2>1. ASSUME NEW p \in P \ torn PROVE cur[p].kind \notin {"EOF", "ERR"}
    <3>1. cur[p].kind # "EOF"
      BY <1>5 DEF Agreed
    <3>2. cur[p].kind # "ERR"
      BY <1>1, NotThere
    <3>3. QED BY <3>1, <3>2
  <2>2. QED BY <1>1, <1>5, <2>1, Barrier
<1>6. QED BY <1>2, <1>3, <1>4, <1>5

LEMMA SkipVisitMapped ==
    ASSUME SyncInv, TalkInv, SkipVisit PROVE Monitor!Next \/ UNCHANGED Monitor!lvars
<1>1. cpc = "skip" /\ UNCHANGED controlled /\ said' = said /\ torn' = torn /\ killed' = killed
      /\ ci \in P
  BY DEF SkipVisit, controlled, SyncInv, ControllerOK
<1>2. CASE CanSkip(ci) /\ Gone(ci)
  <2>1. cpc' = "done" /\ rc' = 2 /\ pos' = pos
    BY <1>2 DEF SkipVisit, Exited
  <2>2. Lost
    BY <1>1, <1>2 DEF CanSkip, IsKeywordValue, TalkInv, Live, Talk, HoldsTurn, Holds, Lost
  <2>3. QED BY <1>1, <2>1, <2>2, Failed
<1>3. CASE CanSkip(ci) /\ ~Gone(ci)
  <2>1. cpc' = "header" /\ pos' = [pos EXCEPT ![ci] = @ + 1]
    BY <1>3 DEF SkipVisit
  <2>2. QED BY <1>1, <1>3, <2>1, Skipped
<1>4. CASE ~CanSkip(ci)
  <2>1. pos' = pos /\ cpc' \in {"skip", "recheck"}
    BY <1>1, <1>4 DEF SkipVisit
  <2>2. QED BY <1>1, <2>1, Unmoved DEF Verdicts
<1>5. QED BY <1>2, <1>3, <1>4

LEMMA ReadMapped ==
    ASSUME SyncInv, TalkInv, ReadHeader \/ ReadValue \/ ReadEof
    PROVE  Monitor!Next \/ UNCHANGED Monitor!lvars
<1>1. /\ cpc \in {"header", "value"} /\ UNCHANGED controlled /\ pos' = pos
      /\ said' = said /\ torn' = torn /\ killed' = killed /\ ci \in P /\ ControllerOK
  BY DEF ReadHeader, ReadValue, ReadEof, controlled, SyncInv, ControllerOK
<1>2. ASSUME cpc' # "done" PROVE UNCHANGED Monitor!lvars
  BY <1>1, <1>2, Unmoved DEF Verdicts
<1>3. CASE ReadHeader \/ ReadValue
  <2>1. CASE \E r, val : Receive(r, val)
    BY <1>1, <1>2, <2>1, ReceiveRest DEF TalkInv
  <2>2. CASE cpc' = "value"
    BY <1>2, <2>2
  <2>3. QED BY <1>1, <1>3, <2>1, <2>2 DEF ReadHeader, ReadValue
<1>4. CASE ReadEof
  <2>1. /\ ready[ci] = <<>> /\ Gone(ci)
        /\ \/ cpc' = "done" /\ rc' = 3
           \/ AfterRead
    BY <1>4 DEF ReadEof, Exited
  <2>2. CASE AfterRead
    <3>1. cpc' # "done"
      BY <2>2 DEF AfterRead
    <3>2. QED BY <1>2, <3>1
  <2>3. CASE cpc' = "done" /\ rc' = 3
    <3>1. Lost
      BY <1>1, <2>1, EndOfFile DEF Lost
    <3>2. QED BY <1>1, <2>3, <3>1, Failed
  <2>4. QED BY <2>1, <2>2, <2>3
<1>5. QED BY <1>3, <1>4

LEMMA SendMapped ==
    ASSUME SyncInv, TalkInv, SendGo \/ SendStop
    PROVE  Monitor!Next \/ UNCHANGED Monitor!lvars
<1>1. /\ cpc \in {"go", "stop"} /\ UNCHANGED controlled /\ pos' = pos
      /\ said' = said /\ torn' = torn /\ killed' = killed /\ ci \in P
  BY DEF SendGo, SendStop, controlled, SyncInv, ControllerOK
<1>2. ASSUME cpc' # "done" PROVE UNCHANGED Monitor!lvars
  BY <1>1, <1>2, Unmoved DEF Verdicts
<1>3. CASE SendStop
  <2>1. cpc = "stop" /\ rc' = rc
    BY <1>3 DEF SendStop
  <2>2. rc \in {1, 3} /\ (Lost \/ (rc = 1 /\ \E p \in P : Monitor!Mismatch(p)))
    BY <2>1 DEF TalkInv, Verdict
  <2>3. CASE cpc' = "done"
    BY <1>1, <2>1, <2>2, <2>3, Failed
  <2>4. QED BY <1>2, <2>3
<1>4. CASE SendGo
  <2>1. cpc = "go" /\ Live /\ \A p \in P : cur[p].kind = cur[1].kind
    BY <1>4 DEF SendGo, Live, TalkInv, Round
  <2>2. \/ cpc' # "done"
        \/ Gone(ci) /\ cur[1].kind # "END" /\ cpc' = "done" /\ rc' = 1
        \/ cur[1].kind = "END" /\ cpc' = "done" /\ rc' = 0
    BY <1>4 DEF SendGo, Exited
  <2>3. CASE Gone(ci) /\ cur[1].kind # "END" /\ cpc' = "done" /\ rc' = 1
    <3>1. HoldsTurn(ci)
      <4>1. ci >= ci
        BY <1>1 DEF P
      <4>2. QED BY <2>1, <4>1 DEF HoldsTurn
    <3>2. Lost
      BY <1>1, <2>1, <2>3, <3>1 DEF TalkInv, Talk, Lost
    <3>3. QED BY <1>1, <2>3, <3>2, Failed
  <2>4. CASE cur[1].kind = "END" /\ cpc' = "done" /\ rc' = 0
    <3>1. \A p \in P \ torn : Len(said[p]) = pos[p] /\ pos[p] \in Nat
      BY <2>1, <2>4 DEF TalkInv, Talk, Shapes
    <3>2. QED BY <1>1, <2>4, <3>1, Passed
  <2>5. QED BY <1>2, <2>2, <2>3, <2>4
<1>5. QED BY <1>3, <1>4

\* However many programs are run side by side, whatever they say, however small the pipes and
\* whoever is killed or cut short: each step of the monitor and of its participants is one that
\* Lockstep allows, so that a pass means that everything said agreed, step by step, or was a
\* skipped keyword's value, a divergence that some pair of events differs or a participant was
\* lost, and nobody is let past an event the others have not said.
THEOREM VerdictsAreLocksteps == Spec => Implements
<1>1. Init => Monitor!Init
  BY DEF Init, Monitor!Init, Monitor!NoVerdict
<1>2. SyncInv /\ TalkInv /\ [Next]_vars => [Monitor!Next]_(Monitor!lvars)
  <2> SUFFICES ASSUME SyncInv, TalkInv, [Next]_vars
               PROVE  Monitor!Next \/ UNCHANGED Monitor!lvars
    OBVIOUS
  <2>1. CASE OpenReady \/ OpenGo
    BY <2>1, Unmoved DEF OpenReady, OpenGo, history, Verdicts
  <2>2. CASE Controller
    BY <2>1, <2>2, ReadMapped, JudgeMapped, SkipVisitMapped, RecheckMapped, SendMapped
       DEF Controller
  <2>3. CASE \E p \in P : Moves(p) \/ Kill(p)
    BY <2>3, MovesMapped
  <2>4. CASE UNCHANGED vars
    BY <2>4, Unmoved DEF vars, history, controller, Verdicts
  <2>5. QED BY <2>2, <2>3, <2>4 DEF Next
<1>3. QED BY <1>1, <1>2, TalkInvariant, PTL DEF Spec, Implements, Monitor!Spec
=============================================================================
