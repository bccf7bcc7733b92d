-------------------------- MODULE IcnEngineProofs --------------------------
(***************************************************************************)
(* For any lowered Icon programs and any bounds: the state of the engine   *)
(* is well typed, no node keeps a generator that is over, every call in    *)
(* progress has a frame of its own, and when a call returns every node of  *)
(* every graph has the value, state and counter it had before.             *)
(***************************************************************************)
EXTENDS IcnEngine, FiniteSetTheorems, SequenceTheorems, TLAPS

\* What nodes hold.
Ids(c) == DOMAIN c.at
Cells  == [val : Values, st : {0, 1}, cnt : Int, lo : Int, hi : Int, gen : Nat, once : BOOLEAN]
CellOK(cell, nd) ==
    /\ nd.op = "ALT" /\ cell.st = 1 => cell.cnt \in 1 .. nd.kids
    /\ cell.gen # 0 => nd.op = "CALL"
MemOK(c, mem) == mem \in [Ids(c) -> Cells] /\ \A id \in Ids(c) : CellOK(mem[id], c.at[id])

\* What a step inside procedure p may do to the nodes.
Within(c, mem, new, p) ==
    /\ MemOK(c, new)
    /\ \A id \in Ids(c) :
          /\ new[id].gen = mem[id].gen
          /\ new[id].st = 1 /\ new[id].gen # 0 => mem[id].st = 1
          /\ id[1] # p => new[id] = mem[id]

\* Frames, variables, generators.
Frames == [sc : Seq(STRING), env : Seq(Values), returning : BOOLEAN, loop_break : BOOLEAN, loop_next : BOOLEAN]
GenRecs(c) == [proc : DOMAIN c.proc, pc : Nat \ {0}, saved_frame_depth : Nat, over : BOOLEAN]

\* The C stack: evaluations in progress, each in a procedure.  What an operand may be wanted for.
Phases == {"", "operand", "select", "key", "value", "head", "body", "seed", "lo", "hi", "both", "hiboth",
           "from", "by", "to", "max", "pump", "first", "next", "carry", "retry", "reread"}
Acts(c) == [nd : Ids(c), j : Nat, ph : Phases \cup {"call", "gen"}, args : Seq(Values), gen : Nat, loop_break : BOOLEAN,
            loop_next : BOOLEAN, snap : [Ids(c) -> Cells] \cup {<<>>}]
Callee(c, a)    == c.at[a.nd].x
Runs(c, a)      == IF a.ph = "call" THEN Callee(c, a) ELSE a.nd[1]
Before(c, s, i) == IF i = 1 THEN "main" ELSE Runs(c, s[i - 1])
Now(c, s)       == Before(c, s, Len(s) + 1)

Chain(c, s) ==
    /\ s \in Seq(Acts(c))
    /\ \A i \in 1 .. Len(s) : s[i].j <= c.at[s[i].nd].kids /\ s[i].nd[1] = Before(c, s, i)

\* It waits for an operand, or for a procedure; it has all its operands; it has a generator running.
Waits(c, a) ==
    LET nd == c.at[a.nd] IN
    /\ a.j > 0 /\ a.ph \notin {"call", "gen"}
    /\ nd.op \in Strict => a.ph = "operand" /\ Len(a.args) = a.j - (IF nd.op = "ASSIGN" THEN 2 ELSE 1)
    /\ nd.op = "ASSIGN" => a.j = 2
    /\ nd.op = "CASE" /\ a.ph = "key" => a.j < nd.kids
InCall(c, a) ==
    a.ph = "call" /\ c.at[a.nd].op = "CALL" /\ HasGraph(c, Callee(c, a)) /\ MemOK(c, a.snap)
Applies(c, a) ==
    LET nd == c.at[a.nd] IN
    /\ a.ph \notin {"call", "gen"} /\ nd.op \in Strict \cup {"BINOP_GEN"}
    /\ nd.op \in Strict => Len(a.args) = (IF nd.op = "ASSIGN" THEN 1 ELSE nd.kids)
Drives(c, a, gg) == a.ph = "gen" /\ c.at[a.nd].op = "CALL" /\ a.gen \in 1 .. Len(gg) /\ ~gg[a.gen].over

Settled(c, s, n) == \A i \in 1 .. n : Waits(c, s[i]) \/ InCall(c, s[i])
ControlOK(c, s, t, gg) ==
    /\ Settled(c, s, Len(s) - 1)
    /\ t.at \in {"exec", "back", "apply", "run"}
    /\ t.at \in {"exec", "back"} => Settled(c, s, Len(s))
    /\ t.at = "exec" => t.nd \in Ids(c) /\ t.nd[1] = Now(c, s)
    /\ t.at = "apply" => s # <<>> /\ Applies(c, s[Len(s)])
    /\ t.at = "run" => s # <<>> /\ Drives(c, s[Len(s)], gg)

\* The calls in progress, those below the i-th activity; whether p is called from the i-th on, before the n-th.
CallsOf(s)  == {i \in 1 .. Len(s) : s[i].ph = "call"}
Under(s, i) == {l \in CallsOf(s) : l < i}
Called(c, s, i, n, p) == \E l \in CallsOf(s) : i <= l /\ l < n /\ Callee(c, s[l]) = p

\* Since a call was made, what runs is a procedure that was called since.
HomeOK(c, s) == \A i \in CallsOf(s), n \in 1 .. Len(s) : i <= n => Called(c, s, i, n + 1, Runs(c, s[n]))

\* The nodes of procedures that were not called since have the value, state and counter they had when
\* a call was made.
Alike(a, b) == a.val = b.val /\ a.st = b.st /\ a.cnt = b.cnt
SnapsOK(c, s, mem) ==
    \A i \in CallsOf(s) :
        /\ \A l \in CallsOf(s) : i < l =>
              \A id \in Ids(c) : Called(c, s, i, l, id[1]) \/ Alike(s[i].snap[id], s[l].snap[id])
        /\ \A id \in Ids(c) : Called(c, s, i, Len(s) + 1, id[1]) \/ Alike(s[i].snap[id], mem[id])

\* Each node has a generator of its own, and none that is over.
OwnOK(c, mem, gg) ==
    /\ \A id \in Ids(c) : mem[id].gen # 0 => mem[id].gen \in 1 .. Len(gg) /\ ~gg[mem[id].gen].over
    /\ \A id, jd \in Ids(c) : mem[id].gen = mem[jd].gen /\ mem[id].gen # 0 => id = jd

\* The frame of a generator that can be resumed is above those of the calls in progress: now, and
\* after the return of each of them.
Deep(gg, g, calls) == gg[g].saved_frame_depth >= 2 + Cardinality(calls)
DeepOK(c, s, mem, gg) ==
    /\ \A id \in Ids(c) : id[1] = Now(c, s) /\ mem[id].st = 1 /\ mem[id].gen # 0 => Deep(gg, mem[id].gen, CallsOf(s))
    /\ \A i \in CallsOf(s), id \in Ids(c) :
          id[1] = s[i].nd[1] /\ s[i].snap[id].st = 1 /\ mem[id].gen # 0 => Deep(gg, mem[id].gen, Under(s, i))
RunOK(c, s, mem, gg) ==
    LET a == s[Len(s)] IN
    Deep(gg, a.gen, CallsOf(s)) /\ \A id \in Ids(c) : id # a.nd => mem[id].gen # a.gen

EnvOK ==
    /\ frames \in Seq(Frames) /\ Len(frames) <= MaxFrames
    /\ depth \in Nat /\ depth <= Len(frames) /\ 1 + Cardinality(CallsOf(k)) <= depth
    /\ glob \in [code.names -> Values] /\ retval \in Values
GensOK ==
    /\ gens \in Seq(GenRecs(code))
    /\ \A i \in 1 .. Len(gens) : gens[i].saved_frame_depth <= Len(frames)
StackOK == Chain(code, k) /\ ControlOK(code, k, ctl, gens) /\ HomeOK(code, k)
NodesOK ==
    /\ MemOK(code, m) /\ SnapsOK(code, k, m) /\ OwnOK(code, m, gens) /\ DeepOK(code, k, m, gens)
    /\ ctl.at = "run" => RunOK(code, k, m, gens)

IInv == code \in Codes /\ EnvOK /\ GensOK /\ StackOK /\ NodesOK

-----------------------------------------------------------------------------
(* Sequences.                                                              *)

LEMMA TopReplaced ==
    ASSUME NEW S, NEW ws \in Seq(S), ws # <<>>, NEW w \in S, NEW vs, vs = [ws EXCEPT ![Len(ws)] = w]
    PROVE  /\ vs \in Seq(S) /\ vs # <<>> /\ Len(vs) = Len(ws) /\ Len(ws) \in Nat \ {0}
           /\ vs[Len(ws)] = w /\ \A i \in 1 .. Len(ws) - 1 : vs[i] = ws[i]
<1>1. Len(ws) \in Nat \ {0} /\ DOMAIN ws = 1 .. Len(ws) /\ Len(ws) \in 1 .. Len(ws)
  BY EmptySeq, LenProperties
<1>2. vs \in Seq(S) /\ Len(vs) = Len(ws)
  BY <1>1, ExceptSeq
<1>3. vs # <<>>
  BY <1>1, <1>2, EmptySeq
<1>4. vs[Len(ws)] = w
  BY <1>1
<1>5. ASSUME NEW i \in 1 .. Len(ws) - 1 PROVE vs[i] = ws[i]
  <2> DEFINE n == Len(ws)
  <2>1. n \in Nat \ {0} /\ DOMAIN ws = 1 .. n /\ i \in 1 .. n - 1
    BY <1>1
  <2> HIDE DEF n
  <2>2. i \in 1 .. n /\ i # n
    BY <2>1
  <2>3. i \in DOMAIN ws /\ i # Len(ws)
    BY <2>1, <2>2 DEF n
  <2>4. QED BY <2>3
<1>6. QED BY <1>1, <1>2, <1>3, <1>4, <1>5

LEMMA TopDropped ==
    ASSUME NEW S, NEW ws \in Seq(S), ws # <<>>, NEW vs, vs = SubSeq(ws, 1, Len(ws) - 1)
    PROVE  /\ vs \in Seq(S) /\ Len(vs) = Len(ws) - 1 /\ Len(ws) \in Nat \ {0}
           /\ \A i \in 1 .. Len(vs) : vs[i] = ws[i]
<1>1. Len(ws) \in Nat \ {0} /\ Len(ws) - 1 \in Nat /\ Len(ws) - 1 <= Len(ws)
      /\ \A i \in 1 .. Len(ws) : ws[i] \in S
  BY LenProperties, ElementOfSeq, EmptySeq
<1>2. \A i \in 1 .. Len(ws) - 1 : ws[i] \in S
  BY <1>1
<1>3. vs \in Seq(S) /\ Len(vs) = (IF 1 <= Len(ws) - 1 THEN Len(ws) - 1 - 1 + 1 ELSE 0)
      /\ \A i \in 1 .. Len(ws) - 1 - 1 + 1 : vs[i] = ws[1 + i - 1]
  BY <1>1, <1>2, SubSeqProperties
<1> DEFINE n == Len(ws)
<1>4. Len(vs) = n - 1
  <2>1. n \in Nat \ {0} /\ Len(vs) = IF 1 <= n - 1 THEN n - 1 - 1 + 1 ELSE 0
    BY <1>1, <1>3
  <2> HIDE DEF n
  <2>2. QED BY <2>1
<1>5. \A i \in 1 .. Len(vs) : vs[i] = ws[i]
  BY <1>1, <1>3, <1>4
<1>6. QED BY <1>1, <1>3, <1>4, <1>5

LEMMA TopPushed ==
    ASSUME NEW S, NEW ws \in Seq(S), NEW w \in S, NEW vs, vs = Append(ws, w)
    PROVE  /\ vs \in Seq(S) /\ vs # <<>> /\ Len(vs) = Len(ws) + 1 /\ Len(ws) \in Nat
           /\ vs[Len(ws) + 1] = w /\ \A i \in 1 .. Len(ws) : vs[i] = ws[i]
<1>1. Len(ws) \in Nat
  BY LenProperties
<1>2. vs \in Seq(S) /\ Len(vs) = Len(ws) + 1 /\ vs[Len(vs)] = w /\ \A i \in 1 .. Len(ws) : vs[i] = ws[i]
  BY <1>1, AppendProperties
<1>3. vs # <<>>
  BY <1>1, <1>2, EmptySeq
<1>4. QED BY <1>1, <1>2, <1>3

\* The last element of a sequence that has one, and the others.
LEMMA TopFacts ==
    ASSUME NEW S, NEW ws \in Seq(S)
    PROVE  /\ Len(ws) \in Nat /\ DOMAIN ws = 1 .. Len(ws) /\ \A i \in 1 .. Len(ws) : ws[i] \in S
           /\ ws # <<>> => Len(ws) \in 1 .. Len(ws) /\ ws[Len(ws)] \in S
           /\ ws = <<>> => Len(ws) = 0
<1>1. Len(ws) \in Nat /\ DOMAIN ws = 1 .. Len(ws) /\ \A i \in 1 .. Len(ws) : ws[i] \in S
  BY LenProperties, ElementOfSeq
<1>2. ws # <<>> => Len(ws) # 0
  BY EmptySeq
<1>3. ws = <<>> => Len(ws) = 0
  BY EmptySeq
<1>4. QED BY <1>1, <1>2, <1>3

-----------------------------------------------------------------------------
(* Nodes.                                                                  *)

\* What is known of a node of a lowered program.
LEMMA NodeFacts ==
    ASSUME NEW c \in Codes, NEW id \in Ids(c)
    PROVE  LET nd == c.at[id] IN
           /\ id[1] \in DOMAIN c.proc /\ nd.op \in Kinds /\ nd.kids \in Nat
           /\ nd.n \in Int /\ nd.lo \in Int /\ nd.hi \in Int
           /\ \A j \in 1 .. nd.kids : Below(id, j) \in Ids(c) /\ Below(id, j)[1] = id[1]
           /\ nd.op = "VAR" => nd.x \in c.names
           /\ nd.op \in {"ASSIGN", "SWAP"} => c.at[Below(id, 1)].x \in c.names
           /\ nd.op = "SWAP" => c.at[Below(id, 2)].x \in c.names
           /\ nd.op \in {"BINOP", "BINOP_GEN"} => nd.x \in Signs
<1>1. \A jd \in Ids(c) : IsNode(c, jd)
  BY IcnAssumption DEF IsLowered, Ids
<1>2. \A j \in 1 .. c.at[id].kids : Below(id, j) \in Ids(c) /\ Below(id, j)[1] = id[1]
  BY <1>1 DEF IsNode, Below, Ids
<1>3. ASSUME NEW j \in {1, 2}, c.at[id].kids >= j, c.at[Below(id, j)].op = "VAR"
      PROVE  c.at[Below(id, j)].x \in c.names
  <2>1. Below(id, j) \in Ids(c)
    BY <1>1, <1>2, <1>3 DEF IsNode
  <2>2. QED BY <1>1, <1>3, <2>1 DEF IsNode
<1>4. c.at[id].op \in {"ASSIGN", "SWAP"} => c.at[id].kids = 2
  BY <1>1 DEF IsNode, Arity
<1>5. QED BY <1>1, <1>2, <1>3, <1>4 DEF IsNode

\* How many operands a node has.
LEMMA ArityFacts ==
    ASSUME NEW c \in Codes, NEW id \in Ids(c)
    PROVE  LET nd == c.at[id] IN
           /\ nd.op \in {"NONNULL", "NOT", "RETURN", "INITIAL", "REPEAT"} => nd.kids = 1
           /\ nd.op \in {"ASSIGN", "SWAP", "BINOP", "BINOP_GEN", "LIMIT", "WHILE", "UNTIL"} => nd.kids = 2
           /\ nd.op = "TO" => nd.kids = 0 \/ nd.kids = 2
           /\ nd.op = "TO_BY" => nd.kids = 3
           /\ nd.op = "EVERY" => nd.kids = 1 \/ nd.kids = 2
           /\ nd.op = "IF" => nd.kids = 2 \/ nd.kids = 3
           /\ nd.op \in {"SEQ", "SEQ_EXPR", "ALT", "CASE"} => nd.kids > 0
BY IcnAssumption DEF IsLowered, Ids, IsNode, Arity

Valued(mem, id, v, new)      == new = [mem EXCEPT ![id].val = v]
Cleared(mem, id, new)        == new = [mem EXCEPT ![id].st = 0]
Resulted(mem, id, v, s, new) == new = [mem EXCEPT ![id].val = v, ![id].st = s]

OneCell(c, mem, id, new) == new \in [Ids(c) -> Cells] /\ \A jd \in Ids(c) : jd # id => new[jd] = mem[jd]

\* One cell is written.
LEMMA CellWritten ==
    ASSUME NEW c, NEW mem, MemOK(c, mem), NEW id \in Ids(c), NEW new, OneCell(c, mem, id, new),
           new[id].gen = mem[id].gen, new[id].st = 1 => mem[id].st = 1 \/ c.at[id].op # "CALL",
           c.at[id].op = "ALT" /\ new[id].st = 1 => new[id].cnt \in 1 .. c.at[id].kids
    PROVE  Within(c, mem, new, id[1])
<1>1. ASSUME NEW jd \in Ids(c) PROVE CellOK(new[jd], c.at[jd])
  BY DEF MemOK, CellOK, OneCell
<1>2. MemOK(c, new)
  BY <1>1 DEF MemOK, OneCell
<1>3. ASSUME NEW jd \in Ids(c)
      PROVE  /\ new[jd].gen = mem[jd].gen
             /\ new[jd].st = 1 /\ new[jd].gen # 0 => mem[jd].st = 1
             /\ jd[1] # id[1] => new[jd] = mem[jd]
  BY DEF MemOK, CellOK, OneCell
<1>4. QED BY <1>2, <1>3 DEF Within

LEMMA ValueWritten ==
    ASSUME NEW c, NEW mem, MemOK(c, mem), NEW id \in Ids(c), NEW v \in Values, NEW new, Valued(mem, id, v, new)
    PROVE  Within(c, mem, new, id[1])
<1>1. mem \in [Ids(c) -> Cells] /\ mem[id] \in Cells /\ CellOK(mem[id], c.at[id])
  BY DEF MemOK
<1>2. new[id] = [mem[id] EXCEPT !.val = v]
  BY <1>1 DEF Valued
<1>3. new[id] \in Cells /\ new[id].gen = mem[id].gen /\ new[id].st = mem[id].st /\ new[id].cnt = mem[id].cnt
  BY <1>1, <1>2 DEF Cells
<1>4. OneCell(c, mem, id, new)
  BY <1>1, <1>3 DEF OneCell, Valued
<1>5. QED BY <1>1, <1>3, <1>4, CellWritten DEF CellOK

LEMMA StateCleared ==
    ASSUME NEW c, NEW mem, MemOK(c, mem), NEW id \in Ids(c), NEW new, Cleared(mem, id, new)
    PROVE  Within(c, mem, new, id[1])
<1>1. mem \in [Ids(c) -> Cells] /\ mem[id] \in Cells
  BY DEF MemOK
<1>2. new[id] = [mem[id] EXCEPT !.st = 0]
  BY <1>1 DEF Cleared
<1>3. new[id] \in Cells /\ new[id].gen = mem[id].gen /\ new[id].st = 0
  BY <1>1, <1>2 DEF Cells
<1>4. OneCell(c, mem, id, new)
  BY <1>1, <1>3 DEF OneCell, Cleared
<1>5. QED BY <1>3, <1>4, CellWritten

LEMMA ResultWritten ==
    ASSUME NEW c, NEW mem, MemOK(c, mem), NEW id \in Ids(c), NEW v \in Values, NEW s \in {0, 1},
           s = 1 => c.at[id].op \notin {"ALT", "CALL"}, NEW new, Resulted(mem, id, v, s, new)
    PROVE  Within(c, mem, new, id[1])
<1>1. mem \in [Ids(c) -> Cells] /\ mem[id] \in Cells
  BY DEF MemOK
<1>2. new[id] = [mem[id] EXCEPT !.val = v, !.st = s]
  BY <1>1 DEF Resulted
<1>3. new[id] \in Cells /\ new[id].gen = mem[id].gen /\ new[id].st = s
  BY <1>1, <1>2 DEF Cells
<1>4. OneCell(c, mem, id, new)
  BY <1>1, <1>3 DEF OneCell, Resulted
<1>5. QED BY <1>3, <1>4, CellWritten

LEMMA WithinTwice ==
    ASSUME NEW c, NEW mem, NEW mid, NEW new, NEW p, MemOK(c, mem), Within(c, mem, mid, p), Within(c, mid, new, p)
    PROVE  Within(c, mem, new, p)
BY DEF Within

LEMMA WithinSame ==
    ASSUME NEW c, NEW mem, NEW p, MemOK(c, mem)
    PROVE  Within(c, mem, mem, p)
BY DEF Within

-----------------------------------------------------------------------------
(* The C stack.                                                            *)

PutOn(s, a, t)  == t = Append(s, a)
PutAt(s, a, t)  == t = [s EXCEPT ![Len(s)] = a]
TakenOff(s, t)  == t = SubSeq(s, 1, Len(s) - 1)
SameCalls(s, t) == CallsOf(t) = CallsOf(s) /\ \A i \in CallsOf(s) : t[i] = s[i]

\* What runs now was called since each of the calls in progress.
LEMMA HomeNow ==
    ASSUME NEW c, NEW s, Chain(c, s), HomeOK(c, s), NEW i \in CallsOf(s)
    PROVE  Called(c, s, i, Len(s) + 1, Now(c, s))
<1>1. Len(s) \in Nat /\ i \in 1 .. Len(s)
  BY TopFacts DEF Chain, CallsOf
<1>2. Len(s) \in 1 .. Len(s) /\ i <= Len(s) /\ Len(s) + 1 # 1 /\ Len(s) + 1 - 1 = Len(s)
  BY <1>1
<1>3. Called(c, s, i, Len(s) + 1, Runs(c, s[Len(s)]))
  BY <1>2 DEF HomeOK
<1>4. Now(c, s) = Runs(c, s[Len(s)])
  BY <1>2 DEF Now, Before
<1>5. QED BY <1>3, <1>4

LEMMA CalledSame ==
    ASSUME NEW c, NEW s, NEW t, SameCalls(s, t), NEW i, NEW n, NEW p
    PROVE  Called(c, t, i, n, p) <=> Called(c, s, i, n, p)
BY DEF SameCalls, Called

\* Any bound past the stack is the same.
LEMMA CalledPast ==
    ASSUME NEW c, NEW s, Len(s) \in Nat, NEW i, NEW n \in Int, n > Len(s), NEW p
    PROVE  Called(c, s, i, n, p) <=> Called(c, s, i, Len(s) + 1, p)
<1>1. \A l \in CallsOf(s) : l < n /\ l < Len(s) + 1
  BY DEF CallsOf
<1>2. QED BY <1>1 DEF Called

LEMMA Pushed ==
    ASSUME NEW c, NEW s, Chain(c, s), HomeOK(c, s), NEW a \in Acts(c), a.j <= c.at[a.nd].kids,
           a.nd[1] = Now(c, s), a.ph # "call", NEW t, PutOn(s, a, t)
    PROVE  /\ Chain(c, t) /\ HomeOK(c, t) /\ SameCalls(s, t) /\ Now(c, t) = Now(c, s)
           /\ t # <<>> /\ Len(t) \in Nat /\ t[Len(t)] = a
           /\ Settled(c, s, Len(s)) => Settled(c, t, Len(t) - 1)
           /\ Settled(c, s, Len(s)) /\ Waits(c, a) => Settled(c, t, Len(t))
<1>0. s \in Seq(Acts(c))
  BY DEF Chain
<1>1. t \in Seq(Acts(c)) /\ t # <<>> /\ Len(t) = Len(s) + 1 /\ Len(s) \in Nat
      /\ t[Len(s) + 1] = a /\ \A i \in 1 .. Len(s) : t[i] = s[i]
  BY <1>0, TopPushed DEF PutOn
<1> DEFINE n == Len(s)
<1>2. n \in Nat /\ Len(t) = n + 1 /\ t[n + 1] = a /\ (\A i \in 1 .. n : t[i] = s[i]) /\ Len(s) = n
  BY <1>1
<1> HIDE DEF n
<1>3. \A i \in 1 .. n + 1 : i - 1 \in 1 .. n \/ i = 1
  BY <1>2
<1>4. ASSUME NEW i \in 1 .. n + 1 PROVE Before(c, t, i) = Before(c, s, i)
  BY <1>2, <1>3 DEF Before
<1>5. Runs(c, a) = a.nd[1]
  BY DEF Runs
<1>6. Now(c, t) = Now(c, s)
  <2>1. Now(c, t) = Runs(c, t[n + 1])
    BY <1>2 DEF Now, Before
  <2>2. QED BY <2>1, <1>2, <1>5
<1>7. Now(c, s) = Before(c, s, n + 1)
  BY <1>2 DEF Now
<1>8. Chain(c, t)
  <2>1. ASSUME NEW i \in 1 .. n PROVE t[i].j <= c.at[t[i].nd].kids /\ t[i].nd[1] = Before(c, t, i)
    <3>1. t[i] = s[i] /\ i \in 1 .. Len(s) /\ i \in 1 .. n + 1
      BY <1>2
    <3>2. s[i].j <= c.at[s[i].nd].kids /\ s[i].nd[1] = Before(c, s, i)
      BY <3>1 DEF Chain
    <3>3. QED BY <3>1, <3>2, <1>4
  <2>2. t[n + 1].j <= c.at[t[n + 1].nd].kids /\ t[n + 1].nd[1] = Before(c, t, n + 1)
    BY <1>2, <1>4, <1>7
  <2>3. \A i \in 1 .. Len(t) : i \in 1 .. n \/ i = n + 1
    BY <1>2
  <2>4. QED BY <2>1, <2>2, <2>3, <1>1 DEF Chain
<1>9. SameCalls(s, t)
  <2>1. CallsOf(s) = {i \in 1 .. n : s[i].ph = "call"} /\ CallsOf(t) = {i \in 1 .. n + 1 : t[i].ph = "call"}
    BY <1>2 DEF CallsOf
  <2>2. CallsOf(t) = CallsOf(s)
    BY <2>1, <1>2
  <2>3. QED BY <2>1, <2>2, <1>2 DEF SameCalls
<1>10. HomeOK(c, t)
  <2>1. ASSUME NEW i \in CallsOf(t), NEW l \in 1 .. Len(t), i <= l PROVE Called(c, t, i, l + 1, Runs(c, t[l]))
    <3>1. i \in CallsOf(s) /\ i \in 1 .. n
      BY <1>9, <1>2 DEF SameCalls, CallsOf
    <3>2. CASE l \in 1 .. n
      <4>1. Called(c, s, i, l + 1, Runs(c, s[l]))
        BY <3>1, <3>2, <2>1, <1>2 DEF HomeOK
      <4>2. QED BY <4>1, <3>2, <1>2, <1>9, CalledSame
    <3>3. CASE l = n + 1
      <4>1. Called(c, s, i, n + 1, Now(c, s))
        BY <3>1, HomeNow, <1>2
      <4>2. Called(c, s, i, l + 1, Now(c, s))
        BY <4>1, <3>3, <1>2, CalledPast
      <4>3. QED BY <4>2, <3>3, <1>2, <1>5, <1>9, CalledSame
    <3>4. QED BY <3>2, <3>3, <1>2
  <2>2. QED BY <2>1 DEF HomeOK
<1>11. Settled(c, s, Len(s)) => Settled(c, t, Len(t) - 1)
  <2>1. Len(t) - 1 = n
    BY <1>2
  <2>2. QED BY <2>1, <1>2 DEF Settled
<1>12. Settled(c, s, Len(s)) /\ Waits(c, a) => Settled(c, t, Len(t))
  <2>1. \A i \in 1 .. Len(t) : i \in 1 .. n \/ i = n + 1
    BY <1>2
  <2>2. QED BY <2>1, <1>2 DEF Settled
<1>13. QED BY <1>1, <1>2, <1>6, <1>8, <1>9, <1>10, <1>11, <1>12

LEMMA Replaced ==
    ASSUME NEW c, NEW s, Chain(c, s), HomeOK(c, s), s # <<>>, s[Len(s)].ph # "call",
           NEW a \in Acts(c), a.j <= c.at[a.nd].kids, a.nd = s[Len(s)].nd, a.ph # "call",
           NEW t, PutAt(s, a, t)
    PROVE  /\ Chain(c, t) /\ HomeOK(c, t) /\ SameCalls(s, t) /\ Now(c, t) = Now(c, s)
           /\ t # <<>> /\ Len(t) \in Nat /\ t[Len(t)] = a
           /\ Settled(c, s, Len(s) - 1) => Settled(c, t, Len(t) - 1)
           /\ Settled(c, s, Len(s) - 1) /\ Waits(c, a) => Settled(c, t, Len(t))
<1>0. s \in Seq(Acts(c))
  BY DEF Chain
<1>1. t \in Seq(Acts(c)) /\ t # <<>> /\ Len(t) = Len(s) /\ Len(s) \in Nat \ {0}
      /\ t[Len(s)] = a /\ \A i \in 1 .. Len(s) - 1 : t[i] = s[i]
  BY <1>0, TopReplaced DEF PutAt
<1> DEFINE n == Len(s)
<1>2. n \in Nat \ {0} /\ Len(t) = n /\ t[n] = a /\ (\A i \in 1 .. n - 1 : t[i] = s[i]) /\ Len(s) = n
      /\ s[n].ph # "call" /\ a.nd = s[n].nd
  BY <1>1
<1> HIDE DEF n
<1>3. \A i \in 1 .. n : (i - 1 \in 1 .. n - 1 \/ i = 1) /\ (i \in 1 .. n - 1 \/ i = n)
  BY <1>2
<1>4. ASSUME NEW i \in 1 .. n PROVE Before(c, t, i) = Before(c, s, i)
  BY <1>2, <1>3 DEF Before
<1>5. \A i \in 1 .. n : Runs(c, t[i]) = Runs(c, s[i])
  BY <1>2, <1>3 DEF Runs
<1>6. Now(c, t) = Now(c, s)
  <2>1. Now(c, t) = Runs(c, t[n]) /\ Now(c, s) = Runs(c, s[n])
    BY <1>2 DEF Now, Before
  <2>2. QED BY <2>1, <1>2, <1>5
<1>8. Chain(c, t)
  <2>1. ASSUME NEW i \in 1 .. n PROVE t[i].j <= c.at[t[i].nd].kids /\ t[i].nd[1] = Before(c, t, i)
    <3>2. s[i].j <= c.at[s[i].nd].kids /\ s[i].nd[1] = Before(c, s, i)
      BY <1>2 DEF Chain
    <3>3. QED BY <3>2, <1>2, <1>3, <1>4
  <2>4. QED BY <2>1, <1>1, <1>2 DEF Chain
<1>9. SameCalls(s, t)
  <2>1. CallsOf(s) = {i \in 1 .. n : s[i].ph = "call"} /\ CallsOf(t) = {i \in 1 .. n : t[i].ph = "call"}
    BY <1>2 DEF CallsOf
  <2>0. \A i \in 1 .. n : t[i].ph = "call" <=> s[i].ph = "call"
    BY <1>2, <1>3
  <2>2. CallsOf(t) = CallsOf(s)
    BY <2>0, <2>1
  <2>3. \A i \in CallsOf(s) : i \in 1 .. n - 1
    BY <2>1, <1>2, <1>3
  <2>4. QED BY <2>3, <2>2, <1>2 DEF SameCalls
<1>10. HomeOK(c, t)
  <2>1. ASSUME NEW i \in CallsOf(t), NEW l \in 1 .. Len(t), i <= l PROVE Called(c, t, i, l + 1, Runs(c, t[l]))
    <3>1. i \in CallsOf(s) /\ l \in 1 .. n /\ l \in 1 .. Len(s)
      BY <1>9, <1>2 DEF SameCalls
    <3>2. Called(c, s, i, l + 1, Runs(c, s[l]))
      BY <3>1, <2>1 DEF HomeOK
    <3>3. QED BY <3>1, <3>2, <1>5, <1>9, CalledSame
  <2>2. QED BY <2>1 DEF HomeOK
<1>11. Settled(c, s, Len(s) - 1) => Settled(c, t, Len(t) - 1)
  <2>1. Len(t) - 1 = n - 1 /\ Len(s) - 1 = n - 1
    BY <1>2
  <2>2. QED BY <2>1, <1>2 DEF Settled
<1>12. Settled(c, s, Len(s) - 1) /\ Waits(c, a) => Settled(c, t, Len(t))
  BY <1>2, <1>3 DEF Settled
<1>13. QED BY <1>1, <1>2, <1>6, <1>8, <1>9, <1>10, <1>11, <1>12

\* The top is taken off; a call or not.
LEMMA Popped ==
    ASSUME NEW c, NEW s, Chain(c, s), HomeOK(c, s), s # <<>>, NEW t, TakenOff(s, t)
    PROVE  /\ Chain(c, t) /\ HomeOK(c, t) /\ Now(c, t) = s[Len(s)].nd[1]
           /\ Len(t) \in Nat /\ Len(t) = Len(s) - 1 /\ \A i \in 1 .. Len(t) : t[i] = s[i]
           /\ CallsOf(t) = CallsOf(s) \ {Len(s)}
           /\ s[Len(s)].ph # "call" => SameCalls(s, t) /\ Now(c, t) = Now(c, s)
           /\ Settled(c, s, Len(s) - 1) => Settled(c, t, Len(t))
<1>0. s \in Seq(Acts(c))
  BY DEF Chain
<1>1. t \in Seq(Acts(c)) /\ Len(t) = Len(s) - 1 /\ Len(s) \in Nat \ {0} /\ \A i \in 1 .. Len(t) : t[i] = s[i]
  BY <1>0, TopDropped DEF TakenOff
<1> DEFINE n == Len(s)
<1>2. n \in Nat \ {0} /\ Len(t) = n - 1 /\ (\A i \in 1 .. n - 1 : t[i] = s[i]) /\ Len(s) = n
  BY <1>1
<1> HIDE DEF n
<1>3. \A i \in 1 .. n : (i - 1 \in 1 .. n - 1 \/ i = 1) /\ (i \in 1 .. n - 1 \/ i = n)
  BY <1>2
<1>4. ASSUME NEW i \in 1 .. n PROVE Before(c, t, i) = Before(c, s, i)
  BY <1>2, <1>3 DEF Before
<1>5. \A i \in 1 .. n - 1 : i \in 1 .. n /\ Runs(c, t[i]) = Runs(c, s[i])
  BY <1>2, <1>3 DEF Runs
<1>6. Now(c, t) = s[n].nd[1]
  <2>1. Now(c, t) = Before(c, s, n) /\ n \in 1 .. Len(s)
    BY <1>2, <1>4 DEF Now
  <2>2. QED BY <2>1 DEF Chain
<1>8. Chain(c, t)
  <2>1. ASSUME NEW i \in 1 .. n - 1 PROVE t[i].j <= c.at[t[i].nd].kids /\ t[i].nd[1] = Before(c, t, i)
    <3>2. s[i].j <= c.at[s[i].nd].kids /\ s[i].nd[1] = Before(c, s, i) /\ i \in 1 .. n
      BY <1>2, <1>5 DEF Chain
    <3>3. QED BY <3>2, <1>2, <1>4
  <2>4. QED BY <2>1, <1>1, <1>2 DEF Chain
<1>9. CallsOf(t) = CallsOf(s) \ {n} /\ (\A i \in CallsOf(t) : i \in 1 .. n - 1 /\ t[i] = s[i])
  <2>1. CallsOf(s) = {i \in 1 .. n : s[i].ph = "call"} /\ CallsOf(t) = {i \in 1 .. n - 1 : t[i].ph = "call"}
    BY <1>2 DEF CallsOf
  <2>2. \A i \in 1 .. n - 1 : i \in 1 .. n /\ i # n /\ (t[i].ph = "call" <=> s[i].ph = "call")
    BY <1>2
  <2>3. \A i : i \in CallsOf(t) => i \in 1 .. n - 1 /\ i \in CallsOf(s) \ {n}
    BY <2>1, <2>2
  <2>4. \A i : i \in CallsOf(s) \ {n} => i \in CallsOf(t)
    BY <2>1, <2>2, <1>3
  <2>5. CallsOf(t) = CallsOf(s) \ {n}
    BY <2>3, <2>4
  <2>6. QED BY <2>3, <2>5, <1>2
<1>10. HomeOK(c, t)
  <2>1. ASSUME NEW i \in CallsOf(t), NEW l \in 1 .. Len(t), i <= l PROVE Called(c, t, i, l + 1, Runs(c, t[l]))
    <3>1. i \in CallsOf(s) /\ l \in 1 .. n - 1 /\ l \in 1 .. Len(s)
      BY <1>9, <1>2
    <3>2. Called(c, s, i, l + 1, Runs(c, s[l]))
      BY <3>1, <2>1 DEF HomeOK
    <3>3. PICK h \in CallsOf(s) : i <= h /\ h < l + 1 /\ Callee(c, s[h]) = Runs(c, s[l])
      BY <3>2 DEF Called
    <3>4. h \in 1 .. n
      BY <3>3, <1>2 DEF CallsOf
    <3>5. h # n
      BY <3>3, <3>4, <3>1, <1>2
    <3>6. h \in CallsOf(t) /\ t[h] = s[h]
      BY <3>3, <3>5, <1>9
    <3>7. QED BY <3>3, <3>6, <3>1, <1>5 DEF Called
  <2>2. QED BY <2>1 DEF HomeOK
<1>11. Settled(c, s, Len(s) - 1) => Settled(c, t, Len(t))
  <2>1. Len(t) = n - 1 /\ Len(s) - 1 = n - 1
    BY <1>2
  <2>2. QED BY <2>1, <1>2 DEF Settled
<1>12. ASSUME s[n].ph # "call" PROVE SameCalls(s, t) /\ Now(c, t) = Now(c, s)
  <2>1. n \notin CallsOf(s)
    BY <1>12 DEF CallsOf
  <2>2. SameCalls(s, t)
    BY <2>1, <1>9 DEF SameCalls
  <2>3. Now(c, s) = s[n].nd[1]
    BY <1>2, <1>12 DEF Now, Before, Runs
  <2>4. QED BY <2>2, <2>3, <1>6
<1>13. QED BY <1>1, <1>2, <1>6, <1>8, <1>9, <1>10, <1>11, <1>12
-----------------------------------------------------------------------------
(* A step inside the procedure that runs.                                  *)

LEMMA SnapsKept ==
    ASSUME NEW c, NEW s, Chain(c, s), HomeOK(c, s), NEW t, Chain(c, t), SameCalls(s, t), NEW mem, SnapsOK(c, s, mem),
           NEW new, \A id \in Ids(c) : id[1] # Now(c, s) => new[id] = mem[id]
    PROVE  SnapsOK(c, t, new)
<1>0. Len(s) \in Nat /\ Len(t) \in Nat
  BY TopFacts DEF Chain
<1>1. ASSUME NEW i \in CallsOf(t), NEW id \in Ids(c)
      PROVE  Called(c, t, i, Len(t) + 1, id[1]) \/ Alike(t[i].snap[id], new[id])
  <2>1. i \in CallsOf(s) /\ t[i] = s[i]
    BY <1>1 DEF SameCalls
  <2>2. CASE id[1] = Now(c, s)
    <3>1. Called(c, s, i, Len(s) + 1, id[1])
      BY <2>1, <2>2, HomeNow
    <3>2. PICK l \in CallsOf(s) : i <= l /\ Callee(c, s[l]) = id[1]
      BY <3>1 DEF Called
    <3>3. l \in CallsOf(t) /\ t[l] = s[l]
      BY DEF SameCalls
    <3>4. l < Len(t) + 1
      BY <3>3, <1>0 DEF CallsOf
    <3>5. QED BY <3>2, <3>3, <3>4 DEF Called
  <2>3. CASE id[1] # Now(c, s)
    <3>1. new[id] = mem[id]
      BY <2>3
    <3>2. Called(c, s, i, Len(s) + 1, id[1]) \/ Alike(s[i].snap[id], mem[id])
      BY <2>1 DEF SnapsOK
    <3>3. ASSUME Called(c, s, i, Len(s) + 1, id[1]) PROVE Called(c, t, i, Len(t) + 1, id[1])
      <4>1. PICK l \in CallsOf(s) : i <= l /\ Callee(c, s[l]) = id[1]
        BY <3>3 DEF Called
      <4>2. l \in CallsOf(t) /\ t[l] = s[l]
        BY DEF SameCalls
      <4>3. l < Len(t) + 1
        BY <4>2, <1>0 DEF CallsOf
      <4>4. QED BY <4>1, <4>2, <4>3 DEF Called
    <3>4. QED BY <3>1, <3>2, <3>3, <2>1
  <2>4. QED BY <2>2, <2>3
<1>2. ASSUME NEW i \in CallsOf(t), NEW l \in CallsOf(t), i < l, NEW id \in Ids(c)
      PROVE  Called(c, t, i, l, id[1]) \/ Alike(t[i].snap[id], t[l].snap[id])
  <2>1. i \in CallsOf(s) /\ t[i] = s[i] /\ l \in CallsOf(s) /\ t[l] = s[l]
    BY <1>2 DEF SameCalls
  <2>2. Called(c, s, i, l, id[1]) \/ Alike(s[i].snap[id], s[l].snap[id])
    BY <2>1, <1>2 DEF SnapsOK
  <2>3. QED BY <2>1, <2>2, CalledSame
<1>3. QED BY <1>1, <1>2 DEF SnapsOK

LEMMA OwnKept ==
    ASSUME NEW c, NEW mem, NEW new, NEW p, Within(c, mem, new, p), NEW gg, OwnOK(c, mem, gg)
    PROVE  OwnOK(c, new, gg)
BY DEF Within, OwnOK

LEMMA DeepKept ==
    ASSUME NEW c, NEW s, NEW t, SameCalls(s, t), Now(c, t) = Now(c, s), NEW mem, NEW gg, DeepOK(c, s, mem, gg),
           NEW new, Within(c, mem, new, Now(c, s))
    PROVE  DeepOK(c, t, new, gg)
<1>1. CallsOf(t) = CallsOf(s) /\ \A i \in CallsOf(s) : t[i] = s[i] /\ Under(t, i) = Under(s, i)
  BY DEF SameCalls, Under
<1>2. ASSUME NEW id \in Ids(c), id[1] = Now(c, t), new[id].st = 1, new[id].gen # 0
      PROVE  Deep(gg, new[id].gen, CallsOf(t))
  <2>1. mem[id].st = 1 /\ new[id].gen = mem[id].gen
    BY <1>2 DEF Within
  <2>2. QED BY <1>1, <1>2, <2>1 DEF DeepOK
<1>3. ASSUME NEW i \in CallsOf(t), NEW id \in Ids(c), id[1] = t[i].nd[1], t[i].snap[id].st = 1, new[id].gen # 0
      PROVE  Deep(gg, new[id].gen, Under(t, i))
  <2>1. new[id].gen = mem[id].gen
    BY DEF Within
  <2>2. QED BY <1>1, <1>3, <2>1 DEF DeepOK
<1>4. QED BY <1>2, <1>3 DEF DeepOK

\* Such a step does not touch the generators or the number of frames in use.
EnvKept ==
    /\ code' = code /\ gens' = gens /\ depth' = depth
    /\ frames' \in Seq(Frames) /\ Len(frames') = Len(frames)
    /\ glob' \in [code.names -> Values] /\ retval' \in Values

LEMMA Quiet ==
    ASSUME IInv, EnvKept, SameCalls(k, k'), Chain(code, k'), HomeOK(code, k'), Now(code, k') = Now(code, k),
           Within(code, m, m', Now(code, k)), ControlOK(code, k', ctl', gens), ctl'.at # "run"
    PROVE  IInv'
<1>1. Chain(code, k) /\ HomeOK(code, k) /\ SnapsOK(code, k, m) /\ OwnOK(code, m, gens) /\ DeepOK(code, k, m, gens)
  BY DEF IInv, StackOK, NodesOK
<1>2. SnapsOK(code, k', m') /\ OwnOK(code, m', gens) /\ DeepOK(code, k', m', gens)
  <2>1. \A id \in Ids(code) : id[1] # Now(code, k) => m'[id] = m[id]
    BY DEF Within
  <2>2. QED BY <1>1, <2>1, SnapsKept, OwnKept, DeepKept
<1>3. MemOK(code, m')
  BY DEF Within
<1>4. NodesOK'
  BY <1>2, <1>3 DEF NodesOK, EnvKept
<1>5. StackOK'
  BY DEF StackOK, EnvKept
<1>6. GensOK'
  BY DEF IInv, GensOK, EnvKept
<1>7. EnvOK'
  <2>1. CallsOf(k') = CallsOf(k)
    BY DEF SameCalls
  <2>2. QED BY <2>1 DEF IInv, EnvOK, EnvKept
<1>8. QED BY <1>4, <1>5, <1>6, <1>7 DEF IInv, EnvKept
-----------------------------------------------------------------------------
(* What holds when a node is entered, when an operand comes back, and when *)
(* a node has its operands.                                                *)

LEMMA CallsFinite ==
    ASSUME NEW c, NEW s, Chain(c, s)
    PROVE  IsFiniteSet(CallsOf(s)) /\ Cardinality(CallsOf(s)) \in Nat
<1>1. Len(s) \in Nat
  BY TopFacts DEF Chain
<1>2. IsFiniteSet(1 .. Len(s))
  BY <1>1, FS_Interval
<1>3. CallsOf(s) \subseteq 1 .. Len(s)
  BY DEF CallsOf
<1>4. IsFiniteSet(CallsOf(s))
  BY <1>2, <1>3, FS_Subset
<1>5. QED BY <1>4, FS_CardinalityType

LEMMA EnvFacts ==
    ASSUME IInv
    PROVE  /\ depth \in Nat \ {0} /\ depth \in 1 .. Len(frames) /\ Len(frames) \in Nat
           /\ FRAME \in Frames /\ FRAME.loop_break \in BOOLEAN /\ FRAME.loop_next \in BOOLEAN
           /\ FRAME.env \in Seq(Values) /\ FRAME.sc \in Seq(STRING)
           /\ DOMAIN frames = 1 .. Len(frames)
<1>1. Cardinality(CallsOf(k)) \in Nat
  BY CallsFinite DEF IInv, StackOK
<1>2. frames \in Seq(Frames) /\ depth \in Nat /\ depth <= Len(frames) /\ 1 + Cardinality(CallsOf(k)) <= depth
  BY DEF IInv, EnvOK
<1>3. Len(frames) \in Nat /\ DOMAIN frames = 1 .. Len(frames) /\ \A i \in 1 .. Len(frames) : frames[i] \in Frames
  BY <1>2, TopFacts
<1>4. depth \in 1 .. Len(frames)
  BY <1>1, <1>2, <1>3
<1>5. FRAME \in Frames
  BY <1>3, <1>4 DEF FRAME
<1>6. QED BY <1>2, <1>3, <1>4, <1>5 DEF Frames

LEMMA ExecFacts ==
    ASSUME IInv, ctl.at = "exec"
    PROVE  /\ ctl.nd \in Ids(code) /\ ctl.nd[1] = Now(code, k) /\ Here \in Cells /\ CellOK(Here, Entered)
           /\ Chain(code, k) /\ HomeOK(code, k) /\ Settled(code, k, Len(k)) /\ MemOK(code, m) /\ code \in Codes
<1>1. ctl.nd \in Ids(code) /\ ctl.nd[1] = Now(code, k) /\ Chain(code, k) /\ HomeOK(code, k)
      /\ Settled(code, k, Len(k)) /\ MemOK(code, m) /\ code \in Codes
  BY DEF IInv, StackOK, ControlOK, NodesOK
<1>2. Here \in Cells /\ CellOK(Here, Entered)
  BY <1>1 DEF MemOK, Here, Entered
<1>3. QED BY <1>1, <1>2

LEMMA TopKnown ==
    ASSUME IInv, k # <<>>
    PROVE  /\ Top \in Acts(code) /\ Top.nd \in Ids(code) /\ Top.j \in Nat /\ Top.j <= Owner.kids
           /\ Top.ph \in Phases \cup {"call", "gen"} /\ Top.args \in Seq(Values) /\ Top.nd[1] \in DOMAIN code.proc
           /\ Top.ph # "call" => Now(code, k) = Top.nd[1]
           /\ Top.loop_break \in BOOLEAN /\ Top.loop_next \in BOOLEAN
           /\ m[Top.nd] \in Cells /\ CellOK(m[Top.nd], Owner)
           /\ Chain(code, k) /\ HomeOK(code, k) /\ Settled(code, k, Len(k) - 1) /\ MemOK(code, m) /\ code \in Codes
<1>1. Chain(code, k) /\ HomeOK(code, k) /\ Settled(code, k, Len(k) - 1) /\ MemOK(code, m) /\ code \in Codes
  BY DEF IInv, StackOK, ControlOK, NodesOK
<1>2. k \in Seq(Acts(code)) /\ Len(k) \in 1 .. Len(k) /\ Top \in Acts(code)
  BY <1>1, TopFacts DEF Chain, Top
<1>3. Top.j <= Owner.kids
  BY <1>1, <1>2 DEF Chain, Top, Owner
<1>4. Top.nd \in Ids(code) /\ Top.j \in Nat /\ Top.ph \in Phases \cup {"call", "gen"} /\ Top.args \in Seq(Values)
      /\ Top.loop_break \in BOOLEAN /\ Top.loop_next \in BOOLEAN
  BY <1>2 DEF Acts
<1>5. Top.nd[1] \in DOMAIN code.proc
  BY <1>1, <1>4, NodeFacts
<1>6. m[Top.nd] \in Cells /\ CellOK(m[Top.nd], Owner)
  BY <1>1, <1>4 DEF MemOK, Owner
<1>7. ASSUME Top.ph # "call" PROVE Now(code, k) = Top.nd[1]
  <2>1. Len(k) + 1 # 1 /\ Len(k) + 1 - 1 = Len(k)
    BY <1>2
  <2>2. QED BY <1>7, <2>1 DEF Now, Before, Runs, Top
<1>8. QED BY <1>1, <1>2, <1>3, <1>4, <1>5, <1>6, <1>7

\* An operand of the top activity.
LEMMA ChildFacts ==
    ASSUME IInv, k # <<>>, NEW j \in 1 .. Owner.kids
    PROVE  /\ Child(j) \in Ids(code) /\ Child(j)[1] = Top.nd[1] /\ m[Child(j)] \in Cells /\ Val(j) \in Values
<1>1. Top.nd \in Ids(code) /\ MemOK(code, m) /\ code \in Codes
  BY TopKnown
<1>2. Child(j) \in Ids(code) /\ Child(j)[1] = Top.nd[1]
  BY <1>1, NodeFacts DEF Child, Owner
<1>3. m[Child(j)] \in Cells
  BY <1>1, <1>2 DEF MemOK
<1>4. QED BY <1>2, <1>3 DEF Val, Cells

LEMMA BackFacts ==
    ASSUME IInv, ctl.at = "back", k # <<>>
    PROVE  /\ Waits(code, Top) \/ InCall(code, Top)
           /\ Owner.op # "CALL" => Waits(code, Top)
           /\ Top.ph # "call" => Waits(code, Top)
           /\ Waits(code, Top) => /\ Top.ph \notin {"call", "gen"} /\ Top.j \in 1 .. Owner.kids
                                  /\ Child(Top.j) \in Ids(code) /\ Got \in Values
                                  /\ Now(code, k) = Top.nd[1]
<1>1. Settled(code, k, Len(k)) /\ Top.j \in Nat /\ Top.j <= Owner.kids /\ Owner.kids \in Nat
      /\ (Top.ph # "call" => Now(code, k) = Top.nd[1])
  <2>1. Settled(code, k, Len(k))
    BY DEF IInv, StackOK, ControlOK
  <2>2. QED BY <2>1, TopKnown, NodeFacts DEF Owner
<1>2. Len(k) \in 1 .. Len(k)
  BY TopKnown, TopFacts DEF Chain
<1>3. Waits(code, Top) \/ InCall(code, Top)
  BY <1>1, <1>2 DEF Settled, Top
<1>4. InCall(code, Top) => Owner.op = "CALL" /\ Top.ph = "call"
  BY DEF InCall, Owner
<1>5. ASSUME Waits(code, Top)
      PROVE /\ Top.ph \notin {"call", "gen"} /\ Top.j \in 1 .. Owner.kids
            /\ Child(Top.j) \in Ids(code) /\ Got \in Values
            /\ Now(code, k) = Top.nd[1]
  <2>1. Top.ph \notin {"call", "gen"} /\ Top.j \in 1 .. Owner.kids
    BY <1>5, <1>1 DEF Waits
  <2>2. Child(Top.j) \in Ids(code) /\ Val(Top.j) \in Values
    BY <2>1, ChildFacts
  <2>3. QED BY <2>1, <2>2, <1>1 DEF Got, Val
<1>6. QED BY <1>3, <1>4, <1>5

LEMMA ApplyFacts ==
    ASSUME IInv, ctl.at = "apply"
    PROVE  /\ k # <<>> /\ Applies(code, Top) /\ Top.ph \notin {"call", "gen"} /\ Now(code, k) = Top.nd[1]
           /\ Owner.op \in Strict \cup {"BINOP_GEN"}
           /\ Owner.op \in Strict => Len(Top.args) = (IF Owner.op = "ASSIGN" THEN 1 ELSE Owner.kids)
           /\ \A i \in 1 .. Len(Top.args) : Arg(i) \in Values
<1>1. k # <<>> /\ Applies(code, Top)
  BY DEF IInv, StackOK, ControlOK, Top
<1>2. Top.ph \notin {"call", "gen"}
  BY <1>1 DEF Applies
<1>3. Now(code, k) = Top.nd[1] /\ Top.args \in Seq(Values)
  BY <1>1, <1>2, TopKnown
<1>4. \A i \in 1 .. Len(Top.args) : Arg(i) \in Values
  BY <1>3, ElementOfSeq DEF Arg
<1>5. QED BY <1>1, <1>2, <1>3, <1>4 DEF Applies, Owner
-----------------------------------------------------------------------------
(* The steps that nodes are evaluated by.                                  *)

LEMMA PhaseFacts == "" \in Phases /\ \A ph \in Phases : ph \notin {"call", "gen"}
BY DEF Phases

LEMMA NextOperand ==
    ASSUME NEW n \in Nat, NEW j \in 1 .. n
    PROVE  /\ j # n <=> j + 1 \in 1 .. n
           /\ j + 1 = n => j # n
           /\ j + 1 < n => j # n
OBVIOUS

LEMMA ActivityOK ==
    ASSUME IInv, ctl.at = "exec", NEW j \in Nat, NEW ph \in Phases \cup {"call", "gen"}
    PROVE  Activity(j, ph) \in Acts(code)
<1>1. ctl.nd \in Ids(code) /\ FRAME.loop_break \in BOOLEAN /\ FRAME.loop_next \in BOOLEAN
  BY ExecFacts, EnvFacts
<1>2. <<>> \in Seq(Values)
  BY EmptySeq
<1>3. QED BY <1>1, <1>2 DEF Activity, Acts

Moved(a, j, ph) == [a EXCEPT !.j = j, !.ph = ph]

LEMMA ActChanged ==
    ASSUME NEW c, NEW a \in Acts(c), NEW j \in Nat, NEW ph \in Phases
    PROVE  LET f == Moved(a, j, ph)
           IN f \in Acts(c) /\ f.nd = a.nd /\ f.j = j /\ f.ph = ph /\ f.args = a.args
BY DEF Acts, Moved

\* A node waits for its operand j.
LEMMA EnterStep ==
    ASSUME IInv, EnvKept, ctl.at = "exec", NEW j \in 1 .. Entered.kids, NEW ph \in Phases,
           PutOn(k, Activity(j, ph), k'), Waits(code, Activity(j, ph)),
           Exec(Operand(j)), Within(code, m, m', Now(code, k))
    PROVE  IInv'
<1>1. ctl.nd \in Ids(code) /\ ctl.nd[1] = Now(code, k) /\ Chain(code, k) /\ HomeOK(code, k)
      /\ Settled(code, k, Len(k)) /\ code \in Codes
  BY ExecFacts
<1>2. Entered.kids \in Nat /\ Operand(j) \in Ids(code) /\ Operand(j)[1] = ctl.nd[1]
  BY <1>1, NodeFacts DEF Entered, Operand
<1>3. j \in Nat /\ j <= Entered.kids
  BY <1>2
<1> DEFINE a == Activity(j, ph)
<1>4. a \in Acts(code) /\ a.j <= code.at[a.nd].kids /\ a.nd[1] = Now(code, k) /\ a.ph # "call" /\ Waits(code, a)
  <2>1. ph \in Phases \cup {"call", "gen"} /\ ph # "call"
    BY PhaseFacts
  <2>2. a \in Acts(code)
    BY <1>3, <2>1, ActivityOK
  <2>3. QED BY <1>1, <1>3, <2>1, <2>2 DEF Activity, Entered
<1>10. PutOn(k, a, k')
  OBVIOUS
<1> HIDE DEF a
<1>5. /\ Chain(code, k') /\ HomeOK(code, k') /\ SameCalls(k, k') /\ Now(code, k') = Now(code, k)
      /\ Settled(code, k', Len(k') - 1) /\ Settled(code, k', Len(k'))
  BY <1>1, <1>4, <1>10, Pushed
<1>6. ctl' = [at |-> "exec", nd |-> Operand(j)]
  BY DEF Exec
<1>7. ctl'.at = "exec" /\ ctl'.nd \in Ids(code) /\ ctl'.nd[1] = Now(code, k')
  BY <1>1, <1>2, <1>5, <1>6
<1>8. ControlOK(code, k', ctl', gens)
  BY <1>5, <1>7 DEF ControlOK
<1>9. QED BY <1>5, <1>7, <1>8, Quiet

\* A node has its result without operands.
LEMMA LeafStep ==
    ASSUME IInv, EnvKept, ctl.at = "exec", k' = k, Go("back"), Within(code, m, m', Now(code, k))
    PROVE  IInv'
<1>1. Chain(code, k) /\ HomeOK(code, k) /\ Settled(code, k, Len(k)) /\ Settled(code, k, Len(k) - 1)
  BY ExecFacts DEF IInv, StackOK, ControlOK
<1>2. SameCalls(k, k')
  BY DEF SameCalls
<1>3. ctl'.at = "back"
  BY DEF Go
<1>4. ControlOK(code, k', ctl', gens)
  BY <1>1, <1>3 DEF ControlOK
<1>5. QED BY <1>1, <1>2, <1>3, <1>4, Quiet

\* The top activity goes on to an operand.
LEMMA AskStep ==
    ASSUME IInv, EnvKept, k # <<>>, Top.ph # "call", NEW f, f \in Acts(code), f.nd = Top.nd, f.j \in 1 .. Owner.kids,
           Waits(code, f), f.ph # "call",
           SetTop(f), Exec(Child(f.j)), Within(code, m, m', Now(code, k))
    PROVE  IInv'
<1>1. Chain(code, k) /\ HomeOK(code, k) /\ Settled(code, k, Len(k) - 1) /\ Now(code, k) = Top.nd[1]
      /\ Top.nd \in Ids(code) /\ code \in Codes
  BY TopKnown
<1>2. Child(f.j) \in Ids(code) /\ Child(f.j)[1] = Top.nd[1]
  BY ChildFacts
<1>3. f.j <= code.at[f.nd].kids
  BY <1>1, NodeFacts DEF Owner
<1>4. PutAt(k, f, k') /\ k[Len(k)].ph # "call" /\ f.nd = k[Len(k)].nd
  BY DEF SetTop, Top, PutAt
<1>5. /\ Chain(code, k') /\ HomeOK(code, k') /\ SameCalls(k, k') /\ Now(code, k') = Now(code, k)
      /\ Settled(code, k', Len(k') - 1) /\ Settled(code, k', Len(k'))
  BY <1>1, <1>3, <1>4, Replaced
<1>6. ctl' = [at |-> "exec", nd |-> Child(f.j)]
  BY DEF Exec
<1>7. ctl'.at = "exec" /\ ctl'.nd \in Ids(code) /\ ctl'.nd[1] = Now(code, k')
  BY <1>1, <1>2, <1>5, <1>6
<1>8. ControlOK(code, k', ctl', gens)
  BY <1>5, <1>7 DEF ControlOK
<1>9. QED BY <1>5, <1>7, <1>8, Quiet

\* The top activity has its result.
LEMMA GiveStep ==
    ASSUME IInv, EnvKept, k # <<>>, Top.ph # "call", Pop, Go("back"), Within(code, m, m', Now(code, k))
    PROVE  IInv'
<1>1. Chain(code, k) /\ HomeOK(code, k) /\ Settled(code, k, Len(k) - 1)
  BY TopKnown
<1>2. TakenOff(k, k') /\ k[Len(k)].ph # "call"
  BY DEF Pop, Top, TakenOff
<1>3. /\ Chain(code, k') /\ HomeOK(code, k') /\ SameCalls(k, k') /\ Now(code, k') = Now(code, k)
      /\ Settled(code, k', Len(k')) /\ Len(k') \in Nat
  BY <1>1, <1>2, Popped
<1>4. Settled(code, k', Len(k') - 1)
  BY <1>3 DEF Settled
<1>5. ctl'.at = "back"
  BY DEF Go
<1>6. ControlOK(code, k', ctl', gens)
  BY <1>3, <1>4, <1>5 DEF ControlOK
<1>7. QED BY <1>3, <1>5, <1>6, Quiet

\* The top activity has its operands.
LEMMA ApplyStep ==
    ASSUME IInv, EnvKept, k # <<>>, Top.ph # "call", NEW f, f \in Acts(code), f.nd = Top.nd, f.j \in 0 .. Owner.kids,
           Applies(code, f), f.ph # "call",
           SetTop(f), Go("apply"), Within(code, m, m', Now(code, k))
    PROVE  IInv'
<1>1. Chain(code, k) /\ HomeOK(code, k) /\ Settled(code, k, Len(k) - 1)
      /\ Top.nd \in Ids(code) /\ code \in Codes
  BY TopKnown
<1>3. f.j <= code.at[f.nd].kids
  BY <1>1, NodeFacts DEF Owner
<1>4. PutAt(k, f, k') /\ k[Len(k)].ph # "call" /\ f.nd = k[Len(k)].nd
  BY DEF SetTop, Top, PutAt
<1>5. /\ Chain(code, k') /\ HomeOK(code, k') /\ SameCalls(k, k') /\ Now(code, k') = Now(code, k)
      /\ Settled(code, k', Len(k') - 1) /\ k' # <<>> /\ k'[Len(k')] = f
  BY <1>1, <1>3, <1>4, Replaced
<1>6. ctl'.at = "apply"
  BY DEF Go
<1>7. ControlOK(code, k', ctl', gens)
  BY <1>5, <1>6 DEF ControlOK
<1>8. QED BY <1>5, <1>6, <1>7, Quiet

LEMMA SameTop ==
    ASSUME IInv, k # <<>>
    PROVE  k' = k => SetTop(Top)
<1>1. k \in Seq(Acts(code))
  BY DEF IInv, StackOK, Chain
<1>2. k \in [1 .. Len(k) -> Acts(code)] /\ Len(k) \in 1 .. Len(k)
  BY <1>1, TopFacts, EmptySeq
<1>3. k = [k EXCEPT ![Len(k)] = Top]
  BY <1>2 DEF Top
<1>4. QED BY <1>3 DEF SetTop

LEMMA EnvUntouched ==
    ASSUME IInv, UNCHANGED <<code, envs, gens>>
    PROVE  EnvKept
BY DEF IInv, EnvOK, EnvKept, envs

\* A flag, or the variables, of the frame in use are written.
LEMMA FrameWritten ==
    ASSUME IInv, NEW r \in Frames, frames' = [frames EXCEPT ![depth] = r]
    PROVE  frames' \in Seq(Frames) /\ Len(frames') = Len(frames)
<1>1. frames \in Seq(Frames) /\ depth \in 1 .. Len(frames)
  BY EnvFacts DEF IInv, EnvOK
<1>2. QED BY <1>1, ExceptSeq

LEMMA FlagsWritten ==
    ASSUME IInv, NEW b \in BOOLEAN, NEW n \in BOOLEAN, Flags(b, n)
    PROVE  frames' \in Seq(Frames) /\ Len(frames') = Len(frames)
<1>1. FRAME \in Frames /\ depth \in DOMAIN frames
  BY EnvFacts
<1> DEFINE r == [FRAME EXCEPT !.loop_break = b, !.loop_next = n]
<1>2. r \in Frames
  BY <1>1 DEF Frames
<1>3. frames' = [frames EXCEPT ![depth] = r]
  BY <1>1 DEF Flags, FRAME
<1> HIDE DEF r
<1>4. QED BY <1>2, <1>3, FrameWritten

LEMMA SlotFacts ==
    ASSUME IInv, NEW x, Local(x)
    PROVE  SlotOf(x) \in 1 .. Len(FRAME.env) /\ SlotOf(x) \in DOMAIN FRAME.env
<1>1. FRAME.env \in Seq(Values) /\ FRAME.sc \in Seq(STRING)
  BY EnvFacts
<1>2. Len(FRAME.env) \in Nat /\ DOMAIN FRAME.env = 1 .. Len(FRAME.env) /\ Len(FRAME.sc) \in Nat
  BY <1>1, LenProperties
<1>3. SlotOf(x) \in scope_get(x)
  BY DEF Local, SlotOf
<1>4. \A i \in scope_get(x) : i \in 1 .. Len(FRAME.env)
  BY <1>2 DEF scope_get
<1>5. QED BY <1>2, <1>3, <1>4

LEMMA ReadValue ==
    ASSUME IInv, NEW x \in code.names
    PROVE  Read(x) \in Values
<1>1. glob[x] \in Values
  BY DEF IInv, EnvOK
<1>2. Local(x) => FRAME.env[SlotOf(x)] \in Values
  BY SlotFacts, EnvFacts, ElementOfSeq
<1>3. QED BY <1>1, <1>2 DEF Read

LEMMA PutValue ==
    ASSUME IInv, NEW env \in Seq(Values), Len(env) = Len(FRAME.env), NEW x, NEW v \in Values
    PROVE  Put(env, x, v) \in Seq(Values) /\ Len(Put(env, x, v)) = Len(FRAME.env)
<1>1. CASE Local(x)
  <2>1. SlotOf(x) \in 1 .. Len(env)
    BY <1>1, SlotFacts
  <2>2. QED BY <1>1, <2>1, ExceptSeq DEF Put
<1>2. CASE ~Local(x)
  BY <1>2 DEF Put
<1>3. QED BY <1>1, <1>2

LEMMA RestValue ==
    ASSUME NEW c, NEW vals \in [c.names -> Values], NEW x \in c.names, NEW v \in Values
    PROVE  Rest(vals, x, v) \in [c.names -> Values]
BY DEF Rest

\* Only flags, or only variables, are written.
LEMMA EnvWritten ==
    ASSUME IInv, NEW e, e \in Seq(Values), frames' = [frames EXCEPT ![depth].env = e]
    PROVE  frames' \in Seq(Frames) /\ Len(frames') = Len(frames)
<1>1. FRAME \in Frames /\ depth \in DOMAIN frames
  BY EnvFacts
<1> DEFINE r == [FRAME EXCEPT !.env = e]
<1>2. r \in Frames
  BY <1>1 DEF Frames
<1>3. frames' = [frames EXCEPT ![depth] = r]
  BY <1>1 DEF FRAME
<1> HIDE DEF r
<1>4. QED BY <1>2, <1>3, FrameWritten

\* The same, as the actions are written.
LEMMA ValueFacts ==
    /\ NULVCL \in Values /\ FAIL \in Values /\ \A n \in Int : INTVAL(n) \in Values
    /\ \A v \in Values : v.n \in Int /\ v.t \in {"int", "null", "fail"}
BY DEF NULVCL, FAIL, INTVAL, Values

LEMMA Entered1 ==
    ASSUME IInv, EnvKept, ctl.at = "exec", NEW j \in 1 .. Entered.kids, NEW ph \in Phases,
           PutOn(k, Activity(j, ph), k'), Exec(Operand(j)), Within(code, m, m', Now(code, k)),
           Entered.op \notin Strict, Entered.op = "CASE" => ph # "key"
    PROVE  IInv'
<1>1. ctl.nd \in Ids(code) /\ code \in Codes
  BY ExecFacts
<1>2. Entered.kids \in Nat
  BY <1>1, NodeFacts DEF Entered
<1>3. j > 0 /\ code.at[ctl.nd].op # "ASSIGN"
  BY <1>2 DEF Strict, Entered
<1>4. Waits(code, Activity(j, ph))
  BY <1>3, PhaseFacts DEF Waits, Activity, Entered
<1>5. QED BY <1>4, EnterStep

LEMMA EnterDone ==
    ASSUME IInv, EnvKept, ctl.at = "exec", NEW j \in 1 .. Entered.kids, NEW ph \in Phases,
           Enter(j, ph) \/ EnterFresh(j, ph),
           Entered.op \notin Strict, Entered.op = "CASE" => ph # "key"
    PROVE  IInv'
<1>1. ctl.nd \in Ids(code) /\ ctl.nd[1] = Now(code, k) /\ MemOK(code, m) /\ code \in Codes
  BY ExecFacts
<1>2. Operand(j) \in Ids(code) /\ Operand(j)[1] = Now(code, k)
  BY <1>1, NodeFacts DEF Entered, Operand
<1>3. Within(code, m, m', Now(code, k))
  <2>1. CASE m' = m
    BY <2>1, <1>1, WithinSame
  <2>2. CASE Cleared(m, Operand(j), m')
    BY <2>2, <1>1, <1>2, StateCleared
  <2>3. QED BY <2>1, <2>2 DEF Enter, EnterFresh, Cleared
<1>4. PutOn(k, Activity(j, ph), k') /\ Exec(Operand(j))
  BY DEF Enter, EnterFresh, PutOn
<1>5. QED BY <1>3, <1>4, Entered1

LEMMA LeafDone ==
    ASSUME IInv, EnvKept, ctl.at = "exec", NEW v \in Values, Leaf(v)
    PROVE  IInv'
<1>1. ctl.nd \in Ids(code) /\ ctl.nd[1] = Now(code, k) /\ MemOK(code, m)
  BY ExecFacts
<1>2. Within(code, m, m', Now(code, k))
  <2>1. Valued(m, ctl.nd, v, m')
    BY DEF Leaf, Valued
  <2>2. QED BY <2>1, <1>1, ValueWritten
<1>3. k' = k /\ Go("back")
  BY DEF Leaf
<1>4. QED BY <1>2, <1>3, LeafStep

LEMMA OverDone ==
    ASSUME IInv, EnvKept, ctl.at = "exec", Over
    PROVE  IInv'
<1>1. ctl.nd \in Ids(code) /\ ctl.nd[1] = Now(code, k) /\ MemOK(code, m)
  BY ExecFacts
<1>2. Within(code, m, m', Now(code, k))
  <2>1. Resulted(m, ctl.nd, FAIL, 0, m')
    BY DEF Over, Resulted
  <2>2. QED BY <2>1, <1>1, ResultWritten, ValueFacts
<1>3. k' = k /\ Go("back")
  BY DEF Over
<1>4. QED BY <1>2, <1>3, LeafStep

LEMMA Asked1 ==
    ASSUME IInv, EnvKept, k # <<>>, Top.ph # "call", NEW j \in 1 .. Owner.kids, NEW ph \in Phases,
           NEW f, f \in Acts(code), f.nd = Top.nd, f.j = j, f.ph = ph,
           SetTop(f), Exec(Child(j)), Within(code, m, m', Now(code, k)),
           Owner.op \notin Strict, Owner.op = "CASE" /\ ph = "key" => j < Owner.kids
    PROVE  IInv'
<1>1. Owner.kids \in Nat
  BY TopKnown, NodeFacts DEF Owner
<1>2. j > 0 /\ code.at[Top.nd].op # "ASSIGN"
  BY <1>1 DEF Strict, Owner
<1>3. Waits(code, f)
  BY <1>2, PhaseFacts DEF Waits, Owner
<1>4. f.j \in 1 .. Owner.kids /\ f.ph # "call" /\ Exec(Child(f.j))
  BY PhaseFacts
<1>5. QED BY <1>3, <1>4, AskStep

LEMMA AskDone ==
    ASSUME IInv, EnvKept, k # <<>>, Top.ph # "call", NEW j \in 1 .. Owner.kids, NEW ph \in Phases,
           Ask(j, ph) \/ AskFresh(j, ph),
           Owner.op \notin Strict, Owner.op = "CASE" /\ ph = "key" => j < Owner.kids
    PROVE  IInv'
<1>1. Top.nd \in Ids(code) /\ Top.nd[1] = Now(code, k) /\ MemOK(code, m) /\ code \in Codes /\ Top \in Acts(code)
      /\ Owner.kids \in Nat
  BY TopKnown, NodeFacts DEF Owner
<1>2. Child(j) \in Ids(code) /\ Child(j)[1] = Now(code, k)
  BY <1>1, ChildFacts
<1>3. Within(code, m, m', Now(code, k))
  <2>1. CASE m' = m
    BY <2>1, <1>1, WithinSame
  <2>2. CASE Cleared(m, Child(j), m')
    BY <2>2, <1>1, <1>2, StateCleared
  <2>3. QED BY <2>1, <2>2 DEF Ask, AskFresh, Cleared
<1> DEFINE f == Moved(Top, j, ph)
<1>4. SetTop(f) /\ Exec(Child(j)) /\ j \in Nat
  BY <1>1 DEF Ask, AskFresh, Moved
<1>5. f \in Acts(code) /\ f.nd = Top.nd /\ f.j = j /\ f.ph = ph
  BY <1>1, <1>4, ActChanged
<1> HIDE DEF f
<1>6. QED BY <1>3, <1>4, <1>5, Asked1

LEMMA GiveDone ==
    ASSUME IInv, EnvKept, k # <<>>, Top.ph # "call", NEW v \in Values, Give(v)
    PROVE  IInv'
<1>1. Top.nd \in Ids(code) /\ Top.nd[1] = Now(code, k) /\ MemOK(code, m)
  BY TopKnown
<1>2. Within(code, m, m', Now(code, k))
  <2>1. Valued(m, Top.nd, v, m')
    BY DEF Give, Valued
  <2>2. QED BY <2>1, <1>1, ValueWritten
<1>3. Pop /\ Go("back")
  BY DEF Give
<1>4. QED BY <1>2, <1>3, GiveStep

LEMMA DoneDone ==
    ASSUME IInv, EnvKept, k # <<>>, Top.ph # "call", NEW v \in Values, NEW s \in {0, 1}, Done(v, s),
           s = 1 => Owner.op \notin {"ALT", "CALL"}
    PROVE  IInv'
<1>1. Top.nd \in Ids(code) /\ Top.nd[1] = Now(code, k) /\ MemOK(code, m)
  BY TopKnown
<1>2. Within(code, m, m', Now(code, k))
  <2>1. Resulted(m, Top.nd, v, s, m')
    BY DEF Done, Resulted
  <2>2. QED BY <2>1, <1>1, ResultWritten DEF Owner
<1>3. Pop /\ Go("back")
  BY DEF Done
<1>4. QED BY <1>2, <1>3, GiveStep
-----------------------------------------------------------------------------
(* Leaves, and nodes that need all their operands.                         *)

LEMMA ExecLeafKeeps ==
    ASSUME IInv, ExecLeaf
    PROVE  IInv'
<1>1. EnvKept /\ ctl.at = "exec"
  BY EnvUntouched DEF ExecLeaf, Entering
<1>2. Entered.n \in Int /\ (Entered.op = "VAR" => Entered.x \in code.names)
  BY <1>1, ExecFacts, NodeFacts DEF Entered
<1>3. PICK v \in Values : Leaf(v)
  BY <1>2, ReadValue, ValueFacts DEF ExecLeaf, Entering
<1>4. QED BY <1>1, <1>3, LeafDone

LEMMA ExecFlagKeeps ==
    ASSUME IInv, ExecBreak \/ ExecNext
    PROVE  IInv'
<1>1. FRAME \in Frames /\ depth \in DOMAIN frames
  BY EnvFacts
<1>2. PICK r \in Frames : frames' = [frames EXCEPT ![depth] = r]
  <2>1. [FRAME EXCEPT !.loop_break = TRUE] \in Frames /\ [FRAME EXCEPT !.loop_next = TRUE] \in Frames
    BY <1>1 DEF Frames
  <2>2. \/ frames' = [frames EXCEPT ![depth] = [FRAME EXCEPT !.loop_break = TRUE]]
        \/ frames' = [frames EXCEPT ![depth] = [FRAME EXCEPT !.loop_next = TRUE]]
    BY <1>1 DEF ExecBreak, ExecNext, FRAME
  <2>3. QED BY <2>1, <2>2
<1>3. frames' \in Seq(Frames) /\ Len(frames') = Len(frames)
  BY <1>2, FrameWritten
<1>4. EnvKept
  BY <1>3 DEF EnvKept, IInv, EnvOK, ExecBreak, ExecNext
<1>5. ctl.at = "exec" /\ Leaf(FAIL)
  BY DEF ExecBreak, ExecNext, Entering
<1>6. QED BY <1>4, <1>5, LeafDone, ValueFacts

LEMMA ExecStrictKeeps ==
    ASSUME IInv, ExecStrict
    PROVE  IInv'
<1>1. EnvKept /\ ctl.at = "exec" /\ Entered.op \in Strict
  BY EnvUntouched DEF ExecStrict
<1>2. code \in Codes /\ ctl.nd \in Ids(code) /\ ctl.nd[1] = Now(code, k) /\ MemOK(code, m)
      /\ Chain(code, k) /\ HomeOK(code, k) /\ Settled(code, k, Len(k))
  BY <1>1, ExecFacts
<1>3. Entered.kids \in Nat /\ (Entered.op = "ASSIGN" => Entered.kids = 2)
  BY <1>2, NodeFacts, ArityFacts DEF Entered
<1>4. Within(code, m, m, Now(code, k))
  BY <1>2, WithinSame
<1>5. CASE Entered.kids > 0
  <2> DEFINE j == IF Entered.op = "ASSIGN" THEN 2 ELSE 1
  <2>1. j \in 1 .. Entered.kids /\ Enter(j, "operand")
    BY <1>3, <1>5 DEF ExecStrict
  <2>2. Waits(code, Activity(j, "operand"))
    BY <1>3, <1>5 DEF Waits, Activity, Entered, Strict
  <2> HIDE DEF j
  <2>3. PutOn(k, Activity(j, "operand"), k') /\ Exec(Operand(j)) /\ m' = m
    BY <2>1 DEF Enter, PutOn
  <2>4. Within(code, m, m', Now(code, k)) /\ "operand" \in Phases
    BY <1>4, <2>3 DEF Phases
  <2>5. QED BY <1>1, <2>1, <2>2, <2>3, <2>4, EnterStep
<1>6. CASE ~(Entered.kids > 0)
  <2> DEFINE a == Activity(0, "operand")
  <2>1. PutOn(k, a, k') /\ Go("apply") /\ m' = m
    BY <1>6 DEF ExecStrict, PutOn
  <2>2. a \in Acts(code)
    <3>1. 0 \in Nat /\ "operand" \in Phases \cup {"call", "gen"}
      BY DEF Phases
    <3>2. QED BY <1>1, <3>1, ActivityOK
  <2>3. a.j <= code.at[a.nd].kids /\ a.nd[1] = Now(code, k) /\ a.ph # "call"
    BY <1>2, <1>3, <1>6 DEF Activity, Entered
  <2>4. Applies(code, a)
    BY <1>1, <1>3, <1>6 DEF Applies, Activity, Entered
  <2> HIDE DEF a
  <2>5. /\ Chain(code, k') /\ HomeOK(code, k') /\ SameCalls(k, k') /\ Now(code, k') = Now(code, k)
        /\ Settled(code, k', Len(k') - 1) /\ k' # <<>> /\ k'[Len(k')] = a
    BY <1>2, <2>1, <2>2, <2>3, Pushed
  <2>6. ctl'.at = "apply"
    BY <2>1 DEF Go
  <2>7. ControlOK(code, k', ctl', gens)
    BY <2>4, <2>5, <2>6 DEF ControlOK
  <2>8. QED BY <1>1, <1>4, <2>1, <2>5, <2>6, <2>7, Quiet
<1>7. QED BY <1>5, <1>6

\* An operand more.
Fed(a, v) == [a EXCEPT !.args = Append(@, v)]

LEMMA ArgsFed ==
    ASSUME NEW c, NEW a \in Acts(c), NEW v \in Values
    PROVE  LET f == Fed(a, v)
           IN f \in Acts(c) /\ f.nd = a.nd /\ f.j = a.j /\ f.ph = a.ph /\ Len(f.args) = Len(a.args) + 1
<1>1. a.args \in Seq(Values)
  BY DEF Acts
<1>2. Append(a.args, v) \in Seq(Values) /\ Len(Append(a.args, v)) = Len(a.args) + 1
  BY <1>1, AppendProperties
<1>3. QED BY <1>2 DEF Fed, Acts

LEMMA StrictOperandKeeps ==
    ASSUME IInv, StrictOperand
    PROVE  IInv'
<1>1. EnvKept /\ ctl.at = "back" /\ k # <<>> /\ Owner.op \in Strict /\ Top.ph = "operand"
  BY EnvUntouched DEF StrictOperand
<1>2. /\ code \in Codes /\ Top.nd \in Ids(code) /\ Top \in Acts(code) /\ MemOK(code, m) /\ Top.j \in Nat
      /\ Waits(code, Top) /\ Got \in Values /\ Top.j \in 1 .. Owner.kids
  BY <1>1, TopKnown, BackFacts
<1>3. Owner.kids \in Nat /\ (Owner.op = "ASSIGN" => Owner.kids = 2)
  BY <1>2, NodeFacts, ArityFacts DEF Owner
<1>4. Within(code, m, m, Now(code, k))
  BY <1>2, WithinSame
<1>5. Len(Top.args) = Top.j - (IF Owner.op = "ASSIGN" THEN 2 ELSE 1) /\ (Owner.op = "ASSIGN" => Top.j = 2)
  BY <1>1, <1>2 DEF Waits, Owner
<1>6. Fed(Top, Got) \in Acts(code) /\ Fed(Top, Got).nd = Top.nd /\ Fed(Top, Got).ph = "operand"
      /\ Fed(Top, Got).j = Top.j /\ Len(Fed(Top, Got).args) = Len(Top.args) + 1
  BY <1>1, <1>2, ArgsFed
<1>7. CASE Give(FAIL)
  BY <1>1, <1>7, GiveDone, ValueFacts
<1>8. CASE /\ Top.j < Owner.kids
           /\ SetTop([Fed(Top, Got) EXCEPT !.j = @ + 1]) /\ Exec(Child(Top.j + 1)) /\ m' = m
  <2> DEFINE f == Moved(Fed(Top, Got), Top.j + 1, "operand")
  <2>1. [Fed(Top, Got) EXCEPT !.j = @ + 1] = f
    BY <1>6 DEF Moved, Acts
  <2>2. f \in Acts(code) /\ f.nd = Top.nd /\ f.j = Top.j + 1 /\ f.ph = "operand" /\ f.args = Fed(Top, Got).args
    <3> DEFINE i == Top.j + 1
    <3>1. i \in Nat /\ "operand" \in Phases
      BY <1>2 DEF Phases
    <3> HIDE DEF i
    <3>2. QED BY <1>6, <3>1, ActChanged DEF i
  <2>3. SetTop(f)
    BY <1>8, <2>1
  <2> HIDE DEF f
  <2>4. f.j \in 1 .. Owner.kids /\ Owner.op # "ASSIGN"
    BY <1>2, <1>3, <1>5, <1>8, <2>2
  <2>5. Waits(code, f)
    <3>1. Len(f.args) = f.j - 1 /\ f.j > 0
      BY <1>2, <1>5, <1>6, <2>2, <2>4
    <3>2. f.ph = "operand" /\ code.at[f.nd].op # "ASSIGN" /\ code.at[f.nd].op # "CASE"
      BY <1>1, <2>2, <2>4 DEF Owner, Strict
    <3>3. QED BY <3>1, <3>2 DEF Waits
  <2>6. Exec(Child(f.j)) /\ Top.ph # "call" /\ f.ph # "call" /\ Within(code, m, m', Now(code, k))
    BY <1>1, <1>4, <1>8, <2>2
  <2>7. QED BY <1>1, <2>2, <2>3, <2>4, <2>5, <2>6, AskStep
<1>9. CASE Top.j = Owner.kids /\ SetTop(Fed(Top, Got)) /\ Go("apply") /\ m' = m
  <2> DEFINE f == Fed(Top, Got)
  <2>1. Applies(code, f) /\ f.j \in 0 .. Owner.kids
    BY <1>1, <1>2, <1>3, <1>5, <1>6, <1>9 DEF Applies, Owner
  <2> HIDE DEF f
  <2>2. QED BY <1>1, <1>4, <1>6, <1>9, <2>1, ApplyStep DEF f
<1>10. QED BY <1>7, <1>8, <1>9 DEF StrictOperand, Fed

LEMMA BinopValue ==
    ASSUME NEW o, NEW l \in Values, NEW r \in Values
    PROVE  icn_binop_apply(o, l, r) \in Values
BY DEF icn_binop_apply, Values, INTVAL, FAIL

LEMMA ApplyStrictKeeps ==
    ASSUME IInv, ApplyAssign \/ ApplySwap \/ ApplyBinop \/ ApplyNonNull \/ ApplyWrite \/ CallFails
    PROVE  IInv'
<1>1. ctl.at = "apply"
  BY DEF Applying, ApplyAssign, ApplySwap, ApplyBinop, ApplyNonNull, ApplyWrite, CallFails
<1>2. /\ k # <<>> /\ Top.ph # "call" /\ \A i \in 1 .. Len(Top.args) : Arg(i) \in Values
      /\ Owner.op \in Strict => Len(Top.args) = (IF Owner.op = "ASSIGN" THEN 1 ELSE Owner.kids)
  BY <1>1, ApplyFacts
<1>3. code \in Codes /\ Top.nd \in Ids(code) /\ Top.args \in Seq(Values)
  BY <1>2, TopKnown
<1>4. FRAME.env \in Seq(Values) /\ depth \in DOMAIN frames /\ glob \in [code.names -> Values]
  BY EnvFacts DEF IInv, EnvOK
<1>5. CASE ApplyAssign
  <2>1. Arg(1) \in Values /\ code.at[Child(1)].x \in code.names
    <3>1. Owner.op = "ASSIGN"
      BY <1>5 DEF ApplyAssign, Applying
    <3>2. code.at[Child(1)].x \in code.names
      BY <1>3, <3>1, NodeFacts DEF Owner, Child
    <3>3. Len(Top.args) = 1
      BY <1>2, <3>1 DEF Strict
    <3>4. QED BY <1>2, <3>2, <3>3
  <2>2. Put(FRAME.env, code.at[Child(1)].x, Arg(1)) \in Seq(Values)
    BY <1>4, <2>1, PutValue
  <2>3. frames' = [frames EXCEPT ![depth].env = Put(FRAME.env, code.at[Child(1)].x, Arg(1))]
    BY <1>4, <1>5 DEF ApplyAssign, Store, FRAME
  <2>4. frames' \in Seq(Frames) /\ Len(frames') = Len(frames)
    BY <2>2, <2>3, EnvWritten
  <2>5. glob' \in [code.names -> Values]
    BY <1>4, <1>5, <2>1, RestValue DEF ApplyAssign, Store
  <2>6. EnvKept
    BY <1>5, <2>4, <2>5 DEF ApplyAssign, EnvKept, IInv, EnvOK
  <2>7. Give(Arg(1))
    BY <1>5 DEF ApplyAssign
  <2>8. QED BY <1>2, <2>1, <2>6, <2>7, GiveDone
<1>6. CASE ApplySwap
  <2> DEFINE x == code.at[Child(1)].x
             y == code.at[Child(2)].x
             e == Put(Put(FRAME.env, x, Arg(2)), y, Arg(1))
  <2>1. Arg(1) \in Values /\ Arg(2) \in Values /\ x \in code.names /\ y \in code.names
    <3>1. Owner.kids = 2 /\ x \in code.names /\ y \in code.names
      BY <1>3, <1>6, NodeFacts, ArityFacts DEF ApplySwap, Applying, Owner, Child
    <3>2. Len(Top.args) = 2
      BY <1>2, <1>6, <3>1 DEF ApplySwap, Applying, Strict
    <3>3. QED BY <1>2, <3>1, <3>2
  <2>2. e \in Seq(Values)
    BY <1>4, <2>1, PutValue
  <2>3. frames' = [frames EXCEPT ![depth].env = e]
    BY <1>4, <1>6 DEF ApplySwap, FRAME
  <2> HIDE DEF e
  <2>4. frames' \in Seq(Frames) /\ Len(frames') = Len(frames)
    BY <2>2, <2>3, EnvWritten
  <2>5. glob' \in [code.names -> Values]
    <3>1. Rest(glob, x, Arg(2)) \in [code.names -> Values]
      BY <1>4, <2>1, RestValue
    <3>2. Rest(Rest(glob, x, Arg(2)), y, Arg(1)) \in [code.names -> Values]
      BY <2>1, <3>1, RestValue
    <3>3. QED BY <1>6, <3>2 DEF ApplySwap
  <2>6. EnvKept
    BY <1>6, <2>4, <2>5 DEF ApplySwap, EnvKept, IInv, EnvOK
  <2>7. Give(Arg(2))
    BY <1>6 DEF ApplySwap
  <2>8. QED BY <1>2, <2>1, <2>6, <2>7, GiveDone
<1>7. CASE ApplyBinop
  <2>1. Arg(1) \in Values /\ Arg(2) \in Values
    <3>1. Owner.kids = 2
      BY <1>3, <1>7, ArityFacts DEF ApplyBinop, Applying, Owner
    <3>2. Len(Top.args) = 2
      BY <1>2, <1>7, <3>1 DEF ApplyBinop, Applying, Strict
    <3>3. QED BY <1>2, <3>2
  <2>2. PICK v \in Values : Give(v)
    BY <1>7, <2>1, BinopValue DEF ApplyBinop
  <2>3. EnvKept
    BY <1>7, EnvUntouched DEF ApplyBinop
  <2>4. QED BY <1>2, <2>2, <2>3, GiveDone
<1>8. CASE ApplyNonNull
  <2>1. Arg(1) \in Values
    <3>1. Owner.kids = 1
      BY <1>3, <1>8, ArityFacts DEF ApplyNonNull, Applying, Owner
    <3>2. Len(Top.args) = 1
      BY <1>2, <1>8, <3>1 DEF ApplyNonNull, Applying, Strict
    <3>3. QED BY <1>2, <3>2
  <2>2. PICK v \in Values : Give(v)
    BY <1>8, <2>1, ValueFacts DEF ApplyNonNull
  <2>3. EnvKept
    BY <1>8, EnvUntouched DEF ApplyNonNull
  <2>4. QED BY <1>2, <2>2, <2>3, GiveDone
<1>9. CASE ApplyWrite
  <2>1. Top.args # <<>> => Len(Top.args) \in 1 .. Len(Top.args)
    BY <1>3, TopFacts
  <2>2. PICK v \in Values : Give(v)
    BY <1>2, <1>9, <2>1, ValueFacts DEF ApplyWrite
  <2>3. EnvKept
    BY <1>9, EnvUntouched DEF ApplyWrite
  <2>4. QED BY <1>2, <2>2, <2>3, GiveDone
<1>10. CASE CallFails
  <2>1. EnvKept /\ Give(FAIL)
    BY <1>10, EnvUntouched DEF CallFails
  <2>2. QED BY <1>2, <2>1, GiveDone, ValueFacts
<1>11. QED BY <1>5, <1>6, <1>7, <1>8, <1>9, <1>10
-----------------------------------------------------------------------------
(* Sequences, return, initial, choice, loops.                              *)

\* A node that waits for an operand and is not a call or another strict node.
LEMMA InFacts ==
    ASSUME IInv, NEW op, op \notin Strict, In(op)
    PROVE  /\ ctl.at = "back" /\ k # <<>> /\ Owner.op = op /\ Owner.op \notin Strict /\ Top.ph # "call"
           /\ Waits(code, Top) /\ Top \in Acts(code) /\ Top.nd \in Ids(code) /\ code \in Codes /\ MemOK(code, m)
           /\ Top.j \in 1 .. Owner.kids /\ Owner.kids \in Nat \ {0} /\ Got \in Values
           /\ Now(code, k) = Top.nd[1] /\ m[Top.nd] \in Cells
<1>1. ctl.at = "back" /\ k # <<>> /\ Owner.op = op
  BY DEF In
<1>2. Owner.op # "CALL"
  BY <1>1 DEF Strict
<1>3. Waits(code, Top) /\ Top.ph # "call" /\ Top.j \in 1 .. Owner.kids /\ Got \in Values /\ Now(code, k) = Top.nd[1]
  BY <1>1, <1>2, BackFacts
<1>4. Top \in Acts(code) /\ Top.nd \in Ids(code) /\ code \in Codes /\ MemOK(code, m) /\ m[Top.nd] \in Cells
  BY <1>1, TopKnown
<1>5. Owner.kids \in Nat
  BY <1>4, NodeFacts DEF Owner
<1>6. Owner.kids \in Nat \ {0}
  BY <1>3, <1>5
<1>7. QED BY <1>1, <1>3, <1>4, <1>6

LEMMA EnteringFacts ==
    ASSUME IInv, NEW op, Entering(op)
    PROVE  /\ ctl.at = "exec" /\ Entered.op = op /\ ctl.nd \in Ids(code) /\ code \in Codes /\ MemOK(code, m)
           /\ ctl.nd[1] = Now(code, k) /\ Here \in Cells /\ Here.st \in {0, 1} /\ CellOK(Here, Entered) /\ Entered.kids \in Nat
<1>1. ctl.at = "exec" /\ Entered.op = op
  BY DEF Entering
<1>2. QED BY <1>1, ExecFacts, NodeFacts DEF Entered, Cells

LEMMA ExecFirstKeeps ==
    ASSUME IInv, ExecSeq \/ ExecReturn \/ ExecIf \/ ExecNot \/ ExecCase
    PROVE  IInv'
<1>1. EnvKept
  BY EnvUntouched DEF ExecSeq, ExecReturn, ExecIf, ExecNot, ExecCase
<1>2. PICK op \in {"SEQ", "RETURN", "IF", "NOT", "CASE"} : Entering(op)
  BY DEF ExecSeq, ExecReturn, ExecIf, ExecNot, ExecCase
<1>3. ctl.at = "exec" /\ Entered.op = op /\ ctl.nd \in Ids(code) /\ code \in Codes /\ Entered.kids \in Nat
  BY <1>2, EnteringFacts
<1>4. 1 \in 1 .. Entered.kids
  BY <1>3, ArityFacts DEF Entered
<1>5. Entered.op \notin Strict
  BY <1>3 DEF Strict
<1>6. PICK ph \in Phases : ph # "key" /\ (Enter(1, ph) \/ EnterFresh(1, ph))
  BY DEF ExecSeq, ExecReturn, ExecIf, ExecNot, ExecCase, Phases
<1>7. QED BY <1>1, <1>3, <1>4, <1>5, <1>6, EnterDone

LEMMA SeqStatementKeeps ==
    ASSUME IInv, SeqStatement
    PROVE  IInv'
<1>1. EnvKept /\ In("SEQ")
  BY EnvUntouched DEF SeqStatement
<1>2. k # <<>> /\ Owner.op = "SEQ" /\ Owner.op \notin Strict /\ Top.ph # "call" /\ Top.j \in 1 .. Owner.kids
      /\ Owner.kids \in Nat
  BY <1>1, InFacts DEF Strict
<1>3. CASE Give(FAIL)
  BY <1>1, <1>2, <1>3, GiveDone, ValueFacts
<1>4. CASE Top.j # Owner.kids /\ Ask(Top.j + 1, "")
  <2>1. Top.j + 1 \in 1 .. Owner.kids /\ "" \in Phases
    BY <1>2, <1>4, NextOperand, PhaseFacts
  <2>2. QED BY <1>1, <1>2, <1>4, <2>1, AskDone
<1>5. QED BY <1>3, <1>4 DEF SeqStatement

LEMMA ExecBlockKeeps ==
    ASSUME IInv, ExecBlock
    PROVE  IInv'
<1>1. EnvKept /\ Entering("SEQ_EXPR")
  BY EnvUntouched DEF ExecBlock
<1>2. ctl.at = "exec" /\ Entered.op = "SEQ_EXPR" /\ ctl.nd \in Ids(code) /\ code \in Codes /\ Entered.kids \in Nat
  BY <1>1, EnteringFacts
<1>3. Entered.kids > 0
  BY <1>2, ArityFacts DEF Entered
<1>4. PICK j \in {1, Entered.kids} : Enter(j, "") \/ EnterFresh(j, "")
  BY DEF ExecBlock
<1>5. j \in 1 .. Entered.kids /\ "" \in Phases /\ Entered.op \notin Strict
  BY <1>2, <1>3 DEF Phases, Strict
<1>6. QED BY <1>1, <1>2, <1>4, <1>5, EnterDone

LEMMA BlockExpressionKeeps ==
    ASSUME IInv, BlockExpression
    PROVE  IInv'
<1>1. EnvKept /\ In("SEQ_EXPR")
  BY EnvUntouched DEF BlockExpression
<1>2. k # <<>> /\ Owner.op = "SEQ_EXPR" /\ Owner.op \notin Strict /\ Top.ph # "call" /\ Top.j \in 1 .. Owner.kids
      /\ Owner.kids \in Nat \ {0} /\ Got \in Values
  BY <1>1, InFacts DEF Strict
<1>3. CASE Give(Got)
  BY <1>1, <1>2, <1>3, GiveDone
<1>4. CASE Done(FAIL, 0) \/ Done(Got, 1)
  <2>1. PICK v \in Values, s \in {0, 1} : Done(v, s)
    BY <1>2, <1>4, ValueFacts
  <2>2. QED BY <1>1, <1>2, <2>1, DoneDone
<1>5. CASE Top.j # Owner.kids /\ (Ask(Top.j + 1, "") \/ AskFresh(Top.j + 1, ""))
  <2>1. Top.j + 1 \in 1 .. Owner.kids /\ "" \in Phases
    BY <1>2, <1>5, NextOperand, PhaseFacts
  <2>2. QED BY <1>1, <1>2, <1>5, <2>1, AskDone
<1>6. \/ Give(Got) \/ Done(FAIL, 0) \/ Done(Got, 1)
      \/ Top.j + 1 = Owner.kids /\ AskFresh(Owner.kids, "")
      \/ Top.j + 1 < Owner.kids /\ Ask(Top.j + 1, "")
  BY DEF BlockExpression
<1>7. Top.j + 1 = Owner.kids \/ Top.j + 1 < Owner.kids => Top.j # Owner.kids
  BY <1>2, NextOperand
<1>8. QED BY <1>3, <1>4, <1>5, <1>6, <1>7

LEMMA ReturnsKeeps ==
    ASSUME IInv, Returns
    PROVE  IInv'
<1>1. In("RETURN")
  BY DEF Returns
<1>2. k # <<>> /\ Top.ph # "call" /\ Got \in Values
  BY <1>1, InFacts DEF Strict
<1>3. retval' \in Values
  BY <1>2, ValueFacts DEF Returns
<1>4. FRAME \in Frames /\ depth \in DOMAIN frames
  BY EnvFacts
<1>5. [FRAME EXCEPT !.returning = TRUE] \in Frames
      /\ frames' = [frames EXCEPT ![depth] = [FRAME EXCEPT !.returning = TRUE]]
  BY <1>4 DEF Returns, Frames, FRAME
<1>6. frames' \in Seq(Frames) /\ Len(frames') = Len(frames)
  BY <1>5, FrameWritten
<1>7. EnvKept
  BY <1>3, <1>6 DEF EnvKept, Returns, IInv, EnvOK
<1>8. Give(retval')
  BY DEF Returns
<1>9. QED BY <1>2, <1>3, <1>7, <1>8, GiveDone

LEMMA ExecInitialKeeps ==
    ASSUME IInv, ExecInitial
    PROVE  IInv'
<1>1. EnvKept /\ Entering("INITIAL")
  BY EnvUntouched DEF ExecInitial
<1>2. /\ ctl.at = "exec" /\ Entered.op = "INITIAL" /\ ctl.nd \in Ids(code) /\ code \in Codes /\ Entered.kids \in Nat
      /\ MemOK(code, m) /\ ctl.nd[1] = Now(code, k) /\ Here \in Cells
  BY <1>1, EnteringFacts
<1>3. CASE Leaf(NULVCL)
  BY <1>1, <1>2, <1>3, LeafDone, ValueFacts
<1>4. CASE m' = [m EXCEPT ![ctl.nd].once = TRUE] /\ k' = Append(k, Activity(1, "")) /\ Exec(Operand(1))
  <2>1. m'[ctl.nd] = [Here EXCEPT !.once = TRUE] /\ OneCell(code, m, ctl.nd, m')
    <3>1. m \in [Ids(code) -> Cells]
      BY <1>2 DEF MemOK
    <3>2. [Here EXCEPT !.once = TRUE] \in Cells
      BY <1>2 DEF Cells
    <3>3. QED BY <1>2, <1>4, <3>1, <3>2 DEF Here, OneCell
  <2>2. m'[ctl.nd].gen = m[ctl.nd].gen /\ m'[ctl.nd].st = m[ctl.nd].st /\ m'[ctl.nd].cnt = m[ctl.nd].cnt
    BY <1>2, <2>1 DEF Here, Cells
  <2>3. Within(code, m, m', Now(code, k))
    <3>1. OneCell(code, m, ctl.nd, m') /\ m'[ctl.nd].gen = m[ctl.nd].gen
          /\ (m'[ctl.nd].st = 1 => m[ctl.nd].st = 1 \/ code.at[ctl.nd].op # "CALL")
      BY <2>1, <2>2
    <3>2. (code.at[ctl.nd].op = "ALT" /\ m'[ctl.nd].st = 1 => m'[ctl.nd].cnt \in 1 .. code.at[ctl.nd].kids)
      BY <1>2 DEF Entered
    <3>4. Within(code, m, m', ctl.nd[1])
      BY <1>2, <3>1, <3>2, CellWritten
    <3>5. QED BY <3>4, <1>2
  <2>4. 1 \in 1 .. Entered.kids /\ "" \in Phases /\ Entered.op \notin Strict
    BY <1>2, ArityFacts DEF Phases, Strict, Entered
  <2>5. PutOn(k, Activity(1, ""), k') /\ Exec(Operand(1))
    BY <1>4 DEF PutOn
  <2>6. QED BY <1>1, <1>2, <2>3, <2>4, <2>5, Entered1
<1>5. QED BY <1>3, <1>4 DEF ExecInitial

LEMMA GivesKeeps ==
    ASSUME IInv, InitialDone \/ IfDone \/ NotDone \/ CaseDone
    PROVE  IInv'
<1>1. EnvKept
  BY EnvUntouched DEF InitialDone, IfDone, NotDone, CaseDone
<1>2. PICK op \in {"INITIAL", "IF", "NOT", "CASE"} : In(op)
  BY DEF InitialDone, IfDone, NotDone, CaseDone
<1>3. op \notin Strict
  BY DEF Strict
<1>4. k # <<>> /\ Top.ph # "call" /\ Got \in Values
  BY <1>2, <1>3, InFacts
<1>5. PICK v \in Values : Give(v)
  BY <1>4, ValueFacts DEF InitialDone, IfDone, NotDone, CaseDone
<1>6. QED BY <1>1, <1>4, <1>5, GiveDone

LEMMA IfChoosesKeeps ==
    ASSUME IInv, IfChooses
    PROVE  IInv'
<1>1. EnvKept /\ In("IF")
  BY EnvUntouched DEF IfChooses, At
<1>2. k # <<>> /\ Owner.op = "IF" /\ Owner.op \notin Strict /\ Top.ph # "call" /\ Top.nd \in Ids(code) /\ code \in Codes
      /\ Owner.kids \in Nat
  BY <1>1, InFacts DEF Strict
<1>3. CASE Give(FAIL)
  BY <1>1, <1>2, <1>3, GiveDone, ValueFacts
<1>4. CASE Ask(2, "") \/ (Owner.kids >= 3 /\ Ask(3, ""))
  <2>1. Owner.kids \in {2, 3}
    BY <1>2, ArityFacts DEF Owner
  <2>2. 2 \in 1 .. Owner.kids /\ (Owner.kids >= 3 => 3 \in 1 .. Owner.kids)
    BY <2>1
  <2>3. PICK j \in 1 .. Owner.kids : Ask(j, "")
    BY <1>4, <2>2
  <2>4. QED BY <1>1, <1>2, <2>3, AskDone, PhaseFacts
<1>5. QED BY <1>3, <1>4 DEF IfChooses
\* A key or the default that a case goes on to.
LEMMA TryKeyKeeps ==
    ASSUME IInv, EnvKept, In("CASE"), NEW f \in Acts(code), f.nd = Top.nd, NEW j \in Nat \ {0}, TryKey(f, j)
    PROVE  IInv'
<1>1. /\ k # <<>> /\ Top.ph # "call" /\ Owner.op = "CASE" /\ Owner.op \notin Strict /\ Owner.kids \in Nat
      /\ Top.nd \in Ids(code) /\ MemOK(code, m)
  BY InFacts DEF Strict
<1>2. CASE j <= Owner.kids
  <2> DEFINE ph == IF j = Owner.kids THEN "value" ELSE "key"
             g == Moved(f, j, ph)
  <2>1. SetTop(g) /\ Exec(Child(j)) /\ m' = m
    BY <1>2 DEF TryKey, Moved
  <2>2. j \in 1 .. Owner.kids /\ j \in Nat
    BY <1>1, <1>2
  <2>3. ph \in Phases /\ (ph = "key" => j # Owner.kids)
    BY DEF Phases
  <2>4. ph = "key" => j < Owner.kids
    BY <1>1, <2>2, <2>3
  <2> HIDE DEF ph
  <2>5. g \in Acts(code) /\ g.nd = Top.nd /\ g.j = j /\ g.ph = ph
    BY <2>2, <2>3, ActChanged
  <2> HIDE DEF g
  <2>6. Within(code, m, m', Now(code, k))
    BY <1>1, <2>1, WithinSame
  <2>7. QED BY <1>1, <2>1, <2>2, <2>3, <2>4, <2>5, <2>6, Asked1
<1>3. CASE ~(j <= Owner.kids)
  BY <1>1, <1>3, GiveDone, ValueFacts DEF TryKey
<1>4. QED BY <1>2, <1>3

LEMMA CaseSelectsKeeps ==
    ASSUME IInv, CaseSelects
    PROVE  IInv'
<1>1. EnvKept /\ In("CASE")
  BY EnvUntouched DEF CaseSelects, At
<1>2. k # <<>> /\ Top.ph # "call" /\ Got \in Values /\ Top \in Acts(code)
  BY <1>1, InFacts DEF Strict
<1>3. CASE Give(FAIL)
  BY <1>1, <1>2, <1>3, GiveDone, ValueFacts
<1>4. CASE TryKey([Top EXCEPT !.args = <<Got>>], 2)
  <2> DEFINE f == [Top EXCEPT !.args = <<Got>>]
  <2>1. <<Got>> \in Seq(Values)
    BY <1>2
  <2>2. f \in Acts(code) /\ f.nd = Top.nd
    BY <1>2, <2>1 DEF Acts
  <2> HIDE DEF f
  <2>3. TryKey(f, 2) /\ 2 \in Nat \ {0}
    BY <1>4 DEF f
  <2>4. QED BY <1>1, <2>2, <2>3, TryKeyKeeps
<1>5. QED BY <1>3, <1>4 DEF CaseSelects

LEMMA CaseKeyKeeps ==
    ASSUME IInv, CaseKey
    PROVE  IInv'
<1>1. EnvKept /\ In("CASE") /\ Top.ph = "key"
  BY EnvUntouched DEF CaseKey
<1>2. /\ k # <<>> /\ Top.ph # "call" /\ Owner.op = "CASE" /\ Owner.op \notin Strict /\ Owner.kids \in Nat
      /\ Top \in Acts(code) /\ Waits(code, Top) /\ Top.j \in 1 .. Owner.kids
  BY <1>1, InFacts DEF Strict
<1>3. Top.j < Owner.kids
  BY <1>1, <1>2 DEF Waits, Owner
<1>4. CASE Ask(Top.j + 1, "value")
  <2>1. Top.j + 1 \in 1 .. Owner.kids
    BY <1>2, <1>3, NextOperand
  <2>2. "value" \in Phases /\ "value" # "key"
    BY DEF Phases
  <2>3. QED BY <1>1, <1>2, <1>4, <2>1, <2>2, AskDone
<1>5. CASE TryKey(Top, Top.j + 2)
  <2>1. Top.j + 2 \in Nat \ {0}
    BY <1>2
  <2>2. QED BY <1>1, <1>2, <1>5, <2>1, TryKeyKeeps
<1>6. QED BY <1>4, <1>5 DEF CaseKey

LEMMA ExecLoopKeeps ==
    ASSUME IInv, ExecLoop
    PROVE  IInv'
<1>1. ctl.at = "exec" /\ Entered.op \in Loops /\ Flags(FALSE, FALSE)
  BY DEF ExecLoop
<1>2. ctl.nd \in Ids(code) /\ code \in Codes
  BY <1>1, ExecFacts
<1>3. frames' \in Seq(Frames) /\ Len(frames') = Len(frames)
  BY <1>1, FlagsWritten
<1>4. EnvKept
  BY <1>3 DEF EnvKept, ExecLoop, IInv, EnvOK
<1>5. Entered.kids \in {1, 2}
  BY <1>1, <1>2, ArityFacts DEF Loops, Entered
<1>6. 1 \in 1 .. Entered.kids
  BY <1>5
<1>7. "head" \in Phases /\ Entered.op \notin Strict /\ Entered.op # "CASE"
  BY <1>1 DEF Phases, Loops, Strict
<1>8. Enter(1, "head") \/ EnterFresh(1, "head")
  BY DEF ExecLoop
<1>9. QED BY <1>1, <1>4, <1>6, <1>7, <1>8, EnterDone

LEMMA LoopFacts ==
    ASSUME IInv, InLoop, code' = code, gens' = gens, depth' = depth, glob' = glob, retval' = retval
    PROVE  /\ k # <<>> /\ Top.ph # "call" /\ Owner.op \notin Strict /\ Owner.op # "CASE"
           /\ Owner.kids \in {1, 2} /\ Top.loop_break \in BOOLEAN /\ Top.loop_next \in BOOLEAN
           /\ frames' = frames => EnvKept
           /\ \A b \in BOOLEAN, n \in BOOLEAN : Flags(b, n) => EnvKept
<1>1. ctl.at = "back" /\ k # <<>> /\ Owner.op \in Loops
  BY DEF InLoop
<1>2. Owner.op \notin Strict /\ Owner.op # "CASE" /\ Owner.op # "CALL"
  BY <1>1 DEF Loops, Strict
<1>3. Top.ph # "call"
  BY <1>1, <1>2, BackFacts
<1>4. Top.nd \in Ids(code) /\ code \in Codes /\ Top.loop_break \in BOOLEAN /\ Top.loop_next \in BOOLEAN
  BY <1>1, TopKnown
<1>5. Owner.kids \in {1, 2}
  BY <1>1, <1>4, ArityFacts DEF Loops, Owner
<1>6. frames' = frames => EnvKept
  BY DEF EnvKept, IInv, EnvOK
<1>7. ASSUME NEW b \in BOOLEAN, NEW n \in BOOLEAN, Flags(b, n) PROVE EnvKept
  <2>1. frames' \in Seq(Frames) /\ Len(frames') = Len(frames)
    BY <1>7, FlagsWritten
  <2>2. QED BY <2>1 DEF EnvKept, IInv, EnvOK
<1>8. QED BY <1>1, <1>2, <1>3, <1>4, <1>5, <1>6, <1>7

LEMMA LoopKeeps ==
    ASSUME IInv, LoopHead \/ LoopBody
    PROVE  IInv'
<1>1. InLoop /\ code' = code /\ gens' = gens /\ depth' = depth /\ glob' = glob /\ retval' = retval
  BY DEF LoopHead, LoopBody
<1>2. /\ k # <<>> /\ Top.ph # "call" /\ Owner.op \notin Strict /\ Owner.op # "CASE"
      /\ Owner.kids \in {1, 2} /\ Top.loop_break \in BOOLEAN /\ Top.loop_next \in BOOLEAN
      /\ frames' = frames => EnvKept
      /\ \A b \in BOOLEAN, n \in BOOLEAN : Flags(b, n) => EnvKept
  BY <1>1, LoopFacts
<1>3. FRAME.loop_break \in BOOLEAN
  BY EnvFacts
<1>4. 1 \in 1 .. Owner.kids /\ (Owner.kids > 1 => 2 \in 1 .. Owner.kids)
  BY <1>2
<1>5. "head" \in Phases /\ "body" \in Phases
  BY DEF Phases
<1>6. CASE LoopEnds
  <2>1. EnvKept /\ Give(NULVCL)
    BY <1>2, <1>6 DEF LoopEnds
  <2>2. QED BY <1>2, <2>1, GiveDone, ValueFacts
<1>7. CASE Flags(FRAME.loop_break, FALSE) /\ (Ask(1, "head") \/ AskFresh(1, "head"))
  <2>1. EnvKept
    BY <1>2, <1>3, <1>7
  <2>2. QED BY <1>2, <1>4, <1>5, <1>7, <2>1, AskDone
<1>8. CASE Owner.kids > 1 /\ AskFresh(2, "body") /\ frames' = frames
  BY <1>2, <1>4, <1>5, <1>8, AskDone
<1>9. Again => LoopEnds \/ (Flags(FRAME.loop_break, FALSE) /\ (Ask(1, "head") \/ AskFresh(1, "head")))
  BY DEF Again
<1>10. \/ LoopEnds \/ Again
       \/ Owner.kids > 1 /\ AskFresh(2, "body") /\ frames' = frames
  BY DEF LoopHead, LoopBody
<1>11. QED BY <1>6, <1>7, <1>8, <1>9, <1>10
-----------------------------------------------------------------------------
(* Generators of values.                                                   *)

\* The node holds r; the generator it keeps is the one it kept.
Becomes(id, r) == m' = [m EXCEPT ![id] = r]

LEMMA Rewritten ==
    ASSUME IInv, NEW id \in Ids(code), id[1] = Now(code, k), code.at[id].op # "CALL",
           NEW r, r \in Cells, r.gen = m[id].gen,
           code.at[id].op = "ALT" /\ r.st = 1 => r.cnt \in 1 .. code.at[id].kids,
           Becomes(id, r)
    PROVE  Within(code, m, m', Now(code, k))
<1>1. MemOK(code, m) /\ m \in [Ids(code) -> Cells] /\ m[id] \in Cells
  BY DEF IInv, NodesOK, MemOK
<1>2. m' = [m EXCEPT ![id] = r]
  BY DEF Becomes
<1>3. m'[id] = r /\ OneCell(code, m, id, m')
  BY <1>1, <1>2 DEF OneCell
<1>4. m'[id].gen = m[id].gen /\ (m'[id].st = 1 => m[id].st = 1 \/ code.at[id].op # "CALL")
      /\ (code.at[id].op = "ALT" /\ m'[id].st = 1 => m'[id].cnt \in 1 .. code.at[id].kids)
  BY <1>3
<1>5. Within(code, m, m', id[1])
  BY <1>1, <1>3, <1>4, CellWritten
<1>6. QED BY <1>5

\* The counter of a `to', with the bounds it has or new ones.
Counted(a, v, s, n)         == [a EXCEPT !.val = v, !.st = s, !.cnt = n]
Bounded(a, lo, hi, v, s, n) == [a EXCEPT !.lo = lo, !.hi = hi, !.val = v, !.st = s, !.cnt = n]
Placed(a, n)                == [a EXCEPT !.st = 1, !.cnt = n]
Seeded(a, lo, hi, n)        == [a EXCEPT !.lo = lo, !.hi = hi, !.st = 1, !.cnt = n]

LEMMA Counts ==
    ASSUME IInv, NEW id \in Ids(code), id[1] = Now(code, k), code.at[id].op = "TO",
           NEW lo \in Int, NEW hi \in Int, NEW n \in Int, NEW h \in Int, NEW mem,
           mem = m \/ mem = [m EXCEPT ![id].lo = lo, ![id].hi = hi],
           CountFrom(id, mem, n, h)
    PROVE  Within(code, m, m', Now(code, k))
<1>1. m \in [Ids(code) -> Cells] /\ m[id] \in Cells
  BY DEF IInv, NodesOK, MemOK
<1>2. PICK v \in Values, s \in {0, 1} : m' = [mem EXCEPT ![id].val = v, ![id].st = s, ![id].cnt = n]
  BY ValueFacts DEF CountFrom
<1>3. CASE mem = m
  <2> DEFINE a == m[id]
             r == Counted(a, v, s, n)
  <2>1. Becomes(id, r)
    BY <1>1, <1>2, <1>3 DEF Becomes, Counted
  <2>2. r \in Cells /\ r.gen = a.gen
    <3>1. a \in Cells
      BY <1>1
    <3> HIDE DEF a
    <3>2. QED BY <3>1 DEF Counted, Cells
  <2> HIDE DEF r
  <2>3. QED BY <2>1, <2>2, Rewritten
<1>4. CASE mem = [m EXCEPT ![id].lo = lo, ![id].hi = hi]
  <2> DEFINE a == m[id]
             r == Bounded(a, lo, hi, v, s, n)
  <2>1. Becomes(id, r)
    BY <1>1, <1>2, <1>4 DEF Becomes, Bounded
  <2>2. r \in Cells /\ r.gen = a.gen
    <3>1. a \in Cells
      BY <1>1
    <3> HIDE DEF a
    <3>2. QED BY <3>1 DEF Bounded, Cells
  <2> HIDE DEF r
  <2>3. QED BY <2>1, <2>2, Rewritten
<1>5. QED BY <1>3, <1>4

LEMMA PlacedIn ==
    ASSUME IInv, NEW id \in Ids(code), id[1] = Now(code, k), code.at[id].op = "TO", NEW n \in Int, NEW lo \in Int, NEW hi \in Int,
           \/ m' = [m EXCEPT ![id].st = 1, ![id].cnt = n]
           \/ m' = [[m EXCEPT ![id].lo = lo, ![id].hi = hi] EXCEPT ![id].st = 1, ![id].cnt = n]
    PROVE  Within(code, m, m', Now(code, k))
<1>1. m \in [Ids(code) -> Cells] /\ m[id] \in Cells
  BY DEF IInv, NodesOK, MemOK
<1>2. Becomes(id, Placed(m[id], n)) \/ Becomes(id, Seeded(m[id], lo, hi, n))
  BY <1>1 DEF Becomes, Placed, Seeded
<1>3. PICK r \in {Placed(m[id], n), Seeded(m[id], lo, hi, n)} : Becomes(id, r)
  BY <1>2
<1>4. Placed(m[id], n) \in Cells /\ Placed(m[id], n).gen = m[id].gen
      /\ Seeded(m[id], lo, hi, n) \in Cells /\ Seeded(m[id], lo, hi, n).gen = m[id].gen
  <2> DEFINE a == m[id]
  <2>1. a \in Cells
    BY <1>1
  <2> HIDE DEF a
  <2>2. Placed(a, n) \in Cells /\ Placed(a, n).gen = a.gen
    BY <2>1 DEF Placed, Cells
  <2>3. Seeded(a, lo, hi, n) \in Cells /\ Seeded(a, lo, hi, n).gen = a.gen
    BY <2>1 DEF Seeded, Cells
  <2>4. QED BY <2>2, <2>3 DEF a
<1>5. r \in Cells /\ r.gen = m[id].gen
  BY <1>3, <1>4
<1>6. QED BY <1>3, <1>5, Rewritten

LEMMA ExecToKeeps ==
    ASSUME IInv, ExecTo
    PROVE  IInv'
<1> DEFINE n == IF Here.st = 0 THEN Here.lo ELSE Here.cnt + 1
<1>1. EnvKept /\ Entering("TO")
  BY EnvUntouched DEF ExecTo
<1>2. /\ ctl.at = "exec" /\ Entered.op = "TO" /\ ctl.nd \in Ids(code) /\ code \in Codes /\ MemOK(code, m)
      /\ ctl.nd[1] = Now(code, k) /\ Here \in Cells /\ Entered.op \notin Strict
  BY <1>1, EnteringFacts DEF Strict
<1>3. Entered.kids \in {0, 2} /\ (Entered.kids > 0 => 1 \in 1 .. Entered.kids /\ 2 \in 1 .. Entered.kids)
  <2>1. Entered.kids \in {0, 2}
    BY <1>2, ArityFacts DEF Entered
  <2>2. QED BY <2>1
<1>4. Here.val \in Values /\ Here.cnt \in Int /\ Here.lo \in Int /\ Here.hi \in Int /\ n \in Int
  BY <1>2 DEF Cells
<1>5. CASE Entered.kids > 0 /\ Enter(1, "seed")
  <2>1. "seed" \in Phases
    BY DEF Phases
  <2>2. QED BY <1>1, <1>2, <1>3, <1>5, <2>1, EnterDone
<1>6. ASSUME NEW j \in {1, 2}, NEW ph \in Phases, Entered.kids > 0,
             m' = [m EXCEPT ![ctl.nd].st = 1, ![ctl.nd].cnt = n],
             k' = Append(k, Activity(j, ph)), Exec(Operand(j))
      PROVE  IInv'
  <2> HIDE DEF n
  <2>2. Within(code, m, m', Now(code, k))
    BY <1>2, <1>4, <1>6, PlacedIn DEF Entered
  <2>3. PutOn(k, Activity(j, ph), k') /\ j \in 1 .. Entered.kids
    BY <1>3, <1>6 DEF PutOn
  <2>4. QED BY <1>1, <1>2, <1>6, <2>2, <2>3, Entered1
<1>7. CASE CountFrom(ctl.nd, m, n, Here.hi) /\ Go("back") /\ UNCHANGED k
  <2>1. Within(code, m, m', Now(code, k))
    BY <1>2, <1>4, <1>7, Counts DEF Entered
  <2>2. QED BY <1>1, <1>2, <1>7, <2>1, LeafStep
<1>8. "hi" \in Phases /\ "lo" \in Phases
  BY DEF Phases
<1>9. \/ Entered.kids > 0 /\ Enter(1, "seed")
      \/ \E j \in {1, 2}, ph \in {"hi", "lo"} :
            /\ Entered.kids > 0 /\ m' = [m EXCEPT ![ctl.nd].st = 1, ![ctl.nd].cnt = n]
            /\ k' = Append(k, Activity(j, ph)) /\ Exec(Operand(j))
      \/ CountFrom(ctl.nd, m, n, Here.hi) /\ Go("back") /\ UNCHANGED k
  BY DEF ExecTo
<1>10. QED BY <1>5, <1>6, <1>7, <1>8, <1>9

\* What is known where a `to' has an operand's result.
LEMMA ToFacts ==
    ASSUME IInv, In("TO")
    PROVE  /\ ctl.at = "back" /\ k # <<>> /\ Owner.op = "TO" /\ Owner.op \notin Strict /\ Top.ph # "call"
           /\ Top \in Acts(code) /\ Top.nd \in Ids(code) /\ Top.nd[1] = Now(code, k) /\ code.at[Top.nd].op = "TO"
           /\ MemOK(code, m) /\ Self \in Cells /\ Self.lo \in Int /\ Self.hi \in Int /\ Self.val \in Values
           /\ 1 \in 1 .. Owner.kids /\ 2 \in 1 .. Owner.kids
           /\ Val(1).n \in Int /\ Val(2).n \in Int /\ Got.n \in Int
<1>1. /\ ctl.at = "back" /\ k # <<>> /\ Owner.op = "TO" /\ Owner.op \notin Strict /\ Top.ph # "call"
      /\ Top \in Acts(code) /\ Top.nd \in Ids(code) /\ Top.nd[1] = Now(code, k) /\ code.at[Top.nd].op = "TO"
      /\ MemOK(code, m) /\ Self \in Cells /\ Got \in Values /\ Top.j \in 1 .. Owner.kids /\ code \in Codes
  BY InFacts DEF Strict, Self, Owner
<1>2. Owner.kids = 2
  <2>1. Owner.kids \in {0, 2}
    BY <1>1, ArityFacts DEF Owner
  <2>2. QED BY <1>1, <2>1
<1>3. 1 \in 1 .. Owner.kids /\ 2 \in 1 .. Owner.kids
  BY <1>2
<1>4. Val(1) \in Values /\ Val(2) \in Values
  BY <1>1, <1>3, ChildFacts
<1>5. Self.lo \in Int /\ Self.hi \in Int /\ Self.val \in Values
  BY <1>1 DEF Cells
<1>6. QED BY <1>1, <1>3, <1>4, <1>5, ValueFacts

LEMMA ToSeedKeeps ==
    ASSUME IInv, ToSeed
    PROVE  IInv'
<1> DEFINE lo == Val(1).n
           hi == Val(2).n
           mem == Bounds(lo, hi)
<1>1. EnvKept /\ In("TO")
  BY EnvUntouched DEF ToSeed
<1>2. /\ ctl.at = "back" /\ k # <<>> /\ Owner.op = "TO" /\ Owner.op \notin Strict /\ Top.ph # "call"
      /\ Top \in Acts(code) /\ Top.nd \in Ids(code) /\ Top.nd[1] = Now(code, k) /\ code.at[Top.nd].op = "TO"
      /\ MemOK(code, m) /\ Self \in Cells /\ Self.lo \in Int /\ Self.hi \in Int /\ Self.val \in Values
      /\ 1 \in 1 .. Owner.kids /\ 2 \in 1 .. Owner.kids
      /\ Val(1).n \in Int /\ Val(2).n \in Int /\ Got.n \in Int
  BY <1>1, ToFacts
<1>3. "seed" \in Phases /\ "hi" \in Phases /\ "lo" \in Phases
  BY DEF Phases
<1>4. CASE Give(FAIL)
  BY <1>1, <1>2, <1>4, GiveDone, ValueFacts
<1>5. CASE Ask(2, "seed")
  BY <1>1, <1>2, <1>3, <1>5, AskDone
<1>6. ASSUME NEW j \in {1, 2}, NEW ph \in {"hi", "lo"},
             m' = [mem EXCEPT ![Top.nd].st = 1, ![Top.nd].cnt = lo],
             SetTop([Top EXCEPT !.j = j, !.ph = ph]), Exec(Child(j))
      PROVE  IInv'
  <2>1. m' = [[m EXCEPT ![Top.nd].lo = lo, ![Top.nd].hi = hi] EXCEPT ![Top.nd].st = 1, ![Top.nd].cnt = lo]
    BY <1>6 DEF Bounds
  <2>2. Within(code, m, m', Now(code, k))
    BY <1>2, <2>1, PlacedIn
  <2>3. SetTop(Moved(Top, j, ph)) /\ j \in 1 .. Owner.kids /\ j \in Nat /\ ph \in Phases
    BY <1>2, <1>3, <1>6 DEF Moved
  <2>4. Moved(Top, j, ph) \in Acts(code) /\ Moved(Top, j, ph).nd = Top.nd /\ Moved(Top, j, ph).j = j /\ Moved(Top, j, ph).ph = ph
    BY <1>2, <2>3, ActChanged
  <2>5. QED BY <1>1, <1>2, <1>6, <2>2, <2>3, <2>4, Asked1
<1>7. CASE CountFrom(Top.nd, mem, lo, hi) /\ Pop /\ Go("back")
  <2>1. mem = [m EXCEPT ![Top.nd].lo = lo, ![Top.nd].hi = hi]
    BY DEF Bounds
  <2> HIDE DEF mem
  <2>2. Within(code, m, m', Now(code, k))
    BY <1>2, <1>7, <2>1, Counts
  <2>3. QED BY <1>1, <1>2, <1>7, <2>2, GiveStep
<1>8. \/ Give(FAIL) \/ Ask(2, "seed")
      \/ \E j \in {1, 2}, ph \in {"hi", "lo"} :
            /\ m' = [mem EXCEPT ![Top.nd].st = 1, ![Top.nd].cnt = lo]
            /\ SetTop([Top EXCEPT !.j = j, !.ph = ph]) /\ Exec(Child(j))
      \/ CountFrom(Top.nd, mem, lo, hi) /\ Pop /\ Go("back")
  BY DEF ToSeed
<1>9. QED BY <1>4, <1>5, <1>6, <1>7, <1>8

LEMMA ToNextKeeps ==
    ASSUME IInv, ToNext
    PROVE  IInv'
<1>1. EnvKept /\ In("TO")
  BY EnvUntouched DEF ToNext
<1>2. /\ ctl.at = "back" /\ k # <<>> /\ Owner.op = "TO" /\ Owner.op \notin Strict /\ Top.ph # "call"
      /\ Top \in Acts(code) /\ Top.nd \in Ids(code) /\ Top.nd[1] = Now(code, k) /\ code.at[Top.nd].op = "TO"
      /\ MemOK(code, m) /\ Self \in Cells /\ Self.lo \in Int /\ Self.hi \in Int /\ Self.val \in Values
      /\ 1 \in 1 .. Owner.kids /\ 2 \in 1 .. Owner.kids
      /\ Val(1).n \in Int /\ Val(2).n \in Int /\ Got.n \in Int
  BY <1>1, ToFacts
<1>3. "both" \in Phases /\ "hiboth" \in Phases /\ 0 \in {0, 1}
  BY DEF Phases
<1>4. CASE Ask(1, "both")
  BY <1>1, <1>2, <1>3, <1>4, AskDone
<1>5. CASE Done(FAIL, 0)
  BY <1>1, <1>2, <1>3, <1>5, DoneDone, ValueFacts
<1>6. CASE AskFresh(2, "hiboth")
  BY <1>1, <1>2, <1>3, <1>6, AskDone
<1>7. ASSUME NEW lo \in Int, NEW hi \in Int, CountFrom(Top.nd, Bounds(lo, hi), lo, hi), Pop, Go("back")
      PROVE  IInv'
  <2> DEFINE mem == Bounds(lo, hi)
  <2>1. mem = [m EXCEPT ![Top.nd].lo = lo, ![Top.nd].hi = hi] /\ CountFrom(Top.nd, mem, lo, hi)
    BY <1>7 DEF Bounds
  <2> HIDE DEF mem
  <2>2. Within(code, m, m', Now(code, k))
    BY <1>2, <2>1, Counts
  <2>3. QED BY <1>1, <1>2, <1>7, <2>2, GiveStep
<1>8. \/ Ask(1, "both") \/ Done(FAIL, 0) \/ AskFresh(2, "hiboth")
      \/ \E lo, hi \in Int : CountFrom(Top.nd, Bounds(lo, hi), lo, hi) /\ Pop /\ Go("back")
  BY <1>2 DEF ToNext
<1>9. QED BY <1>4, <1>5, <1>6, <1>7, <1>8
LEMMA ExecToByKeeps ==
    ASSUME IInv, ExecToBy
    PROVE  IInv'
<1>1. EnvKept /\ Entering("TO_BY")
  BY EnvUntouched DEF ExecToBy
<1>2. ctl.at = "exec" /\ Entered.op = "TO_BY" /\ ctl.nd \in Ids(code) /\ code \in Codes /\ Entered.op \notin Strict
  BY <1>1, EnteringFacts DEF Strict
<1>3. Entered.kids = 3
  BY <1>2, ArityFacts DEF Entered
<1>4. 1 \in 1 .. Entered.kids /\ 2 \in 1 .. Entered.kids /\ "from" \in Phases /\ "to" \in Phases
  BY <1>3 DEF Phases
<1>5. Enter(1, "from") \/ Enter(2, "to")
  BY DEF ExecToBy
<1>6. QED BY <1>1, <1>2, <1>4, <1>5, EnterDone

LEMMA ToByStepKeeps ==
    ASSUME IInv, ToByStep
    PROVE  IInv'
<1> DEFINE id == Top.nd
           by == IF Got.n = 0 THEN 1 ELSE Got.n
<1>1. EnvKept /\ In("TO_BY")
  BY EnvUntouched DEF ToByStep
<1>2. /\ k # <<>> /\ Owner.op = "TO_BY" /\ Owner.op \notin Strict /\ Top.ph # "call"
      /\ Top \in Acts(code) /\ id \in Ids(code) /\ id[1] = Now(code, k) /\ code.at[id].op = "TO_BY"
      /\ MemOK(code, m) /\ Self \in Cells /\ Got \in Values /\ code \in Codes
  BY <1>1, InFacts DEF Strict, Self, Owner
<1>3. Owner.kids = 3
  BY <1>2, ArityFacts DEF Owner
<1>4. 1 \in 1 .. Owner.kids /\ 2 \in 1 .. Owner.kids /\ 3 \in 1 .. Owner.kids
  BY <1>3
<1>5. Val(1).n \in Int /\ by \in Int /\ Self.cnt \in Int /\ Self.lo \in Int
  <2>1. Val(1) \in Values
    BY <1>2, <1>4, ChildFacts
  <2>2. QED BY <1>2, <2>1, ValueFacts DEF Cells
<1>6. "by" \in Phases /\ "to" \in Phases /\ 0 \in {0, 1}
  BY DEF Phases
<1>7. CASE Ask(3, "by")
  BY <1>1, <1>2, <1>4, <1>6, <1>7, AskDone
<1>8. CASE /\ m' = [m EXCEPT ![id].cnt = Val(1).n, ![id].lo = by, ![id].st = 1]
           /\ SetTop([Top EXCEPT !.j = 2, !.ph = "to"]) /\ Exec(Child(2))
  <2> DEFINE n == Val(1).n
             a == Self
             r == [a EXCEPT !.cnt = n, !.lo = by, !.st = 1]
  <2>1. Becomes(id, r)
    <3>1. m \in [Ids(code) -> Cells]
      BY <1>2 DEF MemOK
    <3>2. QED BY <1>2, <1>8, <3>1 DEF Becomes, Self
  <2>2. r \in Cells /\ r.gen = a.gen
    <3>1. a \in Cells /\ n \in Int /\ by \in Int
      BY <1>2, <1>5
    <3> HIDE DEF a, n, by
    <3>2. QED BY <3>1 DEF Cells
  <2> HIDE DEF r
  <2>3. Within(code, m, m', Now(code, k))
    BY <1>2, <2>1, <2>2, Rewritten DEF Self
  <2>4. SetTop(Moved(Top, 2, "to")) /\ 2 \in Nat
    BY <1>8 DEF Moved
  <2>5. Moved(Top, 2, "to") \in Acts(code) /\ Moved(Top, 2, "to").nd = Top.nd /\ Moved(Top, 2, "to").j = 2 /\ Moved(Top, 2, "to").ph = "to"
    BY <1>2, <1>6, <2>4, ActChanged
  <2>6. QED BY <1>1, <1>2, <1>4, <1>6, <1>8, <2>3, <2>4, <2>5, Asked1
<1>9. CASE Done(FAIL, 0)
  BY <1>1, <1>2, <1>6, <1>9, DoneDone, ValueFacts
<1>10. CASE m' = [m EXCEPT ![id].val = INTVAL(Self.cnt), ![id].cnt = @ + Self.lo] /\ Pop /\ Go("back")
  <2> DEFINE a == Self
             v == INTVAL(a.cnt)
             n == a.cnt + a.lo
             r == [a EXCEPT !.val = v, !.cnt = n]
  <2>1. Becomes(id, r)
    <3>1. m \in [Ids(code) -> Cells]
      BY <1>2 DEF MemOK
    <3>2. QED BY <1>2, <1>10, <3>1 DEF Becomes, Self
  <2>2. r \in Cells /\ r.gen = a.gen
    <3>1. a \in Cells /\ n \in Int /\ v \in Values
      BY <1>2, <1>5, ValueFacts
    <3> HIDE DEF a, n, v
    <3>2. QED BY <3>1 DEF Cells
  <2> HIDE DEF r
  <2>3. Within(code, m, m', Now(code, k))
    BY <1>2, <2>1, <2>2, Rewritten DEF Self
  <2>4. QED BY <1>1, <1>2, <1>10, <2>3, GiveStep
<1>11. QED BY <1>7, <1>8, <1>9, <1>10 DEF ToByStep

LEMMA ExecLimitKeeps ==
    ASSUME IInv, ExecLimit
    PROVE  IInv'
<1>1. EnvKept /\ Entering("LIMIT")
  BY EnvUntouched DEF ExecLimit
<1>2. ctl.at = "exec" /\ Entered.op = "LIMIT" /\ ctl.nd \in Ids(code) /\ code \in Codes /\ Entered.op \notin Strict
  BY <1>1, EnteringFacts DEF Strict
<1>3. Entered.kids = 2
  BY <1>2, ArityFacts DEF Entered
<1>4. 1 \in 1 .. Entered.kids /\ 2 \in 1 .. Entered.kids /\ "max" \in Phases /\ "pump" \in Phases
  BY <1>3 DEF Phases
<1>5. CASE Enter(2, "max")
  BY <1>1, <1>2, <1>4, <1>5, EnterDone
<1>6. CASE Enter(1, "pump")
  BY <1>1, <1>2, <1>4, <1>6, EnterDone
<1>7. CASE Over
  BY <1>1, <1>2, <1>7, OverDone
<1>8. QED BY <1>5, <1>6, <1>7 DEF ExecLimit

LEMMA LimitMaxKeeps ==
    ASSUME IInv, LimitMax
    PROVE  IInv'
<1> DEFINE id == Top.nd
<1>1. EnvKept /\ In("LIMIT")
  BY EnvUntouched DEF LimitMax
<1>2. /\ k # <<>> /\ Owner.op = "LIMIT" /\ Owner.op \notin Strict /\ Top.ph # "call"
      /\ Top \in Acts(code) /\ id \in Ids(code) /\ id[1] = Now(code, k) /\ code.at[id].op = "LIMIT"
      /\ MemOK(code, m) /\ Self \in Cells /\ Got \in Values /\ code \in Codes
  BY <1>1, InFacts DEF Strict, Self, Owner
<1>3. Owner.kids = 2
  BY <1>2, ArityFacts DEF Owner
<1>4. 1 \in 1 .. Owner.kids /\ "pump" \in Phases /\ Got.n \in Int
  BY <1>2, <1>3, ValueFacts DEF Phases
<1>5. CASE Give(FAIL)
  BY <1>1, <1>2, <1>5, GiveDone, ValueFacts
<1>6. CASE /\ m' = [m EXCEPT ![id].lo = Got.n, ![id].cnt = 0, ![id].st = 1, ![Child(1)].st = 0]
           /\ SetTop([Top EXCEPT !.j = 1, !.ph = "pump"]) /\ Exec(Child(1))
  <2> DEFINE a == Self
             n == Got.n
             zero == 0
             r == [a EXCEPT !.lo = n, !.cnt = zero, !.st = 1]
             mid == [m EXCEPT ![id] = r]
  <2>1. m \in [Ids(code) -> Cells] /\ Child(1) \in Ids(code) /\ Child(1)[1] = id[1]
    BY <1>2, <1>4, ChildFacts DEF MemOK
  <2>2. m' = [mid EXCEPT ![Child(1)].st = 0]
    BY <1>2, <1>6, <2>1 DEF Self
  <2>3. r \in Cells /\ r.gen = a.gen
    <3>1. a \in Cells /\ n \in Int /\ zero \in Int
      BY <1>2, <1>4
    <3> HIDE DEF a, n, zero
    <3>2. QED BY <3>1 DEF Cells
  <2> HIDE DEF r
  <2>4. mid[id] = r /\ OneCell(code, m, id, mid)
    BY <1>2, <2>1, <2>3 DEF OneCell
  <2>5. Cleared(mid, Child(1), m')
    BY <2>2 DEF Cleared
  <2> HIDE DEF mid
  <2>6. Within(code, m, mid, id[1])
    <3>1. mid[id].gen = m[id].gen /\ (mid[id].st = 1 => m[id].st = 1 \/ code.at[id].op # "CALL")
          /\ (code.at[id].op = "ALT" /\ mid[id].st = 1 => mid[id].cnt \in 1 .. code.at[id].kids)
      BY <1>2, <2>3, <2>4 DEF Self
    <3>2. QED BY <1>2, <2>4, <3>1, CellWritten
  <2>7. Within(code, mid, m', id[1])
    <3>1. MemOK(code, mid)
      BY <2>6 DEF Within
    <3>2. Within(code, mid, m', Child(1)[1])
      BY <2>1, <2>5, <3>1, StateCleared
    <3>3. QED BY <3>2, <2>1
  <2>8. Within(code, m, m', Now(code, k))
    BY <1>2, <2>6, <2>7, WithinTwice
  <2>9. SetTop(Moved(Top, 1, "pump")) /\ 1 \in Nat
    BY <1>6 DEF Moved
  <2>10. Moved(Top, 1, "pump") \in Acts(code) /\ Moved(Top, 1, "pump").nd = Top.nd /\ Moved(Top, 1, "pump").j = 1
         /\ Moved(Top, 1, "pump").ph = "pump"
    BY <1>2, <1>4, <2>9, ActChanged
  <2>11. QED BY <1>1, <1>2, <1>4, <1>6, <2>8, <2>9, <2>10, Asked1
<1>7. QED BY <1>5, <1>6 DEF LimitMax

LEMMA LimitPumpKeeps ==
    ASSUME IInv, LimitPump
    PROVE  IInv'
<1> DEFINE id == Top.nd
<1>1. EnvKept /\ In("LIMIT")
  BY EnvUntouched DEF LimitPump
<1>2. /\ k # <<>> /\ Owner.op = "LIMIT" /\ Owner.op \notin Strict /\ Top.ph # "call"
      /\ id \in Ids(code) /\ id[1] = Now(code, k) /\ code.at[id].op = "LIMIT"
      /\ MemOK(code, m) /\ Self \in Cells /\ Got \in Values /\ 0 \in {0, 1}
  BY <1>1, InFacts DEF Strict, Self, Owner
<1>3. CASE Done(FAIL, 0)
  BY <1>1, <1>2, <1>3, DoneDone, ValueFacts
<1>4. CASE m' = [m EXCEPT ![id].val = Got, ![id].cnt = @ + 1] /\ Pop /\ Go("back")
  <2> DEFINE a == Self
             v == Got
             n == a.cnt + 1
             r == [a EXCEPT !.val = v, !.cnt = n]
  <2>1. Becomes(id, r)
    <3>1. m \in [Ids(code) -> Cells]
      BY <1>2 DEF MemOK
    <3>2. QED BY <1>2, <1>4, <3>1 DEF Becomes, Self
  <2>2. r \in Cells /\ r.gen = a.gen
    <3>1. a \in Cells /\ n \in Int /\ v \in Values
      BY <1>2 DEF Cells
    <3> HIDE DEF a, n, v
    <3>2. QED BY <3>1 DEF Cells
  <2> HIDE DEF r
  <2>3. Within(code, m, m', Now(code, k))
    BY <1>2, <2>1, <2>2, Rewritten DEF Self
  <2>4. QED BY <1>1, <1>2, <1>4, <2>3, GiveStep
<1>5. QED BY <1>3, <1>4 DEF LimitPump
LEMMA ExecAltKeeps ==
    ASSUME IInv, ExecAlt
    PROVE  IInv'
<1> DEFINE i == Here.cnt
<1>1. EnvKept /\ Entering("ALT")
  BY EnvUntouched DEF ExecAlt
<1>2. /\ ctl.at = "exec" /\ Entered.op = "ALT" /\ ctl.nd \in Ids(code) /\ code \in Codes /\ Entered.op \notin Strict
      /\ CellOK(Here, Entered) /\ Here.st \in {0, 1} /\ Entered.kids \in Nat /\ "" \in Phases /\ Entered.op # "CASE"
  <2>1. /\ ctl.at = "exec" /\ Entered.op = "ALT" /\ ctl.nd \in Ids(code) /\ code \in Codes
        /\ CellOK(Here, Entered) /\ Here.st \in {0, 1} /\ Entered.kids \in Nat
    BY <1>1, EnteringFacts
  <2>2. Entered.op \notin Strict /\ Entered.op # "CASE"
    BY <2>1 DEF Strict
  <2>3. QED BY <2>1, <2>2, PhaseFacts
<1>3. Entered.kids > 0
  BY <1>2, ArityFacts DEF Entered
<1>4. Here.st # 0 => i \in 1 .. Entered.kids
  BY <1>2 DEF CellOK
<1>5. CASE EnterFresh(1, "")
  <2>1. 1 \in 1 .. Entered.kids
    <3> DEFINE n == Entered.kids
    <3>1. n \in Nat /\ n > 0
      BY <1>2, <1>3
    <3> HIDE DEF n
    <3>2. 1 \in 1 .. n
      BY <3>1
    <3>3. QED BY <3>2 DEF n
  <2>2. QED BY <1>1, <1>2, <1>5, <2>1, EnterDone
<1>6. CASE Here.st # 0 /\ Enter(i, "")
  BY <1>1, <1>2, <1>4, <1>6, EnterDone
<1>7. CASE Here.st # 0 /\ i < Entered.kids /\ EnterFresh(i + 1, "")
  <2>1. i + 1 \in 1 .. Entered.kids
    <3> DEFINE n == Entered.kids
    <3>1. n \in Nat /\ i \in 1 .. n /\ i < n
      BY <1>2, <1>4, <1>7
    <3> HIDE DEF n, i
    <3>2. i + 1 \in 1 .. n
      BY <3>1
    <3>3. QED BY <3>2 DEF n
  <2>2. QED BY <1>1, <1>2, <1>7, <2>1, EnterDone
<1>8. CASE Over
  BY <1>1, <1>2, <1>8, OverDone
<1>9. QED BY <1>5, <1>6, <1>7, <1>8 DEF ExecAlt

LEMMA AltArmKeeps ==
    ASSUME IInv, AltArm
    PROVE  IInv'
<1> DEFINE id == Top.nd
<1>1. EnvKept /\ In("ALT")
  BY EnvUntouched DEF AltArm
<1>2. /\ k # <<>> /\ Owner.op = "ALT" /\ Owner.op \notin Strict /\ Top.ph # "call" /\ Owner.op # "CASE"
      /\ id \in Ids(code) /\ id[1] = Now(code, k) /\ code.at[id].op = "ALT" /\ Owner = code.at[id]
      /\ MemOK(code, m) /\ Self \in Cells /\ Got \in Values /\ 0 \in {0, 1} /\ Top.j \in 1 .. Owner.kids
      /\ Owner.kids \in Nat
  BY <1>1, InFacts DEF Strict, Self, Owner
<1>3. CASE m' = [m EXCEPT ![id].val = Got, ![id].cnt = Top.j, ![id].st = 1] /\ Pop /\ Go("back")
  <2> DEFINE a == Self
             v == Got
             n == Top.j
             r == [a EXCEPT !.val = v, !.cnt = n, !.st = 1]
  <2>1. Becomes(id, r)
    <3>1. m \in [Ids(code) -> Cells]
      BY <1>2 DEF MemOK
    <3>2. QED BY <1>2, <1>3, <3>1 DEF Becomes, Self
  <2>2. r \in Cells /\ r.gen = a.gen /\ r.cnt = n
    <3>1. a \in Cells /\ n \in Int /\ v \in Values
      BY <1>2
    <3> HIDE DEF a, n, v
    <3>2. QED BY <3>1 DEF Cells
  <2> HIDE DEF r
  <2>3. Within(code, m, m', Now(code, k))
    BY <1>2, <2>1, <2>2, Rewritten DEF Self
  <2>4. QED BY <1>1, <1>2, <1>3, <2>3, GiveStep
<1>4. CASE Top.j < Owner.kids /\ AskFresh(Top.j + 1, "")
  <2>1. Top.j + 1 \in 1 .. Owner.kids
    <3> DEFINE n == Owner.kids
               j == Top.j
    <3>1. n \in Nat /\ j \in 1 .. n /\ j < n
      BY <1>2, <1>4
    <3> HIDE DEF n, j
    <3>2. j + 1 \in 1 .. n
      BY <3>1
    <3>3. QED BY <3>2 DEF n, j
  <2>2. QED BY <1>1, <1>2, <1>4, <2>1, AskDone, PhaseFacts
<1>5. CASE Done(FAIL, 0)
  BY <1>1, <1>2, <1>5, DoneDone, ValueFacts
<1>6. QED BY <1>3, <1>4, <1>5 DEF AltArm

LEMMA ExecBinopGenKeeps ==
    ASSUME IInv, ExecBinopGen
    PROVE  IInv'
<1>1. EnvKept /\ Entering("BINOP_GEN")
  BY EnvUntouched DEF ExecBinopGen
<1>2. /\ ctl.at = "exec" /\ Entered.op = "BINOP_GEN" /\ ctl.nd \in Ids(code) /\ code \in Codes /\ Entered.op \notin Strict
      /\ MemOK(code, m) /\ ctl.nd[1] = Now(code, k)
  BY <1>1, EnteringFacts DEF Strict
<1>3. Entered.kids = 2
  BY <1>2, ArityFacts DEF Entered
<1>4. 1 \in 1 .. Entered.kids /\ 2 \in 1 .. Entered.kids /\ "first" \in Phases /\ "next" \in Phases
  BY <1>3 DEF Phases
<1>5. CASE /\ m' = [m EXCEPT ![Operand(1)].st = 0, ![Operand(2)].st = 0]
           /\ k' = Append(k, Activity(1, "first")) /\ Exec(Operand(1))
  <2> DEFINE mid == [m EXCEPT ![Operand(1)].st = 0]
  <2>1. Operand(1) \in Ids(code) /\ Operand(1)[1] = ctl.nd[1] /\ Operand(2) \in Ids(code) /\ Operand(2)[1] = ctl.nd[1]
    BY <1>2, <1>4, NodeFacts DEF Operand, Entered
  <2>2. Cleared(m, Operand(1), mid) /\ Cleared(mid, Operand(2), m')
    BY <1>5 DEF Cleared
  <2> HIDE DEF mid
  <2>3. Within(code, m, mid, ctl.nd[1])
    BY <1>2, <2>1, <2>2, StateCleared
  <2>4. MemOK(code, mid)
    BY <2>3 DEF Within
  <2>5. Within(code, mid, m', ctl.nd[1])
    BY <2>1, <2>2, <2>4, StateCleared
  <2>6. Within(code, m, m', Now(code, k))
    BY <1>2, <2>3, <2>5, WithinTwice
  <2>7. PutOn(k, Activity(1, "first"), k') /\ Exec(Operand(1))
    BY <1>5 DEF PutOn
  <2>8. QED BY <1>1, <1>2, <1>4, <2>6, <2>7, Entered1
<1>6. CASE Enter(2, "next")
  BY <1>1, <1>2, <1>4, <1>6, EnterDone
<1>7. CASE Enter(1, "next")
  BY <1>1, <1>2, <1>4, <1>7, EnterDone
<1>8. CASE Over
  BY <1>1, <1>2, <1>8, OverDone
<1>9. QED BY <1>5, <1>6, <1>7, <1>8 DEF ExecBinopGen

LEMMA BinopGenFacts ==
    ASSUME IInv, k # <<>>, Owner.op = "BINOP_GEN"
    PROVE  /\ Owner.op \notin Strict /\ Owner.op # "CASE" /\ Owner.kids = 2 /\ 1 \in 1 .. Owner.kids /\ 2 \in 1 .. Owner.kids
           /\ Top.nd \in Ids(code) /\ code.at[Top.nd].op = "BINOP_GEN" /\ Top \in Acts(code) /\ MemOK(code, m)
           /\ m[Top.nd] \in Cells /\ Top.j \in 0 .. Owner.kids /\ Val(1) \in Values /\ Val(2) \in Values
<1>1. Top.nd \in Ids(code) /\ code \in Codes /\ Top \in Acts(code) /\ MemOK(code, m) /\ m[Top.nd] \in Cells
      /\ Top.j \in Nat /\ Top.j <= Owner.kids
  BY TopKnown
<1>2. Owner.kids = 2
  BY <1>1, ArityFacts DEF Owner
<1>3. 1 \in 1 .. Owner.kids /\ 2 \in 1 .. Owner.kids /\ Top.j \in 0 .. Owner.kids
  BY <1>1, <1>2
<1>4. Val(1) \in Values /\ Val(2) \in Values
  BY <1>3, ChildFacts
<1>5. QED BY <1>1, <1>2, <1>3, <1>4 DEF Strict, Owner

LEMMA BinopOperandKeeps ==
    ASSUME IInv, BinopOperand
    PROVE  IInv'
<1> DEFINE id == Top.nd
<1>1. EnvKept /\ In("BINOP_GEN")
  BY EnvUntouched DEF BinopOperand
<1>2. k # <<>> /\ Owner.op = "BINOP_GEN" /\ Top.ph \notin {"call", "gen"} /\ id[1] = Now(code, k) /\ Waits(code, Top)
  BY <1>1, InFacts DEF Strict, Waits
<1>3. /\ Owner.op \notin Strict /\ Owner.op # "CASE" /\ 1 \in 1 .. Owner.kids /\ 2 \in 1 .. Owner.kids
      /\ id \in Ids(code) /\ code.at[id].op = "BINOP_GEN" /\ Top \in Acts(code) /\ MemOK(code, m)
      /\ m[id] \in Cells /\ Top.j \in 0 .. Owner.kids
  BY <1>2, BinopGenFacts
<1>4. Applies(code, Top)
  BY <1>2, <1>3 DEF Applies, Owner
<1>5. "first" \in Phases /\ "carry" \in Phases /\ "reread" \in Phases /\ 0 \in {0, 1}
  BY DEF Phases
<1>6. ASSUME NEW j \in {1, 2}, NEW ph \in {"first", "carry", "reread"}, Ask(j, ph) \/ AskFresh(j, ph)
      PROVE  IInv'
  BY <1>1, <1>2, <1>3, <1>5, <1>6, AskDone
<1>7. CASE Done(FAIL, 0)
  BY <1>1, <1>2, <1>3, <1>5, <1>7, DoneDone, ValueFacts
<1>8. CASE Go("apply") /\ k' = k /\ (m' = m \/ m' = [m EXCEPT ![id].st = 1])
  <2>1. CASE m' = m
    <3>1. Within(code, m, m', Now(code, k))
      BY <1>3, <2>1, WithinSame
    <3>2. SetTop(Top)
      BY <1>2, <1>8, SameTop
    <3>3. QED BY <1>1, <1>2, <1>3, <1>4, <1>8, <3>1, <3>2, ApplyStep
  <2>2. CASE m' = [m EXCEPT ![id].st = 1]
    <3> DEFINE a == m[id]
               r == [a EXCEPT !.st = 1]
    <3>1. Becomes(id, r)
      <4>1. m \in [Ids(code) -> Cells]
        BY <1>3 DEF MemOK
      <4>2. QED BY <1>3, <2>2, <4>1 DEF Becomes
    <3>2. r \in Cells /\ r.gen = a.gen
      <4>1. a \in Cells
        BY <1>3
      <4> HIDE DEF a
      <4>2. QED BY <4>1 DEF Cells
    <3> HIDE DEF r
    <3>3. Within(code, m, m', Now(code, k))
      BY <1>2, <1>3, <3>1, <3>2, Rewritten
    <3>4. SetTop(Top)
      BY <1>2, <1>8, SameTop
    <3>5. QED BY <1>1, <1>2, <1>3, <1>4, <1>8, <3>3, <3>4, ApplyStep
  <2>3. QED BY <1>8, <2>1, <2>2
<1>9. \/ Done(FAIL, 0)
      \/ \E j \in {1, 2}, ph \in {"first", "carry", "reread"} : Ask(j, ph) \/ AskFresh(j, ph)
      \/ Go("apply") /\ k' = k /\ (m' = m \/ m' = [m EXCEPT ![id].st = 1])
  BY DEF BinopOperand, Pair
<1>10. QED BY <1>6, <1>7, <1>8, <1>9

LEMMA ApplyBinopGenKeeps ==
    ASSUME IInv, ApplyBinopGen
    PROVE  IInv'
<1>1. EnvKept /\ ctl.at = "apply" /\ Owner.op = "BINOP_GEN"
  BY EnvUntouched DEF ApplyBinopGen, Applying
<1>2. k # <<>> /\ Top.ph # "call"
  BY <1>1, ApplyFacts
<1>3. /\ Owner.op \notin Strict /\ Owner.op # "CASE" /\ 1 \in 1 .. Owner.kids /\ 2 \in 1 .. Owner.kids
      /\ Val(1) \in Values /\ Val(2) \in Values
  BY <1>1, <1>2, BinopGenFacts
<1>4. "retry" \in Phases /\ 0 \in {0, 1}
  BY DEF Phases
<1>5. icn_binop_apply(Owner.x, Val(1), Val(2)) \in Values
  BY <1>3, BinopValue
<1>6. CASE Give(icn_binop_apply(Owner.x, Val(1), Val(2)))
  BY <1>1, <1>2, <1>5, <1>6, GiveDone
<1>7. CASE Ask(1, "retry") \/ Ask(2, "retry")
  <2>1. PICK j \in {1, 2} : Ask(j, "retry")
    BY <1>7
  <2>2. j \in 1 .. Owner.kids
    BY <1>3
  <2>3. QED BY <1>1, <1>2, <1>3, <1>4, <2>1, <2>2, AskDone
<1>8. CASE Done(FAIL, 0)
  BY <1>1, <1>2, <1>4, <1>8, <1>3, DoneDone, ValueFacts
<1>9. QED BY <1>6, <1>7, <1>8 DEF ApplyBinopGen
-----------------------------------------------------------------------------
(* Calls of procedures with a graph.                                       *)

LEMMA CallMade ==
    ASSUME NEW c, NEW s, Chain(c, s), HomeOK(c, s), s # <<>>, s[Len(s)].ph # "call",
           NEW a \in Acts(c), a.j <= c.at[a.nd].kids, a.nd = s[Len(s)].nd, a.ph = "call", NEW t, PutAt(s, a, t)
    PROVE  /\ Chain(c, t) /\ HomeOK(c, t) /\ Now(c, t) = Callee(c, a) /\ Now(c, s) = a.nd[1]
           /\ t # <<>> /\ Len(t) = Len(s) /\ Len(s) \in Nat /\ t[Len(s)] = a
           /\ CallsOf(t) = CallsOf(s) \cup {Len(s)} /\ Len(s) \notin CallsOf(s)
           /\ \A i \in CallsOf(s) : t[i] = s[i] /\ i < Len(s)
           /\ Settled(c, s, Len(s) - 1) => Settled(c, t, Len(t) - 1)
           /\ Settled(c, s, Len(s) - 1) /\ InCall(c, a) => Settled(c, t, Len(t))
<1>0. s \in Seq(Acts(c))
  BY DEF Chain
<1>1. t \in Seq(Acts(c)) /\ t # <<>> /\ Len(t) = Len(s) /\ Len(s) \in Nat \ {0}
      /\ t[Len(s)] = a /\ \A i \in 1 .. Len(s) - 1 : t[i] = s[i]
  BY <1>0, TopReplaced DEF PutAt
<1> DEFINE n == Len(s)
<1>2. n \in Nat \ {0} /\ Len(t) = n /\ t[n] = a /\ (\A i \in 1 .. n - 1 : t[i] = s[i]) /\ Len(s) = n
      /\ s[n].ph # "call" /\ a.nd = s[n].nd
  BY <1>1
<1> HIDE DEF n
<1>3. \A i \in 1 .. n : (i - 1 \in 1 .. n - 1 \/ i = 1) /\ (i \in 1 .. n - 1 \/ i = n)
  BY <1>2
<1>4. ASSUME NEW i \in 1 .. n PROVE Before(c, t, i) = Before(c, s, i)
  BY <1>2, <1>3 DEF Before
<1>5. Now(c, t) = Callee(c, a) /\ Now(c, s) = a.nd[1]
  <2>1. Now(c, t) = Runs(c, t[n]) /\ Now(c, s) = Runs(c, s[n])
    BY <1>2 DEF Now, Before
  <2>2. QED BY <2>1, <1>2 DEF Runs
<1>8. Chain(c, t)
  <2>1. ASSUME NEW i \in 1 .. n PROVE t[i].j <= c.at[t[i].nd].kids /\ t[i].nd[1] = Before(c, t, i)
    <3>2. s[i].j <= c.at[s[i].nd].kids /\ s[i].nd[1] = Before(c, s, i)
      BY <1>2 DEF Chain
    <3>3. QED BY <3>2, <1>2, <1>3, <1>4
  <2>4. QED BY <2>1, <1>1, <1>2 DEF Chain
<1>9. CallsOf(t) = CallsOf(s) \cup {n} /\ n \notin CallsOf(s) /\ \A i \in CallsOf(s) : t[i] = s[i] /\ i < n /\ i \in 1 .. n - 1
  <2>1. CallsOf(s) = {i \in 1 .. n : s[i].ph = "call"} /\ CallsOf(t) = {i \in 1 .. n : t[i].ph = "call"}
    BY <1>2 DEF CallsOf
  <2>2. n \notin CallsOf(s) /\ n \in CallsOf(t)
    BY <2>1, <1>2
  <2>3. \A i \in CallsOf(s) : i \in 1 .. n /\ i # n
    BY <2>1, <2>2
  <2>4. \A i \in CallsOf(s) : i \in 1 .. n - 1 /\ i < n
    BY <2>3, <1>2
  <2>5. \A i \in CallsOf(s) : i \in CallsOf(t)
    BY <2>1, <2>3, <2>4, <1>2
  <2>6. \A i \in CallsOf(t) : i \in CallsOf(s) \/ i = n
    BY <2>1, <1>2, <1>3
  <2>7. CallsOf(t) = CallsOf(s) \cup {n}
    BY <2>2, <2>5, <2>6
  <2>8. QED BY <2>2, <2>4, <2>7, <1>2
<1>10. HomeOK(c, t)
  <2>1. ASSUME NEW i \in CallsOf(t), NEW l \in 1 .. Len(t), i <= l PROVE Called(c, t, i, l + 1, Runs(c, t[l]))
    <3>1. CASE l = n
      <4>1. n \in CallsOf(t) /\ i <= n /\ n < l + 1 /\ Callee(c, t[n]) = Runs(c, t[l])
        BY <1>2, <1>9, <2>1, <3>1 DEF Runs
      <4>2. QED BY <4>1 DEF Called
    <3>2. CASE l # n
      <4>1. l \in 1 .. n - 1 /\ l \in 1 .. Len(s)
        BY <1>2, <3>2
      <4>2. i \in CallsOf(s)
        BY <4>1, <1>2, <1>9, <2>1
      <4>3. Called(c, s, i, l + 1, Runs(c, s[l]))
        BY <4>1, <4>2, <2>1 DEF HomeOK
      <4>4. PICK h \in CallsOf(s) : i <= h /\ h < l + 1 /\ Callee(c, s[h]) = Runs(c, s[l])
        BY <4>3 DEF Called
      <4>5. h \in CallsOf(t) /\ t[h] = s[h] /\ t[l] = s[l]
        BY <4>1, <1>2, <1>9
      <4>6. QED BY <4>4, <4>5 DEF Called
    <3>3. QED BY <3>1, <3>2
  <2>2. QED BY <2>1 DEF HomeOK
<1>11. Settled(c, s, Len(s) - 1) => Settled(c, t, Len(t) - 1)
  <2>1. Len(t) - 1 = n - 1 /\ Len(s) - 1 = n - 1
    BY <1>2
  <2>2. QED BY <2>1, <1>2 DEF Settled
<1>12. Settled(c, s, Len(s) - 1) /\ InCall(c, a) => Settled(c, t, Len(t))
  BY <1>2, <1>3 DEF Settled
<1>13. QED BY <1>1, <1>2, <1>5, <1>8, <1>9, <1>10, <1>11, <1>12

\* What holds of the nodes when a procedure is called, and when it returns: s is the stack before,
\* t the one after, n the place of the call.
CallPut(s, t, n) ==
    /\ n \in Nat /\ Len(s) = n /\ Len(t) = n
    /\ CallsOf(t) = CallsOf(s) \cup {n} /\ n \notin CallsOf(s) /\ \A i \in CallsOf(s) : t[i] = s[i] /\ i < n

LEMMA SnapTaken ==
    ASSUME NEW c, NEW s, NEW t, NEW n, CallPut(s, t, n), NEW mem, SnapsOK(c, s, mem), t[n].snap = mem,
           NEW new, \A id \in Ids(c) : id[1] # Callee(c, t[n]) => new[id] = mem[id]
    PROVE  SnapsOK(c, t, new)
<1>00. /\ n \in Nat /\ Len(s) = n /\ Len(t) = n
       /\ CallsOf(t) = CallsOf(s) \cup {n} /\ n \notin CallsOf(s) /\ \A i \in CallsOf(s) : t[i] = s[i] /\ i < n
  BY DEF CallPut
<1>0. CallsOf(s) \subseteq Int
  <2>1. \A i \in CallsOf(s) : i \in 1 .. Len(s)
    BY DEF CallsOf
  <2>2. QED BY <2>1
<1>1. ASSUME NEW i \in CallsOf(s), NEW h \in Int, NEW p, Called(c, s, i, h, p)
      PROVE  Called(c, t, i, h, p) /\ Called(c, t, i, n, p)
  <2>1. PICK l \in CallsOf(s) : i <= l /\ l < h /\ Callee(c, s[l]) = p
    BY <1>1 DEF Called
  <2>2. l \in CallsOf(t) /\ t[l] = s[l] /\ l < n
    BY <1>00
  <2>3. QED BY <2>1, <2>2 DEF Called
<1>2. ASSUME NEW i \in CallsOf(t), NEW l \in CallsOf(t), i < l, NEW id \in Ids(c)
      PROVE  Called(c, t, i, l, id[1]) \/ Alike(t[i].snap[id], t[l].snap[id])
  <2>1. i \in CallsOf(s)
    BY <1>00, <1>0, <1>2
  <2>2. CASE l = n
    <3>1. Called(c, s, i, Len(s) + 1, id[1]) \/ Alike(s[i].snap[id], mem[id])
      BY <2>1 DEF SnapsOK
    <3>2. Len(s) + 1 \in Int
      BY <1>00
    <3>3. QED BY <3>1, <3>2, <2>1, <2>2, <1>1, <1>00
  <2>3. CASE l \in CallsOf(s)
    <3>1. Called(c, s, i, l, id[1]) \/ Alike(s[i].snap[id], s[l].snap[id])
      BY <1>2, <2>1, <2>3 DEF SnapsOK
    <3>2. l \in Int
      BY <1>0, <2>3
    <3>3. QED BY <3>1, <3>2, <2>1, <2>3, <1>1, <1>00
  <2>4. QED BY <1>00, <2>2, <2>3
<1>3. ASSUME NEW i \in CallsOf(t), NEW id \in Ids(c)
      PROVE  Called(c, t, i, Len(t) + 1, id[1]) \/ Alike(t[i].snap[id], new[id])
  <2>1. CASE id[1] = Callee(c, t[n])
    <3>1. n \in CallsOf(t) /\ i <= n /\ n < Len(t) + 1
      BY <1>00, <1>0
    <3>2. QED BY <1>00, <2>1, <3>1 DEF Called
  <2>2. CASE id[1] # Callee(c, t[n]) /\ i = n
    BY <1>00, <2>2 DEF Alike
  <2>3. CASE id[1] # Callee(c, t[n]) /\ i \in CallsOf(s)
    <3>1. Called(c, s, i, Len(s) + 1, id[1]) \/ Alike(s[i].snap[id], mem[id])
      BY <2>3 DEF SnapsOK
    <3>2. Len(s) + 1 \in Int /\ Len(s) + 1 = Len(t) + 1
      BY <1>00
    <3>3. QED BY <3>1, <3>2, <2>3, <1>1, <1>00
  <2>4. QED BY <1>00, <2>1, <2>2, <2>3
<1>4. QED BY <1>2, <1>3 DEF SnapsOK

LEMMA DeepTaken ==
    ASSUME NEW c, NEW s, NEW t, NEW n \in Nat,
           CallsOf(t) = CallsOf(s) \cup {n}, n \notin CallsOf(s), \A i \in CallsOf(s) : t[i] = s[i] /\ i < n,
           NEW mem, NEW gg, DeepOK(c, s, mem, gg), t[n].snap = mem, t[n].nd[1] = Now(c, s),
           NEW new, \A id \in Ids(c) : new[id].gen = mem[id].gen, \A id \in Ids(c) : id[1] = Now(c, t) => new[id].st # 1
    PROVE  DeepOK(c, t, new, gg)
<1>1. Under(t, n) = CallsOf(s)
  BY DEF Under
<1>2. ASSUME NEW i \in CallsOf(s) PROVE Under(t, i) = Under(s, i)
  <2>1. i \in Int
    BY DEF CallsOf
  <2>2. ~(n < i)
    BY <2>1
  <2>3. QED BY <2>2 DEF Under
<1>3. ASSUME NEW i \in CallsOf(t), NEW id \in Ids(c), id[1] = t[i].nd[1], t[i].snap[id].st = 1, new[id].gen # 0
      PROVE  Deep(gg, new[id].gen, Under(t, i))
  <2>1. CASE i = n
    <3>1. mem[id].st = 1 /\ mem[id].gen # 0 /\ id[1] = Now(c, s) /\ new[id].gen = mem[id].gen
      BY <1>3, <2>1
    <3>2. QED BY <3>1, <2>1, <1>1 DEF DeepOK
  <2>2. CASE i \in CallsOf(s)
    <3>1. id[1] = s[i].nd[1] /\ s[i].snap[id].st = 1 /\ mem[id].gen # 0 /\ new[id].gen = mem[id].gen
      BY <1>3, <2>2
    <3>2. QED BY <3>1, <2>2, <1>2 DEF DeepOK
  <2>3. QED BY <2>1, <2>2
<1>4. QED BY <1>3 DEF DeepOK
\* The frame of a procedure, and where it is put.
LEMMA FrameMade ==
    ASSUME NEW c \in Codes, NEW f \in DOMAIN c.proc, NEW args \in Seq(Values)
    PROVE  NewFrame(c.proc[f], args) \in Frames
<1> DEFINE p == c.proc[f]
           n == IF p.sc = <<>> THEN 1 ELSE Len(p.sc)
           e == [i \in 1 .. n |-> IF i <= p.nparams /\ i <= Len(args) THEN args[i] ELSE NULVCL]
<1>1. IsProc(p)
  BY IcnAssumption DEF IsLowered
<1>2. p.sc \in Seq(STRING) /\ p.nparams \in Nat
  BY <1>1 DEF IsProc
<1>3. n \in Nat
  BY <1>2, LenProperties
<1>4. Len(args) \in Nat /\ \A i \in 1 .. Len(args) : args[i] \in Values
  BY LenProperties, ElementOfSeq
<1>5. NewFrame(p, args) = [sc |-> p.sc, env |-> e, returning |-> FALSE, loop_break |-> FALSE, loop_next |-> FALSE]
  BY DEF NewFrame
<1> HIDE DEF p, n
<1>6. \A i \in 1 .. n : (IF i <= p.nparams /\ i <= Len(args) THEN args[i] ELSE NULVCL) \in Values
  BY <1>2, <1>4, ValueFacts
<1>7. e \in Seq(Values)
  BY <1>3, <1>6, IsASeq
<1> HIDE DEF e
<1>8. QED BY <1>2, <1>5, <1>7 DEF Frames, p

LEMMA FramePushed ==
    ASSUME IInv, k # <<>>, NEW f \in DOMAIN code.proc, depth < MaxFrames, Push(f)
    PROVE  /\ frames' \in Seq(Frames) /\ Len(frames) <= Len(frames') /\ Len(frames') <= MaxFrames
           /\ depth' = depth + 1 /\ depth' \in Nat /\ depth' <= Len(frames') /\ Len(frames') \in Nat
<1> DEFINE new == NewFrame(code.proc[f], Top.args)
<1>1. new \in Frames
  BY TopKnown, FrameMade
<1>2. frames \in Seq(Frames) /\ depth \in Nat /\ depth <= Len(frames) /\ Len(frames) <= MaxFrames /\ Len(frames) \in Nat
      /\ MaxFrames \in Nat
  BY EnvFacts, IcnAssumption DEF IInv, EnvOK
<1>3. depth' = depth + 1 /\ frames' = IF depth < Len(frames) THEN [frames EXCEPT ![depth + 1] = new] ELSE Append(frames, new)
  BY DEF Push
<1> HIDE DEF new
<1>4. CASE depth < Len(frames)
  <2>1. depth + 1 \in 1 .. Len(frames) /\ frames' = [frames EXCEPT ![depth + 1] = new]
    BY <1>2, <1>3, <1>4
  <2>2. frames' \in Seq(Frames) /\ Len(frames') = Len(frames)
    BY <1>1, <1>2, <2>1, ExceptSeq
  <2>3. QED BY <1>2, <1>3, <1>4, <2>2
<1>5. CASE ~(depth < Len(frames))
  <2>1. frames' \in Seq(Frames) /\ Len(frames') = Len(frames) + 1 /\ depth = Len(frames)
    BY <1>1, <1>2, <1>3, <1>5, AppendProperties
  <2>2. QED BY <1>2, <1>3, <1>5, <2>1
<1>6. QED BY <1>4, <1>5
\* The nodes of the procedure are set back.
ResetIn(mem, f, new) == new = bb_reset(mem, f)

LEMMA NodesReset ==
    ASSUME NEW c, NEW mem, MemOK(c, mem), NEW f, NEW new, ResetIn(mem, f, new)
    PROVE  /\ MemOK(c, new)
           /\ \A id \in Ids(c) : /\ new[id].gen = mem[id].gen
                                 /\ id[1] = f => new[id].st # 1
                                 /\ id[1] # f => new[id] = mem[id]
<1>1. DOMAIN mem = Ids(c) /\ mem \in [Ids(c) -> Cells]
  BY DEF MemOK
<1>2. ASSUME NEW id \in Ids(c)
      PROVE /\ new[id] \in Cells /\ CellOK(new[id], c.at[id]) /\ new[id].gen = mem[id].gen
            /\ id[1] = f => new[id].st # 1
            /\ id[1] # f => new[id] = mem[id]
  <2> DEFINE a == mem[id]
  <2>1. a \in Cells /\ CellOK(a, c.at[id])
    BY DEF MemOK
  <2>2. new[id] = IF id[1] = f THEN [a EXCEPT !.val = FAIL, !.st = 0, !.cnt = 0] ELSE a
    BY <1>1 DEF ResetIn, bb_reset
  <2> HIDE DEF a
  <2>3. CASE id[1] = f
    <3> DEFINE zero == 0
               b == [a EXCEPT !.val = FAIL, !.st = zero, !.cnt = zero]
    <3>0. zero \in {0, 1} /\ zero \in Int /\ FAIL \in Values /\ new[id] = b /\ zero = 0
      BY <2>2, <2>3, ValueFacts
    <3> HIDE DEF zero
    <3>4. b \in Cells /\ b.gen = a.gen /\ b.st = zero
      BY <2>1, <3>0 DEF Cells
    <3> HIDE DEF b
    <3>1. new[id] \in Cells /\ new[id].gen = a.gen /\ new[id].st = 0
      BY <3>0, <3>4
    <3>2. CellOK(new[id], c.at[id])
      BY <2>1, <3>1 DEF CellOK
    <3>3. QED BY <2>3, <3>1, <3>2 DEF a
  <2>4. CASE id[1] # f
    BY <2>1, <2>2, <2>4 DEF a
  <2>5. QED BY <2>3, <2>4
<1>3. new \in [Ids(c) -> Cells]
  <2>1. new = [id \in Ids(c) |-> new[id]]
    BY <1>1 DEF ResetIn, bb_reset
  <2>2. QED BY <1>2, <2>1
<1>4. QED BY <1>2, <1>3 DEF MemOK

CallingTop(a, mem) == [a EXCEPT !.ph = "call", !.snap = mem]

LEMMA CallProcKeeps ==
    ASSUME IInv, CallProc
    PROVE  IInv'
<1>1. /\ ctl.at = "apply" /\ Owner.op = "CALL" /\ HasGraph(code, Owner.x) /\ depth < MaxFrames
      /\ Push(Owner.x) /\ ResetIn(m, Owner.x, m') /\ SetTop(CallingTop(Top, m)) /\ Exec(Root(Owner.x))
      /\ code' = code /\ glob' = glob /\ retval' = retval /\ gens' = gens
  BY DEF CallProc, Applying, CallingTop, ResetIn
<1>2. k # <<>> /\ Top.ph # "call"
  BY <1>1, ApplyFacts
<1>3. Top \in Acts(code) /\ Top.nd \in Ids(code) /\ Top.j <= Owner.kids /\ MemOK(code, m) /\ code \in Codes
      /\ Chain(code, k) /\ HomeOK(code, k) /\ Settled(code, k, Len(k) - 1)
  BY <1>2, TopKnown
<1> DEFINE a == CallingTop(Top, m)
           n == Len(k)
<1>4. a \in Acts(code) /\ a.nd = Top.nd /\ a.ph = "call" /\ a.j = Top.j /\ a.snap = m
  <2>1. m \in [Ids(code) -> Cells] \cup {<<>>} /\ "call" \in Phases \cup {"call", "gen"}
    BY <1>3 DEF MemOK
  <2>2. QED BY <1>3, <2>1 DEF Acts, CallingTop
<1>5. Callee(code, a) = Owner.x /\ InCall(code, a) /\ a.j <= code.at[a.nd].kids
  BY <1>1, <1>3, <1>4 DEF Callee, Owner, InCall
<1>6. PutAt(k, a, k') /\ k[Len(k)].ph # "call" /\ a.nd = k[Len(k)].nd
  BY <1>1, <1>2, <1>4 DEF PutAt, SetTop, Top
<1> HIDE DEF a
<1>7. /\ Chain(code, k') /\ HomeOK(code, k') /\ Now(code, k') = Owner.x /\ Now(code, k) = a.nd[1]
      /\ k' # <<>> /\ Len(k') = Len(k) /\ Len(k) \in Nat /\ k'[Len(k)] = a
      /\ CallsOf(k') = CallsOf(k) \cup {Len(k)} /\ Len(k) \notin CallsOf(k)
      /\ \A i \in CallsOf(k) : k'[i] = k[i] /\ i < Len(k)
      /\ Settled(code, k', Len(k') - 1) /\ Settled(code, k', Len(k'))
  BY <1>2, <1>3, <1>4, <1>5, <1>6, CallMade
<1>8. /\ MemOK(code, m')
      /\ \A id \in Ids(code) : /\ m'[id].gen = m[id].gen
                               /\ id[1] = Owner.x => m'[id].st # 1
                               /\ id[1] # Owner.x => m'[id] = m[id]
  BY <1>1, <1>3, NodesReset
<1>9. SnapsOK(code, k, m) /\ OwnOK(code, m, gens) /\ DeepOK(code, k, m, gens)
  BY DEF IInv, NodesOK
<1> HIDE DEF n
<1>10. SnapsOK(code, k', m')
  <2>1. CallPut(k, k', n) /\ k'[n].snap = m
        /\ \A id \in Ids(code) : id[1] # Callee(code, k'[n]) => m'[id] = m[id]
    BY <1>4, <1>5, <1>7, <1>8 DEF n, CallPut
  <2>2. QED BY <1>9, <2>1, SnapTaken
<1>11. DeepOK(code, k', m', gens)
  <2>1. n \in Nat /\ CallsOf(k') = CallsOf(k) \cup {n} /\ n \notin CallsOf(k)
        /\ (\A i \in CallsOf(k) : k'[i] = k[i] /\ i < n) /\ k'[n].snap = m /\ k'[n].nd[1] = Now(code, k)
        /\ (\A id \in Ids(code) : m'[id].gen = m[id].gen) /\ \A id \in Ids(code) : id[1] = Now(code, k') => m'[id].st # 1
    BY <1>4, <1>7, <1>8 DEF n
  <2>2. QED BY <1>9, <2>1, DeepTaken
<1>12. OwnOK(code, m', gens)
  BY <1>8, <1>9 DEF OwnOK
<1>13. ctl'.at = "exec" /\ ctl'.nd = Root(Owner.x)
  BY <1>1 DEF Exec
<1>14. NodesOK'
  BY <1>1, <1>8, <1>10, <1>11, <1>12, <1>13 DEF NodesOK
<1>15. StackOK'
  <2>1. ctl'.nd \in Ids(code) /\ ctl'.nd[1] = Now(code, k')
    BY <1>1, <1>7, <1>13 DEF HasGraph, Root, Ids
  <2>2. ControlOK(code, k', ctl', gens)
    BY <1>7, <1>13, <2>1 DEF ControlOK
  <2>3. QED BY <1>1, <1>7, <2>2 DEF StackOK
<1>16. Owner.x \in DOMAIN code.proc
  BY <1>1 DEF HasGraph
<1>17. /\ frames' \in Seq(Frames) /\ Len(frames) <= Len(frames') /\ Len(frames') <= MaxFrames
       /\ depth' = depth + 1 /\ depth' \in Nat /\ depth' <= Len(frames') /\ Len(frames') \in Nat
  BY <1>1, <1>2, <1>16, FramePushed
<1>18. Cardinality(CallsOf(k')) = Cardinality(CallsOf(k)) + 1 /\ Cardinality(CallsOf(k)) \in Nat
  BY <1>3, <1>7, CallsFinite, FS_AddElement
<1>19. EnvOK'
  BY <1>1, <1>17, <1>18 DEF IInv, EnvOK
<1>20. GensOK'
  <2>1. \A i \in 1 .. Len(gens) : gens[i].saved_frame_depth <= Len(frames')
    <3>1. ASSUME NEW i \in 1 .. Len(gens) PROVE gens[i].saved_frame_depth <= Len(frames')
      <4>1. gens[i] \in GenRecs(code) /\ gens[i].saved_frame_depth <= Len(frames)
        BY ElementOfSeq DEF IInv, GensOK
      <4>2. gens[i].saved_frame_depth \in Nat
        BY <4>1 DEF GenRecs
      <4>3. QED BY <4>1, <4>2, <1>17, EnvFacts
    <3>2. QED BY <3>1
  <2>2. QED BY <1>1, <2>1 DEF IInv, GensOK
<1>21. QED BY <1>1, <1>14, <1>15, <1>19, <1>20 DEF IInv
\* The nodes of the procedure are put back, and the node of the call gets the result.
PutBack(mem, snap, f, nd, v, new) == new = [IR_restore_state(mem, snap, f) EXCEPT ![nd].val = v]

LEMMA NodesPutBack ==
    ASSUME NEW c, NEW mem, MemOK(c, mem), NEW snap, MemOK(c, snap), NEW f, NEW nd \in Ids(c), NEW v \in Values,
           NEW new, PutBack(mem, snap, f, nd, v, new)
    PROVE  /\ MemOK(c, new)
           /\ \A id \in Ids(c) : /\ new[id].gen = mem[id].gen
                                 /\ id[1] = f => new[id].st = snap[id].st /\ new[id].cnt = snap[id].cnt
                                 /\ id[1] = f /\ id # nd => new[id].val = snap[id].val
                                 /\ id[1] # f => new[id].st = mem[id].st /\ new[id].cnt = mem[id].cnt
                                 /\ id[1] # f /\ id # nd => new[id] = mem[id]
<1>1. DOMAIN mem = Ids(c) /\ mem \in [Ids(c) -> Cells] /\ snap \in [Ids(c) -> Cells]
  BY DEF MemOK
<1>2. ASSUME NEW id \in Ids(c)
      PROVE /\ new[id] \in Cells /\ CellOK(new[id], c.at[id]) /\ new[id].gen = mem[id].gen
            /\ id[1] = f => new[id].st = snap[id].st /\ new[id].cnt = snap[id].cnt
            /\ id[1] = f /\ id # nd => new[id].val = snap[id].val
            /\ id[1] # f => new[id].st = mem[id].st /\ new[id].cnt = mem[id].cnt
            /\ id[1] # f /\ id # nd => new[id] = mem[id]
  <2> DEFINE a == mem[id]
             z == snap[id]
             b == IF id[1] = f THEN [a EXCEPT !.val = z.val, !.st = z.st, !.cnt = z.cnt] ELSE a
  <2>1. a \in Cells /\ CellOK(a, c.at[id]) /\ z \in Cells /\ CellOK(z, c.at[id])
    BY DEF MemOK
  <2>2. new[id] = IF id = nd THEN [b EXCEPT !.val = v] ELSE b
    BY <1>1 DEF PutBack, IR_restore_state
  <2>3. /\ b \in Cells /\ CellOK(b, c.at[id]) /\ b.gen = a.gen
        /\ id[1] = f => b.st = z.st /\ b.cnt = z.cnt /\ b.val = z.val
        /\ id[1] # f => b = a
    <3> HIDE DEF a, z
    <3>1. CASE id[1] = f
      <4>1. b \in Cells /\ b.gen = a.gen /\ b.st = z.st /\ b.cnt = z.cnt /\ b.val = z.val
        BY <2>1, <3>1 DEF Cells
      <4>2. CellOK(b, c.at[id])
        BY <2>1, <4>1 DEF CellOK
      <4>3. QED BY <3>1, <4>1, <4>2
    <3>2. CASE id[1] # f
      BY <2>1, <3>2
    <3>3. QED BY <3>1, <3>2
  <2> HIDE DEF b
  <2>4. CASE id = nd
    <3> DEFINE d == [b EXCEPT !.val = v]
    <3>1. d \in Cells /\ d.gen = b.gen /\ d.st = b.st /\ d.cnt = b.cnt
      BY <2>3 DEF Cells
    <3>2. new[id] = d
      BY <2>2, <2>4
    <3> HIDE DEF d
    <3>3. CellOK(new[id], c.at[id])
      BY <2>3, <3>1, <3>2 DEF CellOK
    <3>4. QED BY <2>3, <2>4, <3>1, <3>2, <3>3
  <2>5. CASE id # nd
    BY <2>2, <2>3, <2>5
  <2>6. QED BY <2>4, <2>5
<1>3. new \in [Ids(c) -> Cells]
  <2>1. new = [id \in Ids(c) |-> new[id]]
    BY <1>1 DEF PutBack, IR_restore_state
  <2>2. QED BY <1>2, <2>1
<1>4. QED BY <1>2, <1>3 DEF MemOK

\* Then every node has the state the call found in it, and all but the call's own the value and counter.
LEMMA NodesAlike ==
    ASSUME NEW c, NEW s, s # <<>>, Chain(c, s), s[Len(s)].ph = "call", NEW mem, SnapsOK(c, s, mem), MemOK(c, mem), MemOK(c, s[Len(s)].snap),
           NEW v \in Values, NEW new, PutBack(mem, s[Len(s)].snap, Callee(c, s[Len(s)]), s[Len(s)].nd, v, new)
    PROVE  \A id \in Ids(c) : /\ new[id].st = s[Len(s)].snap[id].st
                              /\ id # s[Len(s)].nd => Alike(s[Len(s)].snap[id], new[id])
<1> DEFINE n == Len(s)
           f == Callee(c, s[n])
<1>1. n \in CallsOf(s) /\ n \in Nat /\ s[n].nd \in Ids(c)
  <2>1. s \in Seq(Acts(c))
    BY DEF Chain
  <2>2. n \in 1 .. Len(s) /\ n \in Nat /\ s[n] \in Acts(c)
    BY <2>1, TopFacts
  <2>3. QED BY <2>2 DEF CallsOf, Acts
<1>2. \A id \in Ids(c) : /\ id[1] = f => new[id].st = s[n].snap[id].st /\ new[id].cnt = s[n].snap[id].cnt
                         /\ id[1] = f /\ id # s[n].nd => new[id].val = s[n].snap[id].val
                         /\ id[1] # f => new[id].st = mem[id].st /\ new[id].cnt = mem[id].cnt
                         /\ id[1] # f /\ id # s[n].nd => new[id] = mem[id]
  <2> DEFINE snap == s[n].snap
             nd   == s[n].nd
  <2>1. MemOK(c, snap) /\ nd \in Ids(c) /\ PutBack(mem, snap, f, nd, v, new)
    BY <1>1
  <2> HIDE DEF n, f, snap, nd
  <2>2. \A id \in Ids(c) : /\ id[1] = f => new[id].st = snap[id].st /\ new[id].cnt = snap[id].cnt
                           /\ id[1] = f /\ id # nd => new[id].val = snap[id].val
                           /\ id[1] # f => new[id].st = mem[id].st /\ new[id].cnt = mem[id].cnt
                           /\ id[1] # f /\ id # nd => new[id] = mem[id]
    BY <2>1, NodesPutBack
  <2>3. QED BY <2>2 DEF snap, nd
<1>3. ASSUME NEW id \in Ids(c), id[1] # f PROVE Alike(s[n].snap[id], mem[id])
  <2>1. Called(c, s, n, n + 1, id[1]) \/ Alike(s[n].snap[id], mem[id])
    BY <1>1 DEF SnapsOK
  <2>2. ~Called(c, s, n, n + 1, id[1])
    <3>1. \A l \in CallsOf(s) : n <= l /\ l < n + 1 => l = n
      <4>1. \A l \in CallsOf(s) : l \in Int
        BY DEF CallsOf
      <4> HIDE DEF n
      <4>2. QED BY <4>1, <1>1
    <3>2. QED BY <3>1, <1>3 DEF Called
  <2>3. QED BY <2>1, <2>2
<1> HIDE DEF n, f
<1>4. \A id \in Ids(c) : /\ new[id].st = s[n].snap[id].st
                         /\ id # s[n].nd => Alike(s[n].snap[id], new[id])
  BY <1>2, <1>3 DEF Alike
<1>5. QED BY <1>4 DEF n
LEMMA SnapsBack ==
    ASSUME NEW c, NEW s, s # <<>>, Chain(c, s), HomeOK(c, s), s[Len(s)].ph = "call", NEW t, TakenOff(s, t),
           NEW mem, SnapsOK(c, s, mem),
           NEW new, \A id \in Ids(c) : id # s[Len(s)].nd => Alike(s[Len(s)].snap[id], new[id])
    PROVE  SnapsOK(c, t, new)
<1> DEFINE n == Len(s)
<1>1. s \in Seq(Acts(c)) /\ n \in Nat /\ n \in CallsOf(s) /\ s[n].nd \in Ids(c)
  <2>1. s \in Seq(Acts(c))
    BY DEF Chain
  <2>2. n \in 1 .. Len(s) /\ n \in Nat /\ s[n] \in Acts(c)
    BY <2>1, TopFacts
  <2>3. QED BY <2>1, <2>2 DEF CallsOf, Acts
<1>2. /\ Chain(c, t) /\ HomeOK(c, t) /\ Now(c, t) = s[n].nd[1] /\ Len(t) = n - 1
      /\ \A i \in 1 .. Len(t) : t[i] = s[i]
      /\ CallsOf(t) = CallsOf(s) \ {n}
  BY Popped
<1>3. \A id \in Ids(c) : id # s[n].nd => Alike(s[n].snap[id], new[id])
  OBVIOUS
<1> HIDE DEF n
<1>4. \A i \in CallsOf(t) : i \in Int /\ i < n /\ t[i] = s[i] /\ i \in CallsOf(s)
  <2>1. \A i \in CallsOf(t) : i \in 1 .. Len(t)
    BY DEF CallsOf
  <2>2. QED BY <1>1, <1>2, <2>1
<1>5. ASSUME NEW i \in CallsOf(t), NEW h \in Int, h <= n, NEW p, Called(c, s, i, h, p) PROVE Called(c, t, i, h, p)
  <2>1. PICK l \in CallsOf(s) : i <= l /\ l < h /\ Callee(c, s[l]) = p
    BY <1>5 DEF Called
  <2>2. l # n
    BY <2>1, <1>5, <1>1
  <2>3. l \in CallsOf(t) /\ t[l] = s[l]
    BY <2>2, <1>2, <1>4
  <2>4. QED BY <2>1, <2>3 DEF Called
<1>6. ASSUME NEW i \in CallsOf(t), NEW l \in CallsOf(t), i < l, NEW id \in Ids(c)
      PROVE  Called(c, t, i, l, id[1]) \/ Alike(t[i].snap[id], t[l].snap[id])
  <2>1. Called(c, s, i, l, id[1]) \/ Alike(s[i].snap[id], s[l].snap[id])
    BY <1>4, <1>6 DEF SnapsOK
  <2>2. l \in Int /\ l <= n
    BY <1>1, <1>4
  <2>3. QED BY <2>1, <2>2, <1>4, <1>5
<1>7. ASSUME NEW i \in CallsOf(t), NEW id \in Ids(c)
      PROVE  Called(c, t, i, Len(t) + 1, id[1]) \/ Alike(t[i].snap[id], new[id])
  <2>1. Len(t) + 1 = n /\ n \in Int /\ n <= n
    BY <1>1, <1>2
  <2>2. CASE id = s[n].nd
    BY <2>2, <1>2, HomeNow
  <2>3. CASE id # s[n].nd
    <3>1. Called(c, s, i, n, id[1]) \/ Alike(s[i].snap[id], s[n].snap[id])
      BY <1>1, <1>4 DEF SnapsOK
    <3>2. Alike(s[n].snap[id], new[id])
      BY <1>3, <2>3
    <3>3. Called(c, s, i, n, id[1]) => Called(c, t, i, Len(t) + 1, id[1])
      BY <2>1, <1>5
    <3>4. QED BY <3>1, <3>2, <3>3, <1>4 DEF Alike
  <2>4. QED BY <2>2, <2>3
<1>8. QED BY <1>6, <1>7 DEF SnapsOK

LEMMA DeepBack ==
    ASSUME NEW c, NEW s, s # <<>>, Chain(c, s), HomeOK(c, s), s[Len(s)].ph = "call", NEW t, TakenOff(s, t),
           NEW mem, NEW gg, DeepOK(c, s, mem, gg),
           NEW new, \A id \in Ids(c) : new[id].gen = mem[id].gen /\ new[id].st = s[Len(s)].snap[id].st
    PROVE  DeepOK(c, t, new, gg)
<1> DEFINE n == Len(s)
<1>1. n \in Nat /\ n \in CallsOf(s)
  <2>1. s \in Seq(Acts(c))
    BY DEF Chain
  <2>2. n \in 1 .. Len(s) /\ n \in Nat
    BY <2>1, TopFacts
  <2>3. QED BY <2>1, <2>2 DEF CallsOf
<1>2. /\ Now(c, t) = s[n].nd[1] /\ Len(t) = n - 1 /\ (\A i \in 1 .. Len(t) : t[i] = s[i])
      /\ CallsOf(t) = CallsOf(s) \ {n}
  BY Popped
<1>3. \A id \in Ids(c) : new[id].gen = mem[id].gen /\ new[id].st = s[n].snap[id].st
  OBVIOUS
<1> HIDE DEF n
<1>4. \A i \in CallsOf(t) : i \in Int /\ i < n /\ t[i] = s[i] /\ i \in CallsOf(s)
  <2>1. \A i \in CallsOf(t) : i \in 1 .. Len(t)
    BY DEF CallsOf
  <2>2. QED BY <1>1, <1>2, <2>1
<1>5. CallsOf(t) = Under(s, n)
  <2>1. \A i \in CallsOf(t) : i \in Under(s, n)
    BY <1>4 DEF Under
  <2>2. \A i \in Under(s, n) : i \in CallsOf(s) /\ i # n
    BY <1>1 DEF Under
  <2>3. QED BY <2>1, <2>2, <1>2
<1>6. ASSUME NEW i \in CallsOf(t) PROVE Under(t, i) = Under(s, i)
  <2>1. \A l \in CallsOf(s) : l < i => l # n
    BY <1>1, <1>4
  <2>2. QED BY <2>1, <1>2 DEF Under
<1>7. ASSUME NEW id \in Ids(c), id[1] = Now(c, t), new[id].st = 1, new[id].gen # 0
      PROVE  Deep(gg, new[id].gen, CallsOf(t))
  <2>1. id[1] = s[n].nd[1] /\ s[n].snap[id].st = 1 /\ mem[id].gen # 0 /\ new[id].gen = mem[id].gen
    BY <1>2, <1>3, <1>7
  <2>2. QED BY <2>1, <1>1, <1>5 DEF DeepOK
<1>8. ASSUME NEW i \in CallsOf(t), NEW id \in Ids(c), id[1] = t[i].nd[1], t[i].snap[id].st = 1, new[id].gen # 0
      PROVE  Deep(gg, new[id].gen, Under(t, i))
  <2>1. i \in CallsOf(s) /\ id[1] = s[i].nd[1] /\ s[i].snap[id].st = 1 /\ mem[id].gen # 0 /\ new[id].gen = mem[id].gen
    BY <1>3, <1>4, <1>8
  <2>2. QED BY <2>1, <1>6 DEF DeepOK
<1>9. QED BY <1>7, <1>8 DEF DeepOK
\* A call that returns, as it is written.
LEMMA ReturnFacts ==
    ASSUME IInv, CallReturns
    PROVE  /\ k # <<>> /\ k[Len(k)].ph = "call" /\ InCall(code, k[Len(k)]) /\ TakenOff(k, k') /\ ctl'.at = "back"
           /\ MemOK(code, k[Len(k)].snap) /\ k[Len(k)].nd \in Ids(code)
           /\ \E v \in Values : PutBack(m, k[Len(k)].snap, Callee(code, k[Len(k)]), k[Len(k)].nd, v, m')
<1> DEFINE a == k[Len(k)]
<1>1. k # <<>> /\ a.ph = "call" /\ TakenOff(k, k') /\ ctl'.at = "back" /\ ctl.at = "back" /\ a = Top
  BY DEF CallReturns, In, Top, Pop, TakenOff, Go
<1>2. InCall(code, a) /\ a.nd \in Ids(code)
  <2>1. Waits(code, Top) \/ InCall(code, Top)
    BY <1>1, BackFacts
  <2>2. ~Waits(code, Top)
    BY <1>1 DEF Waits
  <2>3. Top.nd \in Ids(code)
    BY <1>1, TopKnown
  <2>4. QED BY <1>1, <2>1, <2>2, <2>3
<1>3. MemOK(code, a.snap) /\ HasGraph(code, Owner.x) /\ Owner.x = Callee(code, a)
  BY <1>1, <1>2 DEF InCall, Owner, Callee
<1>4. m[Root(Owner.x)].val \in Values /\ retval \in Values
  <2>1. Root(Owner.x) \in Ids(code)
    BY <1>3 DEF HasGraph, Ids
  <2>2. m[Root(Owner.x)] \in Cells
    BY <1>1, <2>1, TopKnown DEF MemOK
  <2>3. QED BY <2>2 DEF Cells, IInv, EnvOK
<1> DEFINE v == IF FRAME.returning THEN retval ELSE m[Root(Owner.x)].val
<1>5. v \in Values
  BY <1>4
<1>6. PutBack(m, a.snap, Callee(code, a), a.nd, v, m')
  <2>1. PutBack(m, Top.snap, Owner.x, Top.nd, v, m')
    BY DEF CallReturns, PutBack
  <2>2. QED BY <2>1, <1>1, <1>3
<1> HIDE DEF v
<1>7. QED BY <1>1, <1>2, <1>3, <1>5, <1>6

LEMMA CallReturnsLeaves ==
    ASSUME IInv, CallReturns
    PROVE  \A id \in Ids(code) : /\ m'[id].gen = m[id].gen /\ m'[id].st = k[Len(k)].snap[id].st
                                 /\ id # k[Len(k)].nd => Alike(k[Len(k)].snap[id], m'[id])
<1> DEFINE a == k[Len(k)]
<1>1. /\ k # <<>> /\ a.ph = "call" /\ MemOK(code, a.snap) /\ a.nd \in Ids(code)
      /\ \E v \in Values : PutBack(m, a.snap, Callee(code, a), a.nd, v, m')
  BY ReturnFacts
<1>2. Chain(code, k) /\ SnapsOK(code, k, m) /\ MemOK(code, m)
  BY DEF IInv, StackOK, NodesOK
<1>3. PICK v \in Values : PutBack(m, a.snap, Callee(code, a), a.nd, v, m')
  BY <1>1
<1>4. \A id \in Ids(code) : m'[id].st = a.snap[id].st /\ (id # a.nd => Alike(a.snap[id], m'[id]))
  BY <1>1, <1>2, <1>3, NodesAlike
<1> HIDE DEF a
<1>5. \A id \in Ids(code) : m'[id].gen = m[id].gen
  BY <1>1, <1>2, <1>3, NodesPutBack
<1>6. QED BY <1>4, <1>5 DEF a

LEMMA CallReturnsKeeps ==
    ASSUME IInv, CallReturns
    PROVE  IInv'
<1> DEFINE a == k[Len(k)]
<1>1. /\ k # <<>> /\ a.ph = "call" /\ TakenOff(k, k') /\ ctl'.at = "back"
      /\ MemOK(code, a.snap) /\ a.nd \in Ids(code)
      /\ \E v \in Values : PutBack(m, a.snap, Callee(code, a), a.nd, v, m')
  BY ReturnFacts
<1>2. Chain(code, k) /\ HomeOK(code, k) /\ Settled(code, k, Len(k) - 1) /\ code \in Codes
      /\ MemOK(code, m) /\ SnapsOK(code, k, m) /\ OwnOK(code, m, gens) /\ DeepOK(code, k, m, gens)
  BY <1>1, TopKnown DEF IInv, NodesOK
<1>3. /\ code' = code /\ glob' = glob /\ retval' = retval /\ gens' = gens
      /\ frames' = [frames EXCEPT ![depth].returning = FALSE] /\ depth' = depth - 1
  BY DEF CallReturns
<1>4. \A id \in Ids(code) : /\ m'[id].gen = m[id].gen /\ m'[id].st = a.snap[id].st
                            /\ id # a.nd => Alike(a.snap[id], m'[id])
  BY CallReturnsLeaves
<1>5. MemOK(code, m')
  <2>1. PICK v \in Values : PutBack(m, a.snap, Callee(code, a), a.nd, v, m')
    BY <1>1
  <2> HIDE DEF a
  <2>2. QED BY <1>1, <1>2, <2>1, NodesPutBack
<1>6. SnapsOK(code, k', m')
  BY <1>1, <1>2, <1>4, SnapsBack
<1>7. DeepOK(code, k', m', gens)
  BY <1>1, <1>2, <1>4, DeepBack
<1>8. OwnOK(code, m', gens)
  BY <1>2, <1>4 DEF OwnOK
<1>9. NodesOK'
  BY <1>1, <1>3, <1>5, <1>6, <1>7, <1>8 DEF NodesOK
<1>10. /\ Chain(code, k') /\ HomeOK(code, k') /\ Settled(code, k', Len(k')) /\ Len(k') \in Nat
       /\ CallsOf(k') = CallsOf(k) \ {Len(k)} /\ Len(k) \in CallsOf(k)
  <2>1. k \in Seq(Acts(code))
    BY <1>2 DEF Chain
  <2>2. Len(k) \in CallsOf(k)
    BY <1>1, <2>1, TopFacts DEF CallsOf
  <2>3. QED BY <1>1, <1>2, <2>2, Popped
<1>11. StackOK'
  <2>1. Settled(code, k', Len(k') - 1)
    BY <1>10 DEF Settled
  <2>2. ControlOK(code, k', ctl', gens)
    BY <1>1, <1>10, <2>1 DEF ControlOK
  <2>3. QED BY <1>3, <1>10, <2>2 DEF StackOK
<1>12. frames' \in Seq(Frames) /\ Len(frames') = Len(frames)
  <2>1. FRAME \in Frames /\ depth \in DOMAIN frames
    BY EnvFacts
  <2> DEFINE r == [FRAME EXCEPT !.returning = FALSE]
  <2>2. r \in Frames
    BY <2>1 DEF Frames
  <2>3. frames' = [frames EXCEPT ![depth] = r]
    BY <1>3, <2>1 DEF FRAME
  <2> HIDE DEF r
  <2>4. QED BY <2>2, <2>3, FrameWritten
<1>13. Cardinality(CallsOf(k')) = Cardinality(CallsOf(k)) - 1 /\ Cardinality(CallsOf(k)) \in Nat
       /\ Cardinality(CallsOf(k')) \in Nat
  BY <1>2, <1>10, CallsFinite, FS_RemoveElement
<1>14. EnvOK'
  <2>1. depth \in Nat \ {0} /\ depth <= Len(frames) /\ Len(frames) \in Nat /\ 1 + Cardinality(CallsOf(k)) <= depth
    BY EnvFacts DEF IInv, EnvOK
  <2>2. depth' \in Nat /\ depth' <= Len(frames') /\ 1 + Cardinality(CallsOf(k')) <= depth'
    BY <1>3, <1>12, <1>13, <2>1
  <2>3. QED BY <1>3, <1>12, <2>2 DEF IInv, EnvOK
<1>15. GensOK'
  BY <1>3, <1>12 DEF IInv, GensOK
<1>16. QED BY <1>2, <1>3, <1>9, <1>11, <1>14, <1>15 DEF IInv
-----------------------------------------------------------------------------
(* Generators.                                                             *)

\* More of them, or some of them further on.
SameGens(gg, hh) ==
    \A g \in 1 .. Len(gg) : g \in 1 .. Len(hh) /\ hh[g].over = gg[g].over
                            /\ hh[g].saved_frame_depth = gg[g].saved_frame_depth

LEMMA GensKept ==
    ASSUME NEW c, NEW s, NEW mem, NEW gg, NEW hh, SameGens(gg, hh), OwnOK(c, mem, gg), DeepOK(c, s, mem, gg)
    PROVE  OwnOK(c, mem, hh) /\ DeepOK(c, s, mem, hh)
<1>1. \A id \in Ids(c) : mem[id].gen # 0 => mem[id].gen \in 1 .. Len(gg)
  BY DEF OwnOK
<1>2. OwnOK(c, mem, hh)
  BY <1>1 DEF OwnOK, SameGens
<1>3. ASSUME NEW id \in Ids(c), mem[id].gen # 0, NEW calls, Deep(gg, mem[id].gen, calls)
      PROVE  Deep(hh, mem[id].gen, calls)
  BY <1>1, <1>3 DEF Deep, SameGens
<1>4. DeepOK(c, s, mem, hh)
  BY <1>3 DEF DeepOK
<1>5. QED BY <1>2, <1>4

\* What holds while a generator runs.
LEMMA RunFacts ==
    ASSUME IInv, ctl.at = "run"
    PROVE  /\ k # <<>> /\ Top.ph = "gen" /\ Owner.op = "CALL" /\ Top.nd \in Ids(code) /\ Now(code, k) = Top.nd[1]
           /\ Top.gen \in Nat \ {0} /\ Top.gen \in 1 .. Len(gens) /\ Top.gen \in DOMAIN gens
           /\ ~Gen.over /\ Gen \in GenRecs(code) /\ Gen.saved_frame_depth \in Nat
           /\ Gen.saved_frame_depth <= Len(frames) /\ Gen.pc \in Nat \ {0} /\ Gen.saved_frame_depth >= 2 + Cardinality(CallsOf(k))
           /\ Deep(gens, Top.gen, CallsOf(k)) /\ \A id \in Ids(code) : id # Top.nd => m[id].gen # Top.gen
           /\ Gen.pc <= Len(Body) => IsStatement(Stmt)
<1>1. k # <<>> /\ Drives(code, Top, gens)
  BY DEF IInv, StackOK, ControlOK, Top
<1>2. Top.ph = "gen" /\ Owner.op = "CALL" /\ Top.gen \in 1 .. Len(gens) /\ ~Gen.over
  BY <1>1 DEF Drives, Owner, Gen
<1>3. Top.nd \in Ids(code) /\ Now(code, k) = Top.nd[1] /\ code \in Codes
  BY <1>1, <1>2, TopKnown
<1>4. gens \in Seq(GenRecs(code)) /\ \A i \in 1 .. Len(gens) : gens[i].saved_frame_depth <= Len(frames)
  BY DEF IInv, GensOK
<1>5. Len(gens) \in Nat /\ DOMAIN gens = 1 .. Len(gens) /\ Gen \in GenRecs(code)
  BY <1>2, <1>4, TopFacts DEF Gen
<1>6. Gen.saved_frame_depth \in Nat /\ Gen.saved_frame_depth <= Len(frames) /\ Gen.pc \in Nat \ {0}
      /\ Gen.proc \in DOMAIN code.proc
  BY <1>2, <1>4, <1>5 DEF GenRecs, Gen
<1>7. Deep(gens, Top.gen, CallsOf(k)) /\ \A id \in Ids(code) : id # Top.nd => m[id].gen # Top.gen
  BY DEF IInv, NodesOK, RunOK, Top
<1>8. Gen.saved_frame_depth >= 2 + Cardinality(CallsOf(k))
  BY <1>7 DEF Deep, Gen
<1>9. Gen.pc <= Len(Body) => IsStatement(Stmt)
  <2>1. IsProc(code.proc[Gen.proc])
    BY <1>3, <1>6, IcnAssumption DEF IsLowered
  <2>2. Len(Body) \in Nat /\ \A i \in 1 .. Len(Body) : IsStatement(Body[i])
    BY <2>1 DEF IsProc, Body
  <2>3. Gen.pc <= Len(Body) => Gen.pc \in 1 .. Len(Body)
    BY <1>6, <2>2
  <2>4. QED BY <2>2, <2>3 DEF Stmt
<1>10. Top.gen \in Nat \ {0}
  BY <1>2, <1>5
<1>11. QED BY <1>1, <1>2, <1>3, <1>5, <1>6, <1>7, <1>8, <1>9, <1>10

\* The generator goes on to its next statement.
LEMMA GenAdvanced ==
    ASSUME IInv, ctl.at = "run", Advance
    PROVE  gens' \in Seq(GenRecs(code)) /\ Len(gens') = Len(gens) /\ SameGens(gens, gens')
<1> DEFINE g == Top.gen
           r == [Gen EXCEPT !.pc = @ + 1]
<1>1. g \in 1 .. Len(gens) /\ g \in DOMAIN gens /\ Gen \in GenRecs(code) /\ Gen.pc \in Nat \ {0} /\ Gen = gens[g]
      /\ gens \in Seq(GenRecs(code))
  BY RunFacts DEF IInv, GensOK, Gen
<1>2. r \in GenRecs(code) /\ r.over = Gen.over /\ r.saved_frame_depth = Gen.saved_frame_depth
  <2> DEFINE next == Gen.pc + 1
  <2>1. next \in Nat \ {0} /\ r = [Gen EXCEPT !.pc = next]
    BY <1>1 DEF GenRecs
  <2> HIDE DEF next
  <2>2. QED BY <1>1, <2>1 DEF GenRecs
<1>3. gens' = [gens EXCEPT ![g] = r]
  BY <1>1 DEF Advance, Gen
<1> HIDE DEF g, r
<1>4. gens' \in Seq(GenRecs(code)) /\ Len(gens') = Len(gens) /\ \A i \in 1 .. Len(gens) : gens'[i] = IF i = g THEN r ELSE gens[i]
  BY <1>1, <1>2, <1>3, ExceptSeq
<1>5. SameGens(gens, gens')
  BY <1>1, <1>2, <1>4 DEF SameGens
<1>6. QED BY <1>4, <1>5

\* What the machine evaluates.
LEMMA MachineValue ==
    ASSUME IInv, NEW s, IsStatement(s)
    PROVE  SmValue(s) \in Values
<1>1. FRAME.env \in Seq(Values)
  BY EnvFacts
<1>2. Len(FRAME.env) \in Nat /\ \A i \in 1 .. Len(FRAME.env) : FRAME.env[i] \in Values
  BY <1>1, LenProperties, ElementOfSeq
<1>3. ASSUME NEW a, a.slot \in Nat, a.n \in Int PROVE SmLoad(a) \in Values
  <2>1. a.slot # NoSlot /\ a.slot <= Len(FRAME.env) => a.slot \in 1 .. Len(FRAME.env)
    BY <1>2, <1>3 DEF NoSlot
  <2>2. QED BY <2>1, <1>2, <1>3, ValueFacts DEF SmLoad
<1>4. Len(s.c) \in {1, 2} /\ \A i \in 1 .. Len(s.c) : s.c[i].slot \in Nat /\ s.c[i].n \in Int
  BY DEF IsStatement
<1>5. SmLoad(s.c[1]) \in Values
  <2> DEFINE n == Len(s.c)
  <2>0. n \in {1, 2}
    BY <1>4
  <2> HIDE DEF n
  <2>3. 1 \in 1 .. n
    BY <2>0
  <2>1. 1 \in 1 .. Len(s.c)
    BY <2>3 DEF n
  <2>2. QED BY <1>3, <1>4, <2>1
<1>6. Len(s.c) # 1 => SmLoad(s.c[2]) \in Values
  <2>1. Len(s.c) # 1 => 2 \in 1 .. Len(s.c)
    BY <1>4
  <2>2. QED BY <1>3, <1>4, <2>1
<1>7. QED BY <1>5, <1>6, BinopValue DEF SmValue

LEMMA MachineStores ==
    ASSUME NEW env \in Seq(Values), NEW s \in Nat, NEW v \in Values
    PROVE  SmStore(env, s, v) \in Seq(Values)
<1> DEFINE n == IF s <= Len(env) THEN Len(env) ELSE s
           e == [i \in 1 .. n |-> IF i = s THEN v ELSE IF i <= Len(env) THEN env[i] ELSE NULVCL]
<1>1. Len(env) \in Nat /\ \A i \in 1 .. Len(env) : env[i] \in Values
  BY LenProperties, ElementOfSeq
<1>2. n \in Nat
  BY <1>1
<1>3. SmStore(env, s, v) = IF Fails(v) THEN env ELSE e
  BY DEF SmStore
<1> HIDE DEF n
<1>4. \A i \in 1 .. n : (IF i = s THEN v ELSE IF i <= Len(env) THEN env[i] ELSE NULVCL) \in Values
  BY <1>1, <1>2, ValueFacts
<1>5. e \in Seq(Values)
  BY <1>2, <1>4, IsASeq
<1>6. QED BY <1>3, <1>5
LEMMA GeneratorAssignsKeeps ==
    ASSUME IInv, GeneratorAssigns
    PROVE  IInv'
<1>1. /\ ctl.at = "run" /\ Gen.pc <= Len(Body) /\ Advance
      /\ code' = code /\ m' = m /\ depth' = depth /\ glob' = glob /\ retval' = retval /\ k' = k /\ ctl' = ctl
      /\ frames' = [frames EXCEPT ![depth].env = SmStore(@, Stmt.slot, SmValue(Stmt))]
  BY DEF GeneratorAssigns, Running
<1>2. IsStatement(Stmt)
  BY <1>1, RunFacts
<1>3. Stmt.slot \in Nat /\ SmValue(Stmt) \in Values
  BY <1>2, MachineValue DEF IsStatement
<1>4. FRAME.env \in Seq(Values) /\ depth \in DOMAIN frames
  BY EnvFacts
<1> DEFINE e == SmStore(FRAME.env, Stmt.slot, SmValue(Stmt))
<1>5. e \in Seq(Values) /\ frames' = [frames EXCEPT ![depth].env = e]
  BY <1>1, <1>3, <1>4, MachineStores DEF FRAME
<1> HIDE DEF e
<1>6. frames' \in Seq(Frames) /\ Len(frames') = Len(frames)
  BY <1>5, EnvWritten
<1>7. gens' \in Seq(GenRecs(code)) /\ Len(gens') = Len(gens) /\ SameGens(gens, gens')
  BY <1>1, GenAdvanced
<1>8. EnvOK'
  BY <1>1, <1>6 DEF IInv, EnvOK
<1>9. GensOK'
  BY <1>1, <1>6, <1>7 DEF IInv, GensOK, SameGens
<1>10. k # <<>> /\ Drives(code, k[Len(k)], gens')
  <2>1. Top.gen \in 1 .. Len(gens) /\ ~Gen.over /\ Top.ph = "gen" /\ Owner.op = "CALL" /\ k # <<>>
    BY <1>1, RunFacts
  <2>2. QED BY <2>1, <1>7 DEF Drives, SameGens, Top, Gen, Owner
<1>11. StackOK'
  <2>1. ControlOK(code, k, ctl, gens')
    BY <1>1, <1>10 DEF IInv, StackOK, ControlOK
  <2>2. QED BY <1>1, <2>1 DEF IInv, StackOK
<1>12. OwnOK(code, m, gens') /\ DeepOK(code, k, m, gens')
  BY <1>7, GensKept DEF IInv, NodesOK
<1>13. RunOK(code, k, m, gens')
  <2>1. /\ Top.gen \in 1 .. Len(gens) /\ Deep(gens, Top.gen, CallsOf(k))
        /\ \A id \in Ids(code) : id # Top.nd => m[id].gen # Top.gen
    BY <1>1, RunFacts
  <2>2. Deep(gens', Top.gen, CallsOf(k))
    BY <2>1, <1>7 DEF Deep, SameGens
  <2>3. QED BY <2>1, <2>2 DEF RunOK, Top
<1>14. NodesOK'
  BY <1>1, <1>12, <1>13 DEF IInv, NodesOK
<1>15. QED BY <1>1, <1>8, <1>9, <1>11, <1>14 DEF IInv

\* The node whose generator runs gets a result, and keeps the generator or not.
Held(mem, nd, v, s, g, new) == new = [mem EXCEPT ![nd].val = v, ![nd].st = s, ![nd].gen = g]

LEMMA NodeHolds ==
    ASSUME NEW c, NEW mem, MemOK(c, mem), NEW nd \in Ids(c), c.at[nd].op = "CALL", NEW v \in Values, NEW st \in {0, 1},
           NEW g \in Nat, NEW new, Held(mem, nd, v, st, g, new)
    PROVE  MemOK(c, new) /\ new[nd].gen = g /\ new[nd].st = st /\ \A id \in Ids(c) : id # nd => new[id] = mem[id]
<1>1. mem \in [Ids(c) -> Cells] /\ mem[nd] \in Cells
  BY DEF MemOK
<1>2. new[nd] = [mem[nd] EXCEPT !.val = v, !.st = st, !.gen = g]
  BY <1>1 DEF Held
<1>3. new[nd] \in Cells /\ new[nd].gen = g /\ new[nd].st = st
  BY <1>1, <1>2 DEF Cells
<1>4. \A id \in Ids(c) : id # nd => new[id] = mem[id]
  BY <1>1 DEF Held
<1>5. new \in [Ids(c) -> Cells]
  BY <1>1, <1>3, <1>4 DEF Held
<1>6. ASSUME NEW id \in Ids(c) PROVE CellOK(new[id], c.at[id])
  BY <1>3, <1>4 DEF MemOK, CellOK
<1>7. QED BY <1>3, <1>4, <1>5, <1>6 DEF MemOK

\* With nothing over, it is deep enough for every call.
LEMMA DeepHeld ==
    ASSUME NEW c, NEW s, Chain(c, s), NEW t, SameCalls(s, t), Now(c, t) = Now(c, s), NEW mem, NEW gg, DeepOK(c, s, mem, gg), NEW nd \in Ids(c), NEW new,
           \A id \in Ids(c) : id # nd => new[id] = mem[id],
           new[nd].gen # 0 => Deep(gg, new[nd].gen, CallsOf(s)) /\ gg[new[nd].gen].saved_frame_depth \in Nat
    PROVE  DeepOK(c, t, new, gg)
<1>1. CallsOf(t) = CallsOf(s) /\ \A i \in CallsOf(s) : t[i] = s[i] /\ Under(t, i) = Under(s, i)
  BY DEF SameCalls, Under
<1>2. ASSUME NEW i \in CallsOf(s), new[nd].gen # 0 PROVE Deep(gg, new[nd].gen, Under(s, i))
  <2>1. Under(s, i) \subseteq CallsOf(s) /\ IsFiniteSet(CallsOf(s)) /\ Cardinality(CallsOf(s)) \in Nat
    BY CallsFinite DEF Under
  <2>2. IsFiniteSet(Under(s, i)) /\ Cardinality(Under(s, i)) <= Cardinality(CallsOf(s))
    BY <2>1, FS_Subset
  <2>3. Cardinality(Under(s, i)) \in Nat
    BY <2>2, FS_CardinalityType
  <2>4. QED BY <1>2, <2>1, <2>2, <2>3 DEF Deep
<1>3. ASSUME NEW id \in Ids(c), id[1] = Now(c, t), new[id].st = 1, new[id].gen # 0
      PROVE  Deep(gg, new[id].gen, CallsOf(t))
  BY <1>1, <1>3 DEF DeepOK
<1>4. ASSUME NEW i \in CallsOf(t), NEW id \in Ids(c), id[1] = t[i].nd[1], t[i].snap[id].st = 1, new[id].gen # 0
      PROVE  Deep(gg, new[id].gen, Under(t, i))
  <2>1. CASE id = nd
    BY <2>1, <1>1, <1>2, <1>4
  <2>2. CASE id # nd
    BY <2>2, <1>1, <1>4 DEF DeepOK
  <2>3. QED BY <2>1, <2>2
<1>5. QED BY <1>3, <1>4 DEF DeepOK
\* The evaluation of the call whose generator ran is over.
LEMMA GenPopped ==
    ASSUME IInv, ctl.at = "run", Pop, Go("back"), NEW hh
    PROVE  /\ Chain(code, k') /\ HomeOK(code, k') /\ SameCalls(k, k') /\ Now(code, k') = Now(code, k)
           /\ ControlOK(code, k', ctl', hh) /\ ctl'.at = "back"
<1>1. k # <<>> /\ k[Len(k)].ph # "call"
  BY RunFacts DEF Top
<1>2. Chain(code, k) /\ HomeOK(code, k) /\ Settled(code, k, Len(k) - 1)
  BY <1>1, TopKnown
<1>3. TakenOff(k, k')
  BY DEF Pop, TakenOff
<1>4. /\ Chain(code, k') /\ HomeOK(code, k') /\ SameCalls(k, k') /\ Now(code, k') = Now(code, k)
      /\ Settled(code, k', Len(k')) /\ Len(k') \in Nat
  BY <1>1, <1>2, <1>3, Popped
<1>5. Settled(code, k', Len(k') - 1)
  BY <1>4 DEF Settled
<1>6. ctl'.at = "back"
  BY DEF Go
<1>7. QED BY <1>4, <1>5, <1>6 DEF ControlOK

LEMMA GeneratorSuspendsKeeps ==
    ASSUME IInv, GeneratorSuspends
    PROVE  IInv'
<1> DEFINE v == SmValue(Stmt)
           g == Top.gen
           nd == Top.nd
<1>1. /\ ctl.at = "run" /\ Gen.pc <= Len(Body) /\ Advance /\ Pop /\ Go("back")
      /\ code' = code /\ frames' = frames /\ depth' = depth /\ glob' = glob /\ retval' = retval
      /\ Held(m, nd, v, 1, g, m')
  BY DEF GeneratorSuspends, Running, envs, Held
<1>2. v \in Values
  BY <1>1, RunFacts, MachineValue
<1>3. /\ Owner.op = "CALL" /\ nd \in Ids(code) /\ Now(code, k) = nd[1] /\ g \in Nat \ {0} /\ g \in 1 .. Len(gens)
      /\ ~gens[g].over /\ gens[g].saved_frame_depth \in Nat /\ Deep(gens, g, CallsOf(k))
      /\ \A id \in Ids(code) : id # nd => m[id].gen # g
  BY <1>1, RunFacts DEF Gen
<1>4. code.at[nd].op = "CALL" /\ MemOK(code, m) /\ Chain(code, k) /\ HomeOK(code, k) /\ SnapsOK(code, k, m)
      /\ OwnOK(code, m, gens) /\ DeepOK(code, k, m, gens)
  BY <1>3 DEF Owner, IInv, StackOK, NodesOK
<1> HIDE DEF v, g, nd
<1>5. MemOK(code, m') /\ m'[nd].gen = g /\ \A id \in Ids(code) : id # nd => m'[id] = m[id]
  BY <1>1, <1>2, <1>3, <1>4, NodeHolds
<1>6. /\ Chain(code, k') /\ HomeOK(code, k') /\ SameCalls(k, k') /\ Now(code, k') = Now(code, k)
      /\ ControlOK(code, k', ctl', gens') /\ ctl'.at = "back"
  BY <1>1, GenPopped
<1>7. gens' \in Seq(GenRecs(code)) /\ Len(gens') = Len(gens) /\ SameGens(gens, gens')
  BY <1>1, GenAdvanced
<1>8. SnapsOK(code, k', m')
  <2>1. \A id \in Ids(code) : id[1] # Now(code, k) => m'[id] = m[id]
    BY <1>3, <1>5
  <2>2. QED BY <1>4, <1>6, <2>1, SnapsKept
<1>9. OwnOK(code, m', gens) /\ DeepOK(code, k', m', gens)
  <2>1. OwnOK(code, m', gens)
    BY <1>3, <1>4, <1>5 DEF OwnOK
  <2>2. m'[nd].gen # 0 => Deep(gens, m'[nd].gen, CallsOf(k)) /\ gens[m'[nd].gen].saved_frame_depth \in Nat
    BY <1>3, <1>5
  <2>3. DeepOK(code, k', m', gens)
    BY <1>3, <1>4, <1>5, <1>6, <2>2, DeepHeld
  <2>4. QED BY <2>1, <2>3
<1>10. NodesOK'
  BY <1>1, <1>5, <1>6, <1>7, <1>8, <1>9, GensKept DEF NodesOK
<1>11. StackOK'
  BY <1>1, <1>6 DEF StackOK
<1>12. GensOK'
  BY <1>1, <1>7 DEF IInv, GensOK, SameGens
<1>13. EnvOK'
  BY <1>1, <1>6 DEF IInv, EnvOK, SameCalls
<1>14. QED BY <1>1, <1>10, <1>11, <1>12, <1>13 DEF IInv

LEMMA GeneratorEndsKeeps ==
    ASSUME IInv, GeneratorEnds
    PROVE  IInv'
<1> DEFINE g == Top.gen
           nd == Top.nd
<1>1. /\ ctl.at = "run" /\ Pop /\ Go("back") /\ gens' = [gens EXCEPT ![g].over = TRUE]
      /\ code' = code /\ frames' = frames /\ depth' = Gen.saved_frame_depth - 1 /\ glob' = glob /\ retval' = retval
      /\ Held(m, nd, FAIL, 0, 0, m')
  BY DEF GeneratorEnds, Running, Forgotten, Held
<1>2. /\ Owner.op = "CALL" /\ nd \in Ids(code) /\ Now(code, k) = nd[1] /\ g \in Nat \ {0} /\ g \in 1 .. Len(gens)
      /\ Gen \in GenRecs(code) /\ Gen = gens[g] /\ g \in DOMAIN gens
      /\ Gen.saved_frame_depth \in Nat /\ Gen.saved_frame_depth <= Len(frames)
      /\ Gen.saved_frame_depth >= 2 + Cardinality(CallsOf(k))
      /\ \A id \in Ids(code) : id # nd => m[id].gen # g
  BY <1>1, RunFacts DEF Gen
<1>3. code.at[nd].op = "CALL" /\ MemOK(code, m) /\ Chain(code, k) /\ HomeOK(code, k) /\ SnapsOK(code, k, m)
      /\ OwnOK(code, m, gens) /\ DeepOK(code, k, m, gens) /\ gens \in Seq(GenRecs(code))
      /\ \A i \in 1 .. Len(gens) : gens[i].saved_frame_depth <= Len(frames)
  BY <1>2 DEF Owner, IInv, StackOK, NodesOK, GensOK
<1> HIDE DEF g, nd
<1>4. MemOK(code, m') /\ m'[nd].gen = 0 /\ \A id \in Ids(code) : id # nd => m'[id] = m[id]
  <2> DEFINE zero == 0
  <2>1. zero \in {0, 1} /\ zero \in Nat /\ FAIL \in Values /\ Held(m, nd, FAIL, zero, zero, m')
    BY <1>1, ValueFacts
  <2> HIDE DEF zero
  <2>2. MemOK(code, m') /\ m'[nd].gen = zero /\ \A id \in Ids(code) : id # nd => m'[id] = m[id]
    BY <1>2, <1>3, <2>1, NodeHolds
  <2>3. QED BY <2>2 DEF zero
<1>5. /\ Chain(code, k') /\ HomeOK(code, k') /\ SameCalls(k, k') /\ Now(code, k') = Now(code, k)
      /\ ControlOK(code, k', ctl', gens') /\ ctl'.at = "back"
  BY <1>1, GenPopped
<1>6. /\ gens' \in Seq(GenRecs(code)) /\ Len(gens') = Len(gens) /\ \A i \in 1 .. Len(gens) : i # g => gens'[i] = gens[i]
      /\ gens'[g].saved_frame_depth = gens[g].saved_frame_depth
  <2> DEFINE r == [Gen EXCEPT !.over = TRUE]
  <2>1. r \in GenRecs(code) /\ r.saved_frame_depth = Gen.saved_frame_depth
    BY <1>2 DEF GenRecs
  <2>2. gens' = [gens EXCEPT ![g] = r]
    BY <1>1, <1>2
  <2> HIDE DEF r
  <2>3. gens' \in Seq(GenRecs(code)) /\ Len(gens') = Len(gens) /\ \A i \in 1 .. Len(gens) : gens'[i] = IF i = g THEN r ELSE gens[i]
    BY <1>2, <1>3, <2>1, <2>2, ExceptSeq
  <2>4. QED BY <1>2, <2>1, <2>3
<1>7. SnapsOK(code, k', m')
  <2>1. \A id \in Ids(code) : id[1] # Now(code, k) => m'[id] = m[id]
    BY <1>2, <1>4
  <2>2. QED BY <1>3, <1>5, <2>1, SnapsKept
<1>8. \A id \in Ids(code) : m'[id].gen # 0 => id # nd /\ m'[id].gen = m[id].gen /\ m'[id].gen # g /\ m'[id].gen \in 1 .. Len(gens)
  BY <1>2, <1>3, <1>4 DEF OwnOK
<1>9. OwnOK(code, m', gens')
  <2>1. ASSUME NEW id \in Ids(code), m'[id].gen # 0 PROVE m'[id].gen \in 1 .. Len(gens') /\ ~gens'[m'[id].gen].over
    BY <1>3, <1>6, <1>8, <2>1 DEF OwnOK
  <2>2. ASSUME NEW id \in Ids(code), NEW jd \in Ids(code), m'[id].gen = m'[jd].gen, m'[id].gen # 0 PROVE id = jd
    BY <1>3, <1>8, <2>2 DEF OwnOK
  <2>3. QED BY <2>1, <2>2 DEF OwnOK
<1>10. DeepOK(code, k', m', gens')
  <2>1. DeepOK(code, k', m', gens)
    BY <1>2, <1>3, <1>4, <1>5, DeepHeld
  <2>2. \A id \in Ids(code) : \A calls : m'[id].gen # 0 /\ Deep(gens, m'[id].gen, calls) => Deep(gens', m'[id].gen, calls)
    BY <1>6, <1>8 DEF Deep
  <2>3. QED BY <2>1, <2>2 DEF DeepOK
<1>11. NodesOK'
  BY <1>1, <1>4, <1>5, <1>7, <1>9, <1>10 DEF NodesOK
<1>12. StackOK'
  BY <1>1, <1>5 DEF StackOK
<1>13. GensOK'
  BY <1>1, <1>2, <1>3, <1>6 DEF GensOK
<1>14. EnvOK'
  <2>1. CallsOf(k') = CallsOf(k) /\ Cardinality(CallsOf(k)) \in Nat
    BY <1>3, <1>5, CallsFinite DEF SameCalls
  <2>2. depth' \in Nat /\ depth' <= Len(frames) /\ 1 + Cardinality(CallsOf(k)) <= depth'
    BY <1>1, <1>2, <2>1, EnvFacts
  <2>3. QED BY <1>1, <2>1, <2>2 DEF IInv, EnvOK
<1>15. QED BY <1>1, <1>11, <1>12, <1>13, <1>14 DEF IInv
Driven(a, g) == [a EXCEPT !.ph = "gen", !.gen = g]

LEMMA ActDriven ==
    ASSUME NEW c, NEW a \in Acts(c), NEW g \in Nat
    PROVE  LET f == Driven(a, g)
           IN f \in Acts(c) /\ f.nd = a.nd /\ f.j = a.j /\ f.ph = "gen" /\ f.gen = g
<1>1. "gen" \in Phases \cup {"call", "gen"}
  OBVIOUS
<1>2. QED BY <1>1 DEF Driven, Acts

LEMMA StartGeneratorKeeps ==
    ASSUME IInv, StartGenerator
    PROVE  IInv'
<1> DEFINE g == Len(gens) + 1
           a == Driven(Top, g)
           r == [proc |-> Owner.x, pc |-> 1, saved_frame_depth |-> depth + 1, over |-> FALSE]
<1>1. /\ ctl.at = "apply" /\ Owner.op = "CALL" /\ Suspends(code, Owner.x) /\ depth < MaxFrames /\ Push(Owner.x)
      /\ gens' = Append(gens, r) /\ Drive(k, g) /\ code' = code /\ m' = m /\ glob' = glob /\ retval' = retval
  BY DEF StartGenerator, Applying
<1>2. k # <<>> /\ Top.ph # "call" /\ Now(code, k) = Top.nd[1]
  BY <1>1, ApplyFacts
<1>3. Top \in Acts(code) /\ Top.nd \in Ids(code) /\ Top.j <= Owner.kids /\ code \in Codes
      /\ Chain(code, k) /\ HomeOK(code, k) /\ Settled(code, k, Len(k) - 1)
  BY <1>2, TopKnown
<1>4. /\ MemOK(code, m) /\ SnapsOK(code, k, m) /\ OwnOK(code, m, gens) /\ DeepOK(code, k, m, gens)
      /\ gens \in Seq(GenRecs(code)) /\ \A i \in 1 .. Len(gens) : gens[i].saved_frame_depth <= Len(frames)
  BY DEF IInv, NodesOK, GensOK
<1>5. Len(gens) \in Nat /\ g \in Nat \ {0} /\ \A i \in 1 .. Len(gens) : gens[i] \in GenRecs(code)
  BY <1>4, TopFacts
<1>6. Owner.x \in DOMAIN code.proc
  BY <1>1 DEF Suspends
<1>7. /\ frames' \in Seq(Frames) /\ Len(frames) <= Len(frames') /\ Len(frames') <= MaxFrames
      /\ depth' = depth + 1 /\ depth' \in Nat /\ depth' <= Len(frames') /\ Len(frames') \in Nat
  BY <1>1, <1>2, <1>6, FramePushed
<1>8. depth \in Nat \ {0} /\ 1 + Cardinality(CallsOf(k)) <= depth /\ Len(frames) \in Nat /\ Cardinality(CallsOf(k)) \in Nat
  BY <1>3, EnvFacts, CallsFinite DEF IInv, EnvOK
<1>9. r \in GenRecs(code) /\ r.saved_frame_depth = depth' /\ ~r.over
  <2> DEFINE one == 1
             d == depth + 1
  <2>1. one \in Nat \ {0} /\ d \in Nat /\ d = depth' /\ r = [proc |-> Owner.x, pc |-> one, saved_frame_depth |-> d, over |-> FALSE]
    BY <1>7, <1>8
  <2> HIDE DEF one, d
  <2>2. QED BY <1>6, <2>1 DEF GenRecs
<1>10. PutAt(k, a, k') /\ ctl'.at = "run"
  <2>1. Len(k) \in DOMAIN k
    BY <1>2, <1>3, TopFacts DEF Chain
  <2>2. k' = [k EXCEPT ![Len(k)] = a]
    BY <1>1, <2>1 DEF Drive, Driven, Top
  <2>3. QED BY <1>1, <2>2 DEF PutAt, Drive, Go
<1>11. a \in Acts(code) /\ a.nd = Top.nd /\ a.j = Top.j /\ a.ph = "gen" /\ a.gen = g
  BY <1>3, <1>5, ActDriven
<1> HIDE DEF g, a, r
<1>12. /\ gens' \in Seq(GenRecs(code)) /\ Len(gens') = g /\ gens'[g] = r /\ (\A i \in 1 .. Len(gens) : gens'[i] = gens[i])
       /\ SameGens(gens, gens')
  <2>1. gens' \in Seq(GenRecs(code)) /\ Len(gens') = Len(gens) + 1 /\ gens'[Len(gens) + 1] = r
        /\ \A i \in 1 .. Len(gens) : gens'[i] = gens[i]
    BY <1>1, <1>4, <1>9, AppendProperties
  <2>2. SameGens(gens, gens')
    BY <1>5, <2>1 DEF SameGens
  <2>3. QED BY <2>1, <2>2 DEF g
<1>13. a.j <= code.at[a.nd].kids /\ a.nd = k[Len(k)].nd /\ a.ph # "call" /\ k[Len(k)].ph # "call"
  BY <1>2, <1>3, <1>11 DEF Owner, Top
<1>14. /\ Chain(code, k') /\ HomeOK(code, k') /\ SameCalls(k, k') /\ Now(code, k') = Now(code, k)
       /\ k' # <<>> /\ k'[Len(k')] = a /\ Settled(code, k', Len(k') - 1)
  BY <1>2, <1>3, <1>10, <1>11, <1>13, Replaced
<1>15. Drives(code, a, gens')
  <2>1. g \in 1 .. Len(gens') /\ ~gens'[g].over
    BY <1>5, <1>9, <1>12
  <2>2. QED BY <1>1, <1>11, <2>1 DEF Drives, Owner
<1>16. StackOK'
  <2>1. ControlOK(code, k', ctl', gens')
    BY <1>10, <1>14, <1>15 DEF ControlOK
  <2>2. QED BY <1>1, <1>14, <2>1 DEF StackOK
<1>17. SnapsOK(code, k', m)
  BY <1>3, <1>4, <1>14, SnapsKept
<1>18. OwnOK(code, m, gens') /\ DeepOK(code, k', m, gens')
  <2>1. DeepOK(code, k', m, gens)
    <3>1. Within(code, m, m, Now(code, k))
      BY <1>4, WithinSame
    <3>2. QED BY <1>4, <1>14, <3>1, DeepKept
  <2>2. QED BY <1>4, <1>12, <2>1, GensKept
<1>19. CallsOf(k') = CallsOf(k)
  BY <1>14 DEF SameCalls
<1>20. RunOK(code, k', m, gens')
  <2>1. Deep(gens', g, CallsOf(k'))
    BY <1>7, <1>8, <1>9, <1>12, <1>19 DEF Deep
  <2>2. ASSUME NEW id \in Ids(code), m[id].gen = g PROVE FALSE
    <3>1. g \in 1 .. Len(gens)
      BY <1>4, <1>5, <2>2 DEF OwnOK
    <3>2. QED BY <3>1, <1>5 DEF g
  <2>3. QED BY <1>11, <1>14, <2>1, <2>2 DEF RunOK
<1>21. NodesOK'
  BY <1>1, <1>4, <1>17, <1>18, <1>20 DEF NodesOK
<1>22. GensOK'
  <2>1. ASSUME NEW i \in 1 .. Len(gens') PROVE gens'[i].saved_frame_depth <= Len(frames')
    <3>1. CASE i \in 1 .. Len(gens)
      <4>1. gens'[i] = gens[i] /\ gens[i].saved_frame_depth <= Len(frames) /\ gens[i].saved_frame_depth \in Nat
        BY <3>1, <1>4, <1>5, <1>12 DEF GenRecs
      <4>2. QED BY <4>1, <1>7, <1>8
    <3>2. CASE i = g
      BY <3>2, <1>7, <1>9, <1>12
    <3>3. i \in 1 .. Len(gens) \/ i = g
      BY <1>5, <1>12 DEF g
    <3>4. QED BY <3>1, <3>2, <3>3
  <2>2. QED BY <1>1, <1>12, <2>1 DEF GensOK
<1>23. EnvOK'
  <2>1. 1 + Cardinality(CallsOf(k')) <= depth'
    BY <1>7, <1>8, <1>19
  <2>2. QED BY <1>1, <1>7, <2>1 DEF IInv, EnvOK
<1>24. QED BY <1>1, <1>3, <1>16, <1>21, <1>22, <1>23 DEF IInv

\* What is put on top of a stack and then changed is put on top changed.
LEMMA PushedChanged ==
    ASSUME NEW S, NEW ws \in Seq(S), NEW x \in S, NEW y \in S, NEW mid, PutOn(ws, x, mid), NEW vs, PutAt(mid, y, vs)
    PROVE  PutOn(ws, y, vs)
<1> DEFINE n == Len(ws)
<1>1. n \in Nat /\ mid \in Seq(S) /\ Len(mid) = n + 1 /\ \A i \in 1 .. n : mid[i] = ws[i]
  BY TopPushed DEF PutOn
<1>2. mid # <<>> /\ n + 1 - 1 = n
  BY <1>1, EmptySeq
<1>8. vs \in Seq(S) /\ Len(vs) = Len(mid) /\ vs[Len(mid)] = y /\ \A i \in 1 .. Len(mid) - 1 : vs[i] = mid[i]
  BY <1>1, <1>2, TopReplaced DEF PutAt
<1>3. vs \in Seq(S) /\ Len(vs) = n + 1 /\ vs[n + 1] = y /\ \A i \in 1 .. n : vs[i] = mid[i]
  BY <1>1, <1>2, <1>8
<1> DEFINE t == Append(ws, y)
<1>4. t \in Seq(S) /\ Len(t) = n + 1 /\ (\A i \in 1 .. n : t[i] = ws[i]) /\ t[n + 1] = y
  BY AppendProperties
<1> HIDE DEF t, n
<1>5. \A i \in 1 .. n + 1 : vs[i] = t[i]
  <2>1. \A i \in 1 .. n + 1 : i \in 1 .. n \/ i = n + 1
    BY <1>1
  <2>2. QED BY <2>1, <1>1, <1>3, <1>4
<1>6. vs = t
  BY <1>3, <1>4, <1>5, SeqEqual
<1>7. QED BY <1>6 DEF PutOn, t

LEMMA ResumeGeneratorKeeps ==
    ASSUME IInv, ResumeGenerator
    PROVE  IInv'
<1> DEFINE g == Here.gen
           a == Driven(Activity(0, "gen"), g)
<1>1. /\ ctl.at = "exec" /\ Entered.op = "CALL" /\ Here.st = 1 /\ g # 0
      /\ depth' = gens[g].saved_frame_depth /\ Drive(Append(k, Activity(0, "gen")), g)
      /\ code' = code /\ m' = m /\ frames' = frames /\ glob' = glob /\ retval' = retval /\ gens' = gens
  BY DEF ResumeGenerator, Entering, Suspended
<1>2. ctl.nd \in Ids(code) /\ ctl.nd[1] = Now(code, k) /\ Chain(code, k) /\ HomeOK(code, k)
      /\ Settled(code, k, Len(k)) /\ code \in Codes /\ Here = m[ctl.nd]
  BY <1>1, ExecFacts DEF Here
<1>3. /\ MemOK(code, m) /\ SnapsOK(code, k, m) /\ OwnOK(code, m, gens) /\ DeepOK(code, k, m, gens)
      /\ gens \in Seq(GenRecs(code)) /\ \A i \in 1 .. Len(gens) : gens[i].saved_frame_depth <= Len(frames)
  BY DEF IInv, NodesOK, GensOK
<1>4. g \in 1 .. Len(gens) /\ ~gens[g].over /\ (\A id \in Ids(code) : id # ctl.nd => m[id].gen # g)
      /\ Deep(gens, g, CallsOf(k))
  BY <1>1, <1>2, <1>3 DEF OwnOK, DeepOK
<1>5. Len(gens) \in Nat /\ gens[g] \in GenRecs(code)
  BY <1>3, <1>4, TopFacts
<1>6. gens[g].saved_frame_depth \in Nat /\ gens[g].saved_frame_depth <= Len(frames) /\ g \in Nat
  BY <1>3, <1>4, <1>5 DEF GenRecs
<1> DEFINE b == Activity(0, "gen")
<1>7. b \in Acts(code) /\ b.nd = ctl.nd /\ b.j = 0
  <2>1. 0 \in Nat /\ "gen" \in Phases \cup {"call", "gen"}
    OBVIOUS
  <2>2. b \in Acts(code)
    BY <1>1, <2>1, ActivityOK
  <2>3. QED BY <2>2 DEF Activity
<1> HIDE DEF b
<1>8. a \in Acts(code) /\ a.nd = ctl.nd /\ a.j = 0 /\ a.ph = "gen" /\ a.gen = g
  <2>1. a = Driven(b, g)
    BY DEF b
  <2> HIDE DEF a, g
  <2>2. Driven(b, g) \in Acts(code) /\ Driven(b, g).nd = b.nd /\ Driven(b, g).j = b.j
        /\ Driven(b, g).ph = "gen" /\ Driven(b, g).gen = g
    BY <1>6, <1>7, ActDriven
  <2>3. QED BY <1>7, <2>1, <2>2
<1>9. PutOn(k, a, k') /\ ctl'.at = "run"
  <2> DEFINE mid == Append(k, b)
             n   == Len(mid)
  <2>1. k \in Seq(Acts(code))
    BY <1>2 DEF Chain
  <2>2. mid \in Seq(Acts(code)) /\ n \in DOMAIN mid /\ mid[n] = b
    <3>1. mid \in Seq(Acts(code)) /\ mid # <<>> /\ Len(mid) = Len(k) + 1 /\ mid[Len(k) + 1] = b
      BY <1>7, <2>1, AppendProperties
    <3>2. QED BY <3>1, TopFacts
  <2>3. k' = [mid EXCEPT ![n].ph = "gen", ![n].gen = g]
    BY <1>1 DEF Drive, b
  <2> HIDE DEF n
  <2>4. k' = [mid EXCEPT ![n] = a]
    BY <2>2, <2>3 DEF Driven, b
  <2>5. PutAt(mid, a, k') /\ PutOn(k, b, mid)
    BY <2>4 DEF n, PutAt, PutOn
  <2> HIDE DEF a, mid
  <2>6. PutOn(k, a, k')
    BY <1>7, <1>8, <2>1, <2>5, PushedChanged
  <2>7. QED BY <1>1, <2>6 DEF Drive, Go
<1> HIDE DEF a, g
<1>10. a.j <= code.at[a.nd].kids /\ a.nd[1] = Now(code, k) /\ a.ph # "call" /\ code.at[a.nd].op = "CALL"
  <2>1. code.at[ctl.nd].kids \in Nat
    BY <1>2, NodeFacts
  <2>2. QED BY <1>1, <1>2, <1>8, <2>1 DEF Entered
<1>11. /\ Chain(code, k') /\ HomeOK(code, k') /\ SameCalls(k, k') /\ Now(code, k') = Now(code, k)
       /\ k' # <<>> /\ k'[Len(k')] = a /\ Settled(code, k', Len(k') - 1)
  BY <1>2, <1>8, <1>9, <1>10, Pushed
<1>12. Drives(code, a, gens)
  BY <1>4, <1>8, <1>10 DEF Drives
<1>13. StackOK'
  <2>1. ControlOK(code, k', ctl', gens)
    BY <1>9, <1>11, <1>12 DEF ControlOK
  <2>2. QED BY <1>1, <1>11, <2>1 DEF StackOK
<1>14. CallsOf(k') = CallsOf(k)
  BY <1>11 DEF SameCalls
<1>15. SnapsOK(code, k', m) /\ DeepOK(code, k', m, gens)
  <2>1. Within(code, m, m, Now(code, k))
    BY <1>3, WithinSame
  <2>2. QED BY <1>2, <1>3, <1>11, <2>1, SnapsKept, DeepKept
<1>16. RunOK(code, k', m, gens)
  BY <1>4, <1>8, <1>11, <1>14 DEF RunOK
<1>17. NodesOK'
  BY <1>1, <1>3, <1>15, <1>16 DEF NodesOK
<1>18. GensOK'
  BY <1>1, <1>3 DEF GensOK
<1>19. EnvOK'
  <2>1. Cardinality(CallsOf(k)) \in Nat
    BY <1>2, CallsFinite
  <2>2. 1 + Cardinality(CallsOf(k)) <= depth' /\ depth' \in Nat /\ depth' <= Len(frames)
    BY <1>1, <1>4, <1>6, <2>1 DEF Deep
  <2>3. QED BY <1>1, <1>14, <2>2 DEF IInv, EnvOK
<1>20. QED BY <1>1, <1>2, <1>13, <1>17, <1>18, <1>19 DEF IInv
-----------------------------------------------------------------------------
(* The theorems.                                                           *)

LEMMA NodesFresh ==
    ASSUME Init
    PROVE  MemOK(code, m) /\ \A id \in Ids(code) : m[id].gen = 0
<1>1. code \in Codes /\ m = [id \in Ids(code) |-> Fresh(code.at[id])]
  BY DEF Init, Ids
<1>2. ASSUME NEW id \in Ids(code) PROVE m[id] \in Cells /\ CellOK(m[id], code.at[id]) /\ m[id].gen = 0
  <2> DEFINE nd == code.at[id]
             zero == 0
  <2>1. nd.lo \in Int /\ nd.hi \in Int
    BY <1>1, NodeFacts
  <2>2. m[id] = [val |-> FAIL, st |-> zero, cnt |-> zero, lo |-> nd.lo, hi |-> nd.hi, gen |-> zero, once |-> FALSE]
    BY <1>1 DEF Fresh
  <2>3. zero \in {0, 1} /\ zero \in Int /\ zero \in Nat /\ FAIL \in Values /\ zero # 1 /\ zero = 0
    BY ValueFacts
  <2> HIDE DEF nd, zero
  <2>4. m[id] \in Cells /\ m[id].gen = zero /\ m[id].st = zero
    BY <2>1, <2>2, <2>3 DEF Cells
  <2>5. QED BY <2>3, <2>4 DEF CellOK
<1>3. m \in [Ids(code) -> Cells]
  BY <1>1, <1>2
<1>4. QED BY <1>2, <1>3 DEF MemOK

LEMMA Initially ==
    ASSUME Init
    PROVE  IInv
<1>1. /\ code \in Codes /\ frames = <<NewFrame(code.proc["main"], <<>>)>> /\ depth = 1
      /\ glob = [x \in code.names |-> NULVCL] /\ retval = NULVCL
      /\ gens = <<>> /\ k = <<>> /\ ctl = [at |-> "exec", nd |-> Root("main")]
  BY DEF Init
<1>2. HasGraph(code, "main")
  BY <1>1, IcnAssumption DEF IsLowered
<1>3. MemOK(code, m) /\ \A id \in Ids(code) : m[id].gen = 0
  BY NodesFresh
<1>4. Len(k) = 0 /\ CallsOf(k) = {} /\ k \in Seq(Acts(code)) /\ Len(gens) = 0 /\ gens \in Seq(GenRecs(code))
  BY <1>1 DEF CallsOf
<1>5. Now(code, k) = "main"
  BY <1>4 DEF Now, Before
<1>6. EnvOK
  <2> DEFINE f == NewFrame(code.proc["main"], <<>>)
  <2>1. f \in Frames
    <3>1. "main" \in DOMAIN code.proc /\ <<>> \in Seq(Values)
      BY <1>2 DEF HasGraph
    <3>2. QED BY <1>1, <3>1, FrameMade
  <2> HIDE DEF f
  <2>2. frames \in Seq(Frames) /\ Len(frames) = 1
    BY <1>1, <2>1 DEF f
  <2>3. Cardinality(CallsOf(k)) = 0
    BY <1>4, FS_EmptySet
  <2>4. glob \in [code.names -> Values] /\ retval \in Values
    BY <1>1, ValueFacts
  <2>5. QED BY <1>1, <2>2, <2>3, <2>4, IcnAssumption DEF EnvOK
<1>7. GensOK
  BY <1>4 DEF GensOK
<1>8. StackOK
  <2>1. Chain(code, k) /\ HomeOK(code, k)
    BY <1>4 DEF Chain, HomeOK
  <2>2. Settled(code, k, Len(k)) /\ Settled(code, k, Len(k) - 1)
    BY <1>4 DEF Settled
  <2>3. ctl.at = "exec" /\ ctl.nd \in Ids(code) /\ ctl.nd[1] = Now(code, k)
    BY <1>1, <1>2, <1>5 DEF HasGraph, Root, Ids
  <2>4. QED BY <2>1, <2>2, <2>3 DEF StackOK, ControlOK
<1>9. NodesOK
  <2>1. SnapsOK(code, k, m)
    BY <1>4 DEF SnapsOK
  <2>2. OwnOK(code, m, gens)
    BY <1>3 DEF OwnOK
  <2>3. DeepOK(code, k, m, gens)
    BY <1>3, <1>4 DEF DeepOK
  <2>4. ctl.at # "run"
    BY <1>1
  <2>5. QED BY <1>3, <2>1, <2>2, <2>3, <2>4 DEF NodesOK
<1>10. QED BY <1>1, <1>6, <1>7, <1>8, <1>9 DEF IInv

LEMMA StepKeeps ==
    ASSUME IInv, Next
    PROVE  IInv'
<1>1. CASE ExecLeaf \/ ExecBreak \/ ExecNext
  BY <1>1, ExecLeafKeeps, ExecFlagKeeps
<1>2. CASE ExecStrict \/ StrictOperand
  BY <1>2, ExecStrictKeeps, StrictOperandKeeps
<1>3. CASE ApplyAssign \/ ApplySwap \/ ApplyBinop \/ ApplyNonNull \/ ApplyWrite \/ CallFails
  BY <1>3, ApplyStrictKeeps
<1>4. CASE CallProc \/ CallReturns
  BY <1>4, CallProcKeeps, CallReturnsKeeps
<1>5. CASE StartGenerator \/ ResumeGenerator
  BY <1>5, StartGeneratorKeeps, ResumeGeneratorKeeps
<1>6. CASE GeneratorAssigns \/ GeneratorSuspends \/ GeneratorEnds
  BY <1>6, GeneratorAssignsKeeps, GeneratorSuspendsKeeps, GeneratorEndsKeeps
<1>7. CASE ExecSeq \/ ExecReturn \/ ExecIf \/ ExecNot \/ ExecCase
  BY <1>7, ExecFirstKeeps
<1>8. CASE SeqStatement \/ ExecBlock \/ BlockExpression \/ Returns \/ ExecInitial
  BY <1>8, SeqStatementKeeps, ExecBlockKeeps, BlockExpressionKeeps, ReturnsKeeps, ExecInitialKeeps
<1>9. CASE InitialDone \/ IfDone \/ NotDone \/ CaseDone
  BY <1>9, GivesKeeps
<1>10. CASE IfChooses \/ CaseSelects \/ CaseKey
  BY <1>10, IfChoosesKeeps, CaseSelectsKeeps, CaseKeyKeeps
<1>11. CASE ExecLoop \/ LoopHead \/ LoopBody
  BY <1>11, ExecLoopKeeps, LoopKeeps
<1>12. CASE ExecTo \/ ToSeed \/ ToNext \/ ExecToBy \/ ToByStep
  BY <1>12, ExecToKeeps, ToSeedKeeps, ToNextKeeps, ExecToByKeeps, ToByStepKeeps
<1>13. CASE ExecLimit \/ LimitMax \/ LimitPump \/ ExecAlt \/ AltArm
  BY <1>13, ExecLimitKeeps, LimitMaxKeeps, LimitPumpKeeps, ExecAltKeeps, AltArmKeeps
<1>14. CASE ExecBinopGen \/ BinopOperand \/ ApplyBinopGen
  BY <1>14, ExecBinopGenKeeps, BinopOperandKeeps, ApplyBinopGenKeeps
<1>15. QED BY <1>1, <1>2, <1>3, <1>4, <1>5, <1>6, <1>7, <1>8, <1>9, <1>10, <1>11, <1>12, <1>13, <1>14 DEF Next

\* No step at all.
LEMMA StutterKeeps ==
    ASSUME IInv, UNCHANGED vars
    PROVE  IInv'
<1>1. /\ code' = code /\ m' = m /\ frames' = frames /\ depth' = depth /\ glob' = glob /\ retval' = retval
      /\ gens' = gens /\ k' = k /\ ctl' = ctl
  BY DEF vars, envs
<1>2. EnvOK' /\ GensOK' /\ StackOK' /\ NodesOK'
  BY <1>1 DEF IInv, EnvOK, GensOK, StackOK, NodesOK
<1>3. QED BY <1>1, <1>2 DEF IInv

\* The invariant that the others follow from: what runs was called, every node of a
\* procedure not called since a call has the value, state and counter it had then, every generator belongs to one node, and its frame is deep enough.
THEOREM AlwaysIInv == Spec => []IInv
<1>1. Init => IInv
  BY Initially
<1>2. IInv /\ [Next]_vars => IInv'
  BY StepKeeps, StutterKeeps
<1>3. QED BY <1>1, <1>2, PTL DEF Spec

LEMMA Typed == ASSUME IInv PROVE TypeOK
<1>1. MemOK(code, m) /\ OwnOK(code, m, gens) /\ Chain(code, k) /\ code \in Codes
  BY DEF IInv, NodesOK, StackOK
<1>2. k \in Seq(Acts(code)) /\ Len(k) \in Nat /\ DOMAIN k = 1 .. Len(k) /\ \A i \in 1 .. Len(k) : k[i] \in Acts(code)
  BY <1>1, TopFacts DEF Chain
<1>3. Len(gens) \in Nat
  BY TopFacts DEF IInv, GensOK
<1>4. ASSUME NEW id \in DOMAIN m
      PROVE  /\ m[id].val \in Values /\ m[id].st \in {0, 1} /\ {m[id].cnt, m[id].lo, m[id].hi} \subseteq Int
             /\ m[id].gen \in 0 .. Len(gens) /\ (m[id].gen # 0 => ~gens[m[id].gen].over)
  <2> DEFINE a == m[id]
  <2>1. id \in Ids(code) /\ a \in Cells
    BY <1>1 DEF MemOK
  <2>2. a.gen # 0 => a.gen \in 1 .. Len(gens) /\ ~gens[a.gen].over
    BY <1>1, <2>1 DEF OwnOK
  <2> HIDE DEF a
  <2>3. a.val \in Values /\ a.st \in {0, 1} /\ a.cnt \in Int /\ a.lo \in Int /\ a.hi \in Int /\ a.gen \in Nat
    BY <2>1 DEF Cells
  <2>4. a.gen \in 0 .. Len(gens)
    BY <1>3, <2>2, <2>3
  <2>5. QED BY <2>2, <2>3, <2>4 DEF a
<1>5. depth \in 1 + Cardinality({i \in DOMAIN k : k[i].ph = "call"}) .. Len(frames)
  <2>1. CallsOf(k) = {i \in DOMAIN k : k[i].ph = "call"}
    BY <1>2 DEF CallsOf
  <2>2. Cardinality(CallsOf(k)) \in Nat /\ Len(frames) \in Nat
    BY <1>1, CallsFinite, EnvFacts
  <2>3. depth \in 1 + Cardinality(CallsOf(k)) .. Len(frames)
    BY <2>2 DEF IInv, EnvOK
  <2>4. QED BY <2>1, <2>3
<1>6. Len(frames) <= MaxFrames /\ \A i \in DOMAIN frames : \A s \in DOMAIN frames[i].env : frames[i].env[s] \in Values
  <2>1. frames \in Seq(Frames) /\ Len(frames) <= MaxFrames
    BY DEF IInv, EnvOK
  <2>2. ASSUME NEW i \in DOMAIN frames PROVE \A s \in DOMAIN frames[i].env : frames[i].env[s] \in Values
    <3>1. frames[i] \in Frames
      BY <2>1, TopFacts
    <3>2. frames[i].env \in Seq(Values)
      BY <3>1 DEF Frames
    <3>3. QED BY <3>2, TopFacts
  <2>3. QED BY <2>1, <2>2
<1>7. ASSUME NEW i \in DOMAIN k PROVE k[i].j <= code.at[k[i].nd].kids /\ \A n \in DOMAIN k[i].args : k[i].args[n] \in Values
  <2>1. k[i].j <= code.at[k[i].nd].kids /\ k[i].args \in Seq(Values)
    BY <1>1, <1>2 DEF Chain, Acts
  <2>2. QED BY <2>1, TopFacts
<1>8. ctl.at \in {"exec", "back", "apply", "run"} /\ (ctl.at \in {"apply", "run"} => k # <<>>)
  BY DEF IInv, StackOK, ControlOK
<1>9. QED BY <1>4, <1>5, <1>6, <1>7, <1>8 DEF TypeOK

\* Whatever programs are run: the state is well typed, no node keeps a generator that is over, and
\* every call in progress has a frame of its own on the stack.
THEOREM TypeCorrect == Spec => []TypeOK
BY AlwaysIInv, Typed, PTL

\* Whatever programs are run, however deep the recursion: when a call returns, every node has the value,
\* the state and the counter it had when the call was made, whichever procedures were called meanwhile.
\* It says nothing of the other fields (bounds, limit, generator), which the code does not give back.
THEOREM CallsRestore == Spec => CallsRestoreState
<1>1. ASSUME IInv, CallReturns
      PROVE  \A id \in DOMAIN m \ {Top.nd} : /\ m'[id].val = Top.snap[id].val
                                             /\ m'[id].st = Top.snap[id].st /\ m'[id].cnt = Top.snap[id].cnt
  <2>1. DOMAIN m = Ids(code)
    BY <1>1 DEF IInv, NodesOK, MemOK
  <2>2. \A id \in Ids(code) : id # k[Len(k)].nd => Alike(k[Len(k)].snap[id], m'[id])
    BY <1>1, CallReturnsLeaves
  <2>3. QED BY <2>1, <2>2 DEF Alike, Top
<1>2. IInv /\ [Next]_vars =>
        [CallReturns => \A id \in DOMAIN m \ {Top.nd} :
                          /\ m'[id].val = Top.snap[id].val
                          /\ m'[id].st = Top.snap[id].st /\ m'[id].cnt = Top.snap[id].cnt]_vars
  BY <1>1
<1>3. QED BY <1>2, AlwaysIInv, PTL DEF Spec, CallsRestoreState
=============================================================================
