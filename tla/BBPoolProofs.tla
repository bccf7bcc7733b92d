---------------------------- MODULE BBPoolProofs ----------------------------
(***************************************************************************)
(* Proofs about BBPool for every pool, buffer and pattern size: the pool   *)
(* is write-xor-execute where it matters, and no pointer kept in the       *)
(* pattern cache or inside sealed code ever dangles.                       *)
(***************************************************************************)
EXTENDS BBPool, SequenceTheorems, TLAPS

\* The buffers in construction are allocated; the operand's is the topmost
\* one, lies above the outermost pattern's and is the next thing to finish.
Geometry ==
    /\ root # None => root.buf + FlatPages <= pool_top
    /\ cur # None => /\ root # None
                     /\ root.buf + FlatPages <= cur.buf
                     /\ cur.buf + FlatPages = pool_top
                     /\ work # <<>>

\* During a build the child cache names live code only.  (Between builds it
\* may name freed code: BuildRoot empties it before it is consulted again.)
ChildrenAreLive ==
    root # None => \A k \in Nodes : childFn[k] \in Pages => Live(childFn[k], k)

\* What the emitter and the protection calls must preserve of the pool.
Buffers == Geometry /\ EmitterWritesOnlyWritable /\ FreePagesWritable

\* Every pointer kept somewhere leads to live code.
Pointers ==
    /\ ChildrenAreLive
    /\ CachedCodeIsLive
    /\ EmbeddedCallsAreLive
    /\ RunningCodeIsExecutable

\* The inductive invariant.
PoolInv == TypeOK /\ Buffers /\ Pointers

Items == [op : {"kid", "make"}, node : Nodes]

\* A step that leaves alone every sealed page.
SealedKept ==
    \A p \in Pages : prot[p] = "RX" =>
        /\ prot'[p] = "RX" /\ code'[p] = code[p] /\ calls'[p] = calls[p]
        /\ p < pool_top => p < pool_top'

-----------------------------------------------------------------------------
\* What the emitter embeds is an address of the pool or NULL.
LEMMA LinksType ==
    ASSUME TypeOK, NEW n \in Nodes
    PROVE  Links(n) \in [Nodes -> Fns]
BY DEF Links, child_cache_get, TypeOK, Fns

\* A buffer that fits lies inside the pool.
LEMMA AllocFits ==
    ASSUME TypeOK, CanAlloc
    PROVE  pool_top \in Pages /\ pool_top + FlatPages \in 0 .. PoolPages
BY PoolAssumption DEF TypeOK, CanAlloc, Pages

\* The free pages are outside every allocated buffer.
LEMMA FreePagesOutside ==
    ASSUME NEW b \in Pages, NEW top \in Nat, b + FlatPages <= top
    PROVE  \A p \in Pages : p >= top => p \notin BufPages(b)
BY PoolAssumption DEF Pages, BufPages

\* The work items of a pattern form a sequence of items.
LEMMA KidItemsType ==
    ASSUME NEW n \in Nodes
    PROVE  KidItems(n) \in Seq(Items)
<1>1. Kids[n] \in Seq(Nodes)
  BY PoolAssumption
<1>2. /\ Len(Kids[n]) \in Nat
      /\ Kids[n] \in [1 .. Len(Kids[n]) -> Nodes]
      /\ DOMAIN Kids[n] = 1 .. Len(Kids[n])
  BY <1>1, LenProperties
<1>3. KidItems(n) \in [1 .. Len(Kids[n]) -> Items]
  BY <1>2 DEF KidItems, Item, Items
<1>4. QED
  BY <1>2, <1>3, SeqDef

\* Live code stays live in a step that keeps sealed pages.
LEMMA LiveKept ==
    ASSUME SealedKept, NEW b, NEW n \in Nodes, Live(b, n)
    PROVE  Live(b, n)'
BY DEF SealedKept, Live, Pages

\* So do the pointers, as long as no new one is stored.
LEMMA PointersKept ==
    ASSUME TypeOK, SealedKept, Pointers,
           \A p \in Pages : prot'[p] = "RX" => prot[p] = "RX",
           root' # None => root # None /\ childFn' = childFn,
           nodeCache' = nodeCache, running' = running, doomed' = doomed
    PROVE  Pointers'
<1>1. \A b : \A n \in Nodes : Live(b, n) => Live(b, n)'
  BY LiveKept
<1>2. ChildrenAreLive'
  BY <1>1 DEF Pointers, ChildrenAreLive, TypeOK
<1>3. CachedCodeIsLive'
  BY <1>1 DEF Pointers, CachedCodeIsLive
<1>4. EmbeddedCallsAreLive'
  BY <1>1 DEF Pointers, EmbeddedCallsAreLive, SealedKept
<1>5. RunningCodeIsExecutable'
  <2>1. \A i \in DOMAIN running : running[i] \in Pages
    BY ElementOfSeq, LenProperties DEF TypeOK
  <2>2. QED
    BY <2>1 DEF Pointers, RunningCodeIsExecutable, SealedKept
<1>6. QED
  BY <1>2, <1>3, <1>4, <1>5 DEF Pointers

-----------------------------------------------------------------------------
\* The pool is empty at first, all of it writable.
LEMMA PoolInit == Init => PoolInv
<1> SUFFICES ASSUME Init PROVE PoolInv
  OBVIOUS
<1> USE PoolAssumption DEF Init
<1>1. TypeOK
  <2>1. work \in Seq([op : {"kid", "make"}, node : Nodes]) /\ running \in Seq(Pages) /\ Len(running) = 0
    BY EmptySeq
  <2>2. calls \in [Pages -> [Nodes -> Fns]] /\ code \in [Pages -> Nodes \cup {None}]
    BY DEF Fns
  <2>3. childFn \in [Nodes -> Fns \cup {Absent}] /\ nodeCache \in [Nodes -> Fns]
    BY DEF Fns
  <2>4. /\ pool_top \in 0 .. PoolPages /\ childN \in 0 .. ChildCacheMax
        /\ jmp \in 0 .. Len(running) /\ doomed \in 0 .. Len(running)
    BY <2>1
  <2>5. prot \in [Pages -> {"RW", "RX"}]
    OBVIOUS
  <2>6. QED
    BY <2>1, <2>2, <2>3, <2>4, <2>5 DEF TypeOK
<1>2. Buffers
  BY DEF Buffers, Geometry, EmitterWritesOnlyWritable, FreePagesWritable
<1>3. Pointers
  BY DEF Pointers, ChildrenAreLive, CachedCodeIsLive, EmbeddedCallsAreLive,
         RunningCodeIsExecutable
<1>4. QED
  BY <1>1, <1>2, <1>3 DEF PoolInv

\* Starting a build allocates the root's buffer and forgets the operands of the last build.
LEMMA BuildRootStep ==
    ASSUME PoolInv, NEW n \in Nodes, BuildRoot(n)
    PROVE  PoolInv'
<1> USE PoolAssumption DEF PoolInv, BuildRoot, child_cache_clear, exec
<1>1. /\ pool_top \in Pages /\ pool_top + FlatPages \in 0 .. PoolPages
      /\ root' = [node |-> n, buf |-> pool_top] /\ root' # None
  <2>1. pool_top \in Pages /\ pool_top + FlatPages \in 0 .. PoolPages
    BY AllocFits
  <2>2. root' \in [node : Nodes, buf : 0 .. PoolPages]
    BY <2>1 DEF Pages
  <2>3. QED
    BY <2>1, <2>2
<1>2. TypeOK'
  <2>1. work' \in Seq([op : {"kid", "make"}, node : Nodes])
    BY KidItemsType DEF Items
  <2>2. root' \in [node : Nodes, buf : Pages] \cup {None}
    BY <1>1
  <2>3. childFn' \in [Nodes -> Fns \cup {Absent}] /\ childN' \in 0 .. ChildCacheMax
    OBVIOUS
  <2>4. QED
    BY <1>1, <2>1, <2>2, <2>3 DEF TypeOK
<1>3. Buffers'
  <2>1. Geometry'
    BY <1>1 DEF TypeOK, Buffers, Geometry, Building, Pages
  <2>2. \A p \in BufPages(pool_top) : p \in Pages /\ p >= pool_top
    BY <1>1 DEF BufPages, Pages
  <2>3. EmitterWritesOnlyWritable'
    BY <1>1, <2>2 DEF Buffers, EmitterWritesOnlyWritable, FreePagesWritable, Building
  <2>4. FreePagesWritable'
    BY <1>1 DEF Buffers, FreePagesWritable, Pages
  <2>5. QED
    BY <2>1, <2>3, <2>4 DEF Buffers
<1>4. SealedKept
  BY <1>1 DEF SealedKept, Pages
<1>5. Pointers'
  <2>1. \A b : \A k \in Nodes : Live(b, k) => Live(b, k)'
    BY <1>4, LiveKept
  <2>2. ChildrenAreLive'
    BY DEF ChildrenAreLive, Pages
  <2>3. QED
    BY <2>1, <2>2 DEF Pointers, CachedCodeIsLive, EmbeddedCallsAreLive, RunningCodeIsExecutable
<1>6. QED
  BY <1>2, <1>3, <1>5


\* Visiting an operand only rearranges the work to do.
LEMMA VisitKidStep ==
    ASSUME PoolInv, VisitKid
    PROVE  PoolInv'
<1> USE DEF PoolInv, VisitKid, pool, exec
<1>1. work' \in Seq(Items)
  <2>1. work \in Seq(Items)
    BY DEF TypeOK, Items
  <2>2. Head(work) \in Items /\ Tail(work) \in Seq(Items)
    BY <2>1, HeadTailProperties
  <2>3. Item("make", Head(work).node) \in Items /\ KidItems(Head(work).node) \in Seq(Items)
    BY <2>2, KidItemsType DEF Item, Items
  <2>4. <<Item("make", Head(work).node)>> \in Seq(Items)
    BY <2>3
  <2>5. QED
    BY <2>2, <2>3, <2>4, ConcatProperties
<1>2. TypeOK'
  BY <1>1 DEF TypeOK, Items
<1>3. Buffers'
  BY DEF Buffers, Geometry, EmitterWritesOnlyWritable, FreePagesWritable
<1>4. Pointers'
  BY PointersKept DEF SealedKept
<1>5. QED
  BY <1>2, <1>3, <1>4

\* An operand's buffer is allocated above every buffer in use.
LEMMA MakeKidStep ==
    ASSUME PoolInv, MakeKid
    PROVE  PoolInv'
<1> USE PoolAssumption DEF PoolInv, MakeKid, exec
<1>1. /\ pool_top \in Pages /\ pool_top + FlatPages \in 0 .. PoolPages
      /\ cur' \in [node : Nodes, buf : Pages, try : {1, 2}]
      /\ cur'.buf = pool_top
  <2>1. pool_top \in Pages /\ pool_top + FlatPages \in 0 .. PoolPages
    BY AllocFits
  <2>2. Head(work) \in Items
    BY HeadTailProperties DEF TypeOK, Items
  <2>3. QED
    BY <2>1, <2>2 DEF Items
<1>2. TypeOK'
  BY <1>1 DEF TypeOK
<1>3. Buffers'
  <2>1. Geometry'
    <3>1. root' = root /\ root # None /\ work' = work /\ work # <<>>
      BY DEF Building
    <3>2. root.buf + FlatPages <= pool_top /\ pool_top' = pool_top + FlatPages
      BY <3>1 DEF Buffers, Geometry
    <3>3. root.buf \in Pages
      BY <3>1 DEF TypeOK
    <3>4. QED
      BY <1>1, <3>1, <3>2, <3>3 DEF Geometry, Pages
  <2>2. \A p \in BufPages(pool_top) : p \in Pages /\ p >= pool_top
    BY <1>1 DEF BufPages, Pages
  <2>3. EmitterWritesOnlyWritable'
    BY <1>1, <2>2 DEF Buffers, EmitterWritesOnlyWritable, FreePagesWritable
  <2>4. FreePagesWritable'
    BY <1>1 DEF Buffers, FreePagesWritable, Pages
  <2>5. QED
    BY <2>1, <2>3, <2>4 DEF Buffers
<1>4. SealedKept
  BY <1>1 DEF SealedKept, Pages
<1>5. Pointers'
  BY <1>4, PointersKept
<1>6. QED
  BY <1>2, <1>3, <1>5

\* Caching NULL adds no pointer.
LEMMA PutType ==
    ASSUME TypeOK, NEW n \in Nodes, NEW fn \in Fns, child_cache_put(n, fn)
    PROVE  /\ childFn' \in [Nodes -> Fns \cup {Absent}]
           /\ childN' \in 0 .. ChildCacheMax
           /\ \A k \in Nodes : childFn'[k] = childFn[k] \/ (k = n /\ childFn'[k] = fn)
<1>1. CASE childN < ChildCacheMax
  <2>1. /\ childN' = childN + 1
        /\ childFn' = [childFn EXCEPT ![n] = IF @ = Absent THEN fn ELSE @]
    BY <1>1 DEF child_cache_put
  <2>2. childN' \in 0 .. ChildCacheMax
    BY <1>1, <2>1, PoolAssumption DEF TypeOK
  <2>3. QED
    BY <2>1, <2>2 DEF TypeOK
<1>2. CASE ~(childN < ChildCacheMax)
  BY <1>2 DEF TypeOK, child_cache_put
<1>3. QED
  BY <1>1, <1>2

\* With the pool exhausted an operand is left unbuilt, and its parent calls nothing for it.
LEMMA MakeKidExhaustedStep ==
    ASSUME PoolInv, MakeKidExhausted
    PROVE  PoolInv'
<1> USE DEF PoolInv, MakeKidExhausted, pool, exec
<1>1. Head(work) \in Items /\ Tail(work) \in Seq(Items)
  BY HeadTailProperties DEF TypeOK, Items
<1>2. /\ childFn' \in [Nodes -> Fns \cup {Absent}]
      /\ childN' \in 0 .. ChildCacheMax
      /\ \A k \in Nodes : childFn'[k] \in Pages => childFn'[k] = childFn[k]
  <2>1. Head(work).node \in Nodes /\ None \in Fns /\ None \notin Pages
    BY <1>1, PoolAssumption DEF Items, Fns, Pages
  <2>2. QED
    BY <2>1, PutType
<1>3. TypeOK'
  BY <1>1, <1>2 DEF TypeOK, Items
<1>4. Buffers'
  BY DEF Buffers, Geometry, EmitterWritesOnlyWritable, FreePagesWritable
<1>5. Pointers'
  <2>1. ChildrenAreLive'
    BY <1>2 DEF Pointers, ChildrenAreLive, Live
  <2>2. QED
    BY <2>1 DEF Pointers, CachedCodeIsLive, EmbeddedCallsAreLive, RunningCodeIsExecutable, Live
<1>6. QED
  BY <1>3, <1>4, <1>5

-----------------------------------------------------------------------------
\* What writing and sealing the code of n at b establishes, when the buffer
\* at b is allocated and writable.
LEMMA Sealing ==
    ASSUME TypeOK, NEW b \in Pages, NEW n \in Nodes, NEW len \in 1 .. FlatPages,
           b + FlatPages <= pool_top,
           \A p \in BufPages(b) : prot[p] = "RW",
           Write(b .. b + len - 1, n, Links(n)),
           bb_seal(b .. b + len - 1),
           pool_top' = pool_top
    PROVE  /\ prot' \in [Pages -> {"RW", "RX"}]
           /\ code' \in [Pages -> Nodes \cup {None}]
           /\ calls' \in [Pages -> [Nodes -> Fns]]
           /\ SealedKept
           /\ Live(b, n)'
           /\ \A p \in Pages : \/ prot'[p] = prot[p]
                               \/ p \in BufPages(b) /\ calls'[p] = Links(n)
<1> USE PoolAssumption
<1>1. (b .. b + len - 1) \subseteq BufPages(b) /\ b \in b .. b + len - 1
  BY DEF BufPages, Pages
<1>2. /\ prot' \in [Pages -> {"RW", "RX"}]
      /\ code' \in [Pages -> Nodes \cup {None}]
  BY DEF TypeOK, Write, bb_seal
<1>3. calls' \in [Pages -> [Nodes -> Fns]]
  BY LinksType DEF TypeOK, Write
<1>4. SealedKept
  BY <1>1 DEF SealedKept, Write, bb_seal
<1>5. b < pool_top
  BY DEF Pages, TypeOK
<1>6. Live(b, n)'
  BY <1>1, <1>5 DEF Live, Write, bb_seal
<1>7. \A p \in Pages : \/ prot'[p] = prot[p]
                       \/ p \in BufPages(b) /\ calls'[p] = Links(n)
  BY <1>1 DEF Write, bb_seal
<1>8. QED
  BY <1>2, <1>3, <1>4, <1>6, <1>7

\* During a build, new code embeds live operands only.
LEMMA SealedCalls ==
    ASSUME TypeOK, Pointers, root # None, SealedKept, NEW n \in Nodes, NEW b \in Pages,
           \A p \in Pages : \/ prot'[p] = prot[p]
                            \/ p \in BufPages(b) /\ calls'[p] = Links(n)
    PROVE  EmbeddedCallsAreLive'
<1>1. \A c : \A k \in Nodes : Live(c, k) => Live(c, k)'
  BY LiveKept
<1> USE DEF Live
<1>2. ASSUME NEW k \in Nodes, Links(n)[k] # None PROVE Live(Links(n)[k], k)
  <2>1. Links(n)[k] = childFn[k] /\ childFn[k] \in Pages
    BY <1>2 DEF Links, child_cache_get, TypeOK, Fns
  <2>2. QED
    BY <2>1 DEF Pointers, ChildrenAreLive
<1>3. ASSUME NEW p \in Pages, prot'[p] = "RX", NEW k \in Nodes, calls'[p][k] # None
      PROVE  Live(calls[p][k], k)'
  <2>1. CASE prot[p] = "RX"
    BY <1>1, <1>3, <2>1 DEF SealedKept, Pointers, EmbeddedCallsAreLive
  <2>2. CASE prot[p] # "RX"
    BY <1>1, <1>2, <1>3, <2>2
  <2>3. QED
    BY <2>1, <2>2
<1>4. QED
  BY <1>3 DEF EmbeddedCallsAreLive

\* The active entries stay executable when sealed pages are kept.
LEMMA RunningKept ==
    ASSUME TypeOK, Pointers, SealedKept
    PROVE  \A i \in DOMAIN running : i > doomed => prot'[running[i]] = "RX"
<1>1. \A i \in DOMAIN running : running[i] \in Pages
  BY ElementOfSeq, LenProperties DEF TypeOK
<1>2. QED
  BY <1>1 DEF Pointers, RunningCodeIsExecutable, SealedKept

\* An operand is emitted into its own writable buffer, calls only what is sealed already, and is sealed.
LEMMA EmitKidStep ==
    ASSUME PoolInv, NEW len \in 1 .. FlatPages, EmitKid(len)
    PROVE  PoolInv'
<1> USE PoolAssumption DEF PoolInv
<1>1. PICK b \in Pages, n \in Nodes :
        /\ b = cur.buf /\ n = cur.node
        /\ b + FlatPages = pool_top
        /\ \A p \in BufPages(b) : prot[p] = "RW"
        /\ root # None /\ root.buf \in Pages /\ root.buf + FlatPages <= b
        /\ cur' = None /\ root' = root /\ pool_top' = pool_top
  BY DEF EmitKid, TypeOK, Buffers, Geometry, EmitterWritesOnlyWritable
<1>2. b + FlatPages <= pool_top
  BY <1>1 DEF Pages
<1>3. /\ prot' \in [Pages -> {"RW", "RX"}]
      /\ code' \in [Pages -> Nodes \cup {None}]
      /\ calls' \in [Pages -> [Nodes -> Fns]]
      /\ SealedKept
      /\ Live(b, n)'
      /\ \A p \in Pages : \/ prot'[p] = prot[p]
                          \/ p \in BufPages(b) /\ calls'[p] = Links(n)
  <2>1. Write(b .. b + len - 1, n, Links(n)) /\ bb_seal(b .. b + len - 1)
    BY <1>1 DEF EmitKid
  <2>2. QED
    BY <1>1, <1>2, <2>1, Sealing
<1>4. /\ childFn' \in [Nodes -> Fns \cup {Absent}]
      /\ childN' \in 0 .. ChildCacheMax
      /\ \A k \in Nodes : childFn'[k] = childFn[k] \/ (k = n /\ childFn'[k] = b)
  <2>1. child_cache_put(n, b) /\ b \in Fns
    BY <1>1 DEF EmitKid, Fns
  <2>2. QED
    BY <2>1, PutType
<1>5. TypeOK'
  <2>1. Tail(work) \in Seq(Items)
    BY HeadTailProperties DEF TypeOK, Items, EmitKid, Buffers, Geometry
  <2>2. cur' = None /\ work' = Tail(work) /\ UNCHANGED <<exec, root, pool_top, aborted>>
    BY <1>1 DEF EmitKid
  <2>3. QED
    BY <1>3, <1>4, <2>1, <2>2 DEF TypeOK, Items, exec
<1>6. Buffers'
  <2>1. Geometry'
    BY <1>1 DEF Buffers, Geometry
  <2>2. EmitterWritesOnlyWritable'
    <3>1. PICK c \in Pages : c = root.buf /\ c + FlatPages <= b
      BY <1>1
    <3>2. \A p \in BufPages(c) : p \in Pages /\ p \notin BufPages(b)
      BY <3>1 DEF BufPages, Pages
    <3>3. QED
      BY <1>1, <1>3, <3>1, <3>2 DEF Buffers, EmitterWritesOnlyWritable
  <2>3. FreePagesWritable'
    <3>1. \A p \in Pages : p >= pool_top => p \notin BufPages(b)
      <4>1. pool_top \in Nat
        BY DEF TypeOK
      <4>2. QED
        BY <1>2, <4>1, FreePagesOutside
    <3>2. QED
      BY <1>1, <1>3, <3>1 DEF Buffers, FreePagesWritable
  <2>4. QED
    BY <2>1, <2>2, <2>3 DEF Buffers
<1>7. Pointers'
  <2>1. \A c : \A k \in Nodes : Live(c, k) => Live(c, k)'
    BY <1>3, LiveKept
  <2>2. ChildrenAreLive'
    <3>1. \A k \in Nodes : childFn[k] \in Pages => Live(childFn[k], k)
      BY <1>1 DEF Pointers, ChildrenAreLive
    <3>2. ASSUME NEW k \in Nodes, childFn'[k] \in Pages PROVE Live(childFn[k], k)'
      <4>1. CASE childFn'[k] = childFn[k]
        <5>1. PICK c \in Pages : c = childFn[k]
          BY <3>2, <4>1
        <5>2. Live(c, k)'
          BY <2>1, <3>1, <5>1
        <5>3. QED
          BY <4>1, <5>1, <5>2 DEF Live
      <4>2. CASE k = n /\ childFn'[k] = b
        <5>1. Live(b, n)'
          BY <1>3
        <5>2. QED
          BY <4>2, <5>1 DEF Live
      <4>3. QED
        BY <1>4, <4>1, <4>2
    <3>3. QED
      BY <3>2 DEF ChildrenAreLive
  <2>3. CachedCodeIsLive'
    BY <2>1 DEF Pointers, CachedCodeIsLive, EmitKid, exec
  <2>4. EmbeddedCallsAreLive'
    BY <1>1, <1>3, SealedCalls
  <2>5. RunningCodeIsExecutable'
    BY <1>3, RunningKept DEF RunningCodeIsExecutable, EmitKid, exec
  <2>6. QED
    BY <2>2, <2>3, <2>4, <2>5 DEF Pointers
<1>8. QED
  BY <1>5, <1>6, <1>7

\* Writing all over a writable buffer disturbs no sealed page.
LEMMA Scribbling ==
    ASSUME TypeOK, NEW b \in Pages, NEW n \in Nodes,
           \A p \in BufPages(b) : prot[p] = "RW",
           Write(BufPages(b), n, Links(n))
    PROVE  /\ code' \in [Pages -> Nodes \cup {None}]
           /\ calls' \in [Pages -> [Nodes -> Fns]]
           /\ \A p \in Pages : prot[p] = "RX" => code'[p] = code[p] /\ calls'[p] = calls[p]
BY LinksType DEF TypeOK, Write

\* A page below the end of a buffer and not in it is below the buffer.
LEMMA BelowBuffer ==
    ASSUME NEW b \in Pages, NEW p \in Pages, p \notin BufPages(b), p < b + FlatPages
    PROVE  p < b
BY PoolAssumption DEF Pages, BufPages

\* The free pages stay writable when the buffer given back was writable.
LEMMA FreedStayWritable ==
    ASSUME TypeOK, FreePagesWritable, NEW b \in Pages,
           \A p \in BufPages(b) : prot[p] = "RW",
           b + FlatPages = pool_top, pool_top' = b, prot' = prot
    PROVE  FreePagesWritable'
<1> SUFFICES ASSUME NEW p \in Pages, p >= b PROVE prot[p] = "RW"
  BY DEF FreePagesWritable
<1>1. CASE p < b + FlatPages
  BY <1>1, BelowBuffer DEF Pages
<1>2. CASE ~(p < b + FlatPages)
  <2>1. p >= pool_top
    BY <1>2, PoolAssumption DEF Pages
  <2>2. QED
    BY <2>1 DEF FreePagesWritable
<1>3. QED
  BY <1>1, <1>2

\* An operand that overflows its buffer gives it back before anything can call it.
LEMMA OverflowKidStep ==
    ASSUME PoolInv, OverflowKid
    PROVE  PoolInv'
<1> USE PoolAssumption DEF PoolInv
<1>1. PICK b \in Pages, n \in Nodes :
        /\ b = cur.buf /\ n = cur.node
        /\ b + FlatPages = pool_top
        /\ \A p \in BufPages(b) : prot[p] = "RW"
        /\ cur # None /\ cur \in [node : Nodes, buf : Pages, try : {1, 2}]
        /\ root # None /\ root.buf \in Pages /\ root.buf + FlatPages <= b
        /\ root' = root /\ UNCHANGED exec
  BY DEF OverflowKid, TypeOK, Buffers, Geometry, EmitterWritesOnlyWritable
<1>2. /\ code' \in [Pages -> Nodes \cup {None}]
      /\ calls' \in [Pages -> [Nodes -> Fns]]
      /\ \A p \in Pages : prot[p] = "RX" => code'[p] = code[p] /\ calls'[p] = calls[p]
  BY <1>1, Scribbling DEF OverflowKid
<1>3. prot' = prot
  <2>1. CASE cur.try = 1
    BY <1>1, <2>1 DEF OverflowKid, TypeOK
  <2>2. CASE cur.try # 1
    BY <1>1, <2>2 DEF OverflowKid, bb_free, TypeOK
  <2>3. QED
    BY <2>1, <2>2
<1>4. SealedKept
  <2>1. ASSUME NEW p \in Pages, prot[p] = "RX", p < pool_top PROVE p < pool_top'
    <3>1. p \notin BufPages(b)
      BY <1>1, <2>1
    <3>2. p < b
      BY <1>1, <2>1, <3>1, BelowBuffer
    <3>3. pool_top' = pool_top \/ pool_top' = b
      BY <1>1 DEF OverflowKid, bb_free
    <3>4. QED
      BY <2>1, <3>2, <3>3
  <2>2. QED
    BY <1>2, <1>3, <2>1 DEF SealedKept
<1>5. CASE cur.try = 1
  <2>1. cur' = [cur EXCEPT !.try = 2] /\ UNCHANGED <<pool_top, work, childFn, childN, aborted>>
    BY <1>5 DEF OverflowKid
  <2>2. cur' \in [node : Nodes, buf : Pages, try : {1, 2}] /\ cur'.buf = b
    BY <1>1, <2>1
  <2>3. TypeOK'
    BY <1>1, <1>2, <1>3, <2>1, <2>2 DEF TypeOK, exec
  <2>4. Buffers'
    BY <1>1, <1>3, <2>1, <2>2
       DEF Buffers, Geometry, EmitterWritesOnlyWritable, FreePagesWritable
  <2>5. Pointers'
    BY <1>1, <1>3, <1>4, <2>1, PointersKept DEF exec
  <2>6. QED
    BY <2>3, <2>4, <2>5
<1>6. CASE cur.try # 1
  <2>1. cur' = None /\ pool_top' = b /\ work' = Tail(work) /\ aborted' = FALSE
    BY <1>1, <1>6 DEF OverflowKid, bb_free
  <2>2. /\ childFn' \in [Nodes -> Fns \cup {Absent}]
        /\ childN' \in 0 .. ChildCacheMax
        /\ \A k \in Nodes : childFn'[k] \in Pages => childFn'[k] = childFn[k]
    <3>1. child_cache_put(n, None) /\ None \in Fns /\ None \notin Pages
      BY <1>1, <1>6 DEF OverflowKid, Fns, Pages
    <3>2. QED
      BY <3>1, PutType
  <2>3. TypeOK'
    <3>1. Tail(work) \in Seq(Items)
      BY <1>1, HeadTailProperties DEF TypeOK, Items, Buffers, Geometry
    <3>2. b \in 0 .. PoolPages
      BY DEF Pages
    <3>3. QED
      BY <1>1, <1>2, <1>3, <2>1, <2>2, <3>1, <3>2 DEF TypeOK, Items, exec
  <2>4. Buffers'
    <3>1. Geometry'
      BY <1>1, <2>1 DEF Geometry
    <3>2. EmitterWritesOnlyWritable'
      BY <1>1, <1>3, <2>1 DEF Buffers, EmitterWritesOnlyWritable
    <3>3. FreePagesWritable'
      BY <1>1, <1>3, <2>1, FreedStayWritable DEF Buffers
    <3>4. QED
      BY <3>1, <3>2, <3>3 DEF Buffers
  <2>5. Pointers'
    <3>1. \A c : \A k \in Nodes : Live(c, k) => Live(c, k)'
      BY <1>4, LiveKept
    <3>2. ChildrenAreLive'
      <4>1. root # None /\ ChildrenAreLive
        BY <1>1 DEF Pointers
      <4>2. \A k \in Nodes : childFn'[k] \in Pages => Live(childFn[k], k)'
        BY <2>2, <3>1, <4>1 DEF ChildrenAreLive, Live
      <4>3. QED
        BY <4>2 DEF ChildrenAreLive
    <3>3. CachedCodeIsLive'
      BY <1>1, <3>1 DEF Pointers, CachedCodeIsLive, exec
    <3>4. EmbeddedCallsAreLive'
      BY <1>3, <1>4, <3>1 DEF Pointers, EmbeddedCallsAreLive, SealedKept
    <3>5. RunningCodeIsExecutable'
      BY <1>1, <1>4, RunningKept DEF RunningCodeIsExecutable, exec
    <3>6. QED
      BY <3>2, <3>3, <3>4, <3>5 DEF Pointers
  <2>6. QED
    BY <2>3, <2>4, <2>5
<1>7. QED
  BY <1>5, <1>6

\* Entering pool code: the new entry is executable, the others are kept.
LEMMA EnterKept ==
    ASSUME TypeOK, Pointers, SealedKept,
           NEW b \in Pages, NEW byMatch \in BOOLEAN, Enter(b, byMatch),
           prot'[b] = "RX"
    PROVE  /\ running' \in Seq(Pages)
           /\ jmp' \in 0 .. Len(running') /\ doomed' \in 0 .. Len(running')
           /\ RunningCodeIsExecutable'
<1>1. /\ running' = Append(running, b) /\ doomed' = doomed
      /\ jmp' = IF byMatch THEN Len(running) + 1 ELSE jmp
  BY DEF Enter
<1>2. /\ running' \in Seq(Pages) /\ Len(running') = Len(running) + 1
      /\ \A i \in 1 .. Len(running) : running'[i] = running[i]
      /\ running'[Len(running) + 1] = b
      /\ Len(running) \in Nat
      /\ DOMAIN running' = 1 .. Len(running')
      /\ DOMAIN running = 1 .. Len(running)
  BY <1>1, AppendProperties, LenProperties DEF TypeOK
<1>3. \A i \in DOMAIN running : i > doomed => prot'[running[i]] = "RX"
  BY RunningKept
<1>4. RunningCodeIsExecutable'
  <2>1. ASSUME NEW i \in DOMAIN running', i > doomed' PROVE prot'[running'[i]] = "RX"
    <3>1. CASE i = Len(running) + 1
      BY <1>2, <3>1
    <3>2. CASE i # Len(running) + 1
      BY <1>1, <1>2, <1>3, <2>1, <3>2
    <3>3. QED
      BY <3>1, <3>2
  <2>2. QED
    BY <2>1 DEF RunningCodeIsExecutable
<1>5. QED
  BY <1>1, <1>2, <1>4 DEF TypeOK

\* The root is emitted and sealed, and enters the statement's cache.
LEMMA EmitRootStep ==
    ASSUME PoolInv, NEW len \in 1 .. FlatPages, NEW byMatch \in BOOLEAN,
           NEW cached \in BOOLEAN, EmitRoot(len, byMatch, cached)
    PROVE  PoolInv'
<1> USE PoolAssumption DEF PoolInv
<1>1. PICK b \in Pages, n \in Nodes :
        /\ b = root.buf /\ n = root.node
        /\ b + FlatPages <= pool_top
        /\ \A p \in BufPages(b) : prot[p] = "RW"
        /\ root # None /\ cur = None
        /\ root' = None /\ cur' = cur /\ pool_top' = pool_top
  BY DEF EmitRoot, Building, TypeOK, Buffers, Geometry, EmitterWritesOnlyWritable
<1>2. /\ prot' \in [Pages -> {"RW", "RX"}]
      /\ code' \in [Pages -> Nodes \cup {None}]
      /\ calls' \in [Pages -> [Nodes -> Fns]]
      /\ SealedKept
      /\ Live(b, n)'
      /\ \A p \in Pages : \/ prot'[p] = prot[p]
                          \/ p \in BufPages(b) /\ calls'[p] = Links(n)
  <2>1. Write(b .. b + len - 1, n, Links(n)) /\ bb_seal(b .. b + len - 1)
    BY <1>1 DEF EmitRoot
  <2>2. QED
    BY <1>1, <2>1, Sealing
<1>3. /\ running' \in Seq(Pages)
      /\ jmp' \in 0 .. Len(running') /\ doomed' \in 0 .. Len(running')
      /\ RunningCodeIsExecutable'
  <2>1. Enter(b, byMatch) /\ prot'[b] = "RX"
    BY <1>1, <1>2 DEF EmitRoot, Live
  <2>2. QED
    BY <1>2, <2>1, EnterKept
<1>4. /\ nodeCache' \in [Nodes -> Fns]
      /\ \A k \in Nodes : nodeCache'[k] = nodeCache[k] \/ (k = n /\ nodeCache'[k] = b)
  BY <1>1 DEF EmitRoot, TypeOK, Fns
<1>5. TypeOK'
  <2>1. root' = None /\ UNCHANGED <<pool_top, cur, work, childFn, childN, aborted>>
    BY DEF EmitRoot
  <2>2. QED
    BY <1>2, <1>3, <1>4, <2>1 DEF TypeOK
<1>6. Buffers'
  <2>1. FreePagesWritable'
    <3>1. \A p \in Pages : p >= pool_top => p \notin BufPages(b)
      <4>1. pool_top \in Nat
        BY DEF TypeOK
      <4>2. QED
        BY <1>1, <4>1, FreePagesOutside
    <3>2. QED
      BY <1>1, <1>2, <3>1 DEF Buffers, FreePagesWritable
  <2>2. QED
    BY <1>1, <2>1 DEF Buffers, Geometry, EmitterWritesOnlyWritable
<1>7. Pointers'
  <2>1. \A c : \A k \in Nodes : Live(c, k) => Live(c, k)'
    BY <1>2, LiveKept
  <2>2. ChildrenAreLive'
    BY <1>1 DEF ChildrenAreLive
  <2>3. CachedCodeIsLive'
    <3>1. ASSUME NEW k \in Nodes, nodeCache'[k] # None PROVE Live(nodeCache[k], k)'
      <4>1. CASE nodeCache'[k] = nodeCache[k]
        BY <2>1, <3>1, <4>1 DEF Live, Pointers, CachedCodeIsLive
      <4>2. CASE k = n /\ nodeCache'[k] = b
        BY <1>2, <4>2 DEF Live
      <4>3. QED
        BY <1>4, <4>1, <4>2
    <3>2. QED
      BY <3>1 DEF CachedCodeIsLive
  <2>4. EmbeddedCallsAreLive'
    BY <1>1, <1>2, SealedCalls
  <2>5. QED
    BY <1>3, <2>2, <2>3, <2>4 DEF Pointers
<1>8. QED
  BY <1>5, <1>6, <1>7

\* A root that overflows its buffer gives it back and is not cached.
LEMMA OverflowRootStep ==
    ASSUME PoolInv, OverflowRoot
    PROVE  PoolInv'
<1> USE PoolAssumption DEF PoolInv
<1>1. PICK b \in Pages, n \in Nodes :
        /\ b = root.buf /\ n = root.node
        /\ b + FlatPages <= pool_top
        /\ \A p \in BufPages(b) : prot[p] = "RW"
        /\ cur = None /\ root' = None /\ UNCHANGED <<cur, work, childFn, childN, exec>>
  BY DEF OverflowRoot, Building, TypeOK, Buffers, Geometry, EmitterWritesOnlyWritable
<1>2. /\ code' \in [Pages -> Nodes \cup {None}]
      /\ calls' \in [Pages -> [Nodes -> Fns]]
      /\ \A p \in Pages : prot[p] = "RX" => code'[p] = code[p] /\ calls'[p] = calls[p]
  BY <1>1, Scribbling DEF OverflowRoot
<1>3. prot' = prot /\ aborted' \in BOOLEAN
  BY <1>1 DEF OverflowRoot, bb_free, TypeOK
<1>4. pool_top' = pool_top \/ (pool_top' = b /\ b + FlatPages = pool_top)
  BY <1>1 DEF OverflowRoot, bb_free
<1>5. SealedKept
  <2>1. ASSUME NEW p \in Pages, prot[p] = "RX", p < pool_top PROVE p < pool_top'
    <3>1. p \notin BufPages(b)
      BY <1>1, <2>1
    <3>2. QED
      BY <1>4, <2>1, <3>1 DEF BufPages, Pages, TypeOK
  <2>2. QED
    BY <1>2, <1>3, <2>1 DEF SealedKept
<1>6. TypeOK'
  <2>1. pool_top' \in 0 .. PoolPages
    BY <1>4 DEF Pages, TypeOK
  <2>2. QED
    BY <1>1, <1>2, <1>3, <2>1 DEF TypeOK, exec
<1>7. Buffers'
  <2>1. FreePagesWritable'
    <3>1. CASE pool_top' = pool_top
      BY <1>3, <3>1 DEF Buffers, FreePagesWritable
    <3>2. CASE pool_top' = b /\ b + FlatPages = pool_top
      BY <1>1, <1>3, <3>2, FreedStayWritable DEF Buffers
    <3>3. QED
      BY <1>4, <3>1, <3>2
  <2>2. QED
    BY <1>1, <2>1 DEF Buffers, Geometry, EmitterWritesOnlyWritable
<1>8. Pointers'
  BY <1>1, <1>3, <1>5, PointersKept DEF exec
<1>9. QED
  BY <1>6, <1>7, <1>8

\* The cache answers with sealed code only, which starts to run.
LEMMA CacheHitStep ==
    ASSUME PoolInv, NEW n \in Nodes, CacheHit(n)
    PROVE  PoolInv'
<1> USE DEF PoolInv
<1>1. PICK b \in Pages : b = nodeCache[n] /\ prot[b] = "RX"
  BY DEF CacheHit, Pointers, CachedCodeIsLive, Live
<1>2. UNCHANGED <<pool, build, nodeCache, aborted>> /\ SealedKept
  BY DEF CacheHit, pool, SealedKept
<1>3. /\ running' \in Seq(Pages)
      /\ jmp' \in 0 .. Len(running') /\ doomed' \in 0 .. Len(running')
      /\ RunningCodeIsExecutable'
  <2>1. Enter(b, TRUE) /\ prot'[b] = "RX"
    BY <1>1, <1>2 DEF CacheHit, pool
  <2>2. QED
    BY <1>2, <2>1, EnterKept
<1>4. TypeOK'
  BY <1>2, <1>3 DEF TypeOK, pool, build
<1>5. Buffers'
  BY <1>2 DEF Buffers, Geometry, EmitterWritesOnlyWritable, FreePagesWritable, pool, build
<1>6. Pointers'
  BY <1>2, <1>3 DEF Pointers, ChildrenAreLive, CachedCodeIsLive, EmbeddedCallsAreLive,
                    Live, pool, build
<1>7. QED
  BY <1>4, <1>5, <1>6

\* Shortening the stack of entries keeps the ones that remain.
LEMMA FrontType ==
    ASSUME TypeOK, NEW m \in 0 .. Len(running)
    PROVE  /\ SubSeq(running, 1, m) \in Seq(Pages)
           /\ Len(SubSeq(running, 1, m)) = m
           /\ DOMAIN SubSeq(running, 1, m) = 1 .. m
           /\ \A i \in 1 .. m : SubSeq(running, 1, m)[i] = running[i]
BY DEF TypeOK

\* A match that ends leaves the pool and every pointer into it alone.
LEMMA LeaveStep ==
    ASSUME PoolInv, Leave
    PROVE  PoolInv'
<1> USE DEF PoolInv
<1>1. /\ UNCHANGED <<pool, build, nodeCache, doomed, aborted>>
      /\ Len(running) \in Nat /\ Len(running) > doomed /\ doomed \in Nat
      /\ DOMAIN running = 1 .. Len(running)
  BY LenProperties DEF Leave, TypeOK
<1>2. Len(running) - 1 \in 0 .. Len(running)
  BY <1>1
<1>3. /\ running' \in Seq(Pages) /\ Len(running') = Len(running) - 1
      /\ DOMAIN running' = 1 .. Len(running) - 1
      /\ \A i \in 1 .. Len(running) - 1 : running'[i] = running[i]
  BY <1>2, FrontType DEF Leave
<1>4. jmp' \in 0 .. Len(running') /\ doomed' \in 0 .. Len(running')
  <2>1. jmp' = IF jmp = Len(running) THEN 0 ELSE jmp
    BY DEF Leave
  <2>2. jmp \in 0 .. Len(running) /\ doomed \in 0 .. Len(running)
    BY DEF TypeOK
  <2>3. PICK l \in Nat : l = Len(running) /\ Len(running') = l - 1 /\ doomed < l /\ doomed' = doomed
    BY <1>1, <1>3
  <2>4. QED
    BY <2>1, <2>2, <2>3
<1>5. TypeOK'
  BY <1>1, <1>3, <1>4 DEF TypeOK, pool, build
<1>6. Buffers'
  BY <1>1 DEF Buffers, Geometry, EmitterWritesOnlyWritable, FreePagesWritable, pool, build
<1>7. RunningCodeIsExecutable'
  BY <1>1, <1>3 DEF Pointers, RunningCodeIsExecutable, pool
<1>8. Pointers'
  BY <1>1, <1>7 DEF Pointers, ChildrenAreLive, CachedCodeIsLive, EmbeddedCallsAreLive,
                    Live, pool, build
<1>9. QED
  BY <1>5, <1>6, <1>8

\* An error that resets the pool empties the caches with it; the matches still around it are doomed.
LEMMA MatchErrorStep ==
    ASSUME PoolInv, MatchError
    PROVE  PoolInv'
<1> USE PoolAssumption DEF PoolInv
<1>1. /\ UNCHANGED <<code, calls, build, aborted>> /\ root = None /\ cur = None
      /\ pool_top' = 0
      /\ prot' = [p \in Pages |-> IF p < pool_top THEN "RW" ELSE prot[p]]
      /\ nodeCache' = [n \in Nodes |-> None]
      /\ running' = SubSeq(running, 1, jmp - 1) /\ doomed' = jmp - 1 /\ jmp' = 0
      /\ jmp \in 1 .. Len(running) /\ Len(running) \in Nat
  BY LenProperties
     DEF MatchError, bb_pool_reset, cache_reset, Building, Buffers, Geometry, TypeOK
<1>2. /\ running' \in Seq(Pages) /\ Len(running') = jmp - 1
      /\ DOMAIN running' = 1 .. jmp - 1
  <2>1. jmp - 1 \in 0 .. Len(running)
    BY <1>1
  <2>2. QED
    BY <1>1, <2>1, FrontType
<1>3. \A p \in Pages : prot'[p] = "RW"
  BY <1>1 DEF Buffers, FreePagesWritable, Pages, TypeOK
<1>4. TypeOK'
  <2>1. prot' \in [Pages -> {"RW", "RX"}]
    BY <1>1 DEF TypeOK
  <2>2. nodeCache' \in [Nodes -> Fns]
    BY <1>1 DEF Fns
  <2>3. jmp' \in 0 .. Len(running') /\ doomed' \in 0 .. Len(running') /\ pool_top' \in 0 .. PoolPages
    BY <1>1, <1>2
  <2>4. QED
    BY <1>1, <1>2, <2>1, <2>2, <2>3 DEF TypeOK, build
<1>5. Buffers'
  BY <1>1, <1>3 DEF Buffers, Geometry, EmitterWritesOnlyWritable, FreePagesWritable, build
<1>6. Pointers'
  BY <1>1, <1>2, <1>3 DEF Pointers, ChildrenAreLive, CachedCodeIsLive, EmbeddedCallsAreLive,
                          RunningCodeIsExecutable, build
<1>7. QED
  BY <1>4, <1>5, <1>6

-----------------------------------------------------------------------------
\* Every step, and every stuttering step, keeps the invariant.
LEMMA PoolStep == PoolInv /\ [Next]_vars => PoolInv'
<1> SUFFICES ASSUME PoolInv, [Next]_vars PROVE PoolInv'
  OBVIOUS
<1>1. ASSUME NEW n \in Nodes, BuildRoot(n) PROVE PoolInv'
  BY <1>1, BuildRootStep
<1>2. CASE VisitKid
  BY <1>2, VisitKidStep
<1>3. CASE MakeKid
  BY <1>3, MakeKidStep
<1>4. CASE MakeKidExhausted
  BY <1>4, MakeKidExhaustedStep
<1>5. ASSUME NEW len \in 1 .. FlatPages, EmitKid(len) PROVE PoolInv'
  BY <1>5, EmitKidStep
<1>6. CASE OverflowKid
  BY <1>6, OverflowKidStep
<1>7. ASSUME NEW len \in 1 .. FlatPages, NEW byMatch \in BOOLEAN, NEW cached \in BOOLEAN,
             EmitRoot(len, byMatch, cached)
      PROVE  PoolInv'
  BY <1>7, EmitRootStep
<1>8. CASE OverflowRoot
  BY <1>8, OverflowRootStep
<1>9. ASSUME NEW n \in Nodes, CacheHit(n) PROVE PoolInv'
  BY <1>9, CacheHitStep
<1>10. CASE Leave
  BY <1>10, LeaveStep
<1>11. CASE MatchError
  BY <1>11, MatchErrorStep
<1>12. CASE UNCHANGED vars
  BY <1>12 DEF vars, pool, build, exec, PoolInv, TypeOK, Buffers, Geometry, Pointers,
               EmitterWritesOnlyWritable, FreePagesWritable, ChildrenAreLive, Live,
               CachedCodeIsLive, EmbeddedCallsAreLive, RunningCodeIsExecutable
<1>13. QED
  BY <1>1, <1>2, <1>3, <1>4, <1>5, <1>6, <1>7, <1>8, <1>9, <1>10, <1>11, <1>12 DEF Next

\* The invariant holds in every reachable state, whatever the sizes.
THEOREM PoolInvariant == Spec => []PoolInv
BY PoolInit, PoolStep, PTL DEF Spec

\* A pointer in the pattern cache always leads to sealed, intact code of its
\* own pattern: exec_stmt_pool_reset, bb_free and the builds in between
\* never leave exec_stmt a stale entry to jump to.
THEOREM CachedCodeAlwaysLive == Spec => []CachedCodeIsLive
<1>1. PoolInv => CachedCodeIsLive
  BY DEF PoolInv, Pointers
<1>2. QED
  BY <1>1, PoolInvariant, PTL

\* Sealed code never calls an operand whose code was freed or overwritten.
THEOREM EmbeddedCallsAlwaysLive == Spec => []EmbeddedCallsAreLive
<1>1. PoolInv => EmbeddedCallsAreLive
  BY DEF PoolInv, Pointers
<1>2. QED
  BY <1>1, PoolInvariant, PTL

\* The emitter's target buffers are writable for as long as they are filled,
\* and whatever bb_alloc may hand out next is writable too.
THEOREM EmitterAlwaysWrites == Spec => [](EmitterWritesOnlyWritable /\ FreePagesWritable)
<1>1. PoolInv => EmitterWritesOnlyWritable /\ FreePagesWritable
  BY DEF PoolInv, Buffers
<1>2. QED
  BY <1>1, PoolInvariant, PTL

\* The pool's variables keep their types whatever patterns are built, dropped and run.
THEOREM PoolTypes == Spec => []TypeOK
<1>1. PoolInv => TypeOK
  BY DEF PoolInv
<1>2. QED
  BY <1>1, PoolInvariant, PTL

\* bb_free and bb_pool_reset leave nothing sealed above the top: whatever bb_alloc hands out
\* next can be written.
THEOREM FreePagesAlwaysWritable == Spec => []FreePagesWritable
<1>1. PoolInv => FreePagesWritable
  BY DEF PoolInv, Buffers
<1>2. QED
  BY <1>1, PoolInvariant, PTL

\* Code on the C stack stays sealed while it runs, through the nested matches it starts and the
\* buffers they free, unless an error reset the pool under it.
THEOREM RunningCodeAlwaysExecutable == Spec => []RunningCodeIsExecutable
<1>1. PoolInv => RunningCodeIsExecutable
  BY DEF PoolInv, Buffers, Pointers
<1>2. QED
  BY <1>1, PoolInvariant, PTL
=============================================================================
