------------------------------- MODULE BBPool -------------------------------
(***************************************************************************)
(* The executable-memory pool of the native Byrd-box path and its only     *)
(* client, the box builder:                                                *)
(*                                                                         *)
(*   processor/bb_pool.c           bump allocator over one mmap'd area,    *)
(*                                 read-write until sealed, then           *)
(*                                 read-execute                            *)
(*   emitter/emit_bb.c             bb_build_flat / bb_build_brokered: a    *)
(*                                 pattern is emitted into a fresh buffer  *)
(*                                 after its sub-patterns were pre-built   *)
(*                                 above it in the same pool               *)
(*   runtime/snobol4/stmt_exec.c   the cache of built patterns             *)
(*   runtime/rt/rt.c               a run-time error in a match resets the  *)
(*                                 pool under everything else              *)
(*                                                                         *)
(* A page is the unit: FLAT_BUF_MAX and the pool size are page multiples,  *)
(* so bb_alloc's rounding of pool_top never moves it and every buffer      *)
(* starts where the previous one ends.                                     *)
(***************************************************************************)
EXTENDS Integers, Sequences

CONSTANTS
    PoolPages,       \* BB_POOL_SIZE, in pages
    FlatPages,       \* FLAT_BUF_MAX, in pages
    Nodes,           \* the patterns a program builds
    Kids,            \* Kids[n]: the operands of n's ARBNO, capture and callout nodes
    ChildCacheMax,   \* CHILD_CACHE_MAX
    MaxDepth,        \* bound: entries into pool code active on the C stack at once
    None,            \* a NULL function pointer, or no build in progress
    Absent           \* no entry in the child cache

ASSUME PoolAssumption ==
    /\ PoolPages \in Nat
    /\ FlatPages \in Nat \ {0}
    /\ ChildCacheMax \in Nat
    /\ MaxDepth \in Nat
    /\ Kids \in [Nodes -> Seq(Nodes)]
    /\ None \notin 0 .. PoolPages
    /\ Absent \notin (0 .. PoolPages) \cup {None}
    /\ None \notin [node : Nodes, buf : 0 .. PoolPages]
    /\ None \notin [node : Nodes, buf : 0 .. PoolPages, try : {1, 2}]

VARIABLES
    pool_top,        \* first unallocated page
    prot,            \* prot[p]: "RW" or "RX", what mprotect last said of page p
    code,            \* code[p]: the pattern whose instructions were last written to page p
    calls,           \* calls[p][k]: the entry address that code embeds for operand k
    root,            \* the outermost build: its pattern and its buffer
    cur,             \* the operand being emitted: its pattern, buffer and attempt
    work,            \* what pre_build_children has left to do
    childFn,         \* g_child_cache: first entry for each pattern
    childN,          \* g_child_cache_n
    nodeCache,       \* g_node_cache: entry address of a built pattern
    running,         \* entry addresses of the pool code on the C stack, innermost last
    jmp,             \* the entry whose rt_match_variant holds g_sno_err_jmp, 0 if none
    doomed,          \* history: how many outer entries had the pool reset under them
    aborted          \* bb_free met a buffer that is not the topmost one

pool  == <<pool_top, prot, code, calls>>
build == <<root, cur, work, childFn, childN>>
exec  == <<nodeCache, running, jmp, doomed>>
vars  == <<pool, build, exec, aborted>>

Pages == 0 .. PoolPages - 1
Fns   == Pages \cup {None}
BufPages(b) == b .. b + FlatPages - 1

Init ==
    /\ pool_top = 0
    /\ prot  = [p \in Pages |-> "RW"]
    /\ code  = [p \in Pages |-> None]
    /\ calls = [p \in Pages |-> [k \in Nodes |-> None]]
    /\ root = None
    /\ cur  = None
    /\ work = <<>>
    /\ childFn = [k \in Nodes |-> Absent]
    /\ childN  = 0
    /\ nodeCache = [n \in Nodes |-> None]
    /\ running = <<>>
    /\ jmp = 0
    /\ doomed = 0
    /\ aborted = FALSE

-----------------------------------------------------------------------------
\* Mutant: only the start of the buffer is compared with the limit.
CanAllocStartOnly == pool_top <= PoolPages

(* bb_alloc hands out the pages at pool_top, or NULL when they do not fit. *)
CanAlloc == pool_top + FlatPages <= PoolPages

\* The emitter writes n's instructions, and the addresses in links, to ps.
Write(ps, n, links) ==
    /\ code'  = [p \in Pages |-> IF p \in ps THEN n ELSE code[p]]
    /\ calls' = [p \in Pages |-> IF p \in ps THEN links ELSE calls[p]]

\* Mutant: the rounding takes in the page below the buffer.
bb_sealBelow(ps) ==
    prot' = [p \in Pages |-> IF p \in ps \/ p + 1 \in ps THEN "RX" ELSE prot[p]]

\* bb_seal: the pages that hold code become read-execute.
bb_seal(ps) == prot' = [p \in Pages |-> IF p \in ps THEN "RX" ELSE prot[p]]

\* bb_free gives back the topmost buffer; any other buffer is fatal.
bb_free(b) ==
    /\ pool_top' = IF b + FlatPages = pool_top THEN b ELSE pool_top
    /\ prot' = [p \in Pages |-> IF b + FlatPages = pool_top /\ p \in BufPages(b)
                                THEN "RW" ELSE prot[p]]
    /\ aborted' = (b + FlatPages # pool_top)

\* bb_pool_reset: every page allocated so far becomes writable and free.
bb_pool_reset ==
    /\ prot' = [p \in Pages |-> IF p < pool_top THEN "RW" ELSE prot[p]]
    /\ pool_top' = 0

-----------------------------------------------------------------------------
\* Mutant: a build starts with the entries of the previous one.
child_cache_keep == UNCHANGED <<childFn, childN>>

\* g_child_cache_n = 0.
child_cache_clear ==
    /\ childFn' = [k \in Nodes |-> Absent]
    /\ childN'  = 0

(* The child cache keeps entries in order and finds the first one of a     *)
(* pattern; a NULL entry takes a slot and hides every later one.           *)
child_cache_get(n) == IF childFn[n] = Absent THEN None ELSE childFn[n]

child_cache_put(n, fn) ==
    IF childN < ChildCacheMax
    THEN /\ childN' = childN + 1
         /\ childFn' = [childFn EXCEPT ![n] = IF @ = Absent THEN fn ELSE @]
    ELSE UNCHANGED <<childN, childFn>>

\* The addresses the emitter finds for the operands of n.
Links(n) ==
    [k \in Nodes |-> IF \E i \in DOMAIN Kids[n] : Kids[n][i] = k
                     THEN child_cache_get(k) ELSE None]

Item(op, n) == [op |-> op, node |-> n]
KidItems(n) == [i \in DOMAIN Kids[n] |-> Item("kid", Kids[n][i])]

Building == root # None

\* bb_build_flat / bb_build_brokered called with g_in_prebuild clear: by
\* exec_stmt, which looks in its cache first, or by a deferred variable
\* inside a match, which does not.
BuildRoot(n) ==
    /\ ~Building /\ ~aborted
    /\ Len(running) < MaxDepth
    /\ nodeCache[n] = None \/ Len(running) > doomed
    /\ CanAlloc
    /\ root' = [node |-> n, buf |-> pool_top]
    /\ pool_top' = pool_top + FlatPages
    /\ work' = KidItems(n)
    /\ child_cache_clear
    /\ UNCHANGED <<prot, code, calls, cur, exec, aborted>>

\* pre_build_children at an operand: one already built is not entered again.
VisitKid ==
    /\ Building /\ cur = None /\ ~aborted
    /\ work # <<>> /\ Head(work).op = "kid"
    /\ LET k == Head(work).node IN
       work' = IF child_cache_get(k) # None
               THEN Tail(work)
               ELSE KidItems(k) \o <<Item("make", k)>> \o Tail(work)
    /\ UNCHANGED <<pool, root, cur, childFn, childN, exec, aborted>>

\* The operand's operands are done: allocate its own buffer.
MakeKid ==
    /\ Building /\ cur = None /\ ~aborted
    /\ work # <<>> /\ Head(work).op = "make"
    /\ CanAlloc
    /\ cur' = [node |-> Head(work).node, buf |-> pool_top, try |-> 1]
    /\ pool_top' = pool_top + FlatPages
    /\ UNCHANGED <<prot, code, calls, root, work, childFn, childN, exec, aborted>>

\* Mutant: an exhausted pool is recycled on the spot.
MakeKidRecycle ==
    /\ Building /\ cur = None /\ ~aborted
    /\ work # <<>> /\ Head(work).op = "make"
    /\ ~CanAlloc
    /\ bb_pool_reset
    /\ root' = None
    /\ UNCHANGED <<code, calls, cur, work, childFn, childN, exec, aborted>>

\* The pool is exhausted: both attempts return NULL and NULL is cached.
MakeKidExhausted ==
    /\ Building /\ cur = None /\ ~aborted
    /\ work # <<>> /\ Head(work).op = "make"
    /\ ~CanAlloc
    /\ child_cache_put(Head(work).node, None)
    /\ work' = Tail(work)
    /\ UNCHANGED <<pool, root, cur, exec, aborted>>

\* The operand fits in len pages: seal them and cache the entry address.
EmitKid(len) ==
    /\ cur # None
    /\ Write(cur.buf .. cur.buf + len - 1, cur.node, Links(cur.node))
    /\ bb_seal(cur.buf .. cur.buf + len - 1)
    /\ child_cache_put(cur.node, cur.buf)
    /\ cur' = None
    /\ work' = Tail(work)
    /\ UNCHANGED <<pool_top, root, exec, aborted>>

\* The operand overflows its buffer: give the buffer back and try once more,
\* then cache NULL.  The retry allocates at once; there is room for it.
OverflowKid ==
    /\ cur # None
    /\ Write(BufPages(cur.buf), cur.node, Links(cur.node))
    /\ IF cur.try = 1
       THEN /\ cur' = [cur EXCEPT !.try = 2]
            /\ prot' = [p \in Pages |-> IF p \in BufPages(cur.buf) THEN "RW" ELSE prot[p]]
            /\ UNCHANGED <<pool_top, work, childFn, childN, aborted>>
       ELSE /\ cur' = None
            /\ bb_free(cur.buf)
            /\ child_cache_put(cur.node, None)
            /\ work' = Tail(work)
    /\ UNCHANGED <<root, exec>>

\* Pool code is entered: by rt_match_variant and exec_stmt, which first take
\* over g_sno_err_jmp, or by a deferred variable inside the active match.
Enter(fn, byMatch) ==
    /\ byMatch \/ Len(running) > doomed
    /\ running' = Append(running, fn)
    /\ jmp' = IF byMatch THEN Len(running) + 1 ELSE jmp
    /\ UNCHANGED doomed

\* The pattern itself fits in len pages: seal it, cache it or not (only the
\* LIVE mode of exec_stmt does, when the table has room), and enter it.
EmitRoot(len, byMatch, cached) ==
    /\ Building /\ cur = None /\ work = <<>> /\ ~aborted
    /\ byMatch => nodeCache[root.node] = None
    /\ cached => byMatch
    /\ Write(root.buf .. root.buf + len - 1, root.node, Links(root.node))
    /\ bb_seal(root.buf .. root.buf + len - 1)
    /\ nodeCache' = IF cached THEN [nodeCache EXCEPT ![root.node] = root.buf] ELSE nodeCache
    /\ Enter(root.buf, byMatch)
    /\ root' = None
    /\ UNCHANGED <<pool_top, cur, work, childFn, childN, aborted>>

\* The pattern overflows its buffer: its operands lie above it in the pool.
OverflowRoot ==
    /\ Building /\ cur = None /\ work = <<>> /\ ~aborted
    /\ Write(BufPages(root.buf), root.node, Links(root.node))
    /\ bb_free(root.buf)
    /\ root' = None
    /\ UNCHANGED <<cur, work, childFn, childN, exec>>

-----------------------------------------------------------------------------
\* exec_stmt finds the pattern in g_node_cache and enters its code.
CacheHit(n) ==
    /\ ~Building /\ ~aborted
    /\ Len(running) < MaxDepth
    /\ nodeCache[n] # None
    /\ Enter(nodeCache[n], TRUE)
    /\ UNCHANGED <<pool, build, nodeCache, aborted>>

\* The innermost entry returns; a match then clears g_sno_err_active.
Leave ==
    /\ ~Building /\ ~aborted
    /\ Len(running) > doomed
    /\ running' = SubSeq(running, 1, Len(running) - 1)
    /\ jmp' = IF jmp = Len(running) THEN 0 ELSE jmp
    /\ UNCHANGED <<pool, build, nodeCache, doomed, aborted>>

\* Mutant: the pool is reset and the cache is not.
cache_keep == UNCHANGED nodeCache

cache_reset == nodeCache' = [n \in Nodes |-> None]

\* A run-time error longjmps to the rt_match_variant that last took over
\* g_sno_err_jmp; it calls exec_stmt_pool_reset, that is bb_pool_reset and
\* cache_reset, and returns, whatever matches are still active around it.
\* (With no such match active, sno_runtime_error ends the program; or, after an error was caught
\* here, it jumps into a frame that has returned, which is the end of what can be said.)
MatchError ==
    /\ ~Building /\ ~aborted
    /\ jmp # 0
    /\ bb_pool_reset
    /\ cache_reset
    /\ running' = SubSeq(running, 1, jmp - 1)
    /\ doomed' = jmp - 1
    /\ jmp' = 0
    /\ UNCHANGED <<code, calls, build, aborted>>

Next ==
    \/ \E n \in Nodes : BuildRoot(n)
    \/ VisitKid
    \/ MakeKid
    \/ MakeKidExhausted
    \/ \E len \in 1 .. FlatPages : EmitKid(len)
    \/ OverflowKid
    \/ \E len \in 1 .. FlatPages, byMatch, cached \in BOOLEAN : EmitRoot(len, byMatch, cached)
    \/ OverflowRoot
    \/ \E n \in Nodes : CacheHit(n)
    \/ Leave
    \/ MatchError

Spec == Init /\ [][Next]_vars

-----------------------------------------------------------------------------
\* Every variable stays in its type; a buffer lies inside the pool.
TypeOK ==
    /\ pool_top \in 0 .. PoolPages
    /\ prot  \in [Pages -> {"RW", "RX"}]
    /\ code  \in [Pages -> Nodes \cup {None}]
    /\ calls \in [Pages -> [Nodes -> Fns]]
    /\ root \in [node : Nodes, buf : Pages] \cup {None}
    /\ cur  \in [node : Nodes, buf : Pages, try : {1, 2}] \cup {None}
    /\ work \in Seq([op : {"kid", "make"}, node : Nodes])
    /\ childFn \in [Nodes -> Fns \cup {Absent}]
    /\ childN \in 0 .. ChildCacheMax
    /\ nodeCache \in [Nodes -> Fns]
    /\ running \in Seq(Pages)
    /\ jmp \in 0 .. Len(running)
    /\ doomed \in 0 .. Len(running)
    /\ aborted \in BOOLEAN

\* b is the entry of sealed, intact code of n in an allocated buffer.
Live(b, n) == b \in Pages /\ b < pool_top /\ prot[b] = "RX" /\ code[b] = n

\* The emitter never writes to a page that was sealed: the buffers being
\* filled, the outermost one across all the builds made above it included,
\* stay writable until their own bb_seal (a write would fault).
EmitterWritesOnlyWritable ==
    /\ root # None => \A p \in BufPages(root.buf) : prot[p] = "RW"
    /\ cur # None => \A p \in BufPages(cur.buf) : prot[p] = "RW"

\* Whatever bb_free and bb_pool_reset gave back is writable again, so the
\* next bb_alloc, which changes no protection, returns writable memory.
FreePagesWritable == \A p \in Pages : p >= pool_top => prot[p] = "RW"

\* g_node_cache survives builds, overflows and resets without ever pointing
\* at code that was freed, made writable or overwritten by another pattern.
CachedCodeIsLive ==
    \A n \in Nodes : nodeCache[n] # None => Live(nodeCache[n], n)

\* Sealed code calls its operands through absolute addresses: each of them
\* is the entry of that operand's own sealed code, for as long as the caller
\* can be entered.
EmbeddedCallsAreLive ==
    \A p \in Pages : prot[p] = "RX" =>
        \A k \in Nodes : calls[p][k] # None => Live(calls[p][k], k)

\* Code on the C stack stays executable until it returns, unless an error in
\* a match nested inside it has reset the pool under it.
RunningCodeIsExecutable ==
    \A i \in DOMAIN running : i > doomed => prot[running[i]] = "RX"

\* bb_free is only ever given the topmost buffer.
NoLifoViolation == ~aborted
=============================================================================
