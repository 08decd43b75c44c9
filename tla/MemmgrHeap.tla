------------------------------ MODULE MemmgrHeap ------------------------------
(***************************************************************************)
(* furi/core/memmgr_heap.c: pvPortMalloc and vPortFree (heap_4 of          *)
(* FreeRTOS), and the accounting of what a traced thread leaves allocated. *)
(* The unit of memory is the alignment, 8 bytes, which is also the size of *)
(* a block's header; a request is a number of units after rounding up.     *)
(* Everything happens with the scheduler suspended, so an operation is one *)
(* step.                                                                   *)
(***************************************************************************)
EXTENDS Integers, Sequences, FiniteSets, Functions

CONSTANTS Threads,
          HeapSize,     \* pxEnd's address, in units from the start of the heap
          Requests      \* the sizes of requests, in units

ASSUME HeapAssumption == HeapSize \in Nat \ {0} /\ Requests \subseteq Nat \ {0}

VARIABLES freeList,     \* the blocks from xStart to pxEnd, in the list's order
          xBlockSize,   \* the size of every block, by its header's address
          xFreeBytesRemaining,
          traced,       \* the threads in memmgr_heap_thread_dict
          dict,         \* what their MemmgrHeapAllocDict has, by address
          halted,       \* furi_check(pvReturn) failed
          mine,         \* history: the blocks that a thread allocated while traced
          strayed       \* history: the threads of which another thread freed a block

heapVars == <<freeList, xBlockSize, xFreeBytesRemaining, halted>>
traceVars == <<traced, dict, mine, strayed>>
vars == <<heapVars, traceVars>>

Addr == 0 .. (HeapSize - 1)
Header == 1                          \* xHeapStructSize
MinimumBlock == 2 * Header           \* heapMINIMUM_BLOCK_SIZE

Blocks == DOMAIN xBlockSize
\* xBlockAllocatedBit: the blocks that are not in the list
Allocated == Blocks \ Range(freeList)

Init ==
    /\ freeList = <<0>>
    /\ xBlockSize = [a \in {0} |-> HeapSize]
    /\ xFreeBytesRemaining = HeapSize
    /\ halted = FALSE
    /\ traced = {} /\ strayed = {}
    /\ dict = [t \in Threads |-> {}]
    /\ mine = [t \in Threads |-> {}]

\* the list with its entries after the k-th and before the r-th replaced by m
Splice(s, k, m, r) ==
    [i \in 1 .. (k + 1 + Len(s) - r + 1) |->
        IF i <= k THEN s[i] ELSE IF i = k + 1 THEN m ELSE s[i - k - 2 + r]]

\* the list without its i-th entry
Without(s, i) == [j \in 1 .. (Len(s) - 1) |-> IF j < i THEN s[j] ELSE s[j + 1]]

\* how many entries the loop passes: it stops before the first one at or above b
Passed(s, b) ==
    CHOOSE k \in 0 .. Len(s) :
        /\ \A j \in 1 .. k : s[j] < b
        /\ k < Len(s) => s[k + 1] >= b

\* do the block at a and the one at b make a contiguous block of memory?
X_Contiguous(size, a, b) == FALSE
Contiguous(size, a, b) == a + size[a] = b

\* the list and the sizes once the block b, which is in size, is in the list too
prvInsertBlockIntoFreeList(s, size, b) ==
    LET k == Passed(s, b)
        prevToo == k > 0 /\ Contiguous(size, s[k], b)
        nextToo == k < Len(s) /\ Contiguous(size, b, s[k + 1])
        m == IF prevToo THEN s[k] ELSE b
        gone == (IF prevToo THEN {b} ELSE {}) \cup (IF nextToo THEN {s[k + 1]} ELSE {})
        all == size[b] + (IF prevToo THEN size[s[k]] ELSE 0)
                       + (IF nextToo THEN size[s[k + 1]] ELSE 0)
    IN  [list |-> Splice(s, IF prevToo THEN k - 1 ELSE k, m,
                            IF nextToo THEN k + 2 ELSE k + 1),
         size |-> [a \in DOMAIN size \ gone |-> IF a = m THEN all ELSE size[a]]]

\* the list's first entry that is large enough for w units
FirstFit(w, i) ==
    /\ i \in DOMAIN freeList
    /\ xBlockSize[freeList[i]] >= w
    /\ \A j \in 1 .. (i - 1) : xBlockSize[freeList[j]] < w

\* is the rest of a block worth a block of its own?
Splits(rest) == rest > MinimumBlock

\* what the counter loses when w units of a block with that rest are taken
X_Charged(w, rest) == w
Charged(w, rest) == IF Splits(rest) THEN w ELSE w + rest

(***************************************************************************)
(* Operations                                                              *)
(***************************************************************************)
\* traceMALLOC and traceFREE look at the dictionary of the running thread only
TraceMalloc(t, b) ==
    /\ dict' = [dict EXCEPT ![t] = IF t \in traced THEN @ \cup {b} ELSE @]
    /\ mine' = [mine EXCEPT ![t] = IF t \in traced THEN @ \cup {b} ELSE @]
    /\ UNCHANGED <<traced, strayed>>

X_Erased(t, b) == dict[t]
Erased(t, b) == IF t \in traced THEN dict[t] \ {b} ELSE dict[t]

TraceFree(t, b) ==
    /\ dict' = [dict EXCEPT ![t] = Erased(t, b)]
    /\ mine' = [u \in Threads |-> mine[u] \ {b}]
    /\ strayed' = strayed \cup {u \in Threads \ {t} : b \in mine[u]}
    /\ UNCHANGED traced

\* the sizes once the block b is split into its first w units and the rest
Cut(b, w) == [a \in Blocks \cup {b + w} |->
                 IF a = b THEN w ELSE IF a = b + w THEN xBlockSize[b] - w ELSE xBlockSize[a]]

\* the block at the list's i-th place is taken, as a whole or its first w units
Take(i, w) ==
    LET b == freeList[i]
        rest == xBlockSize[b] - w
        split == prvInsertBlockIntoFreeList(Without(freeList, i), Cut(b, w), b + w)
    IN  /\ freeList' = IF Splits(rest) THEN split.list ELSE Without(freeList, i)
        /\ xBlockSize' = IF Splits(rest) THEN split.size ELSE xBlockSize
        /\ xFreeBytesRemaining' = xFreeBytesRemaining - Charged(w, rest)

pvPortMalloc(t, n) ==
    LET w == n + Header IN
    /\ w <= xFreeBytesRemaining
    /\ \E i \in DOMAIN freeList :
          FirstFit(w, i) /\ Take(i, w) /\ TraceMalloc(t, freeList[i])
    /\ UNCHANGED halted

\* no block is large enough: furi_check halts the device
Refuse(n) ==
    LET w == n + Header IN
    /\ w > xFreeBytesRemaining \/ \A i \in DOMAIN freeList : ~FirstFit(w, i)
    /\ halted' = TRUE
    /\ UNCHANGED <<freeList, xBlockSize, xFreeBytesRemaining, traceVars>>

\* any thread may free a block that is allocated
vPortFree(t, b) ==
    LET h == prvInsertBlockIntoFreeList(freeList, xBlockSize, b) IN
    /\ b \in Allocated
    /\ freeList' = h.list
    /\ xBlockSize' = h.size
    /\ xFreeBytesRemaining' = xFreeBytesRemaining + xBlockSize[b]
    /\ TraceFree(t, b)
    /\ UNCHANGED halted

\* furi_thread_body before it calls the thread's function
EnableThreadTrace(t) ==
    /\ t \notin traced
    /\ traced' = traced \cup {t}
    /\ UNCHANGED <<heapVars, dict, mine, strayed>>

\* and after it has returned, with the leftovers read out
DisableThreadTrace(t) ==
    /\ t \in traced
    /\ traced' = traced \ {t}
    /\ strayed' = strayed \ {t}
    /\ dict' = [dict EXCEPT ![t] = {}]
    /\ mine' = [mine EXCEPT ![t] = {}]
    /\ UNCHANGED heapVars

\* the addresses whose sizes memmgr_heap_get_thread_memory adds up
ThreadMemory(t) == dict[t] \cap Allocated

Next ==
    /\ ~halted
    /\ \/ \E t \in Threads, n \in Requests : pvPortMalloc(t, n)
       \/ \E n \in Requests : Refuse(n)
       \/ \E t \in Threads, b \in Addr : vPortFree(t, b)
       \/ \E t \in Threads : EnableThreadTrace(t)
       \/ \E t \in Threads : DisableThreadTrace(t)

Spec == Init /\ [][Next]_vars

(***************************************************************************)
(* Properties                                                              *)
(***************************************************************************)
TypeOK ==
    /\ freeList \in Seq(Addr)
    /\ Blocks \subseteq Addr /\ \A a \in Blocks : xBlockSize[a] \in 1 .. HeapSize
    /\ Range(freeList) \subseteq Blocks
    /\ xFreeBytesRemaining \in 0 .. HeapSize
    /\ traced \subseteq Threads /\ strayed \subseteq Threads
    /\ dict \in [Threads -> SUBSET Addr] /\ mine \in [Threads -> SUBSET Addr]
    /\ halted \in BOOLEAN

Span(a) == a .. (a + xBlockSize[a] - 1)
InUse == UNION {Span(a) : a \in Allocated}

\* pvPortMalloc compares a request with xFreeBytesRemaining before it looks
\* for a block: the counter is the number of units that no block in use covers,
\* after every split, merge and unsplit remainder.
FreeBytesExact == xFreeBytesRemaining = Cardinality(Addr \ InUse)

\* malloc and free keep the promise of Allocator: blocks in use never overlap,
\* and the device is halted for want of memory only if no gap is large enough,
\* which holds because no two neighbours in the list are left unmerged.
Alloc == INSTANCE Allocator WITH
            Sizes <- {n + Header : n \in Requests},
            live <- {<<a, xBlockSize[a]>> : a \in Allocated}
ImplementsAllocator == Alloc!ASpec

\* What thread.c reports when an application ends: every block it allocated and
\* left is counted; and no other is, unless another thread freed a block of its,
\* whose address the dictionary keeps and a later owner may be counted for.
LeaksReported ==
    \A t \in traced :
        /\ mine[t] \subseteq ThreadMemory(t)
        /\ t \notin strayed => ThreadMemory(t) = mine[t]

===============================================================================
