-------------------------------- MODULE Heap --------------------------------
(***************************************************************************)
(* The kernel heap (crates/runtime/src/heap.rs): requests above            *)
(* LARGE_ALLOC_THRESHOLD are served from a pool of their own, kept as a    *)
(* list of records that are marked free and swept now and then; the rest,  *)
(* and what the pool has no room for, goes to the buddy allocator.  The    *)
(* lock of the pool makes each operation one step.  Sizes are counted in   *)
(* units of the pool; held is what the callers have been given.            *)
(***************************************************************************)
EXTENDS Integers, Sequences, FiniteSets, FiniteSetsExt, SequencesExt

CONSTANTS LARGE_POOL_SIZE, LARGE_ALLOC_THRESHOLD,
          SWEEP_FREE,             \* 50: so many freed records are always swept
          RESET_MIN,              \* 100: no emergency below so many records
          RESET_SMALL,            \* 800: above it small records are dropped
          RESET_HALF,             \* 500: above it the newer half is dropped
          HeapSizes, HeapAligns,  \* what is asked for
          HeapIds,                \* names of the blocks held, a bound on their number
          MaxAfterReset           \* operations followed after records in use were dropped

VARIABLES allocations,  \* sequence of [off, size, free]
          held,         \* per block: [off, size] in the pool, or NoBlock
          reset,        \* ghost: 0, or the operations since an emergency dropped
                        \* the record of a block in use
          refused       \* ghost: the last request the pool refused, [size, align]

heapVars == <<allocations, held, reset, refused>>

NoBlock == [off |-> 0, size |-> 0]
NoRequest == [size |-> 0, align |-> 1]
NoOffset == -1

Used(rs) == SelectSeq(rs, LAMBDA r : ~r.free)
Freed(rs) == SelectSeq(rs, LAMBDA r : r.free)
End(r) == r.off + r.size
AlignUp(x, align) == ((x + align - 1) \div align) * align

get_end_offset(rs) ==
    FoldSeq(LAMBDA r, m : IF End(r) > m THEN End(r) ELSE m, 0, Used(rs))

\* a bug: the list is taken as it stands, in the order of the requests
FreeBlockUnsorted(rs, size, align) ==
    LET step(st, r) ==
            IF st.found # NoOffset THEN st
            ELSE [found |-> IF AlignUp(st.pos, align) + size <= r.off
                            THEN AlignUp(st.pos, align) ELSE NoOffset,
                  pos |-> End(r)]
        st == FoldLeft(step, [found |-> NoOffset, pos |-> 0], Used(rs))
    IN  IF st.found # NoOffset THEN st.found
        ELSE IF AlignUp(st.pos, align) + size <= LARGE_POOL_SIZE
             THEN AlignUp(st.pos, align) ELSE NoOffset

\* The lowest gap between the blocks in use that has room, or NoOffset.
find_free_block(rs, size, align) ==
    LET step(st, r) ==
            IF st.found # NoOffset THEN st
            ELSE [found |-> IF AlignUp(st.pos, align) + size <= r.off
                            THEN AlignUp(st.pos, align) ELSE NoOffset,
                  pos |-> End(r)]
        sorted == SortSeq(Used(rs), LAMBDA a, b : a.off < b.off)
        st == FoldLeft(step, [found |-> NoOffset, pos |-> 0], sorted)
    IN  IF st.found # NoOffset THEN st.found
        ELSE IF AlignUp(st.pos, align) + size <= LARGE_POOL_SIZE
             THEN AlignUp(st.pos, align) ELSE NoOffset

\* The three strategies of an emergency.  The second keeps what was freed and
\* drops what is small; the third is reached when the second dropped nothing.
emergency_reset(rs) ==
    LET large == SelectSeq(rs, LAMBDA r : r.free \/ r.size >= LARGE_ALLOC_THRESHOLD)
    IN  IF Len(Freed(rs)) * 3 >= Len(Used(rs)) THEN Used(rs)
        ELSE IF Len(rs) > RESET_SMALL /\ Len(large) < Len(rs) THEN large
        ELSE IF Len(rs) > RESET_HALF THEN SubSeq(rs, 1, Len(rs) \div 2)
        ELSE rs

\* the records after the check at the start of alloc
Relieved(rs) ==
    IF LARGE_POOL_SIZE - get_end_offset(rs) < LARGE_POOL_SIZE \div 10 /\ Len(rs) > RESET_MIN
    THEN emergency_reset(rs) ELSE rs

\* What LargeAllocator::alloc answers and leaves: first fit, a sweep and a
\* second search, and the end of the pool.
LargeAlloc(rs, size, align) ==
    LET r1 == Relieved(rs)
        first == find_free_block(r1, size, align)
        r2 == Used(r1)
        again == IF Len(r2) < Len(r1) THEN find_free_block(r2, size, align) ELSE NoOffset
        last == AlignUp(get_end_offset(r2), align)
        taken(list, off) == [rs |-> Append(list, [off |-> off, size |-> size, free |-> FALSE]),
                             off |-> off]
    IN  IF first # NoOffset THEN taken(r1, first)
        ELSE IF again # NoOffset THEN taken(r2, again)
        ELSE IF last + size <= LARGE_POOL_SIZE THEN taken(r2, last)
        ELSE [rs |-> r2, off |-> NoOffset]

\* a bug: the oldest record is marked, not the one found
DeallocMarksFirst(rs, off, size) ==
    LET at == SelectInSeq(rs, LAMBDA r : r.off = off /\ ~r.free)
    IN  IF at = 0 THEN rs ELSE [rs EXCEPT ![1].free = TRUE]

\* Marks the record of the block, or one that contains its start; an exact
\* match may sweep the list.
LargeDealloc(rs, off, size) ==
    LET exact == SelectInSeq(rs, LAMBDA r : r.off = off /\ r.size = size /\ ~r.free)
        around == SelectInSeq(rs, LAMBDA r : ~r.free /\ off >= r.off /\ off < End(r))
        marked == [rs EXCEPT ![exact].free = TRUE]
        free == Len(Freed(marked))
    IN  IF exact # 0
        THEN IF free >= SWEEP_FREE \/ free * 4 >= Len(Used(marked)) THEN Used(marked) ELSE marked
        ELSE IF around # 0 THEN [rs EXCEPT ![around].free = TRUE] ELSE rs

-----------------------------------------------------------------------------
HeapInit ==
    /\ allocations = << >> /\ held = [b \in HeapIds |-> NoBlock]
    /\ reset = 0 /\ refused = NoRequest

\* HybridAllocator::alloc.  A small request, and one the pool refuses, is the
\* buddy allocator's and leaves the pool's blocks as they are.
heap_alloc(b, size, align) ==
    /\ \E x \in HeapIds : held[x] = NoBlock
    /\ b = Min({x \in HeapIds : held[x] = NoBlock})
    /\ size > LARGE_ALLOC_THRESHOLD
    /\ LET res == LargeAlloc(allocations, size, align)
           kept == Relieved(allocations)
       IN  /\ allocations' = res.rs
           /\ held' = IF res.off = NoOffset THEN held
                      ELSE [held EXCEPT ![b] = [off |-> res.off, size |-> size]]
           /\ reset' = IF reset > 0 \/ Len(Used(kept)) < Len(Used(allocations))
                       THEN reset + 1 ELSE 0
           /\ refused' = IF res.off = NoOffset THEN [size |-> size, align |-> align]
                         ELSE NoRequest

\* HybridAllocator::dealloc of a block of the pool
heap_dealloc(b) ==
    /\ held[b] # NoBlock
    /\ allocations' = LargeDealloc(allocations, held[b].off, held[b].size)
    /\ held' = [held EXCEPT ![b] = NoBlock]
    /\ refused' = NoRequest
    /\ reset' = IF reset > 0 THEN reset + 1 ELSE 0

HeapNext ==
    /\ reset <= MaxAfterReset
    /\ \E b \in HeapIds :
           \/ \E size \in HeapSizes, align \in HeapAligns : heap_alloc(b, size, align)
           \/ heap_dealloc(b)

-----------------------------------------------------------------------------
(* Properties                                                              *)

Held == {b \in HeapIds : held[b] # NoBlock}

\* Two blocks the kernel holds share memory only after an emergency has dropped
\* the record of a block in use: reuse of gaps, sweeping and the search for a
\* containing record never hand out memory that somebody holds.
OverlapOnlyByReset ==
    reset > 0 \/ \A a, b \in Held :
                 a # b => End(held[a]) <= held[b].off \/ End(held[b]) <= held[a].off

\* The pool refuses a request, and the buddy allocator has to serve it, only
\* when no aligned place between the blocks held is large enough; what has been
\* freed is never lost to the pool.
RefusesOnlyFull ==
    refused # NoRequest /\ reset = 0 =>
        \A x \in 0 .. LARGE_POOL_SIZE - refused.size :
            x % refused.align = 0 =>
                \E b \in Held : held[b].off < x + refused.size /\ x < End(held[b])

=============================================================================
