----------------------------- MODULE FrameAlloc -----------------------------
(***************************************************************************)
(* The physical page allocator (crates/runtime/src/frame.rs): a bitmap per *)
(* memory region, frames handed out one by one or in contiguous runs, and  *)
(* the two ways back, Drop of FrameTracker and PageAllocImpl::dealloc      *)
(* (kernel/src/main.rs).                                                   *)
(*                                                                         *)
(* The allocator's lock makes each of its operations one step.  Giving a   *)
(* frame back takes two: Drop clears the memory and then takes the lock,   *)
(* PageAllocImpl::dealloc does it the other way round.  The kernel runs on *)
(* one hart; Harts is a parameter since the code is written to be shared.  *)
(***************************************************************************)
EXTENDS Integers, FiniteSets, Sequences, FrameRuns

CONSTANTS Harts,
          Areas,      \* the memory areas [start, end], in bytes, in order
          PAGE_SIZE,
          Width,      \* the bits of a usize
          MaxRun,     \* the longest run that is asked for
          NoFrame

Region == 1 .. Len(Areas)

\* add_frame_map: alignup and aligndown, as page numbers
Lo(k) == (Areas[k].start + PAGE_SIZE - 1) \div PAGE_SIZE
Hi(k) == Areas[k].end \div PAGE_SIZE

Total(k) == Hi(k) - Lo(k)
Bits(k) == 0 .. ((Total(k) + Width - 1) \div Width) * Width - 1

Pages(k) == Lo(k) .. Hi(k) - 1
Frames == UNION {Pages(k) : k \in Region}

\* The areas the platform reports hold whole pages and do not overlap.
ASSUME FrameAssumption ==
    /\ Areas \in Seq([start : Nat, end : Nat])
    /\ PAGE_SIZE \in Nat \ {0} /\ Width \in Nat \ {0} /\ MaxRun \in Nat
    /\ \A k \in Region : Lo(k) <= Hi(k)
    /\ \A j, k \in Region : j # k => Pages(j) \cap Pages(k) = {}
    /\ NoFrame \notin Frames

VARIABLES
    bits,        \* per region, the bits that are 1
    trackers,    \* per frame, the number of FrameTrackers for it
    tables,      \* per frame, the page tables that use it
    dropping,    \* per hart, the frame Drop has cleared and not yet freed, or NoFrame
    clearing,    \* per hart, the frame dealloc has freed and not yet cleared, or NoFrame
    written,     \* the frames that were written to since they were last cleared
    failed,      \* the length of the run the last step found no room for, or 0
    halted       \* the kernel has panicked

vars == <<bits, trackers, tables, dropping, clearing, written, failed, halted>>

\* FrameRegionMap::new marks the bits of the last word that stand for no page.
New(k) == {i \in Bits(k) : i >= Total(k)}

Init ==
    /\ bits = [k \in Region |-> New(k)]
    /\ trackers = [f \in Frames |-> 0]
    /\ tables = [f \in Frames |-> 0]
    /\ dropping = [h \in Harts |-> NoFrame]
    /\ clearing = [h \in Harts |-> NoFrame]
    /\ written = {}
    /\ failed = 0
    /\ halted = FALSE

Idle(h) == ~halted /\ dropping[h] = NoFrame /\ clearing[h] = NoFrame

-----------------------------------------------------------------------------
(* Allocation                                                              *)

\* the regions with a word that is not all ones
FreeRegions == {k \in Region : Bits(k) \ bits[k] # {}}

\* A mutant: the bit stays 0.
SetBitForgotten(k, S) == bits

SetBit(k, S) == [bits EXCEPT ![k] = @ \cup S]

\* The first region with a free page gives its lowest one: alloc of
\* FrameAllocator and of FrameRegionMap, alloc_in_pos.
Given == LET k == Lowest(FreeRegions) IN [region |-> k, bit |-> Lowest(Bits(k) \ bits[k])]

frame_alloc(h) ==
    /\ Idle(h)
    /\ IF FreeRegions = {}
       THEN failed' = 1 /\ UNCHANGED <<bits, trackers>>
       ELSE /\ bits' = SetBit(Given.region, {Given.bit})
            /\ trackers' = [trackers EXCEPT ![Lo(Given.region) + Given.bit] = @ + 1]
            /\ failed' = 0
    /\ UNCHANGED <<tables, dropping, clearing, written, halted>>

\* PageAllocImpl::alloc expects a frame and panics without one.
page_alloc(h) ==
    /\ Idle(h)
    /\ IF FreeRegions = {}
       THEN failed' = 1 /\ halted' = TRUE /\ UNCHANGED <<bits, tables>>
       ELSE /\ bits' = SetBit(Given.region, {Given.bit})
            /\ tables' = [tables EXCEPT ![Lo(Given.region) + Given.bit] = @ + 1]
            /\ failed' = 0
            /\ UNCHANGED halted
    /\ UNCHANGED <<trackers, dropping, clearing, written>>

get_free_page_count(k) == Cardinality(Bits(k) \ bits[k])

\* Where alloc_much of region k finds n free pages in a row.
Fits(k, n) ==
    IF n > Total(k) \/ n > get_free_page_count(k) THEN {} ELSE Starts(bits[k], Total(k), n)

frame_alloc_much(h, n) ==
    LET rs == {k \in Region : Fits(k, n) # {}}
        k == Lowest(rs)
        s == Lowest(Fits(k, n))
        run == s .. s + n - 1
    IN  /\ Idle(h)
        /\ IF rs = {}
           THEN failed' = n /\ UNCHANGED <<bits, trackers>>
           ELSE /\ bits' = SetBit(k, run)
                /\ trackers' = [f \in Frames |->
                                  IF \E x \in run : f = Lo(k) + x
                                  THEN trackers[f] + 1 ELSE trackers[f]]
                /\ failed' = 0
        /\ UNCHANGED <<tables, dropping, clearing, written, halted>>

-----------------------------------------------------------------------------
(* Release                                                                 *)

\* dealloc of FrameAllocator and of FrameRegionMap: at most one region holds f
Dealloc(f) ==
    [k \in Region |-> IF f \in Pages(k) THEN bits[k] \ {f - Lo(k)} ELSE bits[k]]

\* A mutant: the memory of a dropped frame is not cleared.
drop_clear_forgotten(h, f) ==
    /\ Idle(h) /\ trackers[f] > 0
    /\ trackers' = [trackers EXCEPT ![f] = @ - 1]
    /\ dropping' = [dropping EXCEPT ![h] = f]
    /\ failed' = 0
    /\ UNCHANGED <<bits, tables, clearing, written, halted>>

\* Drop of FrameTracker: clear the memory,
drop_clear(h, f) ==
    /\ Idle(h) /\ trackers[f] > 0
    /\ trackers' = [trackers EXCEPT ![f] = @ - 1]
    /\ dropping' = [dropping EXCEPT ![h] = f]
    /\ written' = written \ {f}
    /\ failed' = 0
    /\ UNCHANGED <<bits, tables, clearing, halted>>

\* then give it back
drop_dealloc(h) ==
    /\ ~halted /\ dropping[h] # NoFrame
    /\ bits' = Dealloc(dropping[h])
    /\ dropping' = [dropping EXCEPT ![h] = NoFrame]
    /\ failed' = 0
    /\ UNCHANGED <<trackers, tables, clearing, written, halted>>

\* PageAllocImpl::dealloc: give the frame back,
page_dealloc(h, f) ==
    /\ Idle(h) /\ tables[f] > 0
    /\ tables' = [tables EXCEPT ![f] = @ - 1]
    /\ bits' = Dealloc(f)
    /\ clearing' = [clearing EXCEPT ![h] = f]
    /\ failed' = 0
    /\ UNCHANGED <<trackers, dropping, written, halted>>

\* then clear the memory
page_clear(h) ==
    /\ ~halted /\ clearing[h] # NoFrame
    /\ written' = written \ {clearing[h]}
    /\ clearing' = [clearing EXCEPT ![h] = NoFrame]
    /\ failed' = 0
    /\ UNCHANGED <<bits, trackers, tables, dropping, halted>>

\* whoever has a frame writes to it
Write(h, f) ==
    /\ Idle(h) /\ trackers[f] + tables[f] > 0 /\ f \notin written
    /\ written' = written \cup {f}
    /\ failed' = 0
    /\ UNCHANGED <<bits, trackers, tables, dropping, clearing, halted>>

Next ==
    \E h \in Harts :
        \/ frame_alloc(h) \/ page_alloc(h) \/ drop_dealloc(h) \/ page_clear(h)
        \/ \E n \in 0 .. MaxRun : frame_alloc_much(h, n)
        \/ \E f \in Frames : drop_clear(h, f) \/ page_dealloc(h, f) \/ Write(h, f)

Spec == Init /\ [][Next]_vars

-----------------------------------------------------------------------------
(* Properties                                                              *)

\* Type correctness of the bitmaps and the owners of frames.
TypeOK ==
    /\ bits \in [Region -> SUBSET Nat]
    /\ trackers \in [Frames -> Nat] /\ tables \in [Frames -> Nat]
    /\ dropping \in [Harts -> Frames \cup {NoFrame}]
    /\ clearing \in [Harts -> Frames \cup {NoFrame}]
    /\ written \subseteq Frames
    /\ failed \in Nat
    /\ halted \in BOOLEAN

Dropping(f) == \E h \in Harts : dropping[h] = f
Clearing(f) == \E h \in Harts : clearing[h] = f
Owned(f) == trackers[f] + tables[f] > 0

\* No frame is handed out twice: it has one tracker or belongs to one page
\* table, and one that is being dropped, by one hart, has neither.
OneOwner ==
    \A f \in Frames :
        /\ trackers[f] + tables[f] <= 1
        /\ Dropping(f) => ~Owned(f)
        /\ \A g, h \in Harts : dropping[g] = f /\ dropping[h] = f => g = h

\* The bitmaps are exact: a bit is 1 for a frame that has an owner or is being
\* dropped and for the places beyond the end of the region, and for no other,
\* so that no frame is lost and none outside the region is given.
BitmapExact ==
    \A k \in Region :
        bits[k] = New(k) \cup {i \in 0 .. Total(k) - 1 : Owned(Lo(k) + i) \/ Dropping(Lo(k) + i)}

\* An allocation fails only when there is no room: every run of that many
\* frames of a region then has one in use.
FailsOnlyFull ==
    failed > 0 =>
        \A k \in Region : \A s \in 0 .. Total(k) - 1 :
            s + failed <= Total(k) =>
                \E x \in s .. s + failed - 1 : Owned(Lo(k) + x) \/ Dropping(Lo(k) + x)

\* What was written to a frame nobody has is cleared, or will be.
FreeIsCleared ==
    \A f \in Frames : f \in written => Owned(f) \/ Clearing(f)

\* On one hart, a frame that is handed out holds nothing its last owner wrote:
\* Drop and PageAllocImpl::dealloc have cleared it by then.
HandedOutCleared ==
    [][\A f \in Frames : ~Owned(f) /\ trackers'[f] + tables'[f] > 0 => f \notin written']_vars

\* On one hart, what the owner of a frame wrote stays until it gives it back.
OwnerKeepsContents ==
    [][\A f \in Frames :
          f \in written /\ Owned(f) /\ f \notin written'
          => trackers'[f] + tables'[f] < trackers[f] + tables[f]]_vars
=============================================================================
