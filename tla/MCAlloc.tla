------------------------------ MODULE MCAlloc -------------------------------
(***************************************************************************)
(* The kernel's three allocation searches side by side: the frame          *)
(* allocator, the scan of one region's bitmap and the heap's large pool.   *)
(* They share no state, so a behaviour exercises one of them, which Init   *)
(* chooses, while the others rest in their first state.                    *)
(***************************************************************************)
EXTENDS FrameAlloc, RegionScan, Heap

VARIABLE part

\* two regions of five pages and one, between bytes that fill no page
MemAreas == <<[start |-> 1, end |-> 13], [start |-> 14, end |-> 16]>>

AllocInit ==
    /\ part \in {"frames", "scan", "heap"}
    /\ Init /\ ScanInit /\ HeapInit
    /\ part # "scan" => entry = {} /\ pages = 0

AllocNext ==
    \/ part = "frames" /\ Next /\ UNCHANGED <<scanVars, heapVars, part>>
    \/ part = "scan" /\ ScanNext /\ UNCHANGED <<vars, heapVars, part>>
    \/ part = "heap" /\ HeapNext /\ UNCHANGED <<vars, scanVars, part>>

AllocSpec == AllocInit /\ [][AllocNext]_<<vars, scanVars, heapVars, part>>
=============================================================================
