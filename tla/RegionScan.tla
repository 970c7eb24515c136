----------------------------- MODULE RegionScan -----------------------------
(***************************************************************************)
(* FrameRegionMap::alloc_much (crates/runtime/src/frame.rs): the loop that *)
(* slides over the bitmap of a region for a run of free pages, one step    *)
(* per page.  FrameAlloc uses what it computes, Lowest(Starts(...)).       *)
(***************************************************************************)
EXTENDS Naturals, FiniteSets, FrameRuns

CONSTANTS total_pages,   \* the pages of the region
          MaxPages       \* the longest run that is asked for

ASSUME ScanAssumption == total_pages \in Nat /\ MaxPages \in Nat

VARIABLES
    entry,               \* the used pages when alloc_much is called
    pages,               \* how many are asked for
    used,                \* the used pages (bits)
    i, consecutive_start, consecutive_count,
    pc,                  \* "check", "scan" or "done"
    ans                  \* the first page of the run, or total_pages for None

scanVars == <<entry, pages, used, i, consecutive_start, consecutive_count, pc, ans>>

NoRun == total_pages

ScanInit ==
    /\ entry \in SUBSET (0 .. total_pages - 1)
    /\ pages \in 0 .. MaxPages
    /\ used = entry
    /\ i = 0 /\ consecutive_start = 0 /\ consecutive_count = 0
    /\ pc = "check"
    /\ ans = NoRun

free_page_count == Cardinality((0 .. total_pages - 1) \ used)

\* the two early returns
Check ==
    /\ pc = "check"
    /\ pc' = IF pages > total_pages \/ pages > free_page_count THEN "done" ELSE "scan"
    /\ UNCHANGED <<entry, pages, used, i, consecutive_start, consecutive_count, ans>>

\* A mutant: the page after a used one is skipped.
ScanUsedSkip ==
    /\ pc = "scan" /\ i < total_pages /\ i \in used
    /\ consecutive_start' = i + 1
    /\ consecutive_count' = 0
    /\ i' = i + 2
    /\ UNCHANGED <<entry, pages, used, pc, ans>>

\* page i is in use: start again after it
ScanUsed ==
    /\ pc = "scan" /\ i < total_pages /\ i \in used
    /\ consecutive_start' = i + 1
    /\ consecutive_count' = 0
    /\ i' = i + 1
    /\ UNCHANGED <<entry, pages, used, pc, ans>>

\* page i is free, and more are needed
ScanFree ==
    /\ pc = "scan" /\ i < total_pages /\ i \notin used
    /\ consecutive_count + 1 < pages
    /\ consecutive_count' = consecutive_count + 1
    /\ i' = i + 1
    /\ UNCHANGED <<entry, pages, used, consecutive_start, pc, ans>>

\* page i is free and completes the run
Found ==
    /\ pc = "scan" /\ i < total_pages /\ i \notin used
    /\ consecutive_count + 1 >= pages
    /\ used' = used \cup (consecutive_start .. consecutive_start + pages - 1)
    /\ ans' = consecutive_start
    /\ consecutive_count' = consecutive_count + 1
    /\ pc' = "done"
    /\ UNCHANGED <<entry, pages, i, consecutive_start>>

\* there is no run: None, after a diagnosis that is logged
Exhausted ==
    /\ pc = "scan" /\ i >= total_pages
    /\ pc' = "done"
    /\ UNCHANGED <<entry, pages, used, i, consecutive_start, consecutive_count, ans>>

ScanNext == Check \/ ScanUsed \/ ScanFree \/ Found \/ Exhausted

ScanSafety == ScanInit /\ [][ScanNext]_scanVars
ScanSpec == ScanSafety /\ WF_scanVars(ScanNext)

-----------------------------------------------------------------------------
(* Properties                                                              *)

Runs == Starts(entry, total_pages, pages)

\* alloc_much answers the lowest run of free pages and marks exactly its pages,
\* or answers None and marks nothing when there is no such run.
ScanExact ==
    pc = "done" =>
        IF Runs = {} THEN ans = NoRun /\ used = entry
        ELSE ans = Lowest(Runs) /\ used = entry \cup (ans .. ans + pages - 1)

\* The loop's invariant: the pages from consecutive_start up to i are free and
\* not enough, and no run starts before consecutive_start.
Window ==
    pc = "scan" =>
        /\ i <= total_pages
        /\ consecutive_start + consecutive_count = i
        /\ (consecutive_start .. i - 1) \cap used = {}
        /\ consecutive_count = 0 \/ consecutive_count < pages
        /\ \A s \in Runs : s >= consecutive_start

\* Type correctness; until it is done the search leaves the bitmap as it found it.
ScanTypeOK ==
    /\ entry \in SUBSET (0 .. total_pages - 1)
    /\ pages \in 0 .. MaxPages
    /\ i \in Nat /\ consecutive_start \in Nat /\ consecutive_count \in Nat
    /\ pc \in {"check", "scan", "done"}
    /\ ans \in 0 .. total_pages
    /\ pc \in {"check", "scan"} => used = entry /\ ans = NoRun
    /\ pc = "check" => i = 0 /\ consecutive_start = 0 /\ consecutive_count = 0

\* what the loop preserves
ScanInv == ScanTypeOK /\ Window /\ ScanExact

=============================================================================
