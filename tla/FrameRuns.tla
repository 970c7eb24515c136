----------------------------- MODULE FrameRuns ------------------------------
(* Runs of free pages in a bitmap: what alloc_much (crates/runtime/src/    *)
(* frame.rs) looks for.  RegionScan shows that its loop finds it.          *)
EXTENDS Naturals

\* The first pages of the runs of n free pages among 0 .. total - 1.  A run of
\* no page still starts at a free one, as in the code.
Starts(used, total, n) ==
    {s \in 0 .. total - 1 : s + n <= total /\ ({s} \cup (s .. s + n - 1)) \cap used = {}}

Lowest(S) == CHOOSE x \in S : \A y \in S : x <= y
=============================================================================
