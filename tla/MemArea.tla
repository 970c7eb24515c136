------------------------------- MODULE MemArea -------------------------------
(***************************************************************************)
(* One area of a process's memory (kernel/src/tasks/memset.rs) and what    *)
(* taking the range s .. e - 1 out of it leaves behind.  Addresses are     *)
(* page numbers.  An area is a record                                      *)
(*   [mtype, start, len, offset, file, trk, base]                          *)
(* where file says whether it has a file behind it and trk is the set of   *)
(* its trackers [v, f]: the frame f holds the page v.  base is not in the  *)
(* code: it is the page where page 0 of the file was placed when the area  *)
(* was mapped, and no cut changes it.                                      *)
(***************************************************************************)
EXTENDS Integers

End(x) == x.start + x.len

Covers(x, a) == x.start <= a /\ a < End(x)

\* a \in s..e of Rust, with the end left out
Between(a, s, e) == s <= a /\ a < e

Overlapping(x, s, e) ==
    ~ \/ s <= x.start /\ e <= x.start
      \/ s >= End(x) /\ e >= End(x)

\* The first case of sub: both ends of the range lie in the area.
Splits(x, s, e) == Overlapping(x, s, e) /\ Covers(x, s) /\ Covers(x, e)

\* The second case: the range covers the area and the page after it.
Swallows(x, s, e) == Between(x.start, s, e) /\ Between(End(x), s, e)

\* What sub leaves of the area itself; one of length 0 is removed by sub_area.
\* A split drops the trackers of the part above the range and keeps the ones
\* inside it.
Kept(x, s, e) ==
    IF ~Overlapping(x, s, e) THEN x
    ELSE IF Splits(x, s, e)
    THEN [x EXCEPT !.len = s - x.start,
                   !.trk = {t \in x.trk : ~Between(t.v, e, End(x))}]
    ELSE IF Swallows(x, s, e) THEN [x EXCEPT !.len = 0, !.trk = {}]
    ELSE IF Covers(x, s)
    THEN [x EXCEPT !.len = s - x.start,
                   !.trk = {t \in x.trk : Between(t.v, x.start, s)}]
    ELSE [x EXCEPT !.start = e, !.len = End(x) - e,
                   !.trk = {t \in x.trk : Between(t.v, e, End(x))}]

\* The area sub returns for the upper part of a split.  Its trackers are taken
\* from the ones the split kept, which are the others.
Upper(x, s, e) ==
    [x EXCEPT !.start = e, !.len = End(x) - e, !.offset = e - x.start,
              !.trk = {t \in Kept(x, s, e).trk : Between(t.v, e, End(x))}]

\* A mutant: a page cut off at the end of an area stays in the page table.
UnmappedAtStart(x, s, e) ==
    IF Overlapping(x, s, e) /\ ~Covers(x, s)
    THEN {t.v : t \in x.trk \ Kept(x, s, e).trk}
    ELSE {}

\* The pages sub takes out of the page table.
Unmapped(x, s, e) ==
    IF Overlapping(x, s, e) /\ ~Splits(x, s, e)
    THEN {t.v : t \in x.trk \ Kept(x, s, e).trk}
    ELSE {}

\* write_page: the page of the file that v is written to.
PageOf(x, v) == v + x.offset - x.start

\* The page of the file that mmap placed at v.
Home(x, v) == v - x.base

\* The pages sub writes back, after it has moved start.
WrittenBack(x, s, e) ==
    IF Overlapping(x, s, e) /\ x.file
    THEN {[k |-> PageOf([x EXCEPT !.start = Kept(x, s, e).start], t.v), f |-> t.f]
             : t \in {u \in x.trk : Between(u.v, s, e)}}
    ELSE {}

\* A mutant: the first page is counted as 1.
DropWritesShifted(x, alone) ==
    IF x.mtype = "ShareFile"
    THEN {[k |-> t.v - x.start + 1, f |-> t.f] : t \in {u \in x.trk : u.f \in alone}}
    ELSE {}

\* Drop of MemArea: the pages of a shared file mapping that nobody else holds
\* are written back, at their distance from the start.  The length of the write
\* is what is left of the area, which is nothing just after its end and wraps
\* to a whole page further on.
DropWrites(x, alone) ==
    IF x.mtype = "ShareFile"
    THEN {[k |-> t.v - x.start, f |-> t.f]
             : t \in {u \in x.trk : u.f \in alone /\ u.v # End(x)}}
    ELSE {}
=============================================================================
