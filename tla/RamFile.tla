------------------------------- MODULE RamFile -------------------------------
(***************************************************************************)
(* A file of the RAM file system (filesystem/ramfs/src/lib.rs): a length   *)
(* and the frames pushed for it so far.  A file is a record                *)
(*   [len, np, data]                                                       *)
(* where np counts the frames and data maps every position in them to the  *)
(* byte it holds.  The two can disagree: a length without frames is what a *)
(* failed allocation leaves, and reading there is an index out of bounds.  *)
(***************************************************************************)
EXTENDS Integers

CONSTANT PageSize      \* the bytes of a frame

ASSUME PageAssumption == PageSize \in Nat \ {0}

\* The bytes of np frames.
Positions(np) == 0 .. np * PageSize - 1

\* A mutant: the last frame, when it is not full, is left out.
div_floor(n) == n \div PageSize

\* The frames n bytes need.
div_ceil(n) == (n + PageSize - 1) \div PageSize

Smaller(a, b) == IF a <= b THEN a ELSE b

EmptyFile == [len |-> 0, np |-> 0, data |-> [u \in Positions(0) |-> 0]]

\* The file with np frames in all; the allocator hands out cleared frames.
WithFrames(f, np) ==
    [f EXCEPT !.np = np,
              !.data = [u \in Positions(np) |-> IF u \in Positions(f.np) THEN f.data[u] ELSE 0]]

\* How many bytes readat copies, and whether it indexes past the frames.
read_len(f, off, n) == IF off >= f.len THEN 0 ELSE Smaller(n, f.len - off)

ReadPanics(f, off, n) ==
    read_len(f, off, n) > 0 /\ off + read_len(f, off, n) > f.np * PageSize

\* The bytes readat leaves in a cleared buffer of n bytes.
ReadInto(f, off, n) ==
    [i \in 1 .. n |-> IF i <= read_len(f, off, n) THEN f.data[off + i - 1] ELSE 0]

\* The frames writeat and truncate still want for a file of n bytes, and the
\* ones they get when free are left.
Wanted(f, n) == IF div_ceil(n) > f.np THEN div_ceil(n) - f.np ELSE 0

Granted(f, n, free) == Smaller(Wanted(f, n), free)

\* writeat gives up when the first frame it wants is not there.
WriteFails(f, off, n, free) == Wanted(f, off + n) > 0 /\ free = 0

\* The bytes that fit into the frames the file has after the allocation.
actual_write_size(f, off, n, free) ==
    LET space == (f.np + Granted(f, off + n, free)) * PageSize
    IN  IF off < space THEN Smaller(n, space - off) ELSE 0

\* writeat, of the n bytes of buf.  The length follows the position even when
\* nothing was written there.
writeat(f, off, buf, n, free) ==
    LET g == WithFrames(f, f.np + Granted(f, off + n, free))
        w == actual_write_size(f, off, n, free)
    IN  [g EXCEPT !.data = [u \in Positions(g.np) |->
                               IF off <= u /\ u < off + w THEN buf[u - off + 1] ELSE g.data[u]],
                  !.len = IF off + w > g.len THEN off + w ELSE g.len]

\* A mutant: the frames are kept as they are.
truncate_keeps_bytes(f, size, free) ==
    [WithFrames(f, f.np + Granted(f, size, free)) EXCEPT !.len = size]

\* truncate: the length is set first, every byte from size on is cleared, no
\* frame is given back, and the missing ones are pushed until one is refused.
truncate(f, size, free) ==
    LET c == [f EXCEPT !.data = [u \in Positions(f.np) |-> IF u < size THEN f.data[u] ELSE 0]]
    IN  [WithFrames(c, f.np + Granted(f, size, free)) EXCEPT !.len = size]

\* Every byte a file holds beyond its length is 0, so that a file which grows
\* again shows zeros and never what was there before.
TailZero(f) == \A u \in Positions(f.np) : u >= f.len => f.data[u] = 0

\* Every byte up to the length has a frame.
Backed(f) == f.len <= f.np * PageSize
=============================================================================
