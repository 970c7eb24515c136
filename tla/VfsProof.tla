------------------------------ MODULE VfsProof ------------------------------
(***************************************************************************)
(* The RAM file system and the calls of the Vfs: what readat, writeat and  *)
(* truncate keep of one file, and what every call keeps of all files, for  *)
(* every page size, file, position and length, and however many nodes,     *)
(* descriptors and frames there are.                                       *)
(***************************************************************************)
EXTENDS Vfs, FiniteSetTheorems, TLAPS

-----------------------------------------------------------------------------
(* One file                                                                *)

\* A file as ramfs holds it; the frames hold bytes, and a cleared byte is one.
Byte == Nat
Contents == UNION {[Positions(k) -> Byte] : k \in Nat}
IsRamFile(f) ==
    /\ f \in [len : Nat, np : Nat, data : Contents]
    /\ f.data \in [Positions(f.np) -> Byte]

\* The records of a file after an update of its fields.
LEMMA RecordUpdate ==
    ASSUME NEW f \in [len : Nat, np : Nat, data : Contents], NEW l \in Nat, NEW n \in Nat,
           NEW d \in Contents
    PROVE  /\ LET g == [f EXCEPT !.np = n, !.data = d]
              IN  /\ g \in [len : Nat, np : Nat, data : Contents]
                  /\ g.len = f.len /\ g.np = n /\ g.data = d
           /\ LET g == [f EXCEPT !.data = d]
              IN  /\ g \in [len : Nat, np : Nat, data : Contents]
                  /\ g.len = f.len /\ g.np = f.np /\ g.data = d
           /\ LET g == [f EXCEPT !.data = d, !.len = l]
              IN  /\ g \in [len : Nat, np : Nat, data : Contents]
                  /\ g.len = l /\ g.np = f.np /\ g.data = d
           /\ LET g == [f EXCEPT !.len = l]
              IN  /\ g \in [len : Nat, np : Nat, data : Contents]
                  /\ g.len = l /\ g.np = f.np /\ g.data = f.data
  BY Zenon

\* n bytes in the frames that div_ceil counts.
LEMMA CeilCovers ==
    ASSUME NEW n \in Nat
    PROVE  div_ceil(n) \in Nat /\ n <= div_ceil(n) * PageSize
<1>1. PageSize \in Nat /\ PageSize > 0
  BY PageAssumption
<1>2. PICK q \in Int, r \in Int : n + PageSize - 1 = q * PageSize + r /\ 0 <= r /\ r < PageSize
                                  /\ q = (n + PageSize - 1) \div PageSize
  <2> DEFINE m == n + PageSize - 1
  <2>1. m \in Nat
    BY <1>1
  <2>2. m = (m \div PageSize) * PageSize + (m % PageSize) /\ m \div PageSize \in Int
        /\ m % PageSize \in 0 .. PageSize - 1
    BY <1>1, <2>1
  <2> QED BY <1>1, <2>2
<1>3. q * PageSize >= n
  BY <1>1, <1>2
<1>4. q \in Nat
  BY <1>1, <1>2, <1>3
<1> QED BY <1>2, <1>3, <1>4 DEF div_ceil

\* Frames only come: what a file gets is between nothing and what it wants.
LEMMA GrantedBounds ==
    ASSUME NEW f, IsRamFile(f), NEW n \in Nat, NEW free \in Nat
    PROVE  /\ Wanted(f, n) \in Nat /\ Granted(f, n, free) \in Nat
           /\ Wanted(f, n) <= free => Granted(f, n, free) = Wanted(f, n)
           /\ n <= (f.np + Wanted(f, n)) * PageSize
<1>1. PageSize \in Nat /\ PageSize > 0 /\ f.np \in Nat
  BY PageAssumption DEF IsRamFile
<1>2. div_ceil(n) \in Nat /\ n <= div_ceil(n) * PageSize
  BY CeilCovers
<1>3. Wanted(f, n) \in Nat /\ f.np + Wanted(f, n) >= div_ceil(n)
  BY <1>1, <1>2 DEF Wanted
<1>4. (f.np + Wanted(f, n)) * PageSize >= div_ceil(n) * PageSize
  BY <1>1, <1>2, <1>3
<1>5. n <= (f.np + Wanted(f, n)) * PageSize
  <2>1. (f.np + Wanted(f, n)) * PageSize \in Int /\ div_ceil(n) * PageSize \in Int
    BY <1>1, <1>2, <1>3
  <2> HIDE DEF Wanted
  <2> QED BY <1>2, <1>4, <2>1
<1>6. Granted(f, n, free) \in Nat /\ (Wanted(f, n) <= free => Granted(f, n, free) = Wanted(f, n))
  BY <1>3 DEF Granted, Smaller
<1> QED BY <1>3, <1>5, <1>6

\* The fields of a file with more frames: the old bytes stay, the new ones are 0.
LEMMA FramesFields ==
    ASSUME NEW f, IsRamFile(f), NEW k \in Nat
    PROVE  LET g == WithFrames(f, f.np + k)
           IN  /\ IsRamFile(g) /\ g.len = f.len /\ g.np = f.np + k
               /\ Positions(f.np) \subseteq Positions(g.np)
               /\ \A u \in Positions(g.np) :
                     g.data[u] = IF u \in Positions(f.np) THEN f.data[u] ELSE 0
<1> DEFINE g == WithFrames(f, f.np + k)
           d == [u \in Positions(f.np + k) |-> IF u \in Positions(f.np) THEN f.data[u] ELSE 0]
<1>1. f \in [len : Nat, np : Nat, data : Contents] /\ f.data \in [Positions(f.np) -> Byte]
      /\ f.len \in Nat /\ f.np \in Nat
  BY DEF IsRamFile
<1>2. d \in [Positions(f.np + k) -> Byte] /\ d \in Contents /\ f.np + k \in Nat
  <2>1. d \in [Positions(f.np + k) -> Byte]
    BY <1>1 DEF Byte
  <2> HIDE DEF d
  <2> QED BY <1>1, <2>1 DEF Contents
<1>3. g \in [len : Nat, np : Nat, data : Contents] /\ g.len = f.len /\ g.np = f.np + k /\ g.data = d
  <2>1. g = [f EXCEPT !.np = f.np + k, !.data = d]
    BY DEF WithFrames
  <2> HIDE DEF g, d
  <2> QED BY Zenon, <1>1, <1>2, <2>1, RecordUpdate
<1>4. IsRamFile(g)
  BY <1>2, <1>3 DEF IsRamFile
<1>5. Positions(f.np) \subseteq Positions(f.np + k)
  BY <1>1, PageAssumption DEF Positions
<1> QED BY <1>3, <1>4, <1>5

\* The bytes that go in: no more than asked for, and all of them when every
\* frame that was wanted was granted.
LEMMA WriteSize ==
    ASSUME NEW f, IsRamFile(f), NEW off \in Nat, NEW n \in Nat, NEW free \in Nat
    PROVE  LET w == actual_write_size(f, off, n, free)
               np == f.np + Granted(f, off + n, free)
           IN  /\ w \in 0 .. n
               /\ w > 0 => off + w <= np * PageSize
               /\ Wanted(f, off + n) <= free => w = n
<1> DEFINE space == (f.np + Granted(f, off + n, free)) * PageSize
<1>1. f.np \in Nat /\ PageSize \in Nat
  BY PageAssumption DEF IsRamFile
<1>2. Granted(f, off + n, free) \in Nat
      /\ (Wanted(f, off + n) <= free =>
             Granted(f, off + n, free) = Wanted(f, off + n) /\ off + n <= space)
  <2>1. off + n \in Nat
    OBVIOUS
  <2> QED BY Zenon, <2>1, GrantedBounds
<1>3. space \in Nat
  BY <1>1, <1>2
<1>4. actual_write_size(f, off, n, free) = IF off < space THEN Smaller(n, space - off) ELSE 0
  BY DEF actual_write_size
<1> HIDE DEF space
<1>5. /\ actual_write_size(f, off, n, free) \in 0 .. n
      /\ actual_write_size(f, off, n, free) > 0
            => off + actual_write_size(f, off, n, free) <= space
      /\ Wanted(f, off + n) <= free => actual_write_size(f, off, n, free) = n
  BY <1>2, <1>3, <1>4 DEF Smaller
<1> QED BY <1>5 DEF space

\* h is f with k more frames and w bytes of buf at off.
WrittenTo(h, f, off, buf, w, k) ==
    /\ IsRamFile(h)
    /\ h.np = f.np + k
    /\ h.len = IF off + w > f.len THEN off + w ELSE f.len
    /\ \A u \in Positions(h.np) :
          h.data[u] = IF off <= u /\ u < off + w THEN buf[u - off + 1]
                      ELSE IF u \in Positions(f.np) THEN f.data[u] ELSE 0

\* h is f cut or extended to size, with k more frames.
CutTo(h, f, size, k) ==
    /\ IsRamFile(h)
    /\ h.np = f.np + k /\ h.len = size
    /\ \A u \in Positions(h.np) :
          h.data[u] = IF u \in Positions(f.np) /\ u < size THEN f.data[u] ELSE 0

\* What writeat makes of a file.
LEMMA WriteFields ==
    ASSUME NEW f, IsRamFile(f), NEW off \in Nat, NEW n \in Nat, NEW free \in Nat,
           NEW buf \in [1 .. n -> Byte]
    PROVE  WrittenTo(writeat(f, off, buf, n, free), f, off, buf,
                     actual_write_size(f, off, n, free), Granted(f, off + n, free))
<1> DEFINE k == Granted(f, off + n, free)
           g == WithFrames(f, f.np + k)
           w == actual_write_size(f, off, n, free)
           d == [u \in Positions(g.np) |->
                    IF off <= u /\ u < off + w THEN buf[u - off + 1] ELSE g.data[u]]
           l == IF off + w > g.len THEN off + w ELSE g.len
           h == writeat(f, off, buf, n, free)
<1>1. k \in Nat
  <2>1. off + n \in Nat
    OBVIOUS
  <2> QED BY Zenon, <2>1, GrantedBounds
<1>2. /\ IsRamFile(g) /\ g.len = f.len /\ g.np = f.np + k
      /\ \A u \in Positions(g.np) : g.data[u] = IF u \in Positions(f.np) THEN f.data[u] ELSE 0
  <2> HIDE DEF k
  <2> QED BY ZenonT(30), <1>1, FramesFields
<1>3. w \in 0 .. n
  BY Zenon, WriteSize
<1>4. h = [g EXCEPT !.data = d, !.len = l]
  BY DEF writeat
<1> HIDE DEF k, g, w, h
<1>5. g \in [len : Nat, np : Nat, data : Contents] /\ g.data \in [Positions(g.np) -> Byte]
      /\ g.np \in Nat /\ g.len \in Nat
  BY <1>2 DEF IsRamFile
<1>6. d \in [Positions(g.np) -> Byte] /\ d \in Contents
  <2>1. ASSUME NEW u \in Positions(g.np), off <= u, u < off + w
        PROVE  buf[u - off + 1] \in Byte
    BY <1>3, <1>5, <2>1, PageAssumption DEF Positions
  <2>2. d \in [Positions(g.np) -> Byte]
    BY <1>5, <2>1
  <2> HIDE DEF d
  <2> QED BY <1>5, <2>2 DEF Contents
<1>7. l \in Nat
  BY <1>3, <1>5
<1>8. h \in [len : Nat, np : Nat, data : Contents] /\ h.len = l /\ h.np = g.np /\ h.data = d
  <2> HIDE DEF d, l
  <2> QED BY Zenon, <1>4, <1>5, <1>6, <1>7, RecordUpdate
<1>9. IsRamFile(h)
  BY <1>6, <1>8 DEF IsRamFile
<1>10. \A u \in Positions(h.np) :
          h.data[u] = IF off <= u /\ u < off + w THEN buf[u - off + 1]
                      ELSE IF u \in Positions(f.np) THEN f.data[u] ELSE 0
  BY <1>2, <1>8
<1>11. WrittenTo(h, f, off, buf, w, k)
  BY <1>2, <1>8, <1>9, <1>10 DEF WrittenTo
<1> QED BY <1>11 DEF h, w, k

\* What truncate makes of a file.
LEMMA TruncateFields ==
    ASSUME NEW f, IsRamFile(f), NEW size \in Nat, NEW free \in Nat
    PROVE  CutTo(truncate(f, size, free), f, size, Granted(f, size, free))
<1> DEFINE k == Granted(f, size, free)
           d == [u \in Positions(f.np) |-> IF u < size THEN f.data[u] ELSE 0]
           c == [f EXCEPT !.data = d]
           g == WithFrames(c, f.np + k)
           h == truncate(f, size, free)
<1>1. k \in Nat
  BY GrantedBounds
<1>2. f \in [len : Nat, np : Nat, data : Contents] /\ f.data \in [Positions(f.np) -> Byte]
      /\ f.np \in Nat /\ f.len \in Nat
  BY DEF IsRamFile
<1>3. d \in [Positions(f.np) -> Byte] /\ d \in Contents
  <2>1. d \in [Positions(f.np) -> Byte]
    BY <1>2 DEF Byte
  <2> HIDE DEF d
  <2> QED BY <1>2, <2>1 DEF Contents
<1>4. c \in [len : Nat, np : Nat, data : Contents] /\ c.len = f.len /\ c.np = f.np /\ c.data = d
  <2> HIDE DEF d
  <2> QED BY Zenon, <1>2, <1>3, RecordUpdate
<1>5. h = [g EXCEPT !.len = size]
  BY DEF truncate
<1> HIDE DEF k, c
<1>6. IsRamFile(c)
  BY <1>3, <1>4 DEF IsRamFile
<1>7. /\ IsRamFile(g) /\ g.np = f.np + k
      /\ \A u \in Positions(g.np) : g.data[u] = IF u \in Positions(f.np) THEN d[u] ELSE 0
  <2>1. g = WithFrames(c, c.np + k)
    BY <1>4
  <2> DEFINE x == WithFrames(c, c.np + k)
  <2>2. /\ IsRamFile(x) /\ x.np = c.np + k
        /\ \A u \in Positions(x.np) : x.data[u] = IF u \in Positions(c.np) THEN c.data[u] ELSE 0
    BY <1>1, <1>6, FramesFields
  <2> HIDE DEF d, g, x
  <2>3. g = x
    BY <2>1 DEF x
  <2> QED BY <1>4, <2>2, <2>3
<1> HIDE DEF g, h
<1>8. h \in [len : Nat, np : Nat, data : Contents] /\ h.len = size /\ h.np = g.np /\ h.data = g.data
  <2>1. g \in [len : Nat, np : Nat, data : Contents] /\ g.data \in Contents /\ g.np \in Nat
    BY <1>7 DEF IsRamFile
  <2> QED BY Zenon, <1>5, <2>1, RecordUpdate
<1>9. IsRamFile(h)
  BY <1>7, <1>8 DEF IsRamFile
<1>10. \A u \in Positions(h.np) :
          h.data[u] = IF u \in Positions(f.np) /\ u < size THEN f.data[u] ELSE 0
  BY <1>7, <1>8
<1>11. CutTo(h, f, size, k)
  BY <1>7, <1>8, <1>9, <1>10 DEF CutTo
<1> QED BY <1>11 DEF h, k

\* RamFile::writeat and RamFile::truncate never leave bytes of old contents
\* behind the length: a file that has zeros there still has after a write at any
\* position, partial or not, and after being cut or extended.
THEOREM TailStaysZero ==
    ASSUME NEW f, IsRamFile(f), TailZero(f), NEW off \in Nat, NEW n \in Nat, NEW free \in Nat,
           NEW buf \in [1 .. n -> Byte]
    PROVE  TailZero(writeat(f, off, buf, n, free)) /\ TailZero(truncate(f, n, free))
<1> DEFINE h == writeat(f, off, buf, n, free)
           w == actual_write_size(f, off, n, free)
           c == truncate(f, n, free)
<1>1. f.np \in Nat /\ f.len \in Nat /\ w \in Nat
  <2>1. w \in 0 .. n
    BY Zenon, WriteSize
  <2> QED BY <2>1 DEF IsRamFile
<1>2. TailZero(h)
  <2>1. WrittenTo(h, f, off, buf, w, Granted(f, off + n, free))
    BY WriteFields
  <2> HIDE DEF h, w
  <2>2. ASSUME NEW u \in Positions(h.np), u >= h.len PROVE h.data[u] = 0
    <3>1. u \in Int
      BY <2>1, PageAssumption DEF Positions, IsRamFile, WrittenTo, CutTo
    <3>2. ~(off <= u /\ u < off + w) /\ u >= f.len
      BY <1>1, <2>1, <2>2, <3>1 DEF WrittenTo
    <3>3. u \in Positions(f.np) => f.data[u] = 0
      BY <3>2 DEF TailZero
    <3> QED BY <2>1, <3>2, <3>3 DEF WrittenTo
  <2> QED BY <2>2 DEF TailZero
<1>3. TailZero(c)
  <2>1. CutTo(c, f, n, Granted(f, n, free))
    BY TruncateFields
  <2> HIDE DEF c
  <2>2. ASSUME NEW u \in Positions(c.np), u >= c.len PROVE c.data[u] = 0
    <3>1. u \in Int
      BY <2>1, PageAssumption DEF Positions, IsRamFile, WrittenTo, CutTo
    <3> QED BY <2>1, <2>2, <3>1 DEF CutTo
  <2> QED BY <2>2 DEF TailZero
<1> QED BY <1>2, <1>3

\* Unless the allocator refuses a frame, every byte up to the length has one
\* after RamFile::writeat and RamFile::truncate.
THEOREM StaysBacked ==
    ASSUME NEW f, IsRamFile(f), Backed(f), NEW off \in Nat, NEW n \in Nat, NEW free \in Nat,
           NEW buf \in [1 .. n -> Byte]
    PROVE  /\ Wanted(f, off + n) <= free => Backed(writeat(f, off, buf, n, free))
           /\ Wanted(f, n) <= free => Backed(truncate(f, n, free))
<1>1. f.np \in Nat /\ f.len \in Nat /\ f.len <= f.np * PageSize /\ PageSize \in Nat
  BY PageAssumption DEF IsRamFile, Backed
<1>2. ASSUME NEW m \in Nat, Wanted(f, m) <= free
      PROVE  /\ m <= (f.np + Granted(f, m, free)) * PageSize
             /\ f.len <= (f.np + Granted(f, m, free)) * PageSize
  <2>1. Granted(f, m, free) = Wanted(f, m) /\ Wanted(f, m) \in Nat
        /\ m <= (f.np + Wanted(f, m)) * PageSize
    BY <1>2, GrantedBounds
  <2>2. f.np * PageSize <= (f.np + Wanted(f, m)) * PageSize
    BY <1>1, <2>1
  <2>3. PICK have \in Int, all \in Int :
          have = f.np * PageSize /\ all = (f.np + Wanted(f, m)) * PageSize
    BY <1>1, <2>1
  <2>4. f.len <= all
    <3>1. f.len <= have /\ have <= all /\ f.len \in Int
      BY <1>1, <2>2, <2>3
    <3> QED BY <3>1
  <2> QED BY Zenon, <2>1, <2>3, <2>4
<1>3. ASSUME Wanted(f, off + n) <= free PROVE Backed(writeat(f, off, buf, n, free))
  <2>1. off + n \in Nat
    OBVIOUS
  <2>2. actual_write_size(f, off, n, free) = n
    BY <1>3, WriteSize
  <2> DEFINE w == actual_write_size(f, off, n, free)
  <2>3. WrittenTo(writeat(f, off, buf, n, free), f, off, buf, w, Granted(f, off + n, free))
    BY WriteFields
  <2> QED BY <1>2, <1>3, <2>1, <2>2, <2>3 DEF Backed, WrittenTo
<1>4. ASSUME Wanted(f, n) <= free PROVE Backed(truncate(f, n, free))
  <2>1. CutTo(truncate(f, n, free), f, n, Granted(f, n, free))
    BY TruncateFields
  <2> QED BY <1>2, <1>4, <2>1 DEF Backed, CutTo
<1> QED BY <1>3, <1>4

\* RamFile::readat of a file whose length has frames never indexes past them.
THEOREM ReadInBounds ==
    ASSUME NEW f, IsRamFile(f), Backed(f), NEW off \in Nat, NEW n \in Nat
    PROVE  ~ReadPanics(f, off, n)
<1>1. f.np * PageSize \in Int /\ f.len \in Nat /\ f.len <= f.np * PageSize
  BY PageAssumption DEF IsRamFile, Backed
<1> DEFINE space == f.np * PageSize
<1>2. read_len(f, off, n) > 0 => off + read_len(f, off, n) <= f.len
  BY <1>1 DEF read_len, Smaller
<1>3. read_len(f, off, n) \in Nat
  BY <1>1 DEF read_len, Smaller
<1>4. space \in Int /\ f.len <= space
  BY <1>1
<1> HIDE DEF space
<1>5. ~(read_len(f, off, n) > 0 /\ off + read_len(f, off, n) > space)
  BY <1>1, <1>2, <1>3, <1>4
<1> QED BY <1>5 DEF ReadPanics, space

\* What RamFile::writeat put into a file is what RamFile::readat gives back: a
\* write that got its frames is read at the same position byte for byte.
THEOREM ReadBack ==
    ASSUME NEW f, IsRamFile(f), NEW off \in Nat, NEW n \in Nat, NEW free \in Nat,
           NEW buf \in [1 .. n -> Byte], Wanted(f, off + n) <= free
    PROVE  ReadInto(writeat(f, off, buf, n, free), off, n) = buf
<1> DEFINE h == writeat(f, off, buf, n, free)
<1>1. f.np \in Nat /\ f.len \in Nat /\ PageSize \in Nat
  BY PageAssumption DEF IsRamFile
<1>2. actual_write_size(f, off, n, free) = n
  BY WriteSize
<1>3. /\ h.np = f.np + Granted(f, off + n, free)
      /\ h.len = IF off + n > f.len THEN off + n ELSE f.len
      /\ \A u \in Positions(h.np) : (off <= u /\ u < off + n) => h.data[u] = buf[u - off + 1]
  <2> DEFINE w == actual_write_size(f, off, n, free)
  <2>1. WrittenTo(h, f, off, buf, w, Granted(f, off + n, free))
    BY WriteFields
  <2> HIDE DEF h
  <2> QED BY <1>2, <2>1 DEF WrittenTo
<1>4. off + n <= h.np * PageSize /\ h.np * PageSize \in Int
  <2>1. off + n \in Nat
    OBVIOUS
  <2>2. Granted(f, off + n, free) = Wanted(f, off + n) /\ Wanted(f, off + n) \in Nat
        /\ off + n <= (f.np + Wanted(f, off + n)) * PageSize
    BY Zenon, <2>1, GrantedBounds
  <2> HIDE DEF h
  <2> QED BY <1>1, <1>3, <2>2
<1> HIDE DEF h
<1>5. read_len(h, off, n) = n
  BY <1>1, <1>3 DEF read_len, Smaller
<1>6. ASSUME NEW i \in 1 .. n PROVE h.data[off + i - 1] = buf[i]
  <2>1. off + i - 1 \in Positions(h.np) /\ off <= off + i - 1 /\ off + i - 1 < off + n
        /\ (off + i - 1) - off + 1 = i
    BY <1>4 DEF Positions
  <2> QED BY <1>3, <2>1
<1>7. ReadInto(h, off, n) = [i \in 1 .. n |-> buf[i]]
  BY <1>5, <1>6 DEF ReadInto
<1> QED BY <1>7 DEF h

-----------------------------------------------------------------------------
(* All files                                                               *)

\* A file without old bytes behind its length.
FileOK(f) == IsRamFile(f) /\ TailZero(f)

\* A node of the tree: free, a device, a directory with its entries, or a file.
NodeOK(r) ==
    \/ r = Gone \/ r = [k |-> "dev"]
    \/ r.k \in {"dir", "devdir"} /\ r = [k |-> r.k, ch |-> r.ch]
    \/ r.k = "file" /\ r = Regular(r.f) /\ FileOK(r.f)

\* The tree: every node is one of these, and the files hold no more frames than
\* there are.
NodesOK(ns) ==
    /\ ns = [n \in NodeIds |-> ns[n]]
    /\ \A n \in NodeIds : NodeOK(ns[n])
    /\ Cardinality(Frames(ns)) <= NFrames

\* An entry of the descriptor table.
OpenOK(h) ==
    \/ h = None
    \/ /\ h = [node |-> h.node, path |-> h.path, off |-> h.off, flags |-> h.flags,
               listed |-> h.listed, clean |-> h.clean]
       /\ h.off \in Nat

TableOK(op) == op = [d \in Fds |-> op[d]] /\ \A d \in Fds : OpenOK(op[d])

\* Every file has the pages that its length says it has.
AllBacked(ns) == \A n \in NodeIds : IsFile(ns, n) => Backed(ns[n].f)

\* The inductive invariant.  That no bytes are left behind the end of a file is
\* kept only together with what writeat relies on: the frames the files hold
\* are at most all frames, so that those it is granted were free and are zero.
\* That the length is backed is given up when a write runs out of frames (oom).
IInv ==
    /\ NodesOK(nodes)
    /\ TableOK(open)
    /\ oom \in BOOLEAN /\ (oom \/ AllBacked(nodes))

\* A file node holds a file as readat and writeat expect it.
LEMMA NodeKinds ==
    ASSUME NEW r, NodeOK(r)
    PROVE  /\ r.k \in {"gone", "dev", "dir", "devdir", "file"}
           /\ r.k = "gone" => r = Gone
           /\ r.k = "file" => r = Regular(r.f) /\ FileOK(r.f)
  BY DEF NodeOK, Gone, Regular

\* A new list of entries leaves a node what it is; only a directory has one.
LEMMA ChKept ==
    ASSUME NEW r, NodeOK(r), NEW x
    PROVE  /\ NodeOK([r EXCEPT !.ch = x])
           /\ [r EXCEPT !.ch = x].k = r.k
           /\ r.k = "file" => [r EXCEPT !.ch = x] = r
<1>1. CASE r.k \in {"dir", "devdir"}
  <2>1. r = [k |-> r.k, ch |-> r.ch]
    BY <1>1 DEF NodeOK, Gone, Regular
  <2>2. [r EXCEPT !.ch = x] = [k |-> r.k, ch |-> x]
    BY <2>1
  <2> QED BY <1>1, <2>2 DEF NodeOK
<1>2. CASE r.k \notin {"dir", "devdir"}
  <2>1. [r EXCEPT !.ch = x] = r
    BY <1>2 DEF NodeOK, Gone, Regular
  <2> QED BY <1>2, <2>1
<1> QED BY <1>1, <1>2

\* A regular node with another file.
LEMMA FileSet ==
    ASSUME NEW r, r = Regular(r.f), NEW g
    PROVE  [r EXCEPT !.f = g] = Regular(g)
  BY DEF Regular

\* What the calls change in an open file: the position, and what was listed.
LEMMA ListedSet ==
    ASSUME NEW h, OpenOK(h), NEW x
    PROVE  OpenOK([h EXCEPT !.clean = x]) /\ OpenOK([h EXCEPT !.listed = x])
  BY DEF OpenOK, None

\* An open file stays one when its offset moves.
LEMMA OpenSet ==
    ASSUME NEW h, OpenOK(h), h # None, NEW x \in Nat, NEW c, NEW l
    PROVE  /\ OpenOK([h EXCEPT !.off = x]) /\ [h EXCEPT !.off = x].off = x
           /\ OpenOK([h EXCEPT !.off = x, !.clean = c])
           /\ OpenOK([h EXCEPT !.off = x, !.listed = l, !.clean = c])
<1>1. h = [node |-> h.node, path |-> h.path, off |-> h.off, flags |-> h.flags,
           listed |-> h.listed, clean |-> h.clean]
  BY DEF OpenOK
<1>2. OpenOK([h EXCEPT !.off = x]) /\ [h EXCEPT !.off = x].off = x
  BY <1>1 DEF OpenOK
<1>3. /\ [h EXCEPT !.off = x, !.clean = c] = [[h EXCEPT !.off = x] EXCEPT !.clean = c]
      /\ [h EXCEPT !.off = x, !.listed = l, !.clean = c]
           = [[[h EXCEPT !.off = x] EXCEPT !.listed = l] EXCEPT !.clean = c]
  OBVIOUS
<1> QED BY Zenon, <1>2, <1>3, ListedSet

\* The frames of all files are finitely many.
LEMMA FramesFinite ==
    ASSUME NEW ns
    PROVE  IsFiniteSet(Frames(ns)) /\ Cardinality(Frames(ns)) \in Nat
<1>1. IsFiniteSet(1 .. NFrames)
  BY VfsAssumption, FS_Interval
<1>2. IsFiniteSet(NodeIds \X (1 .. NFrames))
  BY <1>1, VfsAssumption, FS_Product
<1> QED BY <1>2, FS_Subset, FS_CardinalityType DEF Frames

\* A tree whose files hold fewer frames stays within the frames there are.
LEMMA FewerFrames ==
    ASSUME NEW ns, NEW ms, Frames(ms) \subseteq Frames(ns), Cardinality(Frames(ns)) <= NFrames
    PROVE  Cardinality(Frames(ms)) <= NFrames
<1>1. Cardinality(Frames(ms)) <= Cardinality(Frames(ns))
  BY FramesFinite, FS_Subset
<1> QED BY <1>1, FramesFinite, VfsAssumption

\* The file create makes.
LEMMA EmptyFileOK == FileOK(EmptyFile) /\ Backed(EmptyFile) /\ EmptyFile.np = 0
<1> DEFINE d == [u \in Positions(0) |-> 0]
<1>1. Positions(0) = {} /\ 0 * PageSize = 0
  BY PageAssumption DEF Positions
<1>2. d \in [Positions(0) -> Byte]
  BY DEF Byte
<1>3. d \in Contents
  BY <1>2 DEF Contents
<1>4. EmptyFile = [len |-> 0, np |-> 0, data |-> d]
  BY DEF EmptyFile
<1> HIDE DEF d
<1>5. IsRamFile(EmptyFile)
  BY <1>2, <1>3, <1>4 DEF IsRamFile
<1>6. EmptyFile.np = 0 /\ EmptyFile.len = 0
  BY <1>4
<1> QED BY <1>1, <1>5, <1>6 DEF FileOK, TailZero, Backed

\* No file of ms has changed since ns, except that some are gone and some are
\* new and empty.
Shrinks(ms, ns) ==
    /\ ms = [n \in NodeIds |-> ms[n]]
    /\ \A n \in NodeIds : NodeOK(ms[n])
    /\ \A n \in NodeIds : IsFile(ms, n) => ms[n] = ns[n] \/ ms[n] = Regular(EmptyFile)

\* Such a change keeps the tree right.
LEMMA ShrinksOK ==
    ASSUME NEW ns, NEW ms, NodesOK(ns), Shrinks(ms, ns)
    PROVE  NodesOK(ms) /\ (AllBacked(ns) => AllBacked(ms))
<1>1. DOMAIN ns = NodeIds /\ DOMAIN ms = NodeIds
  BY DEF NodesOK, Shrinks
<1>2. Regular(EmptyFile).f = EmptyFile
  BY DEF Regular
<1>3. Frames(ms) \subseteq Frames(ns)
  <2>1. ASSUME NEW n \in NodeIds, NEW i \in 1 .. NFrames, IsFile(ms, n), i <= ms[n].f.np
        PROVE  IsFile(ns, n) /\ i <= ns[n].f.np
    <3>1. ms[n] # Regular(EmptyFile)
      BY <1>2, <2>1, EmptyFileOK, VfsAssumption
    <3> QED BY <1>1, <2>1, <3>1 DEF Shrinks, IsFile
  <2> QED BY <2>1 DEF Frames
<1>4. NodesOK(ms)
  BY <1>3, FewerFrames DEF Shrinks, NodesOK
<1>5. ASSUME AllBacked(ns) PROVE AllBacked(ms)
  BY <1>1, <1>2, <1>5, EmptyFileOK DEF AllBacked, Shrinks, IsFile
<1> QED BY <1>4, <1>5

\* The node create takes is a free one.
LEMMA NewIdGone ==
    ASSUME \E n \in NodeIds : nodes[n] = Gone
    PROVE  NewId \in NodeIds /\ nodes[NewId] = Gone
<1> DEFINE S == {n \in NodeIds : nodes[n] = Gone}
<1>1. S \subseteq Nat /\ S # {}
  BY Zenon, VfsAssumption
<1> HIDE DEF S
<1>2. PICK m \in S : \A y \in S : ~(<<y, m>> \in OpToRel(<, Nat))
  BY Zenon, <1>1, WFMin, NatLessThanWellFounded
<1>3. \A y \in S : m <= y
  <2>1. \A y \in S : ~(y < m)
    BY Zenon, <1>1, <1>2 DEF OpToRel
  <2> QED BY <1>1, <2>1
<1>4. m \in NodeIds /\ nodes[m] = Gone /\ \A y \in NodeIds : nodes[y] = Gone => m <= y
  BY <1>3 DEF S
<1> QED BY <1>4 DEF NewId

\* create makes one free node a file or a directory.
LEMMA CreateOK ==
    ASSUME NodesOK(nodes), \E n \in NodeIds : nodes[n] = Gone, NEW d, NEW name, NEW b
    PROVE  Shrinks(create(nodes, d, name, b), nodes)
<1> DEFINE what == IF b THEN Dir(<<>>) ELSE Regular(EmptyFile)
           ms == create(nodes, d, name, b)
           x == Append(nodes[d].ch, Child(name, NewId))
<1>1. NewId \in NodeIds
  BY NewIdGone
<1>2. nodes = [n \in NodeIds |-> nodes[n]] /\ \A n \in NodeIds : NodeOK(nodes[n])
  BY DEF NodesOK
<1>3. ms = [nodes EXCEPT ![d].ch = x, ![NewId] = what]
  BY DEF create, Push
<1>4. NodeOK(what) /\ (what.k = "file" => what = Regular(EmptyFile))
  <2>1. NodeOK(Dir(<<>>)) /\ Dir(<<>>).k # "file"
    BY DEF Dir, NodeOK
  <2>2. NodeOK(Regular(EmptyFile))
    BY EmptyFileOK DEF Regular, NodeOK
  <2> QED BY <2>1, <2>2
<1> HIDE DEF what, x, ms
<1>5. ms = [n \in NodeIds |-> IF n = NewId THEN what ELSE IF n = d THEN [nodes[n] EXCEPT !.ch = x] ELSE nodes[n]]
  BY Zenon, <1>1, <1>2, <1>3
<1>6. ASSUME NEW n \in NodeIds
      PROVE  NodeOK(ms[n]) /\ (ms[n].k = "file" => ms[n] = nodes[n] \/ ms[n] = Regular(EmptyFile))
  <2>1. CASE n = NewId
    BY <1>4, <1>5, <2>1
  <2>2. CASE n # NewId /\ n = d
    <3>1. ms[n] = [nodes[n] EXCEPT !.ch = x]
      BY <1>5, <2>2
    <3> QED BY <1>2, <3>1, ChKept
  <2>3. CASE n # NewId /\ n # d
    BY <1>2, <1>5, <2>3
  <2> QED BY <2>1, <2>2, <2>3
<1>7. ms = [n \in NodeIds |-> ms[n]]
  BY <1>5
<1>8. Shrinks(ms, nodes)
  BY <1>6, <1>7 DEF Shrinks, IsFile
<1> QED BY <1>8 DEF ms

\* File::open creates at most one empty file or directory.
LEMMA OpenShrinks ==
    ASSUME NodesOK(nodes), NEW path, NEW flags, Room(flags)
    PROVE  Shrinks(Open(path, flags).ns, nodes)
<1>1. Shrinks(nodes, nodes)
  BY DEF NodesOK, Shrinks
<1>2. \/ Open(path, flags).ns = nodes
      \/ "creat" \in flags /\ \E d, name, b : Open(path, flags).ns = create(nodes, d, name, b)
  BY Zenon DEF Open, Answer
<1>3. CASE "creat" \in flags /\ \E d, name, b : Open(path, flags).ns = create(nodes, d, name, b)
  <2>1. \E n \in NodeIds : nodes[n] = Gone
    BY <1>3 DEF Room
  <2> QED BY <1>3, <2>1, CreateOK
<1> QED BY <1>1, <1>2, <1>3

\* The node that create takes is a number.
LEMMA FreeNat ==
    ASSUME NEW ns, NodesOK(ns)
    PROVE  Free(ns) \in Nat
  BY FramesFinite, VfsAssumption DEF NodesOK, Free

\* A file that grows by frames which were free.
LEMMA FileGrows ==
    ASSUME NEW ns, NodesOK(ns), NEW id \in NodeIds, IsFile(ns, id), NEW h, FileOK(h),
           NEW k \in Nat, h.np = ns[id].f.np + k, k <= Free(ns)
    PROVE  LET ms == [ns EXCEPT ![id].f = h]
           IN  NodesOK(ms) /\ (AllBacked(ns) /\ Backed(h) => AllBacked(ms))
<1> DEFINE ms == [ns EXCEPT ![id].f = h]
           np == ns[id].f.np
           new == (np + 1) .. (np + k)
<1>1. ns = [n \in NodeIds |-> ns[n]] /\ \A n \in NodeIds : NodeOK(ns[n])
  BY DEF NodesOK
<1>2. ns[id] = Regular(ns[id].f) /\ FileOK(ns[id].f)
  BY <1>1, NodeKinds DEF IsFile
<1>3. [ns[id] EXCEPT !.f = h] = Regular(h)
  BY <1>2, FileSet
<1>4. ms = [n \in NodeIds |-> IF n = id THEN Regular(h) ELSE ns[n]]
  BY <1>1, <1>3
<1>5. np \in Nat
  BY <1>2 DEF FileOK, IsRamFile
<1> HIDE DEF ms, np
<1>6. NodeOK(Regular(h)) /\ Regular(h).f = h
  BY DEF NodeOK, Regular
<1>7. Frames(ms) \subseteq Frames(ns) \cup ({id} \X new)
  <2>1. ASSUME NEW n \in NodeIds, NEW i \in 1 .. NFrames, IsFile(ms, n), i <= ms[n].f.np
        PROVE  (IsFile(ns, n) /\ i <= ns[n].f.np) \/ (n = id /\ i \in new)
    <3>1. CASE n = id
      BY <1>4, <1>5, <1>6, <2>1, <3>1, VfsAssumption DEF np
    <3>2. CASE n # id
      BY <1>1, <1>4, <2>1, <3>2 DEF IsFile
    <3> QED BY <3>1, <3>2
  <2> QED BY <2>1 DEF Frames
<1>8. IsFiniteSet({id} \X new) /\ Cardinality({id} \X new) = k
  <2>1. IsFiniteSet(new) /\ Cardinality(new) = k
    BY <1>5, FS_Interval
  <2>2. IsFiniteSet({id}) /\ Cardinality({id}) = 1
    BY Zenon, FS_Singleton
  <2> HIDE DEF new
  <2> QED BY <2>1, <2>2, FS_Product
<1> HIDE DEF new
<1>9. Cardinality(Frames(ms)) <= NFrames
  <2> DEFINE A == Frames(ns)
             B == {id} \X new
  <2>1. IsFiniteSet(A) /\ Cardinality(A) \in Nat /\ Cardinality(Frames(ms)) \in Nat
    BY FramesFinite
  <2>2. IsFiniteSet(A \cup B) /\ Cardinality(A \cup B) = Cardinality(A) + Cardinality(B) - Cardinality(A \cap B)
    BY <1>8, <2>1, FS_Union
  <2>3. Cardinality(A \cap B) \in Nat
    BY Zenon, <2>1, FS_Intersection, FS_CardinalityType
  <2>4. Cardinality(Frames(ms)) <= Cardinality(A \cup B)
    BY <1>7, <2>2, FS_Subset
  <2>5. Cardinality(A) + k <= NFrames
    BY <2>1, VfsAssumption DEF Free
  <2> HIDE DEF A, B
  <2> QED BY <1>8, <2>1, <2>2, <2>3, <2>4, <2>5, VfsAssumption DEF B
<1>10. \A n \in NodeIds : NodeOK(ms[n])
  BY <1>1, <1>4, <1>6
<1>11. ms = [n \in NodeIds |-> ms[n]]
  BY <1>4
<1>12. ASSUME AllBacked(ns), Backed(h) PROVE AllBacked(ms)
  BY <1>1, <1>4, <1>6, <1>12 DEF AllBacked, IsFile
<1>13. NodesOK(ms)
  BY <1>9, <1>10, <1>11 DEF NodesOK
<1> QED BY <1>12, <1>13 DEF ms

\* readat returns at most what it was asked for.
LEMMA ReadLen ==
    ASSUME NEW f, IsRamFile(f), NEW off \in Nat, NEW n \in Nat
    PROVE  /\ read_len(f, off, n) \in Nat
           /\ ~ReadPanics(f, off, n) => ReadInto(f, off, n) \in [1 .. n -> Byte]
<1> DEFINE m == read_len(f, off, n)
<1>1. f.len \in Nat /\ f.np \in Nat /\ f.data \in [Positions(f.np) -> Byte]
  BY DEF IsRamFile
<1>2. m \in 0 .. n
  BY <1>1 DEF read_len, Smaller
<1>3. f.np * PageSize \in Int
  BY <1>1, PageAssumption
<1>4. ASSUME ~ReadPanics(f, off, n), NEW i \in 1 .. n
      PROVE  (IF i <= m THEN f.data[off + i - 1] ELSE 0) \in Byte
  <2>1. i <= m => off + i - 1 \in Positions(f.np)
    BY <1>2, <1>3, <1>4 DEF ReadPanics, Positions
  <2> QED BY <1>1, <2>1 DEF Byte
<1> QED BY <1>2, <1>4 DEF ReadInto

\* A call that moves the position of a descriptor keeps the table right.
LEMMA MovedOK ==
    ASSUME NEW op, TableOK(op), NEW d \in Fds, op[d] # None, NEW n \in Nat
    PROVE  /\ TableOK(Moved(op, d, n))
           /\ \A e \in Fds : op[e] # None => Moved(op, d, n)[e] # None
<1> DEFINE h == [op[d] EXCEPT !.off = op[d].off + n]
<1>1. OpenOK(op[d]) /\ op[d].off + n \in Nat
  BY DEF TableOK, OpenOK
<1>2. OpenOK(h) /\ h # None
  <2>1. OpenOK(h)
    BY Zenon, <1>1, OpenSet
  <2>2. h = [node |-> op[d].node, path |-> op[d].path, off |-> op[d].off + n,
             flags |-> op[d].flags, listed |-> op[d].listed, clean |-> op[d].clean]
    BY <1>1 DEF OpenOK
  <2>3. h # None
    BY <2>2 DEF None
  <2> QED BY Z3T(30), <2>1, <2>3
<1>3. Moved(op, d, n) = [e \in Fds |-> IF e = d THEN h ELSE op[e]]
  BY DEF Moved, TableOK
<1> HIDE DEF h
<1> QED BY <1>2, <1>3 DEF TableOK

\* The file behind a descriptor, or at a path, is a right one.
LEMMA FileOfOK ==
    ASSUME IInv, NEW id, IsFile(nodes, id)
    PROVE  id \in NodeIds /\ nodes[id] = Regular(nodes[id].f) /\ FileOK(nodes[id].f)
<1>1. id \in NodeIds /\ NodeOK(nodes[id]) /\ nodes[id].k = "file"
  BY DEF IInv, NodesOK, IsFile
<1> QED BY <1>1, NodeKinds

\* What a write adds to the position.
LEMMA PutLen ==
    ASSUME IInv, NEW id, NEW off \in Nat, NEW n \in Nat
    PROVE  put_len(id, off, n) \in Nat
<1>1. CASE IsFile(nodes, id)
  <2>1. IsRamFile(nodes[id].f) /\ Free(nodes) \in Nat
    BY <1>1, FileOfOK, FreeNat DEF FileOK, IInv
  <2>2. actual_write_size(nodes[id].f, off, n, Free(nodes)) \in 0 .. n
    BY <2>1, WriteSize
  <2> QED BY <2>2 DEF put_len
<1>2. CASE ~IsFile(nodes, id)
  BY <1>2 DEF put_len
<1> QED BY <1>1, <1>2

\* The frames writeat and truncate got were free.
LEMMA GrantedFree ==
    ASSUME NEW f, IsRamFile(f), NEW n \in Nat, NEW free \in Nat
    PROVE  Granted(f, n, free) \in Nat /\ Granted(f, n, free) <= free
<1>1. Wanted(f, n) \in Nat
  BY GrantedBounds
<1> QED BY <1>1 DEF Granted, Smaller

\* File::write and its relatives.
LEMMA PutInv ==
    ASSUME IInv, NEW id, NEW off \in Nat, NEW n \in Nat, NEW buf \in [1 .. n -> Byte],
           NEW op, TableOK(op), Put(id, off, buf, n, op)
    PROVE  IInv'
<1> DEFINE f == nodes[id].f
           free == Free(nodes)
           h == writeat(f, off, buf, n, free)
<1>1. TableOK(open')
  BY DEF Put, Leaves
<1>2. CASE UNCHANGED nodes
  <2>1. oom' \in BOOLEAN /\ (oom => oom')
    BY Zenon DEF Put, IInv
  <2> QED BY <1>1, <1>2, <2>1 DEF IInv
<1>3. CASE /\ IsFile(nodes, id) /\ nodes' = [nodes EXCEPT ![id].f = h]
           /\ oom' = (oom \/ Wanted(f, off + n) > free)
  <2>1. id \in NodeIds /\ IsRamFile(f) /\ TailZero(f)
    BY <1>3, FileOfOK DEF FileOK
  <2>2. free \in Nat /\ off + n \in Nat
    BY FreeNat DEF IInv
  <2>3. Granted(f, off + n, free) \in Nat /\ Granted(f, off + n, free) <= free
        /\ Wanted(f, off + n) \in Nat
    BY Zenon, <2>1, <2>2, GrantedFree, GrantedBounds
  <2>4. WrittenTo(h, f, off, buf, actual_write_size(f, off, n, free),
                  Granted(f, off + n, free))
    BY <2>1, <2>2, WriteFields
  <2>5. TailZero(h)
    BY <2>1, <2>2, TailStaysZero
  <2>6. Backed(f) /\ Wanted(f, off + n) <= free => Backed(h)
    BY <2>1, <2>2, StaysBacked
  <2> HIDE DEF h
  <2>7. NodesOK(nodes') /\ (AllBacked(nodes) /\ Backed(h) => AllBacked(nodes'))
    BY Zenon, <1>3, <2>1, <2>3, <2>4, <2>5, FileGrows DEF FileOK, IInv, WrittenTo
  <2>8. oom' \/ (AllBacked(nodes) /\ Wanted(f, off + n) <= free)
    <3>1. Wanted(f, off + n) > free \/ Wanted(f, off + n) <= free
      BY <2>2, <2>3
    <3> QED BY Zenon, <1>3, <3>1 DEF IInv
  <2>9. AllBacked(nodes) => Backed(f)
    BY <1>3, <2>1 DEF AllBacked
  <2> QED BY <1>1, <1>3, <2>6, <2>7, <2>8, <2>9 DEF IInv
<1> QED BY <1>2, <1>3 DEF Put, Leaves

\* ftruncate and truncate.
LEMMA CutInv ==
    ASSUME IInv, NEW id, NEW size \in Nat, Cut(id, size)
    PROVE  IInv'
<1> DEFINE f == nodes[id].f
           free == Free(nodes)
           h == truncate(f, size, free)
<1>1. CASE ~IsFile(nodes, id)
  BY <1>1 DEF Cut, Same, IInv
<1>2. CASE IsFile(nodes, id)
  <2>1. id \in NodeIds /\ IsRamFile(f) /\ TailZero(f)
    BY <1>2, FileOfOK DEF FileOK
  <2>2. free \in Nat /\ 0 \in Nat /\ [i \in 1 .. size |-> 0] \in [1 .. size -> Byte]
    BY FreeNat DEF IInv, Byte
  <2>3. Granted(f, size, free) \in Nat /\ Granted(f, size, free) <= free
        /\ Wanted(f, size) \in Nat
    BY <2>1, <2>2, GrantedFree, GrantedBounds
  <2>4. CutTo(h, f, size, Granted(f, size, free))
    BY <2>1, <2>2, TruncateFields
  <2>5. TailZero(h)
    BY Zenon, <2>1, <2>2, TailStaysZero
  <2>6. Backed(f) /\ Wanted(f, size) <= free => Backed(h)
    BY Zenon, <2>1, <2>2, StaysBacked
  <2>7. /\ nodes' = [nodes EXCEPT ![id].f = h] /\ UNCHANGED open
        /\ oom' = (oom \/ Wanted(f, size) > free)
    BY <1>2 DEF Cut, Changes, Leaves
  <2> HIDE DEF h
  <2>8. NodesOK(nodes') /\ (AllBacked(nodes) /\ Backed(h) => AllBacked(nodes'))
    BY Zenon, <1>2, <2>1, <2>3, <2>4, <2>5, <2>7, FileGrows DEF FileOK, IInv, CutTo
  <2>9. oom' \/ (AllBacked(nodes) /\ Wanted(f, size) <= free)
    <3>1. Wanted(f, size) > free \/ Wanted(f, size) <= free
      BY <2>2, <2>3
    <3> QED BY Zenon, <2>7, <3>1 DEF IInv
  <2>10. AllBacked(nodes) => Backed(f)
    BY <1>2, <2>1 DEF AllBacked
  <2> QED BY <2>6, <2>7, <2>8, <2>9, <2>10 DEF IInv
<1> QED BY <1>1, <1>2

\* A call that fails changes neither the tree nor the table.
LEMMA StillInv ==
    ASSUME IInv, UNCHANGED <<nodes, open, oom>>
    PROVE  IInv'
  BY DEF IInv

\* A call that creates or drops files and keeps the table right.
LEMMA ShrinkInv ==
    ASSUME IInv, Shrinks(nodes', nodes), TableOK(open'), UNCHANGED oom
    PROVE  IInv'
  BY ShrinksOK DEF IInv

\* A call that drops nodes keeps the others as ns has them.
LEMMA DropsInv ==
    ASSUME IInv, NEW ns, Shrinks(ns, nodes), NEW ms, NEW op, TableOK(op), NEW wd,
           Drops(ns, ms, op, wd)
    PROVE  IInv'
<1>1. \E alive : nodes' = [n \in NodeIds |-> IF n \in alive THEN ns[n] ELSE Gone]
  BY DEF Drops
<1>2. NodeOK(Gone) /\ Gone.k # "file"
  BY DEF NodeOK, Gone
<1>3. Shrinks(nodes', nodes)
  BY <1>1, <1>2 DEF Shrinks, IsFile
<1> QED BY <1>3, ShrinkInv DEF Drops

\* New entries for directories leave the files as they are.
LEMMA EntriesShrink ==
    ASSUME NEW ns, NodesOK(ns), NEW d, NEW x
    PROVE  Shrinks([ns EXCEPT ![d].ch = x], ns)
<1> DEFINE ms == [ns EXCEPT ![d].ch = x]
<1>1. ns = [n \in NodeIds |-> ns[n]] /\ \A n \in NodeIds : NodeOK(ns[n])
  BY DEF NodesOK
<1>2. ms = [n \in NodeIds |-> IF n = d THEN [ns[n] EXCEPT !.ch = x] ELSE ns[n]]
  BY Z3T(30), <1>1
<1> HIDE DEF ms
<1>3. ASSUME NEW n \in NodeIds
      PROVE  NodeOK(ms[n]) /\ (ms[n].k = "file" => ms[n] = ns[n])
  <2>1. CASE n = d
    <3>1. ms[n] = [ns[n] EXCEPT !.ch = x]
      BY <1>2, <2>1
    <3> QED BY <1>1, <3>1, ChKept
  <2>2. CASE n # d
    BY <1>1, <1>2, <2>2
  <2> QED BY <2>1, <2>2
<1>4. ms = [n \in NodeIds |-> ms[n]]
  BY <1>2
<1>5. Shrinks(ms, ns)
  BY <1>3, <1>4 DEF Shrinks, IsFile
<1> QED BY <1>5 DEF ms

\* remove takes entries off directories and frees nodes.
LEMMA RemoveShrinks ==
    ASSUME NodesOK(nodes), NEW d, NEW name
    PROVE  Shrinks(remove(nodes, d, name), nodes)
<1>1. PICK x : remove(nodes, d, name) = [nodes EXCEPT ![d].ch = x]
  BY Zenon DEF remove
<1>2. Shrinks([nodes EXCEPT ![d].ch = x], nodes)
  BY EntriesShrink
<1> QED BY Zenon, <1>1, <1>2

\* Of the table only what getdents listed is marked when a directory changes.
LEMMA DisturbedOK ==
    ASSUME TableOK(open), NEW d
    PROVE  TableOK(Disturbed(open, d))
  BY Zenon, ListedSet DEF TableOK, Disturbed

\* A copy over a file: what was there is replaced, and cut to the length.
Overwritten(g, len, bytes, free) ==
    IF len = 0 THEN g ELSE writeat(g, 0, bytes, len, free)

\* It is a right file again, of frames that were free or its own.
LEMMA OverwriteOK ==
    ASSUME NEW g, FileOK(g), NEW len \in Nat, NEW bytes \in [1 .. len -> Byte], NEW free \in Nat
    PROVE  LET w == Overwritten(g, len, bytes, free)
               c == truncate(w, len, free - (w.np - g.np))
           IN  /\ FileOK(c) /\ \E k \in Nat : k <= free /\ c.np = g.np + k
               /\ Backed(g) /\ Wanted(g, len) <= free => Backed(c)
<1> DEFINE w == Overwritten(g, len, bytes, free)
           rest == free - (w.np - g.np)
           c == truncate(w, len, rest)
<1>1. IsRamFile(g) /\ TailZero(g) /\ g.np \in Nat /\ 0 \in Nat /\ 0 + len = len
  BY DEF FileOK, IsRamFile
<1>2. Wanted(g, len) \in Nat /\ div_ceil(len) \in Nat
  BY <1>1, GrantedBounds, CeilCovers
<1>3. /\ FileOK(w)
      /\ \E k \in Nat : k <= free /\ w.np = g.np + k
      /\ Wanted(g, len) <= free => w.np = g.np + Wanted(g, len)
      /\ Backed(g) /\ Wanted(g, len) <= free => Backed(w)
  <2>1. CASE len = 0
    <3>1. w = g
      BY <2>1 DEF Overwritten
    <3>2. Wanted(g, 0) = 0
      <4>1. div_ceil(0) = 0
        BY PageAssumption DEF div_ceil
      <4> QED BY <1>1, <4>1 DEF Wanted
    <3> QED BY <1>1, <2>1, <3>1, <3>2
  <2>2. CASE len # 0
    <3>1. w = writeat(g, 0, bytes, len, free)
      BY <2>2 DEF Overwritten
    <3>2. Granted(g, len, free) \in Nat /\ Granted(g, len, free) <= free
          /\ (Wanted(g, len) <= free => Granted(g, len, free) = Wanted(g, len))
      BY Zenon, <1>1, GrantedFree, GrantedBounds
    <3>3. WrittenTo(writeat(g, 0, bytes, len, free), g, 0, bytes,
                    actual_write_size(g, 0, len, free), Granted(g, 0 + len, free))
      BY <1>1, WriteFields
    <3>4. TailZero(writeat(g, 0, bytes, len, free))
      BY <1>1, TailStaysZero
    <3>5. Backed(g) /\ Wanted(g, 0 + len) <= free => Backed(writeat(g, 0, bytes, len, free))
      BY <1>1, StaysBacked
    <3> HIDE DEF w
    <3>6. IsRamFile(w) /\ w.np = g.np + Granted(g, len, free)
      BY <1>1, <3>1, <3>3 DEF WrittenTo
    <3> QED BY <1>1, <3>1, <3>2, <3>4, <3>5, <3>6 DEF FileOK
  <2> QED BY <2>1, <2>2
<1> HIDE DEF w
<1>4. IsRamFile(w) /\ TailZero(w) /\ w.np \in Nat /\ rest \in Nat
  BY <1>1, <1>3 DEF FileOK, IsRamFile
<1> HIDE DEF rest
<1>5. Granted(w, len, rest) \in Nat /\ Granted(w, len, rest) <= rest
  BY Zenon, <1>4, GrantedFree
<1>6. CutTo(c, w, len, Granted(w, len, rest))
  BY <1>4, TruncateFields
<1>7. FileOK(c)
  <2>1. TailZero(c)
    BY <1>1, <1>4, TailStaysZero
  <2> HIDE DEF c
  <2> QED BY <1>6, <2>1 DEF FileOK, CutTo
<1>8. ASSUME Backed(g), Wanted(g, len) <= free PROVE Backed(c)
  <2>1. w.np >= div_ceil(len)
    BY <1>1, <1>2, <1>3, <1>8 DEF Wanted
  <2>2. Wanted(w, len) = 0
    BY <1>2, <1>4, <2>1 DEF Wanted
  <2>3. Backed(w) /\ Wanted(w, len) <= rest
    BY <1>3, <1>4, <1>8, <2>2
  <2> QED BY <1>1, <1>4, <2>3, StaysBacked
<1>9. \E k \in Nat : k <= free /\ c.np = g.np + k
  <2> HIDE DEF c
  <2>1. PICK i \in Nat : i <= free /\ w.np = g.np + i
    BY <1>3
  <2>2. rest = free - i
    BY <1>1, <2>1 DEF rest
  <2>3. PICK j \in Nat : j <= rest /\ c.np = w.np + j
    BY <1>5, <1>6 DEF CutTo
  <2>4. i + j \in Nat /\ i + j <= free /\ c.np = g.np + (i + j)
    BY Z3T(30), <1>1, <2>1, <2>2, <2>3
  <2> QED BY <2>4
<1> QED BY <1>7, <1>8, <1>9 DEF w, c, rest

\* sys_renameat2
LEMMA RenameInv ==
    ASSUME IInv, NEW fd, NEW old, NEW new, NEW flags, sys_renameat2(fd, old, new, flags)
    PROVE  IInv'
<1> DEFINE o == Open(fd_resolve(fd, old), {})
           target == fd_resolve(fd, new)
           fl == flags \cup {"creat"} \cup IF IsDir(nodes, o.node) THEN {"dir"} ELSE {}
           n == Open(target, fl)
           f == nodes[o.node].f
           g == n.ns[n.node].f
           free == Free(n.ns)
           bytes == ReadInto(f, 0, f.len)
           w == Overwritten(g, f.len, bytes, free)
           c == truncate(w, f.len, free - (w.np - g.np))
<1>1. Room(fl)
  BY Zenon DEF sys_renameat2, Room
<1>2. Shrinks(n.ns, nodes)
  <2> HIDE DEF target, fl
  <2> QED BY <1>1, OpenShrinks DEF IInv
<1>3. NodesOK(n.ns) /\ (AllBacked(nodes) => AllBacked(n.ns))
  <2> HIDE DEF n
  <2> QED BY Z3T(30), <1>2, ShrinksOK DEF IInv
<1>4. \/ UNCHANGED <<nodes, open, oom>>
      \/ nodes' = n.ns /\ UNCHANGED open /\ (oom' = oom \/ oom' = (oom \/ IsFile(n.ns, n.node)))
      \/ /\ IsFile(nodes, o.node) /\ ~ReadPanics(f, 0, f.len) /\ IsFile(n.ns, n.node)
         /\ nodes' = [n.ns EXCEPT ![n.node].f = c] /\ UNCHANGED open
         /\ oom' = (oom \/ Wanted(g, f.len) > free)
  BY Zenon DEF sys_renameat2, Panic, Same, Changes, Leaves, Overwritten
<1> HIDE DEF n, o, target, fl
<1>5. CASE UNCHANGED <<nodes, open, oom>>
  BY <1>5, StillInv
<1>6. CASE nodes' = n.ns /\ UNCHANGED open /\ (oom' = oom \/ oom' = (oom \/ IsFile(n.ns, n.node)))
  <2>1. oom' \in BOOLEAN /\ (oom => oom')
    BY ZenonT(30), <1>6 DEF IInv, IsFile
  <2> QED BY <1>3, <1>6, <2>1 DEF IInv
<1>7. CASE /\ IsFile(nodes, o.node) /\ ~ReadPanics(f, 0, f.len) /\ IsFile(n.ns, n.node)
           /\ nodes' = [n.ns EXCEPT ![n.node].f = c] /\ UNCHANGED open
           /\ oom' = (oom \/ Wanted(g, f.len) > free)
  <2>1. IsRamFile(f) /\ f.len \in Nat /\ 0 \in Nat
    <3>1. IsRamFile(f)
      BY Zenon, <1>7, FileOfOK DEF FileOK
    <3>2. f.len \in Nat
      <4> HIDE DEF f
      <4> QED BY <3>1 DEF IsRamFile
    <3> QED BY <3>1, <3>2
  <2>2. bytes \in [1 .. f.len -> Byte]
    BY Zenon, <1>7, <2>1, ReadLen
  <2>3. n.node \in NodeIds /\ FileOK(g)
    <3>1. n.node \in NodeIds /\ NodeOK(n.ns[n.node]) /\ n.ns[n.node].k = "file"
      BY Zenon, <1>3, <1>7 DEF NodesOK, IsFile
    <3> QED BY <3>1, NodeKinds
  <2>4. free \in Nat
    BY <1>3, FreeNat
  <2>5. /\ FileOK(c) /\ \E k \in Nat : k <= free /\ c.np = g.np + k
        /\ Backed(g) /\ Wanted(g, f.len) <= free => Backed(c)
    <3> HIDE DEF g, free, bytes, f
    <3> QED BY Zenon, <2>1, <2>2, <2>3, <2>4, OverwriteOK
  <2> HIDE DEF c
  <2>6. NodesOK(nodes') /\ (AllBacked(n.ns) /\ Backed(c) => AllBacked(nodes'))
    BY <1>3, <1>7, <2>3, <2>5, FileGrows
  <2>7. oom' \in BOOLEAN /\ (oom' \/ (AllBacked(nodes) /\ Wanted(g, f.len) <= free))
    <3>1. Wanted(g, f.len) \in Nat
      BY Zenon, <2>1, <2>3, GrantedBounds, <2>4 DEF FileOK
    <3>2. Wanted(g, f.len) > free \/ Wanted(g, f.len) <= free
      BY <2>4, <3>1
    <3> QED BY Zenon, <1>7, <3>2 DEF IInv
  <2>8. AllBacked(n.ns) => Backed(g)
    BY <1>7, <2>3 DEF AllBacked
  <2>9. oom' \/ AllBacked(nodes')
    BY Zenon, <1>3, <2>5, <2>6, <2>7, <2>8
  <2>10. TableOK(open)' /\ oom' \in BOOLEAN
    BY Zenon, <1>7, <2>7 DEF IInv, TableOK
  <2> QED BY Zenon, <2>6, <2>9, <2>10 DEF IInv
<1> QED BY ZenonT(30), <1>4, <1>5, <1>6, <1>7

\* What openat puts into the table.
LEMMA NewFileOK ==
    ASSUME TableOK(open), NEW d, NEW n, NEW path, NEW flags
    PROVE  TableOK([open EXCEPT ![d] = File(n, path, flags)]) /\ TableOK([open EXCEPT ![d] = None])
<1>1. OpenOK(File(n, path, flags)) /\ OpenOK(None)
  BY DEF File, OpenOK
<1> QED BY Zenon, <1>1 DEF TableOK

\* sys_openat and the calls that open a path and close it again.
LEMMA OpenatInv ==
    ASSUME IInv, NEW fd, NEW arg, NEW flags, sys_openat(fd, arg, flags)
    PROVE  IInv'
<1> DEFINE path == fd_resolve(fd, arg)
           a == Open(path, flags)
<1>1. Shrinks(a.ns, nodes)
  <2> HIDE DEF path
  <2> QED BY OpenShrinks DEF sys_openat, IInv
<1>2. \/ UNCHANGED <<nodes, open, oom>>
      \/ nodes' = a.ns /\ UNCHANGED <<open, oom>>
      \/ /\ nodes' = a.ns /\ UNCHANGED oom
         /\ open' = [open EXCEPT ![alloc_fd] = File(a.node, path, flags)]
  BY DEF sys_openat, Panic, Changes, Leaves
<1> HIDE DEF a, path
<1>3. TableOK([open EXCEPT ![alloc_fd] = File(a.node, path, flags)]) /\ TableOK(open)
  BY Zenon, NewFileOK DEF IInv
<1> QED BY <1>1, <1>2, <1>3, StillInv, ShrinkInv

\* An open keeps the invariant: it adds pages to no file.
LEMMA OpenOnlyInv ==
    ASSUME IInv, NEW fd, NEW arg, NEW flags, OpenOnly(fd, arg, flags)
    PROVE  IInv'
<1> DEFINE a == Open(fd_resolve(fd, arg), flags)
<1>1. Shrinks(a.ns, nodes)
  BY OpenShrinks DEF OpenOnly, IInv
<1>2. \/ UNCHANGED <<nodes, open, oom>>
      \/ nodes' = a.ns /\ UNCHANGED <<open, oom>>
  BY DEF OpenOnly, Panic, Changes, Leaves
<1> HIDE DEF a
<1>3. TableOK(open)
  BY DEF IInv
<1> QED BY <1>1, <1>2, <1>3, StillInv, ShrinkInv

\* sys_unlinkat
LEMMA UnlinkInv ==
    ASSUME IInv, NEW fd, NEW arg, sys_unlinkat(fd, arg)
    PROVE  IInv'
<1>1. \/ UNCHANGED <<nodes, open, oom>>
      \/ \E d, name : Drops(remove(nodes, d, name), mounts, Disturbed(open, d), cwd)
  BY Zenon DEF sys_unlinkat, Panic, Same
<1>2. ASSUME NEW d, NEW name, Drops(remove(nodes, d, name), mounts, Disturbed(open, d), cwd)
      PROVE  IInv'
  <2>1. Shrinks(remove(nodes, d, name), nodes) /\ TableOK(Disturbed(open, d))
    BY RemoveShrinks, DisturbedOK DEF IInv
  <2> QED BY <1>2, <2>1, DropsInv
<1> QED BY Z3T(30), <1>1, <1>2, StillInv

\* A call that leaves the tree alone, but for nodes nobody holds any more.
LEMMA KeepsNodes ==
    ASSUME IInv, NEW ms, NEW op, TableOK(op), NEW wd, Drops(nodes, ms, op, wd)
    PROVE  IInv'
<1>1. Shrinks(nodes, nodes)
  BY DEF NodesOK, Shrinks, IInv
<1> QED BY <1>1, DropsInv

\* sys_chdir
LEMMA ChdirInv ==
    ASSUME IInv, NEW arg, sys_chdir(arg)
    PROVE  IInv'
<1>1. \/ UNCHANGED <<nodes, open, oom>>
      \/ \E wd : Drops(nodes, mounts, open, wd)
  BY DEF sys_chdir, Panic, Same
<1> QED BY <1>1, StillInv, KeepsNodes DEF IInv

\* sys_mount
LEMMA MountInv ==
    ASSUME IInv, NEW name, sys_mount(name)
    PROVE  IInv'
<1>1. \E n \in NodeIds : nodes[n] = Gone
  BY DEF sys_mount, Room
<1>2. \/ UNCHANGED <<nodes, open, oom>>
      \/ \E d : nodes' = create(nodes, d, name, TRUE) /\ UNCHANGED <<open, oom>>
  BY Zenon DEF sys_mount, Panic, Same, Changes, Leaves
<1>3. ASSUME NEW d, nodes' = create(nodes, d, name, TRUE), UNCHANGED <<open, oom>>
      PROVE  IInv'
  <2>1. Shrinks(nodes', nodes) /\ TableOK(open')
    BY Zenon, <1>1, <1>3, CreateOK DEF IInv
  <2> QED BY <1>3, <2>1, ShrinkInv
<1> QED BY Zenon, <1>2, <1>3, StillInv

\* sys_umount2
LEMMA UmountInv ==
    ASSUME IInv, NEW path, sys_umount2(path)
    PROVE  IInv'
<1>1. \/ UNCHANGED <<nodes, open, oom>>
      \/ \E ms : Drops(nodes, ms, open, cwd)
  BY DEF sys_umount2, Same
<1> QED BY <1>1, StillInv, KeepsNodes DEF IInv

\* sys_truncate
LEMMA TruncateInv ==
    ASSUME IInv, NEW arg, NEW size \in Nat, sys_truncate(arg, size)
    PROVE  IInv'
<1>1. \/ UNCHANGED <<nodes, open, oom>>
      \/ \E id : Cut(id, size)
  BY DEF sys_truncate, Panic, Same
<1> QED BY <1>1, StillInv, CutInv

\* The calls that take a path.
LEMMA PathCallsInv ==
    ASSUME IInv, PathCalls
    PROVE  IInv'
<1>1. PICK arg \in Args :
       \/ \E fd \in Bases(arg) :
             \/ \E flags \in {{}, {"w", "creat"}} : sys_openat(fd, arg, flags)
             \/ sys_mkdir_at(fd, arg)
             \/ sys_unlinkat(fd, arg)
             \/ sys_fstatat(fd, arg) \/ sys_statx(fd, arg) \/ sys_utimensat(fd, arg)
             \/ sys_readlinkat(fd, arg) \/ sys_fchmodat(fd, arg) \/ sys_fchownat(fd, arg)
             \/ sys_linkat(fd, arg) \/ sys_symlinkat(fd, arg)
       \/ sys_statfs(arg) \/ sys_chown(arg) \/ sys_lchown(arg)
       \/ sys_faccess_at(Cwd, arg, {"creat"})
       \/ sys_chdir(arg)
       \/ sys_umount2(join(<<>>, arg))
       \/ sys_mount(Last(arg.parts))
       \/ \E n \in Sizes : sys_truncate(arg, n)
       \/ \E flags \in {{}, {"w"}} : sys_renameat2(Cwd, arg, NewName, flags)
  BY Zenon DEF PathCalls
<1>2. ASSUME NEW fd,
             \/ \E flags \in {{}, {"w", "creat"}} : sys_openat(fd, arg, flags)
             \/ sys_mkdir_at(fd, arg)
             \/ sys_unlinkat(fd, arg)
             \/ sys_fstatat(fd, arg) \/ sys_statx(fd, arg) \/ sys_utimensat(fd, arg)
             \/ sys_readlinkat(fd, arg) \/ sys_fchmodat(fd, arg) \/ sys_fchownat(fd, arg)
             \/ sys_linkat(fd, arg) \/ sys_symlinkat(fd, arg)
      PROVE  IInv'
  <2>1. \/ \E flags : sys_openat(fd, arg, flags)
        \/ sys_unlinkat(fd, arg)
        \/ \E flags : OpenOnly(fd, arg, flags)
        \/ sys_symlinkat(fd, arg)
    BY Zenon, <1>2 DEF sys_mkdir_at, sys_fstatat, sys_statx, sys_utimensat, sys_readlinkat,
              sys_fchmodat, sys_fchownat, sys_linkat
  <2>2. sys_symlinkat(fd, arg) => UNCHANGED <<nodes, open, oom>>
    BY DEF sys_symlinkat, Panic, Same
  <2> QED BY <2>1, <2>2, OpenatInv, OpenOnlyInv, UnlinkInv, StillInv
<1>3. ASSUME sys_statfs(arg) \/ sys_chown(arg) \/ sys_lchown(arg)
             \/ sys_faccess_at(Cwd, arg, {"creat"})
      PROVE  IInv'
  <2>1. \E fd, path, flags : OpenOnly(fd, path, flags)
    BY Zenon, <1>3 DEF sys_statfs, sys_chown, sys_lchown, sys_faccess_at
  <2> QED BY <2>1, OpenOnlyInv
<1>4. ASSUME NEW n \in Sizes, sys_truncate(arg, n) PROVE IInv'
  BY <1>4, TruncateInv, VfsAssumption
<1> QED BY Zenon, <1>1, <1>2, <1>3, <1>4, ChdirInv, UmountInv, MountInv, RenameInv

\* The position of an open file.
LEMMA OffNat ==
    ASSUME NEW op, TableOK(op), NEW d \in Fds, op[d] # None
    PROVE  op[d].off \in Nat
  BY DEF TableOK, OpenOK

\* A call that only moves positions.
LEMMA MoveInv ==
    ASSUME IInv, UNCHANGED <<nodes, oom>>, TableOK(open')
    PROVE  IInv'
  BY DEF IInv

\* sys_read, sys_readv
LEMMA ReadvInv ==
    ASSUME IInv, NEW d \in Fds, NEW n \in Nat, NEW m \in Nat, sys_readv(d, n, m)
    PROVE  IInv'
<1> DEFINE f == FileOf(d)
           off == open[d].off
           first == read_len(f, off, n)
           second == read_len(f, off + first, m)
<1>1. open[d] # None
  BY ZenonT(30) DEF sys_readv, IsOpen
<1>2. \/ UNCHANGED <<nodes, open, oom>>
      \/ OpenFile(d) /\ open' = Moved(open, d, first + second) /\ UNCHANGED <<nodes, oom>>
  BY DEF sys_readv, Same, Panic
<1>3. CASE OpenFile(d) /\ open' = Moved(open, d, first + second) /\ UNCHANGED <<nodes, oom>>
  <2>1. IsRamFile(f)
    BY Zenon, <1>3, FileOfOK DEF OpenFile, FileOf, FileOK
  <2>2. off \in Nat
    BY <1>1, OffNat DEF IInv
  <2>3. first \in Nat
    BY Zenon, <2>1, <2>2, ReadLen
  <2>4. second \in Nat
    <3>1. off + first \in Nat
      BY <2>2, <2>3
    <3> HIDE DEF first, off
    <3> QED BY <2>1, <3>1, ReadLen
  <2> HIDE DEF first, second
  <2>5. TableOK(open')
    BY <1>1, <1>3, <2>3, <2>4, MovedOK DEF IInv
  <2> QED BY Z3T(30), <1>3, <2>5, MoveInv
<1> QED BY Z3T(30), <1>2, <1>3, StillInv

\* What the calls write are bytes.
LEMMA BytesOK ==
    ASSUME NEW n \in Nat
    PROVE  Bytes(n) \in [1 .. n -> Byte]
  BY DEF Bytes, Byte

\* sys_write
LEMMA WriteInv ==
    ASSUME IInv, NEW d \in Fds, NEW n \in Nat, sys_write(d, n)
    PROVE  IInv'
<1> DEFINE id == open[d].node
           off == open[d].off
           op == Moved(open, d, put_len(id, off, n))
<1>1. open[d] # None /\ Put(id, off, Bytes(n), n, op)
  BY DEF sys_write, IsOpen
<1>2. off \in Nat
  BY <1>1, OffNat DEF IInv
<1>3. put_len(id, off, n) \in Nat
  BY <1>2, PutLen
<1>4. TableOK(op)
  BY <1>1, <1>3, MovedOK DEF IInv
<1> HIDE DEF id, off, op
<1> QED BY <1>1, <1>2, <1>4, BytesOK, PutInv

\* sys_writev
LEMMA WritevInv ==
    ASSUME IInv, NEW d \in Fds, NEW n \in Nat, sys_writev(d, n)
    PROVE  IInv'
<1>1. UNCHANGED <<nodes, open, oom>> \/ sys_write(d, n)
  BY DEF sys_writev, Same
<1> QED BY <1>1, StillInv, WriteInv

\* sys_pwrite64
LEMMA PwriteInv ==
    ASSUME IInv, NEW d \in Fds, NEW off \in Nat, NEW n \in Nat, sys_pwrite(d, off, n)
    PROVE  IInv'
<1>1. UNCHANGED <<nodes, open, oom>> \/ Put(open[d].node, off, Bytes(n), n, open)
  BY DEF sys_pwrite, Same
<1> QED BY <1>1, StillInv, BytesOK, PutInv DEF IInv

\* sys_pread64
LEMMA PreadInv ==
    ASSUME IInv, NEW d, NEW off, NEW n, sys_pread(d, off, n)
    PROVE  IInv'
<1>1. UNCHANGED <<nodes, open, oom>>
  BY DEF sys_pread, Same, Panic
<1> QED BY <1>1, StillInv

\* sendfile and copy_file_range: a read moved the input, or not, and what was
\* read is written behind it.
LEMMA CopyInv ==
    ASSUME IInv, NEW in \in Fds, NEW out \in Fds, IsOpen(in), IsOpen(out),
           NEW r \in Nat, NEW read, read = open \/ read = Moved(open, in, r),
           NEW at \in Nat, NEW len \in Nat, NEW buf \in [1 .. len -> Byte], NEW id, NEW op,
           op = read \/ op = Moved(read, out, put_len(id, at, len)),
           Put(id, at, buf, len, op)
    PROVE  IInv'
<1>1. TableOK(read) /\ read[out] # None
  BY Zenon, MovedOK DEF IInv, IsOpen
<1>2. put_len(id, at, len) \in Nat
  BY PutLen
<1>3. TableOK(op)
  BY <1>1, <1>2, MovedOK
<1> QED BY <1>3, PutInv

\* A read by sendfile or copy_file_range moves the position it reads from.
LEMMA ReadMoves ==
    ASSUME IInv, NEW in \in Fds, IsOpen(in), NEW out \in Fds, IsOpen(out), NEW r \in Nat
    PROVE  TableOK(Moved(open, in, r)) /\ Moved(open, in, r)[out].off \in Nat
<1>1. TableOK(Moved(open, in, r)) /\ Moved(open, in, r)[out] # None
  BY MovedOK DEF IInv, IsOpen
<1> QED BY <1>1, OffNat

\* sys_sendfile
LEMMA SendfileInv ==
    ASSUME IInv, NEW out \in Fds, NEW in \in Fds, NEW offset \in Nat, NEW count \in Nat,
           sys_sendfile(out, in, offset, count)
    PROVE  IInv'
<1> DEFINE f == FileOf(in)
           off == IF offset # 0 THEN offset ELSE open[in].off
           rlen == IF off > f.len THEN count ELSE Smaller(f.len - off, count)
           r == read_len(f, off, rlen)
           read == IF offset = 0 THEN Moved(open, in, r) ELSE open
           id == open[out].node
           at == read[out].off
           buf == ReadInto(f, off, rlen)
           op == Moved(read, out, put_len(id, at, rlen))
<1>1. IsOpen(out) /\ IsOpen(in) /\ OpenFile(in)
  BY ZenonT(30) DEF sys_sendfile, OpenFile
<1>2. \/ UNCHANGED <<nodes, open, oom>>
      \/ open' = read /\ UNCHANGED <<nodes, oom>>
      \/ ~ReadPanics(f, off, rlen) /\ Put(id, at, buf, rlen, op)
  BY ZenonT(30) DEF sys_sendfile, Panic, Leaves
<1>3. IsRamFile(f) /\ f.len \in Nat
  BY ZenonT(30), <1>1, FileOfOK DEF OpenFile, FileOf, FileOK, IsRamFile
<1>4. off \in Nat
  BY Zenon, <1>1, OffNat DEF IInv, IsOpen
<1> HIDE DEF off, f
<1>5. rlen \in Nat
  BY <1>3, <1>4 DEF Smaller
<1> HIDE DEF rlen
<1>6. r \in Nat /\ (~ReadPanics(f, off, rlen) => buf \in [1 .. rlen -> Byte])
  BY Zenon, <1>3, <1>4, <1>5, ReadLen
<1> HIDE DEF r, buf
<1>7. TableOK(read) /\ at \in Nat
  <2>1. TableOK(Moved(open, in, r)) /\ Moved(open, in, r)[out].off \in Nat
    BY <1>1, <1>6, ReadMoves
  <2>2. TableOK(open) /\ open[out].off \in Nat
    BY <1>1, OffNat DEF IInv, IsOpen
  <2> QED BY <2>1, <2>2
<1>8. read = open \/ read = Moved(open, in, r)
  OBVIOUS
<1> HIDE DEF read, at, id
<1>9. op = Moved(read, out, put_len(id, at, rlen))
  OBVIOUS
<1> HIDE DEF op
<1>10. CASE ~ReadPanics(f, off, rlen) /\ Put(id, at, buf, rlen, op)
  BY <1>1, <1>5, <1>6, <1>7, <1>8, <1>9, <1>10, CopyInv
<1>11. CASE open' = read /\ UNCHANGED <<nodes, oom>>
  BY <1>7, <1>11, MoveInv
<1> QED BY Z3T(30), <1>2, <1>10, <1>11, StillInv

\* sys_copy_file_range
LEMMA CopyRangeInv ==
    ASSUME IInv, NEW in \in Fds, NEW offIn \in Nat \cup {Cur}, NEW out \in Fds,
           NEW offOut \in Nat \cup {Cur}, NEW n \in Nat,
           sys_copy_file_range(in, offIn, out, offOut, n)
    PROVE  IInv'
<1> DEFINE f == FileOf(in)
           off == IF offIn = Cur THEN open[in].off ELSE offIn
           rsize == read_len(f, off, n)
           read == IF offIn = Cur THEN Moved(open, in, rsize) ELSE open
           at == IF offOut = Cur THEN read[out].off ELSE offOut
           id == open[out].node
           buf == ReadInto(f, off, rsize)
           op == IF offOut = Cur THEN Moved(read, out, put_len(id, at, rsize)) ELSE read
<1>1. IsOpen(out) /\ IsOpen(in) /\ OpenFile(in)
  BY ZenonT(30) DEF sys_copy_file_range, OpenFile
<1>2. \/ UNCHANGED <<nodes, open, oom>>
      \/ open' = read /\ UNCHANGED <<nodes, oom>>
      \/ ~ReadPanics(f, off, n) /\ Put(id, at, buf, rsize, op)
  BY ZenonT(30) DEF sys_copy_file_range, Panic, Leaves
<1>3. IsRamFile(f)
  BY ZenonT(30), <1>1, FileOfOK DEF OpenFile, FileOf, FileOK, IsRamFile
<1>4. off \in Nat
  BY Zenon, <1>1, OffNat DEF IInv, IsOpen
<1> HIDE DEF off, f
<1>5. rsize \in Nat
  BY Zenon, <1>3, <1>4, ReadLen
<1>6. ~ReadPanics(f, off, n) => buf \in [1 .. rsize -> Byte]
  <2>1. f.len \in Nat
    BY <1>3 DEF IsRamFile
  <2>2. read_len(f, off, rsize) = rsize
    BY <1>4, <2>1 DEF read_len, Smaller
  <2>3. ~ReadPanics(f, off, n) => ~ReadPanics(f, off, rsize)
    BY <2>2 DEF ReadPanics
  <2> HIDE DEF rsize
  <2> QED BY <1>3, <1>4, <1>5, <2>3, ReadLen
<1> HIDE DEF rsize, buf
<1>7. TableOK(read) /\ at \in Nat
  <2>1. TableOK(Moved(open, in, rsize)) /\ Moved(open, in, rsize)[out].off \in Nat
    BY <1>1, <1>5, ReadMoves
  <2>2. TableOK(open) /\ open[out].off \in Nat
    BY <1>1, OffNat DEF IInv, IsOpen
  <2> QED BY <2>1, <2>2
<1>8. read = open \/ read = Moved(open, in, rsize)
  OBVIOUS
<1> HIDE DEF read, at, id
<1>9. op = read \/ op = Moved(read, out, put_len(id, at, rsize))
  OBVIOUS
<1> HIDE DEF op
<1>10. CASE ~ReadPanics(f, off, n) /\ Put(id, at, buf, rsize, op)
  BY Z3T(30), <1>1, <1>5, <1>6, <1>7, <1>8, <1>9, <1>10, CopyInv
<1>11. CASE open' = read /\ UNCHANGED <<nodes, oom>>
  BY <1>7, <1>11, MoveInv
<1> QED BY Z3T(30), <1>2, <1>10, <1>11, StillInv

\* One descriptor changes.
LEMMA EntryOK ==
    ASSUME TableOK(open), NEW d, NEW h, OpenOK(h)
    PROVE  TableOK([open EXCEPT ![d] = h])
  BY DEF TableOK

\* sys_lseek
LEMMA LseekInv ==
    ASSUME IInv, NEW d \in Fds, NEW whence \in {"SET", "CUR", "END"}, NEW delta \in Int,
           sys_lseek(d, whence, delta)
    PROVE  IInv'
<1> DEFINE size == IF OpenFile(d) THEN FileOf(d).len ELSE 0
           to == delta + CASE whence = "SET" -> 0
                           [] whence = "CUR" -> open[d].off
                           [] whence = "END" -> size
           x == IF to < 0 THEN 0 ELSE to
           h == [open[d] EXCEPT !.off = x, !.clean = FALSE]
<1>1. /\ open[d] # None /\ UNCHANGED <<nodes, oom>>
      /\ open' = [open EXCEPT ![d].off = x, ![d].clean = FALSE]
  BY DEF sys_lseek, IsOpen
<1>2. size \in Nat
  BY Zenon, FileOfOK DEF OpenFile, FileOf, FileOK, IsRamFile
<1>3. open[d].off \in Nat /\ OpenOK(open[d]) /\ TableOK(open)
  BY <1>1, OffNat DEF IInv, TableOK
<1> HIDE DEF size
<1>4. x \in Nat
  BY Z3T(30), <1>2, <1>3
<1> HIDE DEF x
<1>5. OpenOK(h)
  BY Zenon, <1>1, <1>3, <1>4, OpenSet
<1>6. open' = [open EXCEPT ![d] = h]
  BY Zenon, <1>1, <1>3 DEF TableOK
<1> HIDE DEF h
<1>7. TableOK(open')
  BY Zenon, <1>3, <1>5, <1>6, EntryOK
<1> QED BY <1>1, <1>7, MoveInv

\* The number of entries that fit the buffer.
LEMMA FittingNat ==
    ASSUME NEW names, NEW off, NEW room \in Nat
    PROVE  Fitting(names, off, room) \in Nat
<1>1. Smaller(room, MaxEntries) \in Int
  BY VfsAssumption DEF Smaller
<1>2. IsFiniteSet(1 .. Smaller(room, MaxEntries))
  BY <1>1, FS_Interval
<1> QED BY Zenon, <1>2, FS_Subset, FS_CardinalityType DEF Fitting

\* sys_getdents64
LEMMA GetdentsInv ==
    ASSUME IInv, NEW d \in Fds, NEW room \in Nat, sys_getdents64(d, room)
    PROVE  IInv'
<1>1. \/ UNCHANGED <<nodes, open, oom>>
      \/ /\ open[d] # None /\ open' = [open EXCEPT ![d] = getdents(d, room)]
         /\ UNCHANGED <<nodes, oom>>
  BY DEF sys_getdents64, Same, Panic, IsOpen
<1>2. CASE /\ open[d] # None /\ open' = [open EXCEPT ![d] = getdents(d, room)]
           /\ UNCHANGED <<nodes, oom>>
  <2> DEFINE k == Fitting(Names(open[d].node), open[d].off, room)
             x == IF k = 0 THEN 0 ELSE open[d].off + k
  <2>1. OpenOK(open[d]) /\ TableOK(open) /\ open[d].off \in Nat
    BY <1>2, OffNat DEF IInv, TableOK
  <2>2. k \in Nat
    BY FittingNat
  <2>3. \E l, c : getdents(d, room) = [open[d] EXCEPT !.off = x, !.listed = l, !.clean = c]
    BY Zenon DEF getdents
  <2> HIDE DEF k
  <2>4. x \in Nat
    BY <2>1, <2>2
  <2> HIDE DEF x
  <2>5. OpenOK(getdents(d, room))
    <3> DEFINE h == open[d]
    <3>1. OpenOK(h) /\ h # None
      BY <1>2, <2>1
    <3>2. PICK l, c : getdents(d, room) = [h EXCEPT !.off = x, !.listed = l, !.clean = c]
      BY ZenonT(30), <2>3
    <3> HIDE DEF h
    <3> DEFINE g == [h EXCEPT !.off = x, !.listed = l, !.clean = c]
    <3>3. OpenOK(g)
      BY Zenon, <2>4, <3>1, OpenSet
    <3>4. getdents(d, room) = g
      BY <3>2
    <3> HIDE DEF g
    <3> QED BY <3>3, <3>4
  <2>6. TableOK(open')
    BY Zenon, <1>2, <2>1, <2>5, EntryOK
  <2> QED BY <1>2, <2>6, MoveInv
<1> QED BY <1>1, <1>2, StillInv

\* sys_close
LEMMA CloseInv ==
    ASSUME IInv, NEW d, sys_close(d)
    PROVE  IInv'
<1>1. TableOK([open EXCEPT ![d] = None])
  BY EntryOK DEF IInv, OpenOK
<1> QED BY <1>1, KeepsNodes DEF sys_close

\* The calls that take a descriptor.
LEMMA FileCallsInv ==
    ASSUME IInv, FileCalls
    PROVE  IInv'
<1>1. PICK d \in Fds :
       \/ sys_close(d)
       \/ sys_readv(d, 1, 1)
       \/ \E n \in Sizes :
             \/ sys_read(d, n)
             \/ sys_write(d, n)
             \/ sys_ftruncate(d, n)
             \/ sys_pread(d, n, 1)
             \/ sys_pwrite(d, n, 1)
       \/ sys_writev(d, 1)
       \/ \E seek \in {<<"SET", 0>>, <<"CUR", -1>>, <<"END", 1>>} : sys_lseek(d, seek[1], seek[2])
       \/ \E e \in Fds, n \in Sizes :
             \/ \E off \in {0, 1} : sys_sendfile(d, e, off, n)
             \/ sys_copy_file_range(d, Cur, e, Cur, n)
             \/ sys_copy_file_range(d, 0, e, 1, n)
  BY Zenon DEF FileCalls
<1>2. 0 \in Nat /\ 1 \in Nat /\ \A n \in Sizes : n \in Nat
  BY VfsAssumption
<1>4. ASSUME NEW n \in Sizes,
             \/ sys_read(d, n) \/ sys_write(d, n) \/ sys_ftruncate(d, n)
             \/ sys_pread(d, n, 1) \/ sys_pwrite(d, n, 1)
      PROVE  IInv'
  <2>1. sys_ftruncate(d, n) => \E id : Cut(id, n)
    BY DEF sys_ftruncate
  <2>2. sys_read(d, n) => sys_readv(d, n, 0)
    BY DEF sys_read
  <2> QED BY Zenon, <1>2, <1>4, <2>1, <2>2, ReadvInv, WriteInv, CutInv, PreadInv, PwriteInv
<1>5. ASSUME NEW seek \in {<<"SET", 0>>, <<"CUR", -1>>, <<"END", 1>>},
             sys_lseek(d, seek[1], seek[2])
      PROVE  IInv'
  <2>1. seek[1] \in {"SET", "CUR", "END"} /\ seek[2] \in Int
    BY <1>5
  <2> QED BY <1>5, <2>1, LseekInv
<1>6. ASSUME NEW e \in Fds, NEW n \in Sizes,
             \/ \E off \in {0, 1} : sys_sendfile(d, e, off, n)
             \/ sys_copy_file_range(d, Cur, e, Cur, n)
             \/ sys_copy_file_range(d, 0, e, 1, n)
      PROVE  IInv'
  <2>1. ASSUME NEW off \in {0, 1}, sys_sendfile(d, e, off, n) PROVE IInv'
    BY <1>2, <2>1, SendfileInv
  <2>2. Cur \in Nat \cup {Cur} /\ 0 \in Nat \cup {Cur} /\ 1 \in Nat \cup {Cur}
    OBVIOUS
  <2> QED BY Zenon, <1>2, <1>6, <2>1, <2>2, CopyRangeInv
<1> QED BY Zenon, <1>1, <1>2, <1>4, <1>5, <1>6, CloseInv, ReadvInv, WritevInv

\* The tree as init mounts it.
LEMMA InitInv == Init => IInv
<1> SUFFICES ASSUME Init PROVE IInv
  OBVIOUS
<1>1. nodes = [n \in NodeIds |-> nodes[n]]
  BY DEF Init
<1>2. ASSUME NEW n \in NodeIds
      PROVE  NodeOK(nodes[n]) /\ nodes[n].k # "file"
  <2>0. /\ Root \notin {Tmp, Mounted, 6, Dev, Null} /\ Dev \notin {Tmp, Mounted, 6, Null}
        /\ Null \notin {Tmp, Mounted, 6}
    BY DEF Root, Tmp, Mounted, Dev, Null
  <2>1. CASE n = Root
    <3>1. nodes[n] = Dir(<<Child("dev", 6), Child("tmp", Mounted)>>)
      BY <2>0, <2>1 DEF Init
    <3> QED BY <3>1 DEF NodeOK, Dir
  <2>2. CASE n \in {Tmp, Mounted, 6}
    <3>1. nodes[n] = Dir(<<>>)
      BY <2>0, <2>2 DEF Init
    <3> QED BY <3>1 DEF NodeOK, Dir
  <2>3. CASE n = Dev
    <3>1. nodes[n] = [k |-> "devdir", ch |-> <<Child("null", Null)>>]
      BY <2>0, <2>3 DEF Init
    <3> QED BY <3>1 DEF NodeOK
  <2>4. CASE n = Null
    <3>1. nodes[n] = [k |-> "dev"]
      BY <2>0, <2>4 DEF Init
    <3> QED BY <3>1 DEF NodeOK
  <2>5. CASE n \notin {Root, Tmp, Mounted, 6, Dev, Null}
    <3>1. nodes[n] = Gone
      BY <2>5 DEF Init
    <3> QED BY <3>1 DEF NodeOK, Gone
  <2> QED BY <2>1, <2>2, <2>3, <2>4, <2>5
<1>3. Frames(nodes) = {}
  BY <1>2 DEF Frames, IsFile
<1>4. Cardinality(Frames(nodes)) <= NFrames
  BY <1>3, FS_EmptySet, VfsAssumption
<1>5. NodesOK(nodes) /\ AllBacked(nodes)
  BY <1>1, <1>2, <1>4 DEF NodesOK, AllBacked, IsFile
<1>6. TableOK(open)
  BY DEF Init, TableOK, OpenOK
<1> QED BY Zenon, <1>5, <1>6 DEF IInv, Init

\* Every step keeps the invariant.
LEMMA NextInv == IInv /\ [Next]_vars => IInv'
<1> SUFFICES ASSUME IInv, [Next]_vars PROVE IInv'
  OBVIOUS
<1>1. CASE UNCHANGED vars
  BY <1>1, StillInv DEF vars
<1>2. CASE Next
  <2>1. PathCalls \/ FileCalls \/ Listings
    BY <1>2 DEF Next
  <2>2. CASE Listings
    <3>1. PICK d \in Fds, room \in 0 .. 1 : sys_getdents64(d, room)
      BY Zenon, <2>2 DEF Listings
    <3>2. room \in Nat
      OBVIOUS
    <3> QED BY <3>1, <3>2, GetdentsInv
  <2> QED BY <2>1, <2>2, PathCallsInv, FileCallsInv
<1> QED BY <1>1, <1>2

\* No sequence of calls leaves old bytes behind the end of a file: when writeat or
\* truncate makes the file longer again, what it uncovers reads as zero.
THEOREM NoStaleBytesTheorem == Spec => []NoStaleBytes
<1>1. IInv => NoStaleBytes
  BY FileOfOK DEF NoStaleBytes, FileOK
<1> QED BY <1>1, InitInv, NextInv, PTL DEF Spec

\* Until a write or a truncate runs out of frames, every file has a page for every
\* byte that its length counts.
THEOREM LengthBackedTheorem == Spec => []LengthBacked
<1>1. IInv => LengthBacked
  BY DEF LengthBacked, IInv, AllBacked
<1> QED BY <1>1, InitInv, NextInv, PTL DEF Spec

\* No read of any file, from any position and of any length, indexes its pages
\* beyond the last one: RamFile::readat does not panic unless frames ran out.
ReadsInBounds ==
    oom \/ \A n \in NodeIds, off \in Nat, len \in Nat :
               IsFile(nodes, n) => ~ReadPanics(nodes[n].f, off, len)

\* The reads of every reachable file are in bounds, for every position and length.
THEOREM ReadsTheorem == Spec => []ReadsInBounds
<1>1. IInv => ReadsInBounds
  BY FileOfOK, ReadInBounds DEF ReadsInBounds, IInv, AllBacked, FileOK
<1> QED BY <1>1, InitInv, NextInv, PTL DEF Spec

=============================================================================
