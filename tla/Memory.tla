------------------------------- MODULE Memory -------------------------------
(***************************************************************************)
(* The memory of processes: the areas and the page table of each           *)
(* (kernel/src/tasks/memset.rs, task.rs), mmap, munmap and brk             *)
(* (syscall/mm.rs), copy on write after a fork and the other page faults   *)
(* (user/mod.rs), shared memory segments (syscall/shm.rs, tasks/shm.rs)    *)
(* and the loading of a program (tasks/exec.rs, elf.rs).                   *)
(*                                                                         *)
(* Addresses are page numbers; a frame holds one value, and one regular    *)
(* file has one value per page.  The kernel is cooperative and none of     *)
(* these handlers awaits between its first and its last access, so each is *)
(* one step.  The arithmetic is that of the release build, which wraps.    *)
(***************************************************************************)
EXTENDS Integers, Sequences, FiniteSets, FiniteSetsExt, MemArea

CONSTANTS Procs, First,   \* the processes, and the one that runs first
          NFrames,        \* physical frames
          NPages,         \* pages of an address space, page 0 is never mapped
          ElfPages,       \* 0x10000 .. 0x100000: loaded from a file on a fault
          HeapPages,      \* 0x1000000 .. 0x2000000: grown HeapGrow pages at a time
          GapPages,       \* 0x200a0000 .. 0x300b0000
          ShmStart,       \* 0x4000_0000
          StackStart, StackLen,   \* 0x7000_0000, 0x1000_0000
          MapStart,       \* MAP_AREA_START, and the region of late TLS pages
          HeapGrow,       \* 12 pages
          LowWater,       \* the 10 free pages a new page of an area needs
          ImageStart, ImageLen, BufferLen,  \* a program, and its file in frames
          NFilePages, Keys, MaxAttach,
          Touch, Starts, Cuts, Lens, Offsets,   \* the pages and ranges that are tried
          MaxSteps, MaxMaps

Pages == 0 .. NPages - 1
Frames == 1 .. NFrames
FilePages == 0 .. NFilePages - 1
StackPages == StackStart .. StackStart + StackLen - 1

\* The regions lie in the address space, and the frames hold the first program.
ASSUME MemoryAssumption ==
    /\ IsFiniteSet(Procs) /\ First \in Procs /\ IsFiniteSet(Keys)
    /\ NFrames \in Nat /\ NPages \in Nat /\ ImageLen \in 1 .. NFrames - 1
    /\ Touch \subseteq Pages /\ Starts \subseteq Pages /\ Cuts \subseteq Pages
    /\ Lens \subseteq Nat \ {0}
    /\ StackStart \in Nat /\ StackLen \in Nat \ {0} /\ StackStart + StackLen <= NPages
    /\ HeapGrow \in Nat \ {0} /\ \A a \in HeapPages : a + HeapGrow <= NPages
    /\ ImageStart \in Nat /\ ImageStart + ImageLen + 2 <= NPages
    /\ Offsets \subseteq Nat

MapPages == MapStart .. NPages - 1
Private == {"Stack", "Mmap"}

\* what a page can hold: nothing, a store, program text, or page k of the file
Stored == 1
Text == 2
FileValue(k) == 10 + k

NoMap == [f |-> 0, w |-> FALSE]
NoSeg == [frames |-> <<>>, deleted |-> FALSE]

VARIABLES space,   \* per process: areas, pt (page table), heap and shms
          data,    \* what each frame holds
          segs,    \* SHARED_MEMORY; NoSeg where there is no entry
          file,    \* what each page of the file holds
          life,    \* "unborn", "live", "dead" or "gone" (released)
          sigs,    \* the pending signals faults raise
          tls,     \* LAST_TLS_ADDR and TLS_COUNT
          halted,  \* the kernel has panicked
          steps,   \* the steps taken, which MaxSteps bounds
          maps     \* the calls of mmap, which MaxMaps bounds

vars == <<space, data, segs, file, life, sigs, tls, halted, steps, maps>>

-----------------------------------------------------------------------------
\* Frames, their holders and the address space

Trackers(spc) ==
    UNION {UNION {{<<p, i, t>> : t \in spc[p].areas[i].trk}
                    : i \in DOMAIN spc[p].areas} : p \in Procs}

Refs(spc, f) ==
    Cardinality({h \in Trackers(spc) : h[3].f = f})
      + Cardinality({k \in Keys : f \in Range(segs[k].frames)})

Held(spc, sg) ==
    {h[3].f : h \in Trackers(spc)} \cup UNION {Range(sg[k].frames) : k \in Keys}

\* Drop of FrameTracker clears a frame when its last holder lets go.
Cleared(d, spc, sg) ==
    LET freed == Held(space, segs) \ Held(spc, sg)
    IN [f \in Frames |-> IF f \in freed THEN 0 ELSE d[f]]

\* frame_alloc_much: the first run of n free frames, 0 if there is none
FirstRun(n, used) ==
    LET starts == {f \in Frames : \A i \in 0 .. n - 1 :
                       f + i \in Frames /\ f + i \notin used}
    IN IF starts = {} THEN 0 ELSE Min(starts)

TrackRun(v, f, n) == {[v |-> v + i, f |-> f + i] : i \in 0 .. n - 1}

\* The fallback of frame_alloc: runs of half of what remains, 1 to 16 pages; {}
\* when one cannot be had.
OneRun(v, n, used, s) ==
    LET size == Min({16, Max({1, s.left \div 2})})
        r == FirstRun(size, used \cup {t.f : t \in s.trks})
    IN IF s.left = 0 \/ r = 0 THEN s
       ELSE [trks |-> s.trks \cup TrackRun(v + (n - s.left), r, size),
             left |-> s.left - size]

Segmented(v, n, used) ==
    LET seg[k \in 0 .. n] == IF k = 0 THEN [trks |-> {}, left |-> n]
                             ELSE OneRun(v, n, used, seg[k - 1])
    IN IF seg[n].left = 0 THEN seg[n].trks ELSE {}

\* The trackers frame_alloc makes for n pages at v; {} when it fails.
FramesFor(v, mtype, n, used) ==
    LET r == FirstRun(n, used)
    IN IF r # 0 THEN TrackRun(v, r, n)
       ELSE IF mtype = "Mmap" /\ n > 1 THEN Segmented(v, n, used) ELSE {}

Map(pt, trks, w) ==
    [a \in Pages |-> IF \E t \in trks : t.v = a
                     THEN [f |-> (CHOOSE t \in trks : t.v = a).f, w |-> w]
                     ELSE pt[a]]

Unmap(pt, vs) == [a \in Pages |-> IF a \in vs THEN NoMap ELSE pt[a]]

NewArea(mtype, start, len, offset, isFile, trks) ==
    [mtype |-> mtype, start |-> start, len |-> len, offset |-> offset,
     file |-> isFile, trk |-> trks, base |-> start - offset]

Push(sp, x) == [sp EXCEPT !.areas = Append(@, x)]

\* map_frames: map the trackers, and add an area for them; a stack page goes
\* to the first area of the stack, even when a cut left the page outside it.
MapFrames(sp, mtype, trks, x, w) ==
    LET stacks == {i \in DOMAIN sp.areas : sp.areas[i].mtype = "Stack"}
        mapped == [sp EXCEPT !.pt = Map(@, trks, w)]
    IN IF mtype # "Stack" THEN Push(mapped, x)
       ELSE IF stacks # {}
       THEN [mapped EXCEPT !.areas[Min(stacks)].trk = @ \cup trks]
       ELSE Push(mapped, NewArea("Stack", StackStart, StackLen, 0, FALSE, trks))

\* frame_alloc of n pages at v that have been found
Grant(sp, mtype, v, n, trks) ==
    MapFrames(sp, mtype, trks, NewArea(mtype, v, n, 0, FALSE, trks), TRUE)

\* The elements of q at the indexes in I
Chosen(q, I) ==
    LET r[n \in 0 .. Len(q)] ==
            IF n = 0 THEN <<>> ELSE IF n \in I THEN Append(r[n - 1], q[n]) ELSE r[n - 1]
    IN r[Len(q)]

\* sub_area: every area loses the range, new upper parts are added at the end.
SubArea(sp, s, e) ==
    LET areas == sp.areas
        kept == [i \in DOMAIN areas |-> Kept(areas[i], s, e)]
        upper == [i \in DOMAIN areas |-> Upper(areas[i], s, e)]
    IN [sp EXCEPT
        !.areas = Chosen(kept, {i \in DOMAIN areas : kept[i].len # 0})
                    \o Chosen(upper, {i \in DOMAIN areas : Splits(areas[i], s, e)}),
        !.pt = Unmap(@, UNION {Unmapped(x, s, e) : x \in Range(areas)})]

\* Frames only one tracker holds: the Arc count Drop of MemArea looks at
Alone(spc) ==
    LET trks == Trackers(spc)
    IN {f \in Frames : Cardinality({h \in trks : h[3].f = f}) = 1}

\* The writes to the file of sub_area, the areas it removes included, and of
\* clearing a whole memory set.  A page below 0 wraps to an offset beyond every
\* page of the file; what such a write does to the file's length is left out.
SubWrites(areas, s, e, alone) ==
    UNION {WrittenBack(x, s, e)
             \cup (IF Kept(x, s, e).len = 0 THEN DropWrites(Kept(x, s, e), alone)
                   ELSE {}) : x \in Range(areas)}
ClearWrites(areas, alone) == UNION {DropWrites(x, alone) : x \in Range(areas)}

Write(fl, writes) ==
    [k \in FilePages |-> IF \E w \in writes : w.k = k
                         THEN data[(CHOOSE w \in writes : w.k = k).f]
                         ELSE fl[k]]

\* A mutant: the attached segments are not looked at.
last_free_of_areas(sp) ==
    Max({0} \cup {End(x) : x \in {y \in Range(sp.areas) : y.mtype # "Stack"}})

get_last_free_addr(sp) ==
    Max({0} \cup {End(x) : x \in {y \in Range(sp.areas) : y.mtype # "Stack"}}
            \cup {m.start + Len(segs[m.key].frames) : m \in Range(sp.shms)})

\* The program image and the stack, as exec leaves them
Image(sp, stack, text) ==
    LET base == [sp EXCEPT !.areas = <<>>, !.pt = [a \in Pages |-> NoMap],
                           !.heap = ImageStart + ImageLen]
    IN Grant(Grant(base, "Stack", StackStart + StackLen - 1, 1, stack),
             "Mmap", ImageStart, ImageLen, text)

Empty == [areas |-> <<>>, pt |-> [a \in Pages |-> NoMap], heap |-> 0, shms |-> <<>>]

Init ==
    /\ space = [p \in Procs |->
                  IF p = First
                  THEN Image(Empty, TrackRun(StackStart + StackLen - 1, 1, 1),
                             TrackRun(ImageStart, 2, ImageLen))
                  ELSE Empty]
    /\ data = [f \in Frames |-> IF f \in 2 .. ImageLen + 1 THEN Text ELSE 0]
    /\ segs = [k \in Keys |-> NoSeg]
    /\ file = [k \in FilePages |-> FileValue(k)]
    /\ life = [p \in Procs |-> IF p = First THEN "live" ELSE "unborn"]
    /\ sigs = [p \in Procs |-> {}]
    /\ tls = [last |-> 0, count |-> 0]
    /\ halted = FALSE
    /\ steps = 0
    /\ maps = 0

Runs(p) == ~halted /\ life[p] = "live" /\ steps < MaxSteps /\ steps' = steps + 1

\* every step but mmap
Step(p) == Runs(p) /\ UNCHANGED maps

\* the new space of p, with the frames it gave up cleared
Becomes(p, sp, d) ==
    /\ space' = [space EXCEPT ![p] = sp]
    /\ data' = Cleared(d, space', segs)

Segv(p) == sigs' = [sigs EXCEPT ![p] = @ \cup {"SIGSEGV"}]

\* AsyncTask::exit of a process without threads: the memory set is cleared.
Exit(p) ==
    /\ Becomes(p, [space[p] EXCEPT !.areas = <<>>], data)
    /\ file' = Write(file, ClearWrites(space[p].areas, Alone(space)))
    /\ life' = [life EXCEPT ![p] = "dead"]


-----------------------------------------------------------------------------
\* Page faults

\* a store to a page the page table lets the process write
Store(p, a) ==
    /\ Step(p) /\ space[p].pt[a].w
    /\ data' = [data EXCEPT ![space[p].pt[a].f] = Stored]
    /\ UNCHANGED <<space, segs, file, life, sigs, tls, halted>>

\* The index of the first area that contains the page, 0 if there is none
AreaAt(sp, a) ==
    LET hits == {i \in DOMAIN sp.areas : Covers(sp.areas[i], a)}
    IN IF hits = {} THEN 0 ELSE Min(hits)

\* user_cow_int, in an area, on a page that has a tracker: a frame that others
\* hold is copied, then the page is mapped for writing.
cow(p, a, i, t) ==
    LET f == FirstRun(1, Held(space, segs))
        own == Refs(space, t.f) = 1
    IN IF space[p].areas[i].mtype = "Shared" \/ (~own /\ f = 0)
       THEN Segv(p) /\ UNCHANGED <<space, data>>
       ELSE LET g == IF own THEN t.f ELSE f
            IN /\ Becomes(p, [space[p] EXCEPT
                                !.areas[i].trk = (@ \ {t}) \cup {[v |-> a, f |-> g]},
                                !.pt[a] = [f |-> g, w |-> TRUE]],
                          [data EXCEPT ![g] = data[t.f]])
               /\ UNCHANGED sigs

\* user_cow_int, in an area, on a page without a tracker: a new frame, read
\* from the file if the area has one.
fill(p, a, i) ==
    LET used == Held(space, segs)
        f == FirstRun(1, used)
        x == space[p].areas[i]
        k == PageOf(x, a)
    IN IF NFrames - Cardinality(used) < LowWater \/ f = 0
       THEN Segv(p) /\ UNCHANGED <<space, data>>
       ELSE /\ space' = [space EXCEPT
                           ![p].areas[i].trk = @ \cup {[v |-> a, f |-> f]},
                           ![p].pt[a] = [f |-> f, w |-> TRUE]]
            /\ data' = IF x.file /\ k \in FilePages
                       THEN [data EXCEPT ![f] = file[k]] ELSE data
            /\ UNCHANGED sigs

FaultInArea(p, a) ==
    LET i == AreaAt(space[p], a)
        found == {t \in space[p].areas[i].trk : t.v = a}
    IN /\ i # 0
       /\ \/ \E t \in found : cow(p, a, i, t)
          \/ found = {} /\ fill(p, a, i)
       /\ UNCHANGED <<file, life, tls>>

\* frame_alloc of n pages at a, holding d; SIGSEGV if there are none
GrowOrSegv(p, a, mtype, n, d) ==
    LET trks == FramesFor(a, mtype, n, Held(space, segs))
    IN IF trks = {} THEN Segv(p) /\ UNCHANGED <<space, data>>
       ELSE /\ Becomes(p, Grant(space[p], mtype, a, n, trks),
                       [f \in Frames |-> IF d # 0 /\ \E t \in trks : t.f = f
                                         THEN d ELSE data[f]])
            /\ UNCHANGED sigs

FaultStack(p, a) ==
    /\ a \in StackPages
    /\ GrowOrSegv(p, a, "Stack", 1, 0)
    /\ UNCHANGED <<file, life, tls>>

\* The null page: a second fault while SIGSEGV is pending ends the process.
FaultNull(p, a) ==
    /\ a = 0
    /\ IF "SIGSEGV" \in sigs[p]
       THEN Exit(p) /\ UNCHANGED sigs
       ELSE Segv(p) /\ UNCHANGED <<space, data, file, life>>
    /\ UNCHANGED tls

\* get_elf_segment_for_addr for a page no area contains: the page of the file
\* that would follow the area below the gap, -1 if there is none.
ElfSegment(sp, a) ==
    LET gaps == {i \in 1 .. Len(sp.areas) - 1 :
                    /\ sp.areas[i].file
                    /\ Between(a, End(sp.areas[i]), sp.areas[i + 1].start)}
    IN IF gaps = {} THEN -1 ELSE PageOf(sp.areas[Min(gaps)], a)

\* A page of the file, or a blank one.  A page beyond the end of the file is left
\* unmapped and no signal is raised.
Load(p, a) ==
    LET k == ElfSegment(space[p], a)
    IN IF k >= NFilePages
       THEN UNCHANGED <<space, data, sigs>>
       ELSE GrowOrSegv(p, a, "Mmap", 1, IF k = -1 THEN 0 ELSE file[k])

FaultLow(p, a) == a \in ElfPages /\ Load(p, a) /\ UNCHANGED <<file, life, tls>>

FaultGap(p, a) == a \in GapPages /\ Load(p, a) /\ UNCHANGED <<file, life, tls>>

\* HeapGrow pages from the faulting one on, whatever is mapped above it.
FaultHeap(p, a) ==
    /\ a \in HeapPages
    /\ GrowOrSegv(p, a, "Mmap", HeapGrow, 0)
    /\ UNCHANGED <<file, life, tls>>

\* The region of thread-local storage: the fourth fault in a row at one page,
\* of any process, ends the process.
FaultTls(p, a) ==
    LET again == tls.last = a
        count == IF again THEN tls.count + 1 ELSE 1
    IN /\ a \in MapPages
       /\ IF count > 3
          THEN /\ Exit(p)
               /\ tls' = [last |-> a, count |-> count]
               /\ UNCHANGED sigs
          ELSE /\ GrowOrSegv(p, a, "Mmap", 1, 0)
               /\ tls' = [last |-> a, count |-> IF space' = space THEN count ELSE 0]
               /\ UNCHANGED <<file, life>>

FaultElse(p, a) ==
    /\ a \notin {0} \cup StackPages \cup ElfPages \cup GapPages \cup HeapPages \cup MapPages
    /\ Segv(p)
    /\ UNCHANGED <<space, data, file, life, tls>>

\* user_cow_int: a load of a page that is not mapped, or a store to one that is
\* not writable
user_cow_int(p, a) ==
    /\ Step(p) /\ ~space[p].pt[a].w
    /\ \/ FaultInArea(p, a)
       \/ /\ AreaAt(space[p], a) = 0
          /\ \/ FaultStack(p, a)
             \/ FaultNull(p, a)
             \/ FaultLow(p, a)
             \/ FaultGap(p, a)
             \/ FaultHeap(p, a)
             \/ FaultTls(p, a)
             \/ FaultElse(p, a)
    /\ UNCHANGED <<segs, halted>>

\* task_ilegal: the instruction is skipped where the program counter is the
\* address of a tracker, the first of a page; otherwise SIGILL.
task_ilegal(p, a, aligned) ==
    LET i == AreaAt(space[p], a)
        known == i # 0 /\ \E t \in space[p].areas[i].trk : t.v = a
    IN /\ Step(p)
       /\ ~(aligned /\ known)
       /\ sigs' = [sigs EXCEPT ![p] = @ \cup {"SIGILL"}]
       /\ UNCHANGED <<space, data, segs, file, life, tls, halted>>

\* The default action of a pending signal, at the return to user mode
Deliver(p) ==
    /\ Step(p) /\ sigs[p] # {}
    /\ Exit(p)
    /\ sigs' = [sigs EXCEPT ![p] = {}]
    /\ UNCHANGED <<segs, tls, halted>>


-----------------------------------------------------------------------------
\* System calls

\* A file descriptor given to mmap: none (or MAP_ANONYMOUS), a regular file, or
\* a node that cannot be read
Backing == {"none", "regular", "unreadable"}

\* The values of the pages of the file from off on, loaded at trks
Loaded(d, fl, trks, addr, off) ==
    [f \in Frames |->
        LET at == {t \in trks : t.f = f /\ off + t.v - addr \in FilePages}
        IN IF at = {} THEN d[f] ELSE fl[off + (CHOOSE t \in at : TRUE).v - addr]]

\* sys_mmap of n > 0 pages.  MAP_FIXED cuts the range out first; another range
\* must not overlap an area (attached segments are not looked at).  Shared
\* mappings and private mappings of a file get their frames at once, a private
\* anonymous one gets them as it faults.  The file is then read through the new
\* mapping, which makes the pages it fills writable.
sys_mmap(p, start, n, fixed, shared, back, off, w) ==
    LET sp == space[p]
        addr == IF start = 0 THEN Max({get_last_free_addr(sp), MapStart}) ELSE start
        hit == \E x \in Range(sp.areas) : Overlapping(x, addr, addr + n)
        cut == IF fixed /\ hit THEN SubArea(sp, addr, addr + n) ELSE sp
        fl == IF fixed /\ hit
              THEN Write(file, SubWrites(sp.areas, addr, addr + n, Alone(space)))
              ELSE file
        used == Held([space EXCEPT ![p] = cut], segs)
        d == Cleared(data, [space EXCEPT ![p] = cut], segs)
        r == FirstRun(n, used)
        mtype == IF ~shared THEN "Mmap" ELSE IF back = "none" THEN "Shared" ELSE "ShareFile"
        trks == IF mtype = "ShareFile"
                THEN (IF r = 0 THEN {} ELSE TrackRun(addr, r, n))
                ELSE FramesFor(addr, mtype, n, used)
        area == NewArea(mtype, addr, n, IF mtype = "ShareFile" THEN off ELSE 0,
                        mtype = "ShareFile", trks)
        inFile == {t \in trks : off + t.v - addr \in FilePages}
        mapped == MapFrames(cut, mtype, trks, area, mtype = "Mmap" \/ w)
    IN /\ Runs(p) /\ maps < MaxMaps /\ maps' = maps + 1
       /\ addr \in 0 .. NPages - n
       /\ fixed \/ ~hit
       /\ IF back = "none" /\ ~shared
          THEN /\ Becomes(p, Push(cut, NewArea("Mmap", addr, n, 0, FALSE, {})), data)
               /\ file' = fl
               /\ UNCHANGED halted
          ELSE IF trks = {}              \* EFAULT
          THEN Becomes(p, cut, data) /\ file' = fl /\ UNCHANGED halted
          ELSE IF back = "unreadable" /\ ~shared
          THEN \* the error path of readat takes the new area out again
               /\ Becomes(p, SubArea(mapped, addr, addr + n), data)
               /\ file' = fl
               /\ UNCHANGED halted
          ELSE IF back = "unreadable"
          THEN \* ... and writes the pages of a shared one back: expect fails
               halted' = TRUE /\ UNCHANGED <<space, data, file>>
          ELSE /\ Becomes(p, [mapped EXCEPT !.pt =
                                Map(@, IF back = "regular" THEN inFile ELSE {}, TRUE)],
                          IF back = "regular" THEN Loaded(d, fl, trks, addr, off) ELSE d)
               /\ file' = fl
               /\ UNCHANGED halted
       /\ UNCHANGED <<segs, life, sigs, tls>>

sys_munmap(p, s, n) ==
    /\ Step(p)
    /\ Becomes(p, SubArea(space[p], s, s + n), data)
    /\ file' = Write(file, SubWrites(space[p].areas, s, s + n, Alone(space)))
    /\ UNCHANGED <<segs, life, sigs, tls, halted>>

\* sbrk: a page, and an area, for each page from the old end to the new one; a
\* frame that cannot be had is skipped.  Shrinking gives nothing back.
GrownPage(p, sp, h) ==
    LET trks == FramesFor(h, "Mmap", 1, Held([space EXCEPT ![p] = sp], segs))
    IN IF trks = {} THEN sp ELSE Grant(sp, "Mmap", h, 1, trks)

Grown(p, b) ==
    LET old == space[p].heap
        m == IF b > old THEN b - old ELSE 0
        g[n \in 0 .. m] == IF n = 0 THEN space[p]
                           ELSE GrownPage(p, g[n - 1], old + (n - 1))
    IN g[m]

sys_brk(p, b) ==
    /\ Step(p)
    /\ Becomes(p, [Grown(p, b) EXCEPT !.heap = b], data)
    /\ UNCHANGED <<segs, file, life, sigs, tls, halted>>

\* The page table after cow_fork has gone over the areas in order.  Of two trackers
\* that one area has for a page (a hole in the stack that faulted in again) either
\* may be the one that stays.
ForkMapped(pt, areas) ==
    [a \in Pages |->
        LET has == {i \in DOMAIN areas : \E t \in areas[i].trk : t.v = a}
            x == areas[Max(has)]
        IN IF has = {} THEN pt[a]
           ELSE [f |-> (CHOOSE t \in x.trk : t.v = a).f, w |-> x.mtype \notin Private]]

SegTrackers(m) == {[v |-> m.start + i - 1, f |-> segs[m.key].frames[i]]
                      : i \in DOMAIN segs[m.key].frames}

\* ... and then over the attached segments
AttachedMapped(pt, shms) ==
    [a \in Pages |->
        LET has == {i \in DOMAIN shms : \E u \in SegTrackers(shms[i]) : u.v = a}
            m == shms[Max(has)]
        IN IF has = {} THEN pt[a]
           ELSE [f |-> (CHOOSE u \in SegTrackers(m) : u.v = a).f, w |-> TRUE]]

\* A mutant: the parent keeps its writable pages.
cow_fork_parent_keeps(p, q) ==
    LET sp == space[p]
        child == [sp EXCEPT !.pt = AttachedMapped(
                     ForkMapped([a \in Pages |-> NoMap], sp.areas), sp.shms)]
    IN /\ Step(p) /\ life[q] = "unborn"
       /\ space' = [space EXCEPT ![q] = child]
       /\ life' = [life EXCEPT ![q] = "live"]
       /\ UNCHANGED <<data, segs, file, sigs, tls, halted>>

\* cow_fork: the child holds the same frames; both map private pages read-only.
cow_fork(p, q) ==
    LET sp == space[p]
        child == [sp EXCEPT !.pt = AttachedMapped(
                     ForkMapped([a \in Pages |-> NoMap], sp.areas), sp.shms)]
    IN /\ Step(p) /\ life[q] = "unborn"
       /\ space' = [space EXCEPT ![q] = child,
                                 ![p].pt = ForkMapped(@, sp.areas)]
       /\ life' = [life EXCEPT ![q] = "live"]
       /\ UNCHANGED <<data, segs, file, sigs, tls, halted>>

sys_exit(p) ==
    /\ Step(p)
    /\ Exit(p)
    /\ UNCHANGED <<segs, sigs, tls, halted>>

\* exec_with_process.  The old memory goes first, so a file that cannot be
\* opened is noticed too late.  A script holds the frames its text was read to
\* while the shell is loaded; a program with an interpreter gives them back.
exec_with_process(p, kind) ==
    LET gone == [space EXCEPT ![p] = [@ EXCEPT !.areas = <<>>,
                                               !.pt = [a \in Pages |-> NoMap]]]
        used == Held(gone, segs)
        outer == FirstRun(BufferLen, used)
        used1 == IF kind = "script" THEN used \cup (outer .. outer + BufferLen - 1) ELSE used
        inner == FirstRun(BufferLen, used1)
        used2 == used1 \cup (inner .. inner + BufferLen - 1)
        stack == FramesFor(StackStart + StackLen - 1, "Stack", 1, used2)
        text == FramesFor(ImageStart, "Mmap", ImageLen,
                          used2 \cup {t.f : t \in stack})
    IN /\ Step(p)
       /\ file' = Write(file, ClearWrites(space[p].areas, Alone(space)))
       /\ IF kind = "missing"
          THEN Becomes(p, gone[p], data) /\ UNCHANGED halted
          ELSE IF 0 \in {outer, inner} \/ {} \in {stack, text}
          THEN halted' = TRUE /\ UNCHANGED <<space, data>>
          ELSE /\ Becomes(p, Image(space[p], stack, text),
                          [f \in Frames |-> IF \E t \in text : t.f = f THEN Text
                                            ELSE IF \E t \in stack : t.f = f THEN Stored
                                            ELSE Cleared(data, gone, segs)[f]])
               /\ UNCHANGED halted
       /\ UNCHANGED <<segs, life, sigs, tls>>

\* sys_shmget with a key, IPC_CREAT set or not
sys_shmget(p, k, n, create) ==
    LET r == FirstRun(n, Held(space, segs))
    IN /\ Step(p)
       /\ segs[k] = NoSeg /\ create
       /\ IF r = 0 THEN halted' = TRUE /\ UNCHANGED segs
          ELSE /\ segs' = [segs EXCEPT ![k] = [frames |-> [i \in 1 .. n |-> r + i - 1],
                                               deleted |-> FALSE]]
               /\ UNCHANGED halted
       /\ UNCHANGED <<space, data, file, life, sigs, tls>>

\* sys_shmat, at an address or above all areas and attached segments
sys_shmat(p, k, at) ==
    LET sp == space[p]
        addr == IF at = 0 THEN Max({get_last_free_addr(sp), ShmStart}) ELSE at
        m == [key |-> k, start |-> addr]
    IN /\ Step(p)
       /\ segs[k] # NoSeg
       /\ Len(sp.shms) < MaxAttach
       /\ addr \in 0 .. NPages - Len(segs[k].frames)
       /\ space' = [space EXCEPT ![p].pt = Map(@, SegTrackers(m), TRUE),
                                 ![p].shms = Append(@, m)]
       /\ UNCHANGED <<data, segs, file, life, sigs, tls, halted>>

\* sys_shmctl, IPC_RMID
sys_shmctl(p, k) ==
    /\ Step(p)
    /\ segs[k] # NoSeg
    /\ segs' = [segs EXCEPT ![k].deleted = TRUE]
    /\ UNCHANGED <<space, data, file, life, sigs, tls, halted>>

\* The Arcs to a segment: one in the table, one in each attachment
MemCount(spc, k) ==
    1 + Cardinality(UNION {{<<p, i>> : i \in {j \in DOMAIN spc[p].shms : spc[p].shms[j].key = k}}
                              : p \in Procs})

\* The last reference to a dead process goes: Drop of each MapedSharedMemory,
\* while the others and the table still hold the segment.
release(p) ==
    LET drop == {k \in Keys : /\ \E m \in Range(space[p].shms) : m.key = k
                              /\ MemCount(space, k) = 1 /\ segs[k].deleted}
    IN /\ ~halted /\ life[p] = "dead" /\ steps < MaxSteps /\ steps' = steps + 1 /\ UNCHANGED maps
       /\ segs' = [k \in Keys |-> IF k \in drop THEN NoSeg ELSE segs[k]]
       /\ space' = [space EXCEPT ![p] = Empty]
       /\ life' = [life EXCEPT ![p] = "gone"]
       /\ UNCHANGED <<data, file, sigs, tls, halted>>

\* sys_get_robust_list: zeros are written through the page table's translation,
\* whatever it says about writing.
sys_get_robust_list(p, a) ==
    /\ Step(p) /\ space[p].pt[a] # NoMap
    /\ data' = [data EXCEPT ![space[p].pt[a].f] = 0]
    /\ UNCHANGED <<space, segs, file, life, sigs, tls, halted>>


\* the mappings that are asked for: private and shared, anonymous and of a file
MmapModes ==
    [shared : {FALSE}, back : Backing, off : {0}, w : {TRUE}]
      \cup [shared : {TRUE}, back : {"none", "unreadable"}, off : {0}, w : {FALSE}]
      \cup [shared : {TRUE}, back : {"regular"}, off : Offsets, w : {FALSE}]

Next ==
    \E p \in Procs :
        \/ \E a \in Touch : \/ Store(p, a)
                            \/ user_cow_int(p, a)
                            \/ \E al \in BOOLEAN : task_ilegal(p, a, al)
                            \/ sys_get_robust_list(p, a)
        \/ Deliver(p)
        \/ \E s \in Starts \cup {0}, n \in Lens, m \in MmapModes :
              \E fixed \in {FALSE, s # 0} :   \* a chosen address hits no area
                 sys_mmap(p, s, n, fixed, m.shared, m.back, m.off, m.w)
        \/ \E s \in Cuts, n \in Lens : sys_munmap(p, s, n)
        \/ \E b \in ImageStart + ImageLen .. ImageStart + ImageLen + 2 : sys_brk(p, b)
        \/ \E q \in Procs : cow_fork(p, q)
        \/ sys_exit(p)
        \/ release(p)
        \/ \E kind \in {"elf", "script", "missing"} : exec_with_process(p, kind)
        \/ \E k \in Keys : \/ \E n \in Lens, c \in BOOLEAN : sys_shmget(p, k, n, c)
                           \/ \E at \in Starts \cup {0} : sys_shmat(p, k, at)
                           \/ sys_shmctl(p, k)

Spec == Init /\ [][Next]_vars

-----------------------------------------------------------------------------
\* Properties

\* The page table entry of a page agrees with an area or an attached segment.
Backed(p, a) ==
    \/ \E x \in Range(space[p].areas) :
          Covers(x, a) /\ [v |-> a, f |-> space[p].pt[a].f] \in x.trk
    \/ \E m \in Range(space[p].shms) : [v |-> a, f |-> space[p].pt[a].f] \in SegTrackers(m)

\* The trackers of a process, in an area that covers their page or not, and those
\* of the segments it has attached: the frames it keeps from being given away.
Holdings(p) ==
    UNION ({x.trk : x \in Range(space[p].areas)}
             \cup {SegTrackers(m) : m \in Range(space[p].shms)})

\* The pages of a process whose page table entry leads to a frame that it no
\* longer holds for them.
Dangling(p) ==
    IF life[p] = "live"
    THEN {a \in Pages : /\ space[p].pt[a] # NoMap
                        /\ [v |-> a, f |-> space[p].pt[a].f] \notin Holdings(p)}
    ELSE {}

\* Copy on write isolates processes: a page of a private area that a process can
\* write without a fault is held by no other process, whatever forks, faults,
\* exits and unmappings went before (cow_fork and user_cow_int).
WritableExclusive ==
    \A p \in Procs : life[p] = "live" =>
        \A x \in Range(space[p].areas) : \A t \in x.trk :
            (x.mtype \in Private /\ Covers(x, t.v) /\ space[p].pt[t.v] = [f |-> t.f, w |-> TRUE])
                => Refs(space, t.f) = 1

\* A page table entry outlives the tracker of its frame, which can then be given
\* to somebody else, only when MemArea::sub splits the area that has the tracker.
\* Every other unmapping, and every exec, fork, fault or attachment, leaves the
\* process with a tracker for each page it can reach: the child of a process with
\* a hole in an area, and a stack page that faults in where the stack was cut,
\* included.
DanglingOnlyBySplit ==
    [][\A p \in Procs : \A a \in Dangling(p)' \ Dangling(p) :
          \E x \in Range(space[p].areas), y \in Range(space'[p].areas) \ Range(space[p].areas) :
              /\ [v |-> a, f |-> space[p].pt[a].f] \in x.trk
              /\ x.start < y.start /\ End(y) = End(x) /\ y.trk = {}]_vars

\* A page of the file changes only to what a page in memory holds that mmap
\* placed there for that very page of the file (write_page, Drop of MemArea).  The
\* exception is an area that does not start with page 0 of the file, because it was
\* mapped with an offset, lost its front or is the upper part of a split: its
\* pages are written back too far to the front.
WriteBackInPlace ==
    [][\A k \in FilePages : file'[k] # file[k] =>
          \E p \in Procs : \E x \in Range(space[p].areas) : \E t \in x.trk :
              /\ x.file /\ data[t.f] = file'[k]
              /\ \/ Home(x, t.v) = k
                 \/ Home(x, x.start) # 0 /\ k < Home(x, t.v)]_vars

\* An address the kernel chooses for mmap or shmat (get_last_free_addr) is free:
\* no page from there on is mapped to something the process still has, except
\* that attached segments can grow into the stack.
AutoPlacementFree ==
    [][\A p \in Procs :
          LET last == get_last_free_addr(space[p])
              mapped == {[lo |-> x.start, hi |-> End(x)]
                            : x \in {y \in Range(space'[p].areas) \ Range(space[p].areas) :
                                        y.start = Max({last, MapStart})}}
              attached == {[lo |-> m.start, hi |-> m.start + Len(segs[m.key].frames)]
                            : m \in {n \in Range(space'[p].shms) \ Range(space[p].shms) :
                                        n.start = Max({last, ShmStart})}}
          IN life[p] = "live" =>
                \A r \in mapped \cup attached : \A a \in Pages \ StackPages :
                    Between(a, r.lo, r.hi) => ~Backed(p, a)]_vars

=============================================================================
