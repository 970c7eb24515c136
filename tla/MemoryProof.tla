---------------------------- MODULE MemoryProof -----------------------------
(***************************************************************************)
(* Copy on write isolates any number of processes, with any number of      *)
(* pages, frames and segments: a frame that a process can write through a  *)
(* page of a private area is tracked by no other process.  The lemmas on   *)
(* one address space, and the inductive invariant, are in MemorySpace.     *)
(***************************************************************************)
EXTENDS MemorySpace

-----------------------------------------------------------------------------
(* How many hold a frame                                                   *)

HoldersOf(spc, f) == {h \in Trackers(spc) : h[3].f = f}

\* A holder of a frame is a process, one of its areas and a tracker there.
LEMMA HoldersAre ==
  ASSUME NEW spc \in [Procs -> Space], NEW f, NEW h \in HoldersOf(spc, f)
  PROVE  \E p \in Procs : \E i \in DOMAIN spc[p].areas : \E t \in spc[p].areas[i].trk :
            h = <<p, i, t>> /\ t.f = f
<1>0. PICK p \in Procs : h \in UNION {{<<p, i, t>> : t \in spc[p].areas[i].trk}
                                          : i \in DOMAIN spc[p].areas}
  BY DEF HoldersOf, Trackers
<1>3. PICK i \in DOMAIN spc[p].areas : h \in {<<p, i, t>> : t \in spc[p].areas[i].trk}
  BY <1>0
<1>1. PICK t \in spc[p].areas[i].trk : h = <<p, i, t>>
  BY <1>3
<1>2. h[3] = t /\ h[3].f = f
  BY <1>1 DEF HoldersOf
<1> QED BY <1>1, <1>2

\* A process holds a frame once at most, so that there are as many holders as
\* processes at most.
LEMMA HoldersFinite ==
  ASSUME NEW spc, NEW sg, Isolated(spc, sg), NEW f
  PROVE  IsFiniteSet(HoldersOf(spc, f))
<1> DEFINE H == HoldersOf(spc, f)
           who == [h \in H |-> h[1]]
<1>0. spc \in [Procs -> Space]
  BY DEF Isolated
<1>1. ASSUME NEW h \in H, NEW g \in H, h[1] = g[1] PROVE h = g
  <2>1. PICK p \in Procs : \E i \in DOMAIN spc[p].areas : \E t \in spc[p].areas[i].trk :
            h = <<p, i, t>> /\ t.f = f
    BY <1>0, HoldersAre
  <2>2. PICK i \in DOMAIN spc[p].areas : \E t \in spc[p].areas[i].trk :
            h = <<p, i, t>> /\ t.f = f
    BY <2>1
  <2>3. PICK t \in spc[p].areas[i].trk : h = <<p, i, t>> /\ t.f = f
    BY <2>2
  <2>4. PICK q \in Procs : \E j \in DOMAIN spc[q].areas : \E u \in spc[q].areas[j].trk :
            g = <<q, j, u>> /\ u.f = f
    BY <1>0, HoldersAre
  <2>5. PICK j \in DOMAIN spc[q].areas : \E u \in spc[q].areas[j].trk :
            g = <<q, j, u>> /\ u.f = f
    BY <2>4
  <2>6. PICK u \in spc[q].areas[j].trk : g = <<q, j, u>> /\ u.f = f
    BY <2>5
  <2>7. h[1] = p /\ g[1] = q
    BY <2>3, <2>6
  <2>8. p = q
    BY Zenon, <1>1, <2>7
  <2>9. Single(spc[p])
    BY DEF Isolated
  <2>10. i = j /\ t = u
    BY <2>3, <2>6, <2>8, <2>9 DEF Single
  <2> QED BY <2>3, <2>6, <2>8, <2>10
<1>2. ASSUME NEW h \in H PROVE h[1] \in Procs
  <2>1. PICK p \in Procs : \E i \in DOMAIN spc[p].areas : \E t \in spc[p].areas[i].trk :
            h = <<p, i, t>> /\ t.f = f
    BY <1>0, HoldersAre
  <2>2. h[1] = p
    BY <2>1
  <2> QED BY <2>2
<1> HIDE DEF H
<1>3. who \in [H -> Procs]
  BY <1>2
<1>4. who \in Injection(H, Procs)
  BY <1>1, <1>3 DEF Injection, IsInjective
<1>5. IsFiniteSet(Procs)
  BY MemoryAssumption
<1>7. IsFiniteSet(H)
  BY <1>4, <1>5, FS_Injection
<1> QED BY <1>7 DEF H

\* A frame with one reference is tracked by one process only.
LEMMA OwnIs ==
  ASSUME Isolated(space, segs), NEW p \in Procs, NEW f \in Tracked(space[p]), Refs(space, f) = 1
  PROVE  \A q \in Procs : q # p => f \notin Tracked(space[q])
<1> DEFINE H == HoldersOf(space, f)
           K == {k \in Keys : f \in Range(segs[k].frames)}
<1>1. IsFiniteSet(H)
  BY HoldersFinite
<1>2. IsFiniteSet(K)
  <2>1. K \in SUBSET Keys /\ IsFiniteSet(Keys)
    BY MemoryAssumption
  <2> HIDE DEF K
  <2> QED BY <2>1, FS_Subset
<1>3. Refs(space, f) = Cardinality(H) + Cardinality(K)
  BY DEF Refs, HoldersOf
<1>4. ASSUME NEW q \in Procs, f \in Tracked(space[q])
      PROVE  \E h \in H : h[1] = q
  <2>1. PICK i \in DOMAIN space[q].areas : \E t \in space[q].areas[i].trk : t.f = f
    BY <1>4 DEF Tracked
  <2>2. PICK t \in space[q].areas[i].trk : t.f = f
    BY <2>1
  <2>3. <<q, i, t>> \in Trackers(space)
    BY DEF Trackers
  <2>4. <<q, i, t>>[3] = t /\ <<q, i, t>>[1] = q
    OBVIOUS
  <2> QED BY <2>2, <2>3, <2>4 DEF HoldersOf
<1> HIDE DEF H, K
<1>5. Cardinality(H) \in Nat /\ Cardinality(K) \in Nat
  BY <1>1, <1>2, FS_CardinalityType
<1>6. H # {}
  BY <1>4
<1>7. Cardinality(H) # 0
  BY <1>1, <1>6, FS_EmptySet
<1>8. Cardinality(H) = 1
  BY <1>3, <1>5, <1>7
<1>9. PICK h : H = {h}
  BY Zenon, <1>1, <1>8, FS_Singleton
<1>10. h[1] = p
  BY <1>4, <1>9
<1> QED BY <1>4, <1>9, <1>10

\* A frame that one process tracks, and no segment has, has one reference.
LEMMA OneRef ==
  ASSUME Isolated(space, segs), NEW p \in Procs, NEW f \in Tracked(space[p]),
         \A q \in Procs : q # p => f \notin Tracked(space[q])
  PROVE  Refs(space, f) = 1
<1> DEFINE H == HoldersOf(space, f)
           K == {k \in Keys : f \in Range(segs[k].frames)}
<1>0. space \in [Procs -> Space]
  BY DEF Isolated
<1>1. K = {}
  <2>1. f \notin SegFrames(segs)
    BY DEF Isolated
  <2> QED BY <2>1 DEF SegFrames
<1>2. Refs(space, f) = Cardinality(H) + Cardinality(K)
  BY DEF Refs, HoldersOf
<1>3. PICK i \in DOMAIN space[p].areas : \E t \in space[p].areas[i].trk : t.f = f
  BY DEF Tracked
<1>4. PICK t \in space[p].areas[i].trk : t.f = f
  BY <1>3
<1>5. <<p, i, t>> \in H
  <2>1. <<p, i, t>> \in Trackers(space)
    BY DEF Trackers
  <2>2. <<p, i, t>>[3] = t
    OBVIOUS
  <2> QED BY <1>4, <2>1, <2>2 DEF HoldersOf
<1>6. ASSUME NEW h \in H PROVE h = <<p, i, t>>
  <2>1. PICK q \in Procs : \E j \in DOMAIN space[q].areas : \E u \in space[q].areas[j].trk :
            h = <<q, j, u>> /\ u.f = f
    BY <1>0, HoldersAre
  <2>2. PICK j \in DOMAIN space[q].areas : \E u \in space[q].areas[j].trk :
            h = <<q, j, u>> /\ u.f = f
    BY <2>1
  <2>3. PICK u \in space[q].areas[j].trk : h = <<q, j, u>> /\ u.f = f
    BY <2>2
  <2>4. f \in Tracked(space[q])
    BY <1>0, <2>3, AreaIs
  <2>5. q = p /\ Single(space[p])
    BY <2>4 DEF Isolated
  <2>6. j = i /\ u = t
    BY <1>4, <2>3, <2>5 DEF Single
  <2> QED BY <2>3, <2>5, <2>6
<1> HIDE DEF H, K
<1>7. H = {<<p, i, t>>}
  BY <1>5, <1>6
<1>8. Cardinality(H) = 1
  BY Zenon, <1>7, FS_Singleton
<1>9. Cardinality(K) = 0
  BY <1>1, FS_EmptySet
<1> QED BY <1>2, <1>8, <1>9

-----------------------------------------------------------------------------
(* fork                                                                    *)

\* cow_fork maps the pages of private areas read-only, in either table.
LEMMA ForkMappedIs ==
  ASSUME NEW sp \in Space, NEW pt \in Table
  PROVE  /\ ForkMapped(pt, sp.areas) \in Table
         /\ \A a \in Pages : (\E i \in DOMAIN sp.areas : \E t \in sp.areas[i].trk : t.v = a) =>
               \E i \in DOMAIN sp.areas : \E t \in sp.areas[i].trk :
                  ForkMapped(pt, sp.areas)[a] = [f |-> t.f, w |-> sp.areas[i].mtype \notin Private]
<1> DEFINE new == ForkMapped(pt, sp.areas)
           has(a) == {i \in DOMAIN sp.areas : \E t \in sp.areas[i].trk : t.v = a}
<1>1. ASSUME NEW a \in Pages, has(a) # {}
      PROVE  \E i \in DOMAIN sp.areas : \E t \in sp.areas[i].trk :
                new[a] = [f |-> t.f, w |-> sp.areas[i].mtype \notin Private]
  <2> DEFINE i == Max(has(a))
             t == CHOOSE u \in sp.areas[i].trk : u.v = a
  <2>1. has(a) \subseteq 0 .. Len(sp.areas) /\ Len(sp.areas) \in Nat
    BY AreaIs
  <2>2. i \in has(a)
    BY Zenon, <1>1, <2>1, MaxIn
  <2>3. new[a] = [f |-> t.f, w |-> sp.areas[i].mtype \notin Private]
    BY Zenon, <1>1 DEF ForkMapped
  <2> HIDE DEF i
  <2>4. t \in sp.areas[i].trk
    BY Z3T(30), <2>2
  <2> HIDE DEF t
  <2> QED BY <2>2, <2>3, <2>4
<1>2. ASSUME NEW a \in Pages, has(a) = {} PROVE new[a] = pt[a]
  BY Zenon, <1>2 DEF ForkMapped
<1>3. ASSUME NEW a \in Pages PROVE new[a] \in [f : 0 .. NFrames, w : BOOLEAN]
  <2>1. CASE has(a) = {}
    BY <1>2, <2>1 DEF Table
  <2>2. CASE has(a) # {}
    <3>1. PICK i \in DOMAIN sp.areas : \E t \in sp.areas[i].trk :
             new[a] = [f |-> t.f, w |-> sp.areas[i].mtype \notin Private]
      BY Zenon, <1>1, <2>2
    <3>2. PICK t \in sp.areas[i].trk :
             new[a] = [f |-> t.f, w |-> sp.areas[i].mtype \notin Private]
      BY <3>1
    <3>3. t.f \in 0 .. NFrames
      <4>1. t.f \in Frames
        BY AreaIs
      <4> QED BY <4>1, MemoryAssumption DEF Frames
    <3> QED BY <3>2, <3>3
  <2> QED BY <2>1, <2>2
<1>4. new = [a \in Pages |-> new[a]]
  BY DEF ForkMapped
<1>5. new \in Table
  <2> HIDE DEF new
  <2> QED BY <1>3, <1>4 DEF Table
<1> QED BY Zenon, <1>1, <1>5

\* After a fork no private page is writable.
LEMMA ForkedIs ==
  ASSUME NEW sp \in Space, Single(sp), NEW pt \in Table
  PROVE  LET new == [sp EXCEPT !.pt = ForkMapped(pt, sp.areas)]
         IN  /\ new \in Space /\ new.areas = sp.areas /\ Single(new)
             /\ Tracked(new) = Tracked(sp) /\ Writable(new) = {}
<1> DEFINE fm == ForkMapped(pt, sp.areas)
           new == [sp EXCEPT !.pt = fm]
<1>1. fm \in Table
  BY ForkMappedIs
<1>2. \A a \in Pages : (\E i \in DOMAIN sp.areas : \E t \in sp.areas[i].trk : t.v = a) =>
         \E i \in DOMAIN sp.areas : \E t \in sp.areas[i].trk :
            fm[a] = [f |-> t.f, w |-> sp.areas[i].mtype \notin Private]
  BY Zenon, ForkMappedIs
<1> HIDE DEF fm
<1>3. new \in Space /\ new.areas = sp.areas /\ new.pt = fm
  BY <1>1 DEF Space
<1> HIDE DEF new
<1>4. Single(new) /\ Tracked(new) = Tracked(sp)
  BY <1>3 DEF Single, Tracked
<1>5. ASSUME NEW f \in Writable(new) PROVE FALSE
  <2>1. PICK i \in DOMAIN sp.areas :
           /\ sp.areas[i].mtype \in Private
           /\ \E t \in sp.areas[i].trk : t.f = f /\ fm[t.v] = [f |-> f, w |-> TRUE]
    BY Zenon, <1>3 DEF Writable
  <2>2. PICK t \in sp.areas[i].trk : t.f = f /\ fm[t.v] = [f |-> f, w |-> TRUE]
    BY <2>1
  <2>3. t.v \in Pages
    BY AreaIs
  <2>4. PICK j \in DOMAIN sp.areas : \E u \in sp.areas[j].trk :
           fm[t.v] = [f |-> u.f, w |-> sp.areas[j].mtype \notin Private]
    BY Zenon, <1>2, <2>3
  <2>5. PICK u \in sp.areas[j].trk :
           fm[t.v] = [f |-> u.f, w |-> sp.areas[j].mtype \notin Private]
    BY <2>4
  <2>6. u.f = f /\ sp.areas[j].mtype \notin Private
    <3> DEFINE b == sp.areas[j].mtype \notin Private
    <3>1. fm[t.v] = [f |-> u.f, w |-> b]
      BY <2>5
    <3>2. b \in BOOLEAN
      OBVIOUS
    <3> HIDE DEF b
    <3>3. fm[t.v].f = u.f /\ fm[t.v].w = b
      BY <3>1
    <3>4. fm[t.v].f = f /\ fm[t.v].w = TRUE
      BY <2>2
    <3>5. b = TRUE
      BY Zenon, <3>3, <3>4
    <3> QED BY <3>3, <3>4, <3>5 DEF b
  <2>7. i = j
    BY <2>2, <2>6 DEF Single
  <2> QED BY <2>1, <2>6, <2>7
<1>6. Writable(new) = {}
  BY <1>5
<1> QED BY <1>3, <1>4, <1>6 DEF new, fm

\* An element of a sequence.
LEMMA SeqElem ==
  ASSUME NEW S, NEW q \in Seq(S), NEW i \in DOMAIN q
  PROVE  q[i] \in S
  OBVIOUS

\* The pages of an attached segment are of its frames.
LEMMA SegTrackersIs ==
  ASSUME segs \in Segments, NEW m, m.key \in Keys, NEW u \in SegTrackers(m)
  PROVE  u.f \in Frames /\ u.f \in SegFrames(segs)
<1>1. PICK i \in DOMAIN segs[m.key].frames :
         u = [v |-> m.start + i - 1, f |-> segs[m.key].frames[i]]
  BY DEF SegTrackers
<1>2. segs[m.key].frames \in Seq(Frames)
  BY DEF Segments
<1>3. u.f = segs[m.key].frames[i] /\ u.f \in Frames
  BY <1>1, <1>2
<1>4. u.f \in Range(segs[m.key].frames)
  BY <1>3 DEF Range
<1> QED BY <1>3, <1>4 DEF SegFrames

\* new maps what pt maps, or a frame of a segment.
SegMapped(new, pt) ==
    \A a \in Pages : new[a] = pt[a] \/ new[a].f \in SegFrames(segs)

\* Mapping the attached segments maps frames of segments only.
LEMMA AttachedMappedIs ==
  ASSUME segs \in Segments, NEW sp \in Space, NEW pt \in Table
  PROVE  /\ AttachedMapped(pt, sp.shms) \in Table
         /\ SegMapped(AttachedMapped(pt, sp.shms), pt)
<1> DEFINE new == AttachedMapped(pt, sp.shms)
           has(a) == {i \in DOMAIN sp.shms : \E u \in SegTrackers(sp.shms[i]) : u.v = a}
<1>0. sp.shms \in Seq([key : Keys, start : Int])
  BY DEF Space
<1>1. ASSUME NEW a \in Pages, has(a) # {}
      PROVE  new[a] \in [f : 0 .. NFrames, w : BOOLEAN] /\ new[a].f \in SegFrames(segs)
  <2> DEFINE i == Max(has(a))
             u == CHOOSE x \in SegTrackers(sp.shms[i]) : x.v = a
  <2>1. has(a) \subseteq 0 .. Len(sp.shms) /\ Len(sp.shms) \in Nat
    BY <1>0
  <2>2. i \in has(a)
    BY Zenon, <1>1, <2>1, MaxIn
  <2>3. new[a] = [f |-> u.f, w |-> TRUE]
    BY Zenon, <1>1 DEF AttachedMapped
  <2> HIDE DEF i
  <2>4. u \in SegTrackers(sp.shms[i])
    BY <2>2
  <2> HIDE DEF u
  <2>5. sp.shms[i].key \in Keys
    <3>1. i \in DOMAIN sp.shms
      BY <2>2
    <3>2. sp.shms[i] \in [key : Keys, start : Int]
      BY Zenon, <1>0, <3>1, SeqElem
    <3> QED BY <3>2
  <2>6. u.f \in Frames /\ u.f \in SegFrames(segs)
    BY <2>4, <2>5, SegTrackersIs
  <2>7. u.f \in 0 .. NFrames
    BY <2>6, MemoryAssumption DEF Frames
  <2> QED BY <2>3, <2>6, <2>7
<1>2. ASSUME NEW a \in Pages, has(a) = {} PROVE new[a] = pt[a]
  BY Zenon, <1>2 DEF AttachedMapped
<1>3. new = [a \in Pages |-> new[a]]
  BY DEF AttachedMapped
<1> HIDE DEF new
<1>4. ASSUME NEW a \in Pages PROVE new[a] \in [f : 0 .. NFrames, w : BOOLEAN]
  <2>1. CASE has(a) = {}
    BY <1>2, <2>1 DEF Table
  <2>2. CASE has(a) # {}
    BY Zenon, <1>1, <2>2
  <2> QED BY <2>1, <2>2
<1>5. new \in Table
  BY <1>3, <1>4 DEF Table
<1>6. SegMapped(new, pt)
  BY Zenon, <1>1, <1>2 DEF SegMapped
<1> QED BY <1>5, <1>6 DEF new

\* cow_fork shares frames, and leaves none of them writable.
LEMMA ForkInv ==
  ASSUME Isolated(space, segs), NEW p \in Procs, NEW q \in Procs, p # q, cow_fork(p, q)
  PROVE  Isolated(space', segs')
<1> DEFINE sp == space[p]
           none == [a \in Pages |-> NoMap]
           fm == ForkMapped(none, sp.areas)
           mid == [sp EXCEPT !.pt = fm]
           child == [sp EXCEPT !.pt = AttachedMapped(fm, sp.shms)]
           own == [sp EXCEPT !.pt = ForkMapped(sp.pt, sp.areas)]
<1>1. space \in [Procs -> Space] /\ segs \in Segments /\ segs' = segs
  BY DEF Isolated, cow_fork
<1>2. space' = [space EXCEPT ![q] = child, ![p].pt = ForkMapped(@, sp.areas)]
  BY DEF cow_fork
<1>3. sp \in Space /\ Single(sp) /\ sp.pt \in Table
  BY Zenon, <1>1 DEF Isolated, Space
<1>4. none \in Table
  BY MemoryAssumption DEF NoMap, Table
<1>5. /\ mid \in Space /\ mid.areas = sp.areas /\ Single(mid)
      /\ Tracked(mid) = Tracked(sp) /\ Writable(mid) = {}
  <2> HIDE DEF none, sp
  <2> QED BY <1>3, <1>4, ForkedIs
<1>6. /\ own \in Space /\ own.areas = sp.areas /\ Single(own)
      /\ Tracked(own) = Tracked(sp) /\ Writable(own) = {}
  <2> HIDE DEF sp
  <2> QED BY <1>3, ForkedIs
<1>7. fm \in Table
  <2> HIDE DEF none, sp
  <2> QED BY <1>3, <1>4, ForkMappedIs
<1> DEFINE am == AttachedMapped(fm, sp.shms)
<1>8. am \in Table /\ SegMapped(am, fm)
  <2> HIDE DEF fm, sp
  <2> QED BY <1>1, <1>3, <1>7, AttachedMappedIs
<1>9. space'[p] = own /\ space'[q] = child /\ \A r \in Procs \ {p, q} : space'[r] = space[r]
  <2> HIDE DEF child
  <2> QED BY <1>1, <1>2
<1>10. space' \in [Procs -> Space] <=> \A r \in Procs : space'[r] \in Space
  <2>1. space' = [r \in Procs |-> space'[r]]
    <3> HIDE DEF child
    <3> QED BY Zenon, <1>1, <1>2
  <2> QED BY <2>1
<1> HIDE DEF am, own
<1>11. child \in Space /\ child.areas = mid.areas /\ child.pt = am /\ mid.pt = fm
  <2>1. child = [sp EXCEPT !.pt = am]
    BY DEF am
  <2> HIDE DEF child, fm, sp
  <2>2. child \in Space /\ child.areas = sp.areas /\ child.pt = am
    BY <1>3, <1>8, <2>1 DEF Space
  <2>3. mid.pt = fm
    BY <1>3 DEF Space
  <2> QED BY <1>5, <2>2, <2>3
<1> HIDE DEF child, mid, fm, none, sp
<1>12. From(child, mid, SegFrames(segs))
  <2>1. \A a \in Pages : child.pt[a] = mid.pt[a] \/ child.pt[a].f \in SegFrames(segs)
    BY <1>8, <1>11 DEF SegMapped
  <2> QED BY <1>5, <1>11, <2>1, RemapFrom
<1>13. Tracked(sp) \cap SegFrames(segs) = {}
  BY DEF Isolated, sp
<1>14. Tracked(child) = Tracked(sp)
  <2>1. Tracked(child) = Tracked(mid)
    BY <1>11 DEF Tracked
  <2> QED BY <1>5, <2>1
<1>15. Writable(child) = {}
  <2>1. Writable(child) \subseteq Tracked(child) /\ Writable(child) \subseteq SegFrames(segs)
    BY <1>5, <1>12, WritableTracked DEF From
  <2> QED BY <1>13, <1>14, <2>1
<1>16. \A r \in Procs : space'[r] \in Space /\ Single(space'[r]) /\ Tracked(space'[r]) \cap SegFrames(segs) = {}
  BY Zenon, <1>1, <1>6, <1>9, <1>11, <1>12, <1>13, <1>14 DEF Isolated, From
<1>17. ASSUME NEW r \in Procs, NEW s \in Procs, r # s
       PROVE  Writable(space'[r]) \cap Tracked(space'[s]) = {}
  <2>1. CASE r \in {p, q}
    BY <1>6, <1>9, <1>15, <2>1
  <2>2. CASE r \notin {p, q}
    <3>1. space'[r] = space[r] /\ (Tracked(space'[s]) = Tracked(space[s]) \/ Tracked(space'[s]) = Tracked(space[p]))
      BY Zenon, <1>6, <1>9, <1>14, <2>2 DEF sp
    <3> QED BY <1>17, <2>2, <3>1 DEF Isolated
  <2> QED BY <2>1, <2>2
<1> QED BY <1>1, <1>10, <1>16, <1>17 DEF Isolated

-----------------------------------------------------------------------------
(* Page faults                                                             *)

\* The area a page is found in.
LEMMA AreaAtIs ==
  ASSUME NEW sp \in Space, NEW a, AreaAt(sp, a) # 0
  PROVE  AreaAt(sp, a) \in DOMAIN sp.areas
<1> DEFINE hits == {i \in DOMAIN sp.areas : Covers(sp.areas[i], a)}
<1>1. hits \subseteq Nat
  BY AreaIs
<1>2. hits # {} /\ AreaAt(sp, a) = Min(hits)
  BY DEF AreaAt
<1> HIDE DEF hits
<1>3. Min(hits) \in hits
  BY Zenon, <1>1, <1>2, MinIn
<1> QED BY <1>2, <1>3 DEF hits

\* An entry of the page table is replaced.
LEMMA PtSetIs ==
  ASSUME NEW pt \in Table, NEW a \in Pages, NEW f \in Frames
  PROVE  LET new == [pt EXCEPT ![a] = [f |-> f, w |-> TRUE]]
         IN new \in Table /\ MappedBy(new, pt, {[v |-> a, f |-> f]})
<1> DEFINE e == [f |-> f, w |-> TRUE]
           new == [pt EXCEPT ![a] = e]
<1>1. e \in [f : 0 .. NFrames, w : BOOLEAN] /\ e.f = f
  BY MemoryAssumption DEF Frames
<1> HIDE DEF e
<1>2. new \in Table /\ new[a] = e /\ \A b \in Pages \ {a} : new[b] = pt[b]
  BY <1>1 DEF Table
<1> HIDE DEF new
<1>3. MappedBy(new, pt, {[v |-> a, f |-> f]})
  BY <1>1, <1>2 DEF MappedBy
<1> QED BY <1>2, <1>3 DEF new, e

\* What a fault in an area does to the space: a page in and one out
TrkSet(sp, i, T, a, f) ==
    [sp EXCEPT !.areas = [sp.areas EXCEPT ![i] = [sp.areas[i] EXCEPT !.trk = T]],
               !.pt = [sp.pt EXCEPT ![a] = [f |-> f, w |-> TRUE]]]

\* A page gets a free frame.
LEMMA NewPageInv ==
  ASSUME Isolated(space, segs), NEW p \in Procs, NEW i \in DOMAIN space[p].areas,
         NEW a \in Pages, NEW f, f = FirstRun(1, Held(space, segs)), f # 0,
         NEW T, T \subseteq space[p].areas[i].trk \cup {[v |-> a, f |-> f]}
  PROVE  Isolated([space EXCEPT ![p] = TrkSet(space[p], i, T, a, f)], segs)
<1> DEFINE trks == {[v |-> a, f |-> f]}
           pt == [space[p].pt EXCEPT ![a] = [f |-> f, w |-> TRUE]]
           F == {t.f : t \in trks}
<1>1. Fresh(trks, Held(space, segs))
  BY Zenon, OneFresh
<1>2. Fresh(trks, Tracked(space[p])) /\ F \cap Held(space, segs) = {}
  <2> HIDE DEF trks
  <2> QED BY Zenon, <1>1, FreshFree
<1>3. space[p] \in Space /\ Single(space[p]) /\ space[p].pt \in Table
  BY Zenon DEF Isolated, Space
<1>4. f \in Frames
  BY Zenon, <1>1 DEF Fresh, Tracker
<1>5. pt \in Table /\ MappedBy(pt, space[p].pt, trks)
  BY Zenon, <1>3, <1>4, PtSetIs
<1>6. TrkSet(space[p], i, T, a, f) = WithTrk(space[p], i, T, pt)
  BY DEF TrkSet, WithTrk
<1> HIDE DEF pt
<1>7. From(WithTrk(space[p], i, T, pt), space[p], F)
  <2>1. T \subseteq space[p].areas[i].trk \cup trks
    BY Zenon
  <2> HIDE DEF trks
  <2> QED BY Zenon, <1>2, <1>3, <1>5, <2>1, WithTrkFrom
<1> HIDE DEF F
<1> QED BY <1>2, <1>6, <1>7, OneIsolated

\* A page whose frame the process holds alone becomes writable.
LEMMA OwnPageInv ==
  ASSUME Isolated(space, segs), NEW p \in Procs, NEW i \in DOMAIN space[p].areas,
         NEW t \in space[p].areas[i].trk, Refs(space, t.f) = 1
  PROVE  Isolated([space EXCEPT ![p] = TrkSet(space[p], i, space[p].areas[i].trk, t.v, t.f)], segs)
<1> DEFINE sp == space[p]
           pt == [sp.pt EXCEPT ![t.v] = [f |-> t.f, w |-> TRUE]]
           new == TrkSet(sp, i, sp.areas[i].trk, t.v, t.f)
<1>1. sp \in Space /\ Single(sp) /\ sp.pt \in Table
  BY Zenon DEF Isolated, Space
<1>2. t.f \in Tracked(sp) /\ t.f \in Frames /\ t.v \in Pages
  <2> HIDE DEF sp
  <2> QED BY Zenon, <1>1, AreaIs DEF sp
<1>3. pt \in Table /\ MappedBy(pt, sp.pt, {[v |-> t.v, f |-> t.f]})
  <2> HIDE DEF sp
  <2> QED BY Zenon, <1>1, <1>2, PtSetIs
<1>4. new \in Space /\ new.areas = sp.areas /\ new.pt = pt
  <2> DEFINE x == [sp.areas[i] EXCEPT !.trk = sp.areas[i].trk]
             as == [sp.areas EXCEPT ![i] = x]
  <2>1. sp.areas \in Seq(Area) /\ sp.areas[i] \in Area
    BY Zenon, <1>1, AreaIs
  <2>2. x = sp.areas[i]
    BY Zenon, <2>1 DEF Area
  <2> HIDE DEF x
  <2>3. as = sp.areas
    BY <2>1, <2>2
  <2>4. new = [sp EXCEPT !.areas = as, !.pt = pt]
    BY DEF TrkSet, x
  <2> HIDE DEF as, new, pt, sp
  <2> QED BY Zenon, <1>1, <1>3, <2>3, <2>4 DEF Space
<1> HIDE DEF new, pt
<1>5. From(new, sp, {t.f})
  <2> HIDE DEF sp
  <2>2. \A u \in {[v |-> t.v, f |-> t.f]} : u.f = t.f
    OBVIOUS
  <2>3. \A b \in Pages : pt[b] = sp.pt[b] \/ pt[b].f = t.f
    BY Zenon, <1>3, <2>2 DEF MappedBy
  <2>1. \A b \in Pages : new.pt[b] = sp.pt[b] \/ new.pt[b].f \in {t.f} \/ ~new.pt[b].w
    BY Zenon, <1>4, <2>3
  <2> HIDE DEF sp
  <2> QED BY <1>1, <1>4, <2>1, RemapFrom
<1>6. \A q \in Procs \ {p} : {t.f} \cap Tracked(space[q]) = {}
  BY <1>2, OwnIs
<1>7. {t.f} \cap SegFrames(segs) = {}
  BY <1>2 DEF Isolated
<1> QED BY Zenon, <1>5, <1>6, <1>7, ApartIsolated DEF new

\* A step that changes no space and no segment.
LEMMA SameInv ==
  ASSUME Isolated(space, segs), UNCHANGED <<space, segs>>
  PROVE  Isolated(space', segs')
<1>1. space' = space /\ segs' = segs
  OBVIOUS
<1> QED BY <1>1

\* A write to a page that is mapped read-only: it is copied, or it is the only one.
LEMMA CowInv ==
  ASSUME Isolated(space, segs), NEW p \in Procs, NEW a \in Pages,
         NEW i \in DOMAIN space[p].areas, NEW t \in space[p].areas[i].trk, t.v = a,
         cow(p, a, i, t), segs' = segs
  PROVE  Isolated(space', segs')
<1> DEFINE f == FirstRun(1, Held(space, segs))
           own == Refs(space, t.f) = 1
           T(g) == (space[p].areas[i].trk \ {t}) \cup {[v |-> a, f |-> g]}
<1>1. CASE UNCHANGED space
  BY <1>1, SameInv
<1>2. CASE ~UNCHANGED space
  <2>1. own \/ f # 0
    BY <1>2 DEF cow
  <2>2. PICK g : /\ g = IF own THEN t.f ELSE f
                 /\ space' = [space EXCEPT ![p] =
                       [space[p] EXCEPT !.areas[i].trk = (@ \ {t}) \cup {[v |-> a, f |-> g]},
                                        !.pt[a] = [f |-> g, w |-> TRUE]]]
    BY Zenon, <1>2 DEF cow, Becomes
  <2>3. space[p] \in Space /\ t = [v |-> a, f |-> t.f]
    <3>1. space[p] \in Space
      BY Zenon DEF Isolated
    <3>2. t \in Tracker
      BY <3>1, AreaIs
    <3> QED BY <3>1, <3>2 DEF Tracker
  <2>4. space' = [space EXCEPT ![p] = TrkSet(space[p], i, T(g), a, g)]
    BY <2>2 DEF TrkSet
  <2>5. CASE own
    <3>1. g = t.f /\ T(g) = space[p].areas[i].trk
      BY <2>2, <2>3, <2>5
    <3>2. Isolated([space EXCEPT ![p] = TrkSet(space[p], i, space[p].areas[i].trk, t.v, t.f)], segs)
      BY <2>5, OwnPageInv
    <3> HIDE DEF T
    <3> QED BY <2>4, <3>1, <3>2
  <2>6. CASE ~own
    <3>1. g = f /\ f # 0
      BY <2>1, <2>2, <2>6
    <3>2. T(g) \subseteq space[p].areas[i].trk \cup {[v |-> a, f |-> g]}
      OBVIOUS
    <3> HIDE DEF T
    <3>3. Isolated([space EXCEPT ![p] = TrkSet(space[p], i, T(g), a, g)], segs)
      BY <3>1, <3>2, NewPageInv
    <3> QED BY <2>4, <3>3
  <2> QED BY <2>5, <2>6
<1> QED BY <1>1, <1>2

\* The first access to a page without a frame.
LEMMA FillInv ==
  ASSUME Isolated(space, segs), NEW p \in Procs, NEW a \in Pages,
         NEW i \in DOMAIN space[p].areas, fill(p, a, i), segs' = segs
  PROVE  Isolated(space', segs')
<1> DEFINE f == FirstRun(1, Held(space, segs))
           T == space[p].areas[i].trk \cup {[v |-> a, f |-> f]}
<1>1. CASE UNCHANGED space
  BY <1>1, SameInv
<1>2. CASE ~UNCHANGED space
  <2>1. f # 0 /\ space' = [space EXCEPT ![p].areas[i].trk = @ \cup {[v |-> a, f |-> f]},
                                        ![p].pt[a] = [f |-> f, w |-> TRUE]]
    BY Zenon, <1>2 DEF fill
  <2>2. space \in [Procs -> Space]
    BY DEF Isolated
  <2>3. space' = [space EXCEPT ![p] = TrkSet(space[p], i, T, a, f)]
    <3> HIDE DEF f
    <3> QED BY Zenon, <2>1, <2>2 DEF TrkSet, Space
  <2>4. T \subseteq space[p].areas[i].trk \cup {[v |-> a, f |-> f]}
    BY Zenon
  <2> HIDE DEF T
  <2>5. Isolated([space EXCEPT ![p] = TrkSet(space[p], i, T, a, f)], segs)
    <3>1. f = FirstRun(1, Held(space, segs))
      OBVIOUS
    <3> HIDE DEF f
    <3> QED BY Zenon, <2>1, <2>4, <3>1, NewPageInv
  <2> QED BY <2>3, <2>5
<1> QED BY <1>1, <1>2

\* frame_alloc for a fault
LEMMA GrowInv ==
  ASSUME Isolated(space, segs), NEW p \in Procs, NEW a \in Nat, NEW n \in Nat, a + n <= NPages,
         NEW mtype \in {"Stack", "Mmap"}, NEW d, GrowOrSegv(p, a, mtype, n, d), segs' = segs
  PROVE  Isolated(space', segs')
<1> DEFINE trks == FramesFor(a, mtype, n, Held(space, segs))
<1>1. CASE UNCHANGED space
  BY <1>1, SameInv
<1>2. CASE ~UNCHANGED space
  <2>1. space' = [space EXCEPT ![p] = Grant(space[p], mtype, a, n, trks)]
    BY <1>2 DEF GrowOrSegv, Becomes
  <2>2. Fresh(trks, Held(space, segs))
    BY FramesForFresh
  <2> HIDE DEF trks
  <2>3. Fresh(trks, Tracked(space[p])) /\ {t.f : t \in trks} \cap Held(space, segs) = {}
    BY Zenon, <2>2, FreshFree
  <2>5. space[p] \in Space /\ Single(space[p]) /\ a \in Int /\ n \in Int
    BY DEF Isolated
  <2>4. From(Grant(space[p], mtype, a, n, trks), space[p], {t.f : t \in trks})
    BY Zenon, <2>3, <2>5, GrantFrom
  <2> QED BY Zenon, <2>1, <2>3, <2>4, OneIsolated
<1> QED BY <1>1, <1>2

\* The memory of a process that ends
LEMMA ExitInv ==
  ASSUME Isolated(space, segs), NEW p \in Procs, Exit(p), segs' = segs
  PROVE  Isolated(space', segs')
<1> DEFINE new == [space[p] EXCEPT !.areas = <<>>]
<1>1. space' = [space EXCEPT ![p] = new]
  BY DEF Exit, Becomes
<1>2. new \in Space /\ new.areas = <<>>
  <2>1. space[p] \in Space /\ <<>> \in Seq(Area)
    BY DEF Isolated
  <2> QED BY Zenon, <2>1 DEF Space
<1> HIDE DEF new
<1>3. From(new, space[p], {}) /\ {} \cap Held(space, segs) = {}
  BY Zenon, <1>2, ClearFrom
<1>4. Isolated([space EXCEPT ![p] = new], segs)
  BY <1>3, OneIsolated
<1> QED BY <1>1, <1>4

\* Every outcome of a page fault.
LEMMA FaultInv ==
  ASSUME Isolated(space, segs), NEW p \in Procs, NEW a \in Pages, user_cow_int(p, a)
  PROVE  Isolated(space', segs')
<1>1. segs' = segs
  BY DEF user_cow_int
<1>2. a \in Nat /\ a + 1 <= NPages /\ 1 \in Nat
  BY MemoryAssumption DEF Pages
<1>3. CASE UNCHANGED space
  BY <1>1, <1>3, SameInv
<1>4. CASE FaultInArea(p, a)
  <2> DEFINE i == AreaAt(space[p], a)
             found == {t \in space[p].areas[i].trk : t.v = a}
  <2>1. space[p] \in Space /\ i # 0
    BY Zenon, <1>4 DEF FaultInArea, Isolated
  <2>2. i \in DOMAIN space[p].areas
    BY Zenon, <2>1, AreaAtIs
  <2>3. (\E t \in found : cow(p, a, i, t)) \/ fill(p, a, i)
    BY Zenon, <1>4 DEF FaultInArea
  <2> HIDE DEF i
  <2>4. CASE \E t \in found : cow(p, a, i, t)
    <3>1. PICK t \in space[p].areas[i].trk : t.v = a /\ cow(p, a, i, t)
      BY <2>4
    <3> QED BY <1>1, <2>2, <3>1, CowInv
  <2>5. CASE fill(p, a, i)
    BY <1>1, <2>2, <2>5, FillInv
  <2> QED BY <2>3, <2>4, <2>5
<1>5. CASE FaultStack(p, a)
  <2>1. GrowOrSegv(p, a, "Stack", 1, 0)
    BY <1>5 DEF FaultStack
  <2> QED BY <1>1, <1>2, <2>1, GrowInv
<1>6. CASE FaultNull(p, a)
  <2>1. Exit(p) \/ UNCHANGED space
    BY <1>6 DEF FaultNull
  <2> QED BY <1>1, <1>3, <2>1, ExitInv
<1>7. ASSUME Load(p, a) PROVE Isolated(space', segs')
  <2>1. UNCHANGED space \/ \E d : GrowOrSegv(p, a, "Mmap", 1, d)
    BY <1>7 DEF Load
  <2>2. CASE UNCHANGED space
    BY <1>3, <2>2
  <2>3. CASE \E d : GrowOrSegv(p, a, "Mmap", 1, d)
    BY <1>1, <1>2, <2>3, GrowInv
  <2> QED BY <2>1, <2>2, <2>3
<1>8. CASE FaultLow(p, a)
  BY <1>7, <1>8 DEF FaultLow
<1>9. CASE FaultGap(p, a)
  BY <1>7, <1>9 DEF FaultGap
<1>10. CASE FaultHeap(p, a)
  <2>1. GrowOrSegv(p, a, "Mmap", HeapGrow, 0) /\ a + HeapGrow <= NPages /\ HeapGrow \in Nat
    BY <1>10, MemoryAssumption DEF FaultHeap
  <2> QED BY <1>1, <1>2, <2>1, GrowInv
<1>11. CASE FaultTls(p, a)
  <2>1. Exit(p) \/ GrowOrSegv(p, a, "Mmap", 1, 0)
    BY <1>11 DEF FaultTls
  <2> QED BY <1>1, <1>2, <2>1, ExitInv, GrowInv
<1>12. CASE FaultElse(p, a)
  BY <1>3, <1>12 DEF FaultElse
<1> QED BY <1>4, <1>5, <1>6, <1>8, <1>9, <1>10, <1>11, <1>12 DEF user_cow_int

-----------------------------------------------------------------------------
(* System calls                                                            *)

\* A range is taken out.
LEMMA CutInv ==
  ASSUME NEW spc, Isolated(spc, segs), NEW p \in Procs, NEW s \in Int, NEW e \in Int
  PROVE  Isolated([spc EXCEPT ![p] = SubArea(spc[p], s, e)], segs)
<1>1. spc[p] \in Space /\ Single(spc[p])
  BY DEF Isolated
<1>2. From(SubArea(spc[p], s, e), spc[p], {}) /\ {} \cap Held(spc, segs) = {}
  BY <1>1, SubAreaFrom
<1> QED BY Zenon, <1>2, OneIsolated

\* munmap takes trackers out and adds none.
LEMMA MunmapInv ==
  ASSUME Isolated(space, segs), NEW p \in Procs, NEW s \in Cuts, NEW n \in Lens,
         sys_munmap(p, s, n)
  PROVE  Isolated(space', segs')
<1>1. s \in Int /\ s + n \in Int
  BY MemoryAssumption DEF Pages
<1>2. space' = [space EXCEPT ![p] = SubArea(space[p], s, s + n)] /\ segs' = segs
  BY DEF sys_munmap, Becomes
<1>3. Isolated([space EXCEPT ![p] = SubArea(space[p], s, s + n)], segs)
  BY <1>1, CutInv
<1> QED BY <1>2, <1>3

\* A new mapping, of the frames it gets and after what was there has gone
LEMMA MappedFrom ==
  ASSUME NEW spc, Isolated(spc, segs), NEW p \in Procs, NEW trks, Fresh(trks, Held(spc, segs)),
         NEW mtype \in {"Mmap", "Shared", "ShareFile"}, NEW addr \in Int, NEW n \in Int,
         NEW off \in Int, NEW isFile \in BOOLEAN, NEW w \in BOOLEAN
  PROVE  From(MapFrames(spc[p], mtype, trks, NewArea(mtype, addr, n, off, isFile, trks), w),
              spc[p], {t.f : t \in trks})
<1>1. spc[p] \in Space /\ Single(spc[p])
  BY DEF Isolated
<1>2. Fresh(trks, Tracked(spc[p])) /\ trks \subseteq Tracker
  BY Zenon, FreshFree DEF Fresh
<1>3. NewArea(mtype, addr, n, off, isFile, trks) \in Area
      /\ NewArea(mtype, addr, n, off, isFile, trks).trk = trks
  BY <1>2 DEF NewArea, Area
<1> QED BY Zenon, <1>1, <1>2, <1>3, MapFramesFrom

\* ... and pages of it that become writable
LEMMA ReadInFrom ==
  ASSUME NEW sp, NEW old, NEW trks, trks \subseteq Tracker, From(sp, old, {t.f : t \in trks}),
         NEW more, more \subseteq trks
  PROVE  From([sp EXCEPT !.pt = Map(sp.pt, more, TRUE)], old, {t.f : t \in trks})
<1> DEFINE F == {t.f : t \in trks}
           pt == Map(sp.pt, more, TRUE)
           new == [sp EXCEPT !.pt = pt]
<1>1. sp \in Space /\ Single(sp) /\ sp.pt \in Table /\ more \subseteq Tracker
  BY DEF From, Space
<1>2. pt \in Table /\ MappedBy(pt, sp.pt, more)
  BY Zenon, <1>1, MapIs
<1> HIDE DEF pt
<1>3. new \in Space /\ new.areas = sp.areas /\ new.pt = pt
  BY <1>1, <1>2 DEF Space
<1> HIDE DEF new
<1>4. \A a \in Pages : new.pt[a] = sp.pt[a] \/ new.pt[a].f \in F \/ ~new.pt[a].w
  BY <1>2, <1>3 DEF MappedBy
<1> HIDE DEF F
<1>5. From(new, sp, F)
  BY <1>1, <1>3, <1>4, RemapFrom
<1>6. From(new, old, F \cup F)
  BY <1>5, FromTrans DEF F
<1> QED BY <1>6 DEF new, pt, F

\* A mapping without pages
LEMMA PushEmptyFrom ==
  ASSUME NEW sp \in Space, Single(sp), NEW x \in Area, x.trk = {}
  PROVE  From(Push(sp, x), sp, {})
<1> DEFINE k == Len(sp.areas) + 1
           new == Push(sp, x)
<1>1. /\ new \in Space /\ new.pt = sp.pt /\ DOMAIN new.areas = 1 .. k /\ new.areas[k] = x
      /\ \A i \in DOMAIN sp.areas : new.areas[i] = sp.areas[i]
  BY PushIs
<1>2. DOMAIN sp.areas = 1 .. Len(sp.areas) /\ Len(sp.areas) \in Nat
  BY Zenon, AreaIs
<1>3. \A i \in 1 .. k : i = k \/ i \in 1 .. Len(sp.areas)
  BY <1>2
<1> HIDE DEF new, k
<1>4. GrownBy(new.areas, sp.areas, {}, k)
  BY <1>1, <1>2, <1>3 DEF GrownBy
<1>5. MappedBy(new.pt, sp.pt, {}) /\ Fresh({}, Tracked(sp))
  BY <1>1 DEF MappedBy, Fresh
<1>6. From(new, sp, {t.f : t \in {}})
  BY Zenon, <1>1, <1>4, <1>5, GrowFrom
<1>7. {t.f : t \in {}} = {}
  BY Zenon
<1> QED BY <1>6, <1>7 DEF new

\* The trackers of a new mapping
LEMMA MmapFresh ==
  ASSUME NEW addr \in Nat, NEW n \in Nat, addr + n <= NPages, NEW used, NEW mtype
  PROVE  Fresh(IF mtype = "ShareFile"
               THEN (IF FirstRun(n, used) = 0 THEN {} ELSE TrackRun(addr, FirstRun(n, used), n))
               ELSE FramesFor(addr, mtype, n, used), used)
<1> DEFINE r == FirstRun(n, used)
<1>1. CASE mtype # "ShareFile"
  BY <1>1, FramesForFresh
<1>2. CASE mtype = "ShareFile" /\ r = 0
  BY <1>2 DEF Fresh
<1>3. CASE mtype = "ShareFile" /\ r # 0
  <2>1. r \in Frames /\ \A i \in 0 .. n - 1 : r + i \in Frames /\ r + i \notin used
    BY <1>3, FirstRunIs
  <2> HIDE DEF r
  <2>2. Fresh(TrackRun(addr, r, n), used)
    BY <2>1, TrackRunFresh
  <2> QED BY <1>3, <2>2 DEF r
<1> QED BY <1>1, <1>2, <1>3

\* The space of p is replaced twice.
LEMMA TwiceIs ==
  ASSUME NEW spc \in [Procs -> Space], NEW p \in Procs, NEW x, NEW y
  PROVE  [[spc EXCEPT ![p] = x] EXCEPT ![p] = y] = [spc EXCEPT ![p] = y]
  BY Zenon

\* mmap adds an area, with fresh frames or none.
LEMMA MmapInv ==
  ASSUME Isolated(space, segs), NEW p \in Procs, NEW start, NEW n \in Nat, NEW fixed \in BOOLEAN,
         NEW shared \in BOOLEAN, NEW back, NEW off \in Int, NEW w \in BOOLEAN,
         sys_mmap(p, start, n, fixed, shared, back, off, w)
  PROVE  Isolated(space', segs')
<1> DEFINE sp == space[p]
           addr == IF start = 0 THEN Max({get_last_free_addr(sp), MapStart}) ELSE start
           hit == \E x \in Range(sp.areas) : Overlapping(x, addr, addr + n)
           cut == IF fixed /\ hit THEN SubArea(sp, addr, addr + n) ELSE sp
           spc == [space EXCEPT ![p] = cut]
           used == Held(spc, segs)
           r == FirstRun(n, used)
           mtype == IF ~shared THEN "Mmap" ELSE IF back = "none" THEN "Shared" ELSE "ShareFile"
           trks == IF mtype = "ShareFile"
                   THEN (IF r = 0 THEN {} ELSE TrackRun(addr, r, n))
                   ELSE FramesFor(addr, mtype, n, used)
           area == NewArea(mtype, addr, n, IF mtype = "ShareFile" THEN off ELSE 0,
                           mtype = "ShareFile", trks)
           inFile == {t \in trks : off + t.v - addr \in FilePages}
           mapped == MapFrames(cut, mtype, trks, area, mtype = "Mmap" \/ w)
           more == IF back = "regular" THEN inFile ELSE {}
           none == NewArea("Mmap", addr, n, 0, FALSE, {})
           F == {t.f : t \in trks}
<1>1. addr \in 0 .. NPages - n /\ segs' = segs
  BY Zenon DEF sys_mmap
<1>2. \/ UNCHANGED space
      \/ space' = [space EXCEPT ![p] = Push(cut, none)]
      \/ space' = spc
      \/ space' = [space EXCEPT ![p] = SubArea(mapped, addr, addr + n)]
      \/ space' = [space EXCEPT ![p] = [mapped EXCEPT !.pt = Map(@, more, TRUE)]]
  BY Zenon DEF sys_mmap, Becomes
<1> HIDE DEF addr
<1>3. addr \in Nat /\ addr + n \in Int /\ addr + n <= NPages /\ addr \in Int /\ n \in Int
  BY <1>1, MemoryAssumption
<1>4. sp \in Space /\ space \in [Procs -> Space]
  BY DEF Isolated
<1>5. Isolated(spc, segs) /\ spc[p] = cut
  <2>1. CASE fixed /\ hit
    <3>1. Isolated([space EXCEPT ![p] = SubArea(sp, addr, addr + n)], segs)
      BY <1>3, CutInv
    <3> QED BY Zenon, <1>4, <2>1, <3>1
  <2>2. CASE ~(fixed /\ hit)
    <3>1. cut = sp
      BY <2>2
    <3> HIDE DEF cut
    <3>2. spc = space
      BY <1>4, <3>1
    <3> QED BY <3>1, <3>2
  <2> QED BY Zenon, <2>1, <2>2
<1>6. \A y : [spc EXCEPT ![p] = y] = [space EXCEPT ![p] = y]
  <2> HIDE DEF cut
  <2> QED BY Zenon, <1>4, TwiceIs
<1> HIDE DEF spc, cut
<1>7. Fresh(trks, used) /\ trks \subseteq Tracker
  <2>1. Fresh(trks, used)
    <3> HIDE DEF used, mtype
    <3> QED BY Zenon, <1>3, MmapFresh
  <2> QED BY Zenon, <2>1 DEF Fresh
<1>8. mtype \in {"Mmap", "Shared", "ShareFile"} /\ mtype # "Stack"
  OBVIOUS
<1>9. (IF mtype = "ShareFile" THEN off ELSE 0) \in Int
  BY <1>3
<1> HIDE DEF mtype, trks
<1>10. From(mapped, cut, F) /\ F \cap used = {}
  <2>1. (mtype = "ShareFile") \in BOOLEAN /\ (mtype = "Mmap" \/ w) \in BOOLEAN
    OBVIOUS
  <2>2. From(mapped, spc[p], F)
    BY Zenon, <1>3, <1>5, <1>7, <1>8, <1>9, <2>1, MappedFrom
  <2>3. F \cap used = {}
    BY <1>7 DEF Fresh
  <2> QED BY Zenon, <1>5, <2>2, <2>3
<1>11. more \subseteq trks
  OBVIOUS
<1> HIDE DEF mapped, more
<1>12. CASE UNCHANGED space
  BY <1>1, <1>12, SameInv
<1>13. CASE space' = spc
  BY <1>1, <1>5, <1>13
<1>14. CASE space' = [space EXCEPT ![p] = Push(cut, none)]
  <2>1. none \in Area /\ none.trk = {}
    BY <1>3 DEF NewArea, Area
  <2> HIDE DEF none
  <2>2. cut \in Space /\ Single(cut)
    BY <1>5 DEF Isolated
  <2>3. From(Push(cut, none), cut, {}) /\ {} \cap Held(spc, segs) = {}
    BY Zenon, <2>1, <2>2, PushEmptyFrom
  <2>4. Isolated([spc EXCEPT ![p] = Push(cut, none)], segs)
    BY <1>5, <2>3, OneIsolated
  <2> QED BY Zenon, <1>1, <1>6, <1>14, <2>4
<1>15. CASE space' = [space EXCEPT ![p] = SubArea(mapped, addr, addr + n)]
  <2>1. From(SubArea(mapped, addr, addr + n), mapped, {})
    BY Zenon, <1>3, <1>10, SubAreaFrom DEF From
  <2>2. From(SubArea(mapped, addr, addr + n), cut, F \cup {})
    BY Zenon, <1>10, <2>1, FromTrans
  <2>3. F \cup {} = F
    OBVIOUS
  <2>4. Isolated([spc EXCEPT ![p] = SubArea(mapped, addr, addr + n)], segs)
    BY Zenon, <1>5, <1>10, <2>2, <2>3, OneIsolated
  <2> QED BY Zenon, <1>1, <1>6, <1>15, <2>4
<1>16. CASE space' = [space EXCEPT ![p] = [mapped EXCEPT !.pt = Map(@, more, TRUE)]]
  <2>1. From([mapped EXCEPT !.pt = Map(mapped.pt, more, TRUE)], cut, F)
    BY Zenon, <1>7, <1>10, <1>11, ReadInFrom
  <2>2. Isolated([spc EXCEPT ![p] = [mapped EXCEPT !.pt = Map(mapped.pt, more, TRUE)]], segs)
    BY Zenon, <1>5, <1>10, <2>1, OneIsolated
  <2> QED BY Zenon, <1>1, <1>6, <1>16, <2>2
<1> QED BY Zenon, <1>2, <1>12, <1>13, <1>14, <1>15, <1>16

\* The spaces that p could have with the others as they are
Fits(p) == {sp \in Space : Isolated([space EXCEPT ![p] = sp], segs)}

\* One more page of the heap keeps the processes isolated.
LEMMA GrownPageFits ==
  ASSUME space \in [Procs -> Space], NEW p \in Procs, NEW sp \in Fits(p), NEW h \in Nat,
         h + 1 <= NPages
  PROVE  GrownPage(p, sp, h) \in Fits(p)
<1> DEFINE spc == [space EXCEPT ![p] = sp]
           trks == FramesFor(h, "Mmap", 1, Held(spc, segs))
           new == Grant(sp, "Mmap", h, 1, trks)
           F == {t.f : t \in trks}
<1>1. Isolated(spc, segs) /\ sp \in Space /\ spc[p] = sp
  BY DEF Fits
<1>2. GrownPage(p, sp, h) = IF trks = {} THEN sp ELSE new
  BY DEF GrownPage
<1>3. \A y : [spc EXCEPT ![p] = y] = [space EXCEPT ![p] = y]
  BY Zenon, TwiceIs
<1> HIDE DEF spc
<1>4. Fresh(trks, Held(spc, segs))
  BY FramesForFresh
<1> HIDE DEF trks
<1>5. Fresh(trks, Tracked(sp)) /\ F \cap Held(spc, segs) = {} /\ Single(sp)
  BY Zenon, <1>1, <1>4, FreshFree DEF Isolated
<1>6. From(new, sp, F)
  <2>1. h \in Int /\ 1 \in Int
    OBVIOUS
  <2> QED BY Zenon, <1>1, <1>5, <2>1, GrantFrom
<1> HIDE DEF new, F
<1>7. Isolated([spc EXCEPT ![p] = new], segs)
  BY <1>1, <1>5, <1>6, OneIsolated
<1>8. new \in Fits(p)
  BY Zenon, <1>3, <1>6, <1>7 DEF Fits, From
<1> QED BY <1>2, <1>8

\* g grows the heap of p page by page.
Grows(g, p, m) ==
    g = [n \in 0 .. m |-> IF n = 0 THEN space[p]
                          ELSE GrownPage(p, g[n - 1], space[p].heap + (n - 1))]

\* The space before brk.
LEMMA GrowsStart ==
  ASSUME NEW p, NEW m \in Nat, NEW g, Grows(g, p, m)
  PROVE  g[0] = space[p]
<1> DEFINE G(j) == IF j = 0 THEN space[p] ELSE GrownPage(p, g[j - 1], space[p].heap + (j - 1))
<1>1. g = [j \in 0 .. m |-> G(j)]
  BY Zenon DEF Grows
<1> HIDE DEF G
<1>2. g[0] = G(0)
  BY <1>1
<1> QED BY Zenon, <1>2 DEF G

\* The space after one more page.
LEMMA GrowsNext ==
  ASSUME NEW p, NEW m, NEW g, Grows(g, p, m), NEW k \in 0 .. m, k # 0
  PROVE  g[k] = GrownPage(p, g[k - 1], space[p].heap + (k - 1))
<1> DEFINE G(j) == IF j = 0 THEN space[p] ELSE GrownPage(p, g[j - 1], space[p].heap + (j - 1))
<1>1. g = [j \in 0 .. m |-> G(j)]
  BY Zenon DEF Grows
<1> HIDE DEF G
<1>2. g[k] = G(k)
  BY Zenon, <1>1
<1> QED BY Zenon, <1>2 DEF G

\* The recursion of Grown defines a function.
LEMMA GrowsExists ==
  ASSUME space \in [Procs -> Space], NEW p \in Procs, space[p] \in Fits(p),
         NEW m \in Nat, m = 0 \/ space[p].heap + m <= NPages
  PROVE  \E g : Grows(g, p, m)
<1> DEFINE H == Fits(p)
           a == space[p]
           old == space[p].heap
           step == [k \in 1 .. m |-> [s \in H |-> GrownPage(p, s, old + (k - 1))]]
           V == [k \in 0 .. m |-> H]
<1>0. old \in Nat
  BY DEF Space
<1>1. PICK g : Follows(g, a, step, m)
  BY Zenon, FollowsExists
<1>2. \A k \in 1 .. m : \A s \in H : step[k][s] = GrownPage(p, s, old + (k - 1)) /\ step[k][s] \in H
  <2>1. ASSUME NEW k \in 1 .. m, NEW s \in H PROVE GrownPage(p, s, old + (k - 1)) \in H
    <3>1. old + (k - 1) \in Nat /\ old + (k - 1) + 1 <= NPages
      BY <1>0, MemoryAssumption
    <3> HIDE DEF old
    <3> QED BY <3>1, GrownPageFits
  <2> HIDE DEF H, old
  <2> QED BY <2>1
<1>3. a \in H
  OBVIOUS
<1> HIDE DEF step, H, a, old
<1>4. ASSUME NEW k \in 0 .. m PROVE g[k] = IF k = 0 THEN a ELSE step[k][g[k - 1]]
  <2> DEFINE G(j) == IF j = 0 THEN a ELSE step[j][g[j - 1]]
  <2>1. g = [j \in 0 .. m |-> G(j)]
    BY Zenon, <1>1 DEF Follows
  <2> HIDE DEF G
  <2>2. g[k] = G(k)
    BY Zenon, <2>1
  <2> QED BY Zenon, <2>2 DEF G
<1>5. g = [k \in 0 .. m |-> g[k]]
  BY Zenon, <1>1 DEF Follows
<1>6. \A k \in 0 .. m : g[k] \in V[k]
  <2>1. g[0] \in V[0]
    BY <1>3, <1>4
  <2>2. ASSUME NEW k \in 1 .. m, g[k - 1] \in V[k - 1] PROVE g[k] \in V[k]
    <3>1. k - 1 \in 0 .. m /\ k \in 0 .. m /\ k # 0
      OBVIOUS
    <3> QED BY <3>1, <2>2, <1>2, <1>4
  <2> HIDE DEF V
  <2> QED BY Zenon, <2>1, <2>2, RecIn
<1>7. ASSUME NEW k \in 0 .. m
      PROVE  g[k] = IF k = 0 THEN a ELSE GrownPage(p, g[k - 1], old + (k - 1))
  <2>1. CASE k = 0
    BY Zenon, <2>1, <1>4
  <2>2. CASE k \in 1 .. m
    <3>1. k - 1 \in 0 .. m /\ k # 0
      BY <2>2
    <3> QED BY <2>2, <3>1, <1>2, <1>4, <1>6
  <2> QED BY <2>1, <2>2
<1>8. Grows(g, p, m)
  BY <1>5, <1>7 DEF Grows, a, old
<1> QED BY <1>8

\* Every space on the way keeps the processes isolated.
LEMMA GrowsFits ==
  ASSUME space \in [Procs -> Space], NEW p \in Procs, space[p] \in Fits(p),
         NEW m \in Nat, m = 0 \/ space[p].heap + m <= NPages, NEW g, Grows(g, p, m)
  PROVE  g[m] \in Fits(p)
<1> DEFINE V == [k \in 0 .. m |-> Fits(p)]
           old == space[p].heap
<1>0. old \in Nat
  BY DEF Space
<1>1. g[0] \in V[0]
  <2>1. g[0] = space[p]
    BY GrowsStart
  <2> QED BY <2>1
<1>2. ASSUME NEW k \in 1 .. m, g[k - 1] \in V[k - 1] PROVE g[k] \in V[k]
  <2>1. k - 1 \in 0 .. m /\ k \in 0 .. m /\ k # 0
    OBVIOUS
  <2>2. g[k] = GrownPage(p, g[k - 1], old + (k - 1))
    BY <2>1, GrowsNext
  <2>3. g[k - 1] \in Fits(p)
    BY <2>1, <1>2
  <2>4. old + (k - 1) \in Nat /\ old + (k - 1) + 1 <= NPages
    BY <1>0, MemoryAssumption
  <2> HIDE DEF old
  <2>5. g[k] \in Fits(p)
    BY <2>2, <2>3, <2>4, GrownPageFits
  <2> QED BY <2>1, <2>5
<1>3. \A k \in 0 .. m : g[k] \in V[k]
  <2> HIDE DEF V
  <2> QED BY Zenon, <1>1, <1>2, RecIn
<1> QED BY <1>3

\* brk grows the heap page by page, as far as there are frames.
LEMMA BrkInv ==
  ASSUME Isolated(space, segs), NEW p \in Procs,
         NEW b \in ImageStart + ImageLen .. ImageStart + ImageLen + 2, sys_brk(p, b)
  PROVE  Isolated(space', segs')
<1> DEFINE old == space[p].heap
           m == IF b > old THEN b - old ELSE 0
           g == CHOOSE f : Grows(f, p, m)
           sp == g[m]
           new == [sp EXCEPT !.heap = b]
<1>1. space \in [Procs -> Space] /\ space[p] \in Space /\ old \in Nat
  BY Zenon DEF Isolated, Space
<1>2. b \in Nat /\ b <= NPages
  BY MemoryAssumption
<1>3. space[p] \in Fits(p)
  <2>1. [space EXCEPT ![p] = space[p]] = space
    BY <1>1
  <2> QED BY Zenon, <1>1, <2>1 DEF Fits
<1>4. m \in Nat /\ (m = 0 \/ old + m <= NPages)
  BY <1>1, <1>2, MemoryAssumption
<1>5. Grows(g, p, m)
  <2> HIDE DEF m
  <2> QED BY Zenon, <1>1, <1>3, <1>4, GrowsExists
<1>6. space' = [space EXCEPT ![p] = new] /\ segs' = segs
  <2>1. Grown(p, b) = sp
    BY DEF Grown, Grows
  <2> QED BY Zenon, <2>1 DEF sys_brk, Becomes
<1> HIDE DEF g
<1>7. sp \in Fits(p)
  <2> HIDE DEF m
  <2> QED BY Zenon, <1>1, <1>3, <1>4, <1>5, GrowsFits
<1> HIDE DEF sp
<1> DEFINE spc == [space EXCEPT ![p] = sp]
<1>8. Isolated(spc, segs) /\ spc[p] = sp /\ sp \in Space /\ Single(sp)
  <2>1. Isolated(spc, segs) /\ spc[p] = sp /\ sp \in Space
    BY <1>1, <1>7 DEF Fits
  <2> QED BY <2>1 DEF Isolated
<1>9. new \in Space /\ new.areas = sp.areas /\ new.pt = sp.pt
  BY Zenon, <1>2, <1>8 DEF Space
<1>10. [spc EXCEPT ![p] = new] = [space EXCEPT ![p] = new]
  BY Zenon, <1>1, TwiceIs
<1> HIDE DEF spc, new
<1>11. From(new, sp, {}) /\ {} \cap Held(spc, segs) = {}
  BY Zenon, <1>8, <1>9, RemapFrom
<1>12. Isolated([spc EXCEPT ![p] = new], segs)
  BY <1>8, <1>11, OneIsolated
<1> QED BY <1>6, <1>10, <1>12

\* Trackers that avoid more frames than they have to.
LEMMA FreshLess ==
  ASSUME NEW trks, NEW used, Fresh(trks, used), NEW less, less \subseteq used
  PROVE  Fresh(trks, less)
  BY DEF Fresh

\* A program image is made of its own frames only.
LEMMA ImageFrom ==
  ASSUME NEW sp \in Space, NEW used, NEW stack, NEW text, Fresh(stack, used),
         Fresh(text, used \cup {t.f : t \in stack}), NEW old
  PROVE  From(Image(sp, stack, text), old, {t.f : t \in stack} \cup {t.f : t \in text})
<1> DEFINE none == [a \in Pages |-> NoMap]
           base == [sp EXCEPT !.areas = <<>>, !.pt = none, !.heap = ImageStart + ImageLen]
           top == StackStart + StackLen - 1
           FS == {t.f : t \in stack}
           FT == {t.f : t \in text}
           s1 == Grant(base, "Stack", top, 1, stack)
           s2 == Grant(s1, "Mmap", ImageStart, ImageLen, text)
<1>1. none \in Table
  BY MemoryAssumption DEF NoMap, Table
<1> HIDE DEF none
<1>2. top \in Int /\ ImageStart \in Int /\ ImageLen \in Int /\ ImageStart + ImageLen \in Nat
      /\ 1 \in Int
  BY MemoryAssumption
<1>3. base \in Space /\ base.areas = <<>>
  <2>1. <<>> \in Seq(Area)
    OBVIOUS
  <2> QED BY Zenon, <1>1, <1>2, <2>1 DEF Space
<1>4. Image(sp, stack, text) = s2
  BY DEF Image, none
<1> HIDE DEF base, top
<1>5. Single(base) /\ Tracked(base) = {} /\ Writable(base) = {}
  BY Zenon, <1>3, ClearFrom
<1>6. Fresh(stack, Tracked(base))
  BY <1>5, FreshLess
<1>7. From(s1, base, FS)
  BY Zenon, <1>2, <1>3, <1>5, <1>6, GrantFrom
<1> HIDE DEF s1
<1>8. s1 \in Space /\ Single(s1) /\ Tracked(s1) \subseteq FS
  BY Zenon, <1>5, <1>7 DEF From
<1>9. Fresh(text, Tracked(s1))
  BY <1>8, FreshLess
<1>10. From(s2, s1, FT)
  BY Zenon, <1>2, <1>8, <1>9, GrantFrom
<1> HIDE DEF s2, FS, FT
<1>11. From(s2, base, FS \cup FT)
  BY Zenon, <1>7, <1>10, FromTrans
<1>12. From(s2, old, FS \cup FT)
  BY <1>5, <1>11 DEF From
<1> QED BY Zenon, <1>4, <1>12 DEF FS, FT

\* exec drops the memory of the process and loads an image into fresh frames.
LEMMA ExecInv ==
  ASSUME Isolated(space, segs), NEW p \in Procs, NEW kind, exec_with_process(p, kind)
  PROVE  Isolated(space', segs')
<1> DEFINE none == [a \in Pages |-> NoMap]
           bare == [space[p] EXCEPT !.areas = <<>>, !.pt = none]
           gone == [space EXCEPT ![p] = [@ EXCEPT !.areas = <<>>, !.pt = none]]
           used == Held(gone, segs)
           outer == FirstRun(BufferLen, used)
           used1 == IF kind = "script" THEN used \cup (outer .. outer + BufferLen - 1) ELSE used
           inner == FirstRun(BufferLen, used1)
           used2 == used1 \cup (inner .. inner + BufferLen - 1)
           stack == FramesFor(StackStart + StackLen - 1, "Stack", 1, used2)
           text == FramesFor(ImageStart, "Mmap", ImageLen, used2 \cup {t.f : t \in stack})
           F == {t.f : t \in stack} \cup {t.f : t \in text}
<1>1. /\ segs' = segs
      /\ \/ UNCHANGED space
         \/ space' = [space EXCEPT ![p] = gone[p]]
         \/ space' = [space EXCEPT ![p] = Image(space[p], stack, text)]
  BY Zenon DEF exec_with_process, Becomes
<1>2. space \in [Procs -> Space] /\ space[p] \in Space
  BY DEF Isolated
<1>3. bare \in Space /\ bare.areas = <<>>
  <2>1. none \in Table
    BY MemoryAssumption DEF NoMap, Table
  <2>2. <<>> \in Seq(Area)
    OBVIOUS
  <2> HIDE DEF none
  <2> QED BY Zenon, <1>2, <2>1, <2>2 DEF Space
<1>4. gone = [space EXCEPT ![p] = bare] /\ gone[p] = bare
  <2> HIDE DEF none
  <2> QED BY <1>2
<1> HIDE DEF bare, gone
<1>5. Isolated(gone, segs)
  <2>1. From(bare, space[p], {}) /\ {} \cap Held(space, segs) = {}
    BY Zenon, <1>3, ClearFrom
  <2> QED BY Zenon, <1>4, <2>1, OneIsolated
<1>6. used \subseteq used2
  OBVIOUS
<1> HIDE DEF used2
<1>7. Fresh(stack, used2) /\ Fresh(text, used2 \cup {t.f : t \in stack})
  <2>1. StackStart + StackLen - 1 \in Nat /\ (StackStart + StackLen - 1) + 1 <= NPages
    BY MemoryAssumption
  <2>2. Fresh(stack, used2)
    BY <2>1, FramesForFresh
  <2>3. ImageStart \in Nat /\ ImageLen \in Nat /\ ImageStart + ImageLen <= NPages
    BY MemoryAssumption
  <2> HIDE DEF stack
  <2>4. Fresh(text, used2 \cup {t.f : t \in stack})
    BY <2>3, FramesForFresh
  <2> QED BY Zenon, <2>2, <2>4
<1> HIDE DEF stack, text
<1>8. From(Image(space[p], stack, text), gone[p], F)
  BY Zenon, <1>2, <1>7, ImageFrom
<1>9. F \cap used = {}
  <2>1. \A t \in stack : t.f \notin used
    BY Zenon, <1>6, <1>7 DEF Fresh
  <2>2. \A t \in text : t.f \notin used
    BY Zenon, <1>6, <1>7 DEF Fresh
  <2> HIDE DEF used
  <2> QED BY <2>1, <2>2
<1>10. Isolated([gone EXCEPT ![p] = Image(space[p], stack, text)], segs)
  BY <1>5, <1>8, <1>9, OneIsolated
<1>11. [gone EXCEPT ![p] = Image(space[p], stack, text)]
         = [space EXCEPT ![p] = Image(space[p], stack, text)]
  BY Zenon, <1>2, <1>4, TwiceIs
<1>12. CASE UNCHANGED space
  BY <1>1, <1>12, SameInv
<1>13. CASE space' = [space EXCEPT ![p] = gone[p]]
  BY <1>1, <1>4, <1>5, <1>13
<1>14. CASE space' = [space EXCEPT ![p] = Image(space[p], stack, text)]
  BY <1>1, <1>10, <1>11, <1>14
<1> QED BY <1>1, <1>12, <1>13, <1>14

-----------------------------------------------------------------------------
(* Shared memory segments                                                  *)

\* Other segments, of frames that no process tracks
LEMMA SegsIsolated ==
  ASSUME NEW spc, NEW sg, Isolated(spc, sg), NEW new \in Segments,
         \A p \in Procs : Tracked(spc[p]) \cap SegFrames(new) = {}
  PROVE  Isolated(spc, new)
  BY DEF Isolated

\* A new segment has frames that nobody holds.
LEMMA ShmgetInv ==
  ASSUME Isolated(space, segs), NEW p \in Procs, NEW k \in Keys, NEW n \in Lens, NEW create,
         sys_shmget(p, k, n, create)
  PROVE  Isolated(space', segs')
<1> DEFINE r == FirstRun(n, Held(space, segs))
           fs == [i \in 1 .. n |-> r + i - 1]
           seg == [frames |-> fs, deleted |-> FALSE]
<1>1. space' = space /\ (segs' = segs \/ (r # 0 /\ segs' = [segs EXCEPT ![k] = seg]))
  BY DEF sys_shmget
<1>2. CASE segs' = segs
  BY <1>1, <1>2, SameInv
<1>3. CASE r # 0 /\ segs' = [segs EXCEPT ![k] = seg]
  <2>1. n \in Nat
    BY MemoryAssumption
  <2>2. r \in Frames /\ \A i \in 0 .. n - 1 : r + i \in Frames /\ r + i \notin Held(space, segs)
    BY <1>3, <2>1, FirstRunIs
  <2> HIDE DEF r
  <2>3. r \in Nat
    BY <2>2 DEF Frames
  <2>4. \A i \in 1 .. n : fs[i] \in Frames /\ fs[i] \notin Held(space, segs)
    <3>1. SUFFICES ASSUME NEW i \in 1 .. n PROVE fs[i] \in Frames /\ fs[i] \notin Held(space, segs)
      OBVIOUS
    <3>2. i - 1 \in 0 .. n - 1 /\ fs[i] = r + (i - 1)
      BY <2>1, <2>3
    <3> QED BY <2>2, <3>2
  <2>5. fs \in Seq(Frames) /\ DOMAIN fs = 1 .. n
    BY <2>1, <2>4
  <2> HIDE DEF fs
  <2>6. segs \in Segments /\ space \in [Procs -> Space]
    BY DEF Isolated
  <2>7. /\ segs' \in Segments /\ segs'[k].frames = fs
        /\ \A j \in Keys \ {k} : segs'[j] = segs[j]
    BY Zenon, <1>3, <2>5, <2>6 DEF Segments
  <2>8. ASSUME NEW q \in Procs PROVE Tracked(space[q]) \cap SegFrames(segs') = {}
    <3>1. SUFFICES ASSUME NEW f \in Tracked(space[q]), f \in SegFrames(segs') PROVE FALSE
      OBVIOUS
    <3>2. PICK j \in Keys : f \in Range(segs'[j].frames)
      BY <3>1 DEF SegFrames
    <3>3. Tracked(space[q]) \subseteq Held(space, segs) /\ Tracked(space[q]) \cap SegFrames(segs) = {}
      BY <2>6, HeldIs DEF Isolated
    <3>4. CASE j = k
      BY Zenon, <2>4, <2>5, <2>7, <3>2, <3>3, <3>4 DEF Range
    <3>5. CASE j # k
      BY <2>7, <3>1, <3>2, <3>3, <3>5 DEF SegFrames
    <3> QED BY <3>4, <3>5
  <2>9. Isolated(space, segs')
    BY <2>7, <2>8, SegsIsolated
  <2> QED BY <1>1, <2>9
<1> QED BY <1>1, <1>2, <1>3

\* A segment that is removed gives up its frames when nobody has it attached.
LEMMA ShmctlInv ==
  ASSUME Isolated(space, segs), NEW p \in Procs, NEW k \in Keys, sys_shmctl(p, k)
  PROVE  Isolated(space', segs')
<1>1. space' = space /\ segs' = [segs EXCEPT ![k].deleted = TRUE] /\ segs \in Segments
  BY DEF sys_shmctl, Isolated
<1>2. segs' \in Segments /\ \A j \in Keys : segs'[j].frames = segs[j].frames
  BY Zenon, <1>1 DEF Segments
<1>3. SegFrames(segs') \subseteq SegFrames(segs)
  BY <1>2 DEF SegFrames
<1>4. \A q \in Procs : Tracked(space[q]) \cap SegFrames(segs') = {}
  BY <1>3 DEF Isolated
<1>5. Isolated(space, segs')
  BY <1>2, <1>4, SegsIsolated
<1> QED BY <1>1, <1>5

\* The space of a process that has ended.
LEMMA EmptyIs ==
  /\ Empty \in Space /\ Empty.areas = <<>> /\ Single(Empty)
  /\ Tracked(Empty) = {} /\ Writable(Empty) = {} /\ \A sp, F : From(Empty, sp, F)
<1> DEFINE none == [a \in Pages |-> NoMap]
<1>1. none \in Table
  BY MemoryAssumption DEF NoMap, Table
<1> HIDE DEF none
<1>2. Empty = [areas |-> <<>>, pt |-> none, heap |-> 0, shms |-> <<>>]
  BY DEF Empty, none
<1>3. <<>> \in Seq(Area) /\ <<>> \in Seq([key : Keys, start : Int])
  OBVIOUS
<1>4. Empty \in Space /\ Empty.areas = <<>>
  BY <1>1, <1>2, <1>3 DEF Space
<1> QED BY Zenon, <1>4, ClearFrom

\* The memory of a process that was waited for is dropped.
LEMMA ReleaseInv ==
  ASSUME Isolated(space, segs), NEW p \in Procs, release(p)
  PROVE  Isolated(space', segs')
<1>1. /\ space' = [space EXCEPT ![p] = Empty]
      /\ \E drop : segs' = [k \in Keys |-> IF k \in drop THEN NoSeg ELSE segs[k]]
  BY Zenon DEF release
<1>2. PICK drop : segs' = [k \in Keys |-> IF k \in drop THEN NoSeg ELSE segs[k]]
  BY <1>1
<1>3. segs \in Segments /\ NoSeg \in [frames : Seq(Frames), deleted : BOOLEAN]
      /\ NoSeg.frames = <<>>
  <2>1. <<>> \in Seq(Frames)
    OBVIOUS
  <2>2. NoSeg \in [frames : Seq(Frames), deleted : BOOLEAN] /\ NoSeg.frames = <<>>
    BY Zenon, <2>1 DEF NoSeg
  <2> QED BY Zenon, <2>2 DEF Isolated
<1>4. Isolated(space', segs)
  <2>1. From(Empty, space[p], {}) /\ {} \cap Held(space, segs) = {}
    BY Zenon, EmptyIs
  <2> QED BY Zenon, <1>1, <2>1, OneIsolated
<1>5. segs' \in Segments
  BY Zenon, <1>2, <1>3 DEF Segments
<1>6. SegFrames(segs') \subseteq SegFrames(segs)
  <2>1. SUFFICES ASSUME NEW f \in SegFrames(segs') PROVE f \in SegFrames(segs)
    OBVIOUS
  <2>2. PICK k \in Keys : f \in Range(segs'[k].frames)
    BY DEF SegFrames
  <2>3. segs'[k].frames = segs[k].frames \/ segs'[k].frames = <<>>
    BY Zenon, <1>2, <1>3
  <2>4. Range(<<>>) = {}
    BY DEF Range
  <2> QED BY <2>2, <2>3, <2>4 DEF SegFrames
<1>7. \A q \in Procs : Tracked(space'[q]) \cap SegFrames(segs') = {}
  BY <1>4, <1>6 DEF Isolated
<1> QED BY <1>4, <1>5, <1>7, SegsIsolated

\* An attached segment is mapped with its own frames.
LEMMA ShmatInv ==
  ASSUME Isolated(space, segs), NEW p \in Procs, NEW k \in Keys, NEW at, sys_shmat(p, k, at)
  PROVE  Isolated(space', segs')
<1> DEFINE sp == space[p]
           addr == IF at = 0 THEN Max({get_last_free_addr(sp), ShmStart}) ELSE at
           m == [key |-> k, start |-> addr]
           pt == Map(sp.pt, SegTrackers(m), TRUE)
           new == [sp EXCEPT !.pt = pt, !.shms = Append(sp.shms, m)]
<1>1. /\ addr \in 0 .. NPages - Len(segs[k].frames) /\ segs' = segs
      /\ space' = [space EXCEPT ![p].pt = Map(@, SegTrackers(m), TRUE), ![p].shms = Append(@, m)]
  BY Zenon DEF sys_shmat
<1> HIDE DEF addr
<1>2. space \in [Procs -> Space] /\ sp \in Space /\ Single(sp) /\ sp.pt \in Table /\ segs \in Segments
      /\ sp.shms \in Seq([key : Keys, start : Int])
  BY Zenon DEF Isolated, Space
<1>3. segs[k].frames \in Seq(Frames) /\ Len(segs[k].frames) \in Nat
  BY <1>2 DEF Segments
<1>4. addr \in Nat /\ m \in [key : Keys, start : Int] /\ m.key = k /\ m.start = addr
  BY <1>1, <1>3, MemoryAssumption
<1> HIDE DEF m
<1>5. SegTrackers(m) \subseteq Tracker
  <2>1. SUFFICES ASSUME NEW u \in SegTrackers(m) PROVE u \in Tracker
    OBVIOUS
  <2>2. PICK i \in DOMAIN segs[m.key].frames :
           u = [v |-> m.start + i - 1, f |-> segs[m.key].frames[i]]
    BY DEF SegTrackers
  <2>6. \A q \in Seq(Frames) : DOMAIN q = 1 .. Len(q)
    OBVIOUS
  <2>3. i \in 1 .. Len(segs[k].frames)
    BY Zenon, <1>3, <1>4, <2>2, <2>6
  <2>4. m.start + i - 1 \in Pages
    <3> DEFINE L == Len(segs[k].frames)
    <3>1. addr \in Nat /\ addr \in 0 .. NPages - L /\ L \in Nat /\ i \in 1 .. L /\ m.start = addr
      BY <1>1, <1>3, <1>4, <2>3
    <3> HIDE DEF L
    <3>0. NPages \in Nat
      BY Zenon, MemoryAssumption
    <3>2. addr + i - 1 \in 0 .. NPages - 1
      BY <3>0, <3>1
    <3> QED BY <3>1, <3>2 DEF Pages
  <2>5. segs[m.key].frames[i] \in Frames
    BY Zenon, <1>3, <1>4, <2>2, SeqElem
  <2> QED BY Zenon, <2>2, <2>4, <2>5 DEF Tracker
<1>6. pt \in Table /\ MappedBy(pt, sp.pt, SegTrackers(m))
  <2> HIDE DEF sp
  <2> QED BY Zenon, <1>2, <1>5, MapIs
<1>7. space' = [space EXCEPT ![p] = new]
  <2>1. sp = space[p]
    OBVIOUS
  <2> QED BY <1>1, <1>2 DEF Space
<1> HIDE DEF pt
<1>8. new \in Space /\ new.areas = sp.areas /\ new.pt = pt
  <2> DEFINE q == Append(sp.shms, m)
  <2>1. q \in Seq([key : Keys, start : Int])
    <3> HIDE DEF sp
    <3> QED BY <1>2, <1>4
  <2> HIDE DEF q, sp
  <2>2. new = [sp EXCEPT !.pt = pt, !.shms = q]
    BY DEF q
  <2> HIDE DEF new
  <2> QED BY Zenon, <1>2, <1>6, <2>1, <2>2 DEF Space
<1> HIDE DEF new, sp
<1>9. From(new, sp, SegFrames(segs))
  <2>1. \A u \in SegTrackers(m) : u.f \in SegFrames(segs)
    BY <1>2, <1>4, SegTrackersIs
  <2>2. \A a \in Pages : new.pt[a] = sp.pt[a] \/ new.pt[a].f \in SegFrames(segs) \/ ~new.pt[a].w
    BY <1>6, <1>8, <2>1 DEF MappedBy
  <2> QED BY <1>2, <1>8, <2>2, RemapFrom
<1>10. Tracked(sp) \cap SegFrames(segs) = {} /\ Tracked(new) = Tracked(sp)
  BY Zenon, <1>8 DEF Isolated, sp, Tracked
<1>11. From(new, sp, {}) /\ {} \cap Held(space, segs) = {}
  <2>1. Writable(new) \subseteq Tracked(new)
    BY WritableTracked
  <2> QED BY <1>9, <1>10, <2>1 DEF From
<1>12. Isolated([space EXCEPT ![p] = new], segs)
  BY <1>11, OneIsolated DEF sp
<1> QED BY Zenon, <1>1, <1>7, <1>12

-----------------------------------------------------------------------------
(* The invariant                                                           *)

MemInv == Isolated(space, segs)

\* The first process, with its image, is isolated.
LEMMA InitInv == Init => MemInv
<1> SUFFICES ASSUME Init PROVE Isolated(space, segs)
  BY DEF MemInv
<1> DEFINE top == StackStart + StackLen - 1
           stack == TrackRun(top, 1, 1)
           text == TrackRun(ImageStart, 2, ImageLen)
           none == [q \in Procs |-> Empty]
           img == Image(Empty, stack, text)
           F == {t.f : t \in stack} \cup {t.f : t \in text}
<1>1. First \in Procs /\ segs = [k \in Keys |-> NoSeg]
      /\ space = [q \in Procs |-> IF q = First THEN img ELSE Empty]
  BY MemoryAssumption DEF Init
<1>2. Fresh(stack, {}) /\ \A t \in stack : t.f \in 1 .. 1 + 1 - 1
  <2>1. top \in Nat /\ 1 \in Nat /\ top + 1 <= NPages /\ 1 \in Frames
    BY MemoryAssumption DEF Frames
  <2>2. \A i \in 0 .. 1 - 1 : 1 + i \in Frames /\ 1 + i \notin {}
    BY <2>1
  <2> HIDE DEF top
  <2> QED BY <2>1, <2>2, TrackRunFresh
<1>3. Fresh(text, {1})
  <2>1. ImageStart \in Nat /\ ImageLen \in Nat /\ ImageStart + ImageLen <= NPages /\ 2 \in Frames
    BY MemoryAssumption DEF Frames
  <2>2. \A i \in 0 .. ImageLen - 1 : 2 + i \in Frames /\ 2 + i \notin {1}
    BY <2>1, MemoryAssumption DEF Frames
  <2> QED BY <2>1, <2>2, TrackRunFresh
<1> HIDE DEF stack, text
<1>4. {t.f : t \in stack} \subseteq {1}
  BY <1>2
<1>5. Fresh(text, {} \cup {t.f : t \in stack})
  BY <1>3, <1>4, FreshLess
<1>6. From(img, Empty, F)
  BY Zenon, <1>2, <1>5, EmptyIs, ImageFrom
<1>7. SegFrames(segs) = {} /\ segs \in Segments
  <2>1. NoSeg \in [frames : Seq(Frames), deleted : BOOLEAN] /\ NoSeg.frames = <<>>
    BY DEF NoSeg
  <2>2. Range(<<>>) = {}
    BY DEF Range
  <2> QED BY <1>1, <2>1, <2>2 DEF SegFrames, Segments
<1>8. Isolated(none, segs)
  BY Zenon, <1>7, EmptyIs DEF Isolated
<1> HIDE DEF img
<1>9. space = [none EXCEPT ![First] = img] /\ \A q \in Procs : none[q] = Empty
  BY <1>1
<1> HIDE DEF none, F
<1>10. Isolated([none EXCEPT ![First] = img], segs)
  <2>1. \A q \in Procs \ {First} : F \cap Tracked(none[q]) = {}
    BY Zenon, <1>9, EmptyIs
  <2>2. F \cap SegFrames(segs) = {} /\ From(img, none[First], F)
    BY <1>1, <1>6, <1>7, <1>9
  <2> QED BY <1>1, <1>8, <2>1, <2>2, ApartIsolated
<1> QED BY <1>9, <1>10

\* Every system call, page fault and end of a process keeps the processes isolated.
LEMMA NextInv == MemInv /\ [Next]_vars => MemInv'
<1> SUFFICES ASSUME Isolated(space, segs), [Next]_vars PROVE Isolated(space', segs')
  BY DEF MemInv
<1>1. CASE UNCHANGED vars
  BY <1>1, SameInv DEF vars
<1>2. CASE Next
  <2>1. PICK p \in Procs :
        \/ \E a \in Touch : \/ Store(p, a)
                            \/ user_cow_int(p, a)
                            \/ \E al \in BOOLEAN : task_ilegal(p, a, al)
                            \/ sys_get_robust_list(p, a)
        \/ Deliver(p)
        \/ \E s \in Starts \cup {0}, n \in Lens, m \in MmapModes :
              \E fixed \in {FALSE, s # 0} :
                 sys_mmap(p, s, n, fixed, m.shared, m.back, m.off, m.w)
        \/ \E s \in Cuts, n \in Lens : sys_munmap(p, s, n)
        \/ \E b \in ImageStart + ImageLen .. ImageStart + ImageLen + 2 : sys_brk(p, b)
        \/ \E q \in Procs : cow_fork(p, q)
        \/ sys_exit(p)
        \/ release(p)
        \/ \E kind \in {"elf", "script", "missing"} : exec_with_process(p, kind)
        \/ \E k \in Keys : \/ \E n \in Lens, c \in BOOLEAN : sys_shmget(p, k, n, c)
                           \/ \E at \in Starts \cup {0} : sys_shmat(p, k, at)
                           \/ sys_shmctl(p, k)
    BY Zenon, <1>2 DEF Next
  <2>2. ASSUME NEW a \in Touch, Store(p, a) PROVE Isolated(space', segs')
    BY <2>2, SameInv DEF Store
  <2>3. ASSUME NEW a \in Touch, user_cow_int(p, a) PROVE Isolated(space', segs')
    <3>1. a \in Pages
      BY MemoryAssumption
    <3> QED BY <2>3, <3>1, FaultInv
  <2>4. ASSUME NEW a \in Touch, NEW al \in BOOLEAN, task_ilegal(p, a, al)
        PROVE  Isolated(space', segs')
    <3>1. UNCHANGED <<space, segs>>
      BY Zenon, <2>4 DEF task_ilegal
    <3> QED BY <3>1, SameInv
  <2>5. ASSUME NEW a \in Touch, sys_get_robust_list(p, a) PROVE Isolated(space', segs')
    BY <2>5, SameInv DEF sys_get_robust_list
  <2>6. CASE Deliver(p)
    BY <2>6, ExitInv DEF Deliver
  <2>7. ASSUME NEW s \in Starts \cup {0}, NEW n \in Lens, NEW m \in MmapModes,
               NEW fixed \in {FALSE, s # 0},
               sys_mmap(p, s, n, fixed, m.shared, m.back, m.off, m.w)
        PROVE  Isolated(space', segs')
    <3>1. n \in Nat /\ fixed \in BOOLEAN
      BY Zenon, MemoryAssumption
    <3>2. m.shared \in BOOLEAN /\ m.off \in Int /\ m.w \in BOOLEAN
      <4>1. CASE m \in [shared : {FALSE}, back : Backing, off : {0}, w : {TRUE}]
        <5>1. m.shared \in {FALSE} /\ m.off \in {0} /\ m.w \in {TRUE}
          BY Zenon, <4>1
        <5>2. m.off \in Int
          BY <5>1
        <5> QED BY Zenon, <5>1, <5>2
      <4>2. CASE m \in [shared : {TRUE}, back : {"none", "unreadable"}, off : {0}, w : {FALSE}]
        <5>1. m.shared \in {TRUE} /\ m.off \in {0} /\ m.w \in {FALSE}
          BY Zenon, <4>2
        <5>2. m.off \in Int
          BY <5>1
        <5> QED BY Zenon, <5>1, <5>2
      <4>3. CASE m \in [shared : {TRUE}, back : {"regular"}, off : Offsets, w : {FALSE}]
        <5>1. m.shared \in {TRUE} /\ m.off \in Offsets /\ m.w \in {FALSE}
          BY Zenon, <4>3
        <5>2. m.off \in Int
          <6>1. m.off \in Offsets
            BY Zenon, <5>1
          <6>2. Offsets \subseteq Int
            BY MemoryAssumption
          <6> QED BY Zenon, <6>1, <6>2
        <5> QED BY Zenon, <5>1, <5>2
      <4> QED BY Zenon, <4>1, <4>2, <4>3 DEF MmapModes
    <3> QED BY <2>7, <3>1, <3>2, MmapInv
  <2>8. ASSUME NEW s \in Cuts, NEW n \in Lens, sys_munmap(p, s, n)
        PROVE  Isolated(space', segs')
    BY <2>8, MunmapInv
  <2>9. ASSUME NEW b \in ImageStart + ImageLen .. ImageStart + ImageLen + 2, sys_brk(p, b)
        PROVE  Isolated(space', segs')
    BY <2>9, BrkInv
  <2>10. ASSUME NEW q \in Procs, cow_fork(p, q) PROVE Isolated(space', segs')
    <3>1. p # q
      BY <2>10 DEF cow_fork, Step, Runs
    <3> QED BY <2>10, <3>1, ForkInv
  <2>11. CASE sys_exit(p)
    BY <2>11, ExitInv DEF sys_exit
  <2>12. CASE release(p)
    BY <2>12, ReleaseInv
  <2>13. ASSUME NEW kind \in {"elf", "script", "missing"}, exec_with_process(p, kind)
         PROVE  Isolated(space', segs')
    BY <2>13, ExecInv
  <2>14. ASSUME NEW k \in Keys, NEW n \in Lens, NEW c \in BOOLEAN, sys_shmget(p, k, n, c)
         PROVE  Isolated(space', segs')
    BY <2>14, ShmgetInv
  <2>15. ASSUME NEW k \in Keys, NEW at \in Starts \cup {0}, sys_shmat(p, k, at)
         PROVE  Isolated(space', segs')
    BY <2>15, ShmatInv
  <2>16. ASSUME NEW k \in Keys, sys_shmctl(p, k) PROVE Isolated(space', segs')
    BY <2>16, ShmctlInv
  <2> QED BY Zenon, <2>1, <2>2, <2>3, <2>4, <2>5, <2>6, <2>7, <2>8, <2>9, <2>10, <2>11, <2>12,
             <2>13, <2>14, <2>15, <2>16
<1> QED BY <1>1, <1>2

\* The inductive invariant is stronger than the one TLC checks.
LEMMA IsolatedExclusive == MemInv => WritableExclusive
<1> SUFFICES ASSUME Isolated(space, segs), NEW p \in Procs, NEW x \in Range(space[p].areas),
                    NEW t \in x.trk, x.mtype \in Private,
                    space[p].pt[t.v] = [f |-> t.f, w |-> TRUE]
             PROVE  Refs(space, t.f) = 1
  BY Zenon DEF WritableExclusive, MemInv
<1>1. space[p] \in Space
  BY Zenon DEF Isolated
<1>2. PICK i \in DOMAIN space[p].areas : x = space[p].areas[i]
  BY Zenon DEF Range
<1>3. t.f \in Frames /\ t.f \in Tracked(space[p])
  BY Zenon, <1>1, <1>2, AreaIs
<1>4. t.f \in Writable(space[p])
  BY Zenon, <1>2, <1>3 DEF Writable
<1>5. \A q \in Procs : q # p => t.f \notin Tracked(space[q])
  BY Zenon, <1>4 DEF Isolated
<1> QED BY Zenon, <1>3, <1>5, OneRef

\* Copy on write isolates processes (cow_fork, user_cow_int): whatever forks,
\* faults, exits, mappings and attached segments went before, a page of a
\* private area that a process can write is held by no other process.
THEOREM ExclusiveHolds == Spec => []WritableExclusive
<1>1. Spec => []MemInv
  BY InitInv, NextInv, PTL DEF Spec
<1> QED BY <1>1, IsolatedExclusive, PTL

=============================================================================
