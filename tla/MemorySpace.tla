---------------------------- MODULE MemorySpace -----------------------------
(***************************************************************************)
(* What the operations on one address space of Memory do to the frames     *)
(* that it tracks and can write, for any number of pages, frames and       *)
(* segments, and the invariant that isolates the processes.  MemoryProof   *)
(* shows that every step keeps it.                                         *)
(***************************************************************************)
EXTENDS Memory, FiniteSetTheorems, TLAPS

-----------------------------------------------------------------------------
(* Recursion and choice                                                    *)

\* Induction over the naturals, for a set.
LEMMA NatInd ==
  ASSUME NEW S, 0 \in S, \A n \in Nat : n \in S => n + 1 \in S
  PROVE  \A n \in Nat : n \in S
<1> DEFINE T == {n \in Nat : n \notin S}
<1> SUFFICES ASSUME T # {} PROVE FALSE
  OBVIOUS
<1>1. PICK m \in T : \A y \in T : ~(<<y, m>> \in OpToRel(<, Nat))
  BY Zenon, T \subseteq Nat, WFMin, NatLessThanWellFounded
<1>2. \A y \in T : ~(y < m)
  BY Zenon, <1>1 DEF OpToRel
<1>3. m - 1 \in Nat /\ m - 1 < m
  OBVIOUS
<1>4. m - 1 \in S
  BY <1>3, <1>2
<1>5. m - 1 + 1 \in S
  BY <1>4, <1>3
<1> QED BY <1>5

\* A property V[n] of the nth value that each step keeps holds throughout.
LEMMA RecIn ==
  ASSUME NEW N \in Nat, NEW V, NEW f, f[0] \in V[0],
         \A n \in 1 .. N : f[n - 1] \in V[n - 1] => f[n] \in V[n]
  PROVE  \A n \in 0 .. N : f[n] \in V[n]
<1> DEFINE S == {n \in Nat : n \in 0 .. N => f[n] \in V[n]}
<1>1. 0 \in S
  OBVIOUS
<1>2. ASSUME NEW n \in Nat, n \in S PROVE n + 1 \in S
  <2>1. CASE n + 1 \in 0 .. N
    <3>1. n \in 0 .. N /\ n + 1 \in 1 .. N /\ (n + 1) - 1 = n
      BY <2>1
    <3>2. f[n + 1] \in V[n + 1]
      BY <3>1, <1>2
    <3> QED BY <3>2
  <2> QED BY <2>1
<1> HIDE DEF S
<1>3. \A n \in Nat : n \in S
  BY <1>1, <1>2, NatInd
<1> QED BY <1>3 DEF S

\* f follows the steps up to m.
Follows(f, a, step, m) == f = [n \in 0 .. m |-> IF n = 0 THEN a ELSE step[n][f[n - 1]]]

\* One value of such a function.
LEMMA FollowsAt ==
  ASSUME NEW a, NEW step, NEW m, NEW f, Follows(f, a, step, m), NEW k \in 0 .. m
  PROVE  f[k] = IF k = 0 THEN a ELSE step[k][f[k - 1]]
<1> DEFINE G(n) == IF n = 0 THEN a ELSE step[n][f[n - 1]]
<1>1. f = [n \in 0 .. m |-> G(n)]
  BY Zenon DEF Follows
<1> HIDE DEF G
<1>2. f[k] = G(k)
  BY Zenon, <1>1
<1> QED BY Zenon, <1>2 DEF G

\* There is a function that follows the steps.
LEMMA FollowsExists ==
  ASSUME NEW a, NEW step
  PROVE  \A m \in Nat : \E f : Follows(f, a, step, m)
<1> DEFINE S == {m \in Nat : \E f : Follows(f, a, step, m)}
<1>1. 0 \in S
  <2> DEFINE f == [n \in 0 .. 0 |-> a]
  <2>1. Follows(f, a, step, 0)
    BY DEF Follows
  <2> QED BY <2>1
<1>2. ASSUME NEW m \in Nat, m \in S PROVE m + 1 \in S
  <2>1. PICK f : Follows(f, a, step, m)
    BY <1>2
  <2> DEFINE g == [n \in 0 .. m + 1 |-> IF n <= m THEN f[n] ELSE step[n][f[n - 1]]]
  <2>2. ASSUME NEW n \in 0 .. m + 1
        PROVE  g[n] = IF n = 0 THEN a ELSE step[n][g[n - 1]]
    <3>1. CASE n = 0
      BY <2>1, <3>1, FollowsAt
    <3>2. CASE n \in 1 .. m
      <4>1. g[n] = f[n] /\ g[n - 1] = f[n - 1]
        BY <3>2
      <4>2. f[n] = step[n][f[n - 1]]
        <5>1. n \in 0 .. m /\ n # 0
          BY <3>2
        <5>2. f[n] = IF n = 0 THEN a ELSE step[n][f[n - 1]]
          BY <2>1, <5>1, FollowsAt
        <5> QED BY <5>1, <5>2
      <4> QED BY <4>1, <4>2, <3>2
    <3>3. CASE n = m + 1
      <4>1. g[n - 1] = f[n - 1]
        BY <3>3
      <4> QED BY <4>1, <3>3
    <3> QED BY <3>1, <3>2, <3>3
  <2>3. Follows(g, a, step, m + 1)
    <3>1. g = [n \in 0 .. m + 1 |-> g[n]]
      OBVIOUS
    <3> HIDE DEF g
    <3> QED BY Zenon, <2>2, <3>1 DEF Follows
  <2> QED BY <2>3
<1>3. \A m \in Nat : m \in S
  BY Zenon, <1>1, <1>2, NatInd
<1> QED BY <1>3

\* A set of numbers that is not empty has a least one, which Min answers.
LEMMA MinIn ==
  ASSUME NEW S, S \subseteq Nat, S # {}
  PROVE  Min(S) \in S
<1>1. PICK m \in S : \A y \in S : ~(<<y, m>> \in OpToRel(<, Nat))
  BY Zenon, WFMin, NatLessThanWellFounded
<1>2. \A y \in S : ~(y < m)
  BY Zenon, <1>1 DEF OpToRel
<1>3. \A y \in S : m <= y
  BY <1>2
<1> QED BY Zenon, <1>3 DEF Min

\* A set of indexes has a last one.
LEMMA MaxIn ==
  ASSUME NEW n \in Nat, NEW S, S \subseteq 0 .. n, S # {}
  PROVE  Max(S) \in S
<1> DEFINE T == {n - x : x \in S}
<1>1. T \subseteq Nat /\ T # {}
  <2>1. \A x \in S : n - x \in Nat
    OBVIOUS
  <2> QED BY Zenon, <2>1
<1>2. PICK m \in T : \A y \in T : ~(<<y, m>> \in OpToRel(<, Nat))
  BY Zenon, <1>1, WFMin, NatLessThanWellFounded
<1>3. PICK x \in S : m = n - x
  BY <1>2
<1>4. \A y \in T : ~(y < m)
  BY Zenon, <1>1, <1>2 DEF OpToRel
<1>5. ASSUME NEW y \in S PROVE x >= y
  <2>1. n - y \in T /\ ~(n - y < m)
    BY <1>4
  <2> QED BY <2>1, <1>3
<1> QED BY Zenon, <1>5 DEF Max

\* The chosen elements of a sequence, in their order.
Picked(q, I, s, n) ==
    \E src \in [1 .. Len(s) -> {i \in I : i <= n}] :
        /\ \A j \in 1 .. Len(s) : s[j] = q[src[j]]
        /\ \A j, k \in 1 .. Len(s) : src[j] = src[k] => j = k

\* One more index, chosen or not.
LEMMA PickedStep ==
  ASSUME NEW S, NEW q \in Seq(S), NEW I, I \subseteq 1 .. Len(q), NEW n \in 1 .. Len(q),
         NEW s \in Seq(S), Picked(q, I, s, n - 1)
  PROVE  /\ Picked(q, I, s, n)
         /\ n \in I => Append(s, q[n]) \in Seq(S) /\ Picked(q, I, Append(s, q[n]), n)
<1>1. PICK src \in [1 .. Len(s) -> {i \in I : i <= n - 1}] :
        /\ \A j \in 1 .. Len(s) : s[j] = q[src[j]]
        /\ \A j, k \in 1 .. Len(s) : src[j] = src[k] => j = k
  BY DEF Picked
<1>0. \A i \in I : i \in Int /\ (i <= n - 1 => i <= n /\ i < n)
  OBVIOUS
<1>2. Picked(q, I, s, n)
  <2>1. src \in [1 .. Len(s) -> {i \in I : i <= n}]
    BY Zenon, <1>0
  <2> QED BY <2>1, <1>1 DEF Picked
<1>3. ASSUME n \in I PROVE Append(s, q[n]) \in Seq(S) /\ Picked(q, I, Append(s, q[n]), n)
  <2> DEFINE r == Append(s, q[n])
             new == [j \in 1 .. Len(s) + 1 |-> IF j = Len(s) + 1 THEN n ELSE src[j]]
  <2>1. r \in Seq(S) /\ Len(r) = Len(s) + 1 /\ r[Len(s) + 1] = q[n] /\ Len(s) \in Nat
    OBVIOUS
  <2>2. \A j \in 1 .. Len(s) : r[j] = s[j]
    OBVIOUS
  <2> HIDE DEF r
  <2>3. \A j \in 1 .. Len(s) + 1 : j \in 1 .. Len(s) \/ j = Len(s) + 1
    BY <2>1
  <2>4. new \in [1 .. Len(r) -> {i \in I : i <= n}]
    <3>1. \A j \in 1 .. Len(r) : new[j] \in {i \in I : i <= n}
      <4>1. ASSUME NEW j \in 1 .. Len(s) PROVE new[j] \in {i \in I : i <= n}
        <5>0. j \in 1 .. Len(s) + 1 /\ j # Len(s) + 1
          BY <2>1
        <5>1. src[j] \in I /\ src[j] <= n /\ new[j] = src[j]
          BY Zenon, <1>0, <5>0
        <5> QED BY <5>1
      <4>2. new[Len(s) + 1] = n /\ n <= n
        BY <2>1
      <4> HIDE DEF new
      <4> QED BY <1>3, <2>1, <2>3, <4>1, <4>2
    <3> QED BY <2>1, <3>1
  <2>5. \A j \in 1 .. Len(s) : new[j] = src[j] /\ src[j] < n
    <3>1. \A j \in 1 .. Len(s) : j \in 1 .. Len(s) + 1 /\ j # Len(s) + 1
      BY <2>1
    <3> QED BY Zenon, <1>0, <3>1
  <2>6. Len(s) + 1 \in 1 .. Len(s) + 1 /\ new[Len(s) + 1] = n
    BY <2>1
  <2> HIDE DEF new
  <2>7. \A j \in 1 .. Len(r) : r[j] = q[new[j]]
    BY <1>1, <2>1, <2>2, <2>3, <2>5, <2>6
  <2>8. ASSUME NEW j \in 1 .. Len(r), NEW k \in 1 .. Len(r), new[j] = new[k] PROVE j = k
    <3>1. CASE j \in 1 .. Len(s) /\ k \in 1 .. Len(s)
      BY <3>1, <1>1, <2>5, <2>8
    <3>2. CASE ~(j \in 1 .. Len(s) /\ k \in 1 .. Len(s))
      BY <3>2, <2>1, <2>3, <2>5, <2>6, <2>8
    <3> QED BY <3>1, <3>2
  <2>9. Picked(q, I, r, n)
    BY Zenon, <2>4, <2>7, <2>8 DEF Picked
  <2> QED BY <2>1, <2>9 DEF r
<1> QED BY <1>2, <1>3

\* f collects the chosen elements.
Collects(f, q, I) ==
    f = [n \in 0 .. Len(q) |->
            IF n = 0 THEN <<>> ELSE IF n \in I THEN Append(f[n - 1], q[n]) ELSE f[n - 1]]

\* One value of such a function.
LEMMA CollectsAt ==
  ASSUME NEW q, NEW I, NEW f, Collects(f, q, I), NEW k \in 0 .. Len(q)
  PROVE  f[k] = IF k = 0 THEN <<>> ELSE IF k \in I THEN Append(f[k - 1], q[k]) ELSE f[k - 1]
<1> DEFINE G(n) == IF n = 0 THEN <<>> ELSE IF n \in I THEN Append(f[n - 1], q[n]) ELSE f[n - 1]
<1>1. f = [n \in 0 .. Len(q) |-> G(n)]
  BY Zenon DEF Collects
<1> HIDE DEF G
<1>2. f[k] = G(k)
  BY Zenon, <1>1
<1> QED BY Zenon, <1>2 DEF G

\* The recursion of Chosen defines a function.
LEMMA CollectsExists ==
  ASSUME NEW S, NEW q \in Seq(S), NEW I, I \subseteq 1 .. Len(q)
  PROVE  \E f : Collects(f, q, I)
<1> DEFINE step == [n \in 1 .. Len(q) |-> [s \in Seq(S) |-> IF n \in I THEN Append(s, q[n]) ELSE s]]
           V == [n \in 0 .. Len(q) |-> Seq(S)]
<1>1. Len(q) \in Nat
  OBVIOUS
<1>2. PICK f : Follows(f, <<>>, step, Len(q))
  BY Zenon, <1>1, FollowsExists
<1>3. \A n \in 1 .. Len(q) : \A s \in Seq(S) :
         step[n][s] = (IF n \in I THEN Append(s, q[n]) ELSE s) /\ step[n][s] \in Seq(S)
  OBVIOUS
<1> HIDE DEF step
<1>4. f[0] = <<>>
  BY <1>1, <1>2, FollowsAt
<1>5. \A n \in 1 .. Len(q) : f[n] = step[n][f[n - 1]]
  <2>1. \A n \in 1 .. Len(q) : n \in 0 .. Len(q) /\ n # 0
    OBVIOUS
  <2>2. ASSUME NEW n \in 0 .. Len(q)
        PROVE  f[n] = IF n = 0 THEN <<>> ELSE step[n][f[n - 1]]
    BY <1>2, FollowsAt
  <2> QED BY <2>1, <2>2
<1>6. \A n \in 0 .. Len(q) : f[n] \in V[n]
  <2>1. f[0] \in V[0]
    BY <1>1, <1>4
  <2>2. ASSUME NEW n \in 1 .. Len(q), f[n - 1] \in V[n - 1] PROVE f[n] \in V[n]
    <3>1. n - 1 \in 0 .. Len(q) /\ n \in 0 .. Len(q)
      BY <1>1
    <3> QED BY <3>1, <2>2, <1>3, <1>5
  <2> HIDE DEF V
  <2> QED BY Zenon, <1>1, <2>1, <2>2, RecIn
<1>7. ASSUME NEW n \in 0 .. Len(q)
      PROVE  f[n] = IF n = 0 THEN <<>> ELSE IF n \in I THEN Append(f[n - 1], q[n]) ELSE f[n - 1]
  <2>1. CASE n = 0
    BY <2>1, <1>4
  <2>2. CASE n \in 1 .. Len(q)
    <3>1. n - 1 \in 0 .. Len(q)
      BY <2>2, <1>1
    <3>2. f[n - 1] \in Seq(S)
      BY <3>1, <1>6
    <3>3. n # 0 /\ f[n] = IF n \in I THEN Append(f[n - 1], q[n]) ELSE f[n - 1]
      BY <2>2, <3>2, <1>3, <1>5
    <3> QED BY <3>3
  <2> QED BY <2>1, <2>2, <1>1
<1>8. f = [n \in 0 .. Len(q) |-> f[n]]
  BY Zenon, <1>2 DEF Follows
<1>9. Collects(f, q, I)
  BY <1>7, <1>8 DEF Collects
<1> QED BY <1>9

\* r has elements of q, those that src names.
Sourced(q, I, r, src) ==
    /\ src \in [1 .. Len(r) -> I]
    /\ \A j \in 1 .. Len(r) : r[j] = q[src[j]]
    /\ \A j, k \in 1 .. Len(r) : src[j] = src[k] => j = k

\* Chosen gives elements at chosen indexes, each at most once.
LEMMA ChosenIs ==
  ASSUME NEW S, NEW q \in Seq(S), NEW I, I \subseteq 1 .. Len(q)
  PROVE  Chosen(q, I) \in Seq(S) /\ \E src : Sourced(q, I, Chosen(q, I), src)
<1> DEFINE f == CHOOSE g : Collects(g, q, I)
           V == [n \in 0 .. Len(q) |-> {s \in Seq(S) : Picked(q, I, s, n)}]
<1>1. Len(q) \in Nat
  OBVIOUS
<1>2. Collects(f, q, I)
  BY Zenon, CollectsExists
<1>3. Chosen(q, I) = f[Len(q)]
  BY DEF Chosen, Collects
<1> HIDE DEF f
<1>4. f[0] \in V[0]
  <2>1. f[0] = <<>>
    BY <1>1, <1>2, CollectsAt
  <2>2. <<>> \in Seq(S) /\ Len(<<>>) = 0
    OBVIOUS
  <2>3. Picked(q, I, <<>>, 0)
    <3>1. 1 .. Len(<<>>) = {}
      BY <2>2
    <3>2. [j \in {} |-> 0] \in [{} -> {i \in I : i <= 0}]
      OBVIOUS
    <3> QED BY Zenon, <3>1, <3>2 DEF Picked
  <2> QED BY <2>1, <2>2, <2>3, <1>1
<1>5. ASSUME NEW n \in 1 .. Len(q), f[n - 1] \in V[n - 1] PROVE f[n] \in V[n]
  <2>1. n - 1 \in 0 .. Len(q) /\ n \in 0 .. Len(q) /\ n # 0
    BY <1>1
  <2>2. f[n] = IF n \in I THEN Append(f[n - 1], q[n]) ELSE f[n - 1]
    BY <2>1, <1>2, CollectsAt
  <2>3. f[n - 1] \in Seq(S) /\ Picked(q, I, f[n - 1], n - 1)
    BY <2>1, <1>5
  <2>4. f[n] \in Seq(S) /\ Picked(q, I, f[n], n)
    <3>1. /\ Picked(q, I, f[n - 1], n)
          /\ n \in I => /\ Append(f[n - 1], q[n]) \in Seq(S)
                         /\ Picked(q, I, Append(f[n - 1], q[n]), n)
      BY Zenon, <2>3, PickedStep
    <3> QED BY Zenon, <2>2, <2>3, <3>1
  <2> QED BY <2>1, <2>4
<1>6. \A n \in 0 .. Len(q) : f[n] \in V[n]
  <2> HIDE DEF V
  <2> QED BY Zenon, <1>1, <1>4, <1>5, RecIn
<1>7. f[Len(q)] \in Seq(S) /\ Picked(q, I, f[Len(q)], Len(q))
  BY <1>1, <1>6
<1>8. {i \in I : i <= Len(q)} = I
  <2>1. \A i \in I : i <= Len(q)
    BY <1>1
  <2> QED BY Zenon, <2>1
<1>9. PICK src : Sourced(q, I, f[Len(q)], src)
  BY <1>7, <1>8 DEF Picked, Sourced
<1> QED BY <1>3, <1>7, <1>9

-----------------------------------------------------------------------------
(* Address spaces and frames                                               *)

Tracker == [v : Pages, f : Frames]
Area == [mtype : {"Stack", "Mmap", "Shared", "ShareFile"}, start : Int, len : Int,
         offset : Int, file : BOOLEAN, trk : SUBSET Tracker, base : Int]
Table == [Pages -> [f : 0 .. NFrames, w : BOOLEAN]]
Space == [areas : Seq(Area), pt : Table, heap : Nat, shms : Seq([key : Keys, start : Int])]
Segments == [Keys -> [frames : Seq(Frames), deleted : BOOLEAN]]

\* The trackers are of free frames, each of one of its own.
Fresh(trks, used) ==
    /\ trks \subseteq Tracker
    /\ \A t \in trks : t.f \notin used
    /\ \A t, u \in trks : t.f = u.f => t = u

\* A run that is found is made of free frames.
LEMMA FirstRunIs ==
  ASSUME NEW n \in Nat, NEW used, FirstRun(n, used) # 0
  PROVE  /\ FirstRun(n, used) \in Frames
         /\ \A i \in 0 .. n - 1 : /\ FirstRun(n, used) + i \in Frames
                                  /\ FirstRun(n, used) + i \notin used
<1> DEFINE starts == {f \in Frames : \A i \in 0 .. n - 1 :
                          f + i \in Frames /\ f + i \notin used}
<1>1. starts # {} /\ FirstRun(n, used) = Min(starts)
  BY DEF FirstRun
<1>2. starts \subseteq Nat
  BY DEF Frames
<1>3. Min(starts) \in starts
  BY Zenon, <1>1, <1>2, MinIn
<1> QED BY <1>1, <1>3

\* The trackers of a run of free frames are fresh.
LEMMA TrackRunFresh ==
  ASSUME NEW v \in Nat, NEW n \in Nat, v + n <= NPages, NEW used, NEW r \in Frames,
         \A i \in 0 .. n - 1 : r + i \in Frames /\ r + i \notin used
  PROVE  /\ Fresh(TrackRun(v, r, n), used)
         /\ \A t \in TrackRun(v, r, n) : t.f \in r .. r + n - 1
<1>1. r \in Nat /\ NPages \in Nat
  BY MemoryAssumption DEF Frames
<1>2. \A i \in 0 .. n - 1 : v + i \in Pages
  BY <1>1 DEF Pages
<1>3. ASSUME NEW t \in TrackRun(v, r, n)
      PROVE  t \in Tracker /\ t.f \notin used /\ t.f \in r .. r + n - 1
  <2>1. PICK i \in 0 .. n - 1 : t = [v |-> v + i, f |-> r + i]
    BY DEF TrackRun
  <2> QED BY <2>1, <1>1, <1>2 DEF Tracker
<1>4. ASSUME NEW t \in TrackRun(v, r, n), NEW u \in TrackRun(v, r, n), t.f = u.f
      PROVE  t = u
  <2>1. PICK i \in 0 .. n - 1 : t = [v |-> v + i, f |-> r + i]
    BY DEF TrackRun
  <2>2. PICK j \in 0 .. n - 1 : u = [v |-> v + j, f |-> r + j]
    BY DEF TrackRun
  <2>3. i = j
    BY <2>1, <2>2, <1>1, <1>4
  <2> QED BY <2>1, <2>2, <2>3
<1> QED BY <1>3, <1>4 DEF Fresh

\* Fresh trackers, and more that avoid them.
LEMMA FreshJoin ==
  ASSUME NEW trks, NEW more, NEW used, Fresh(trks, used),
         Fresh(more, used \cup {t.f : t \in trks})
  PROVE  Fresh(trks \cup more, used)
  BY DEF Fresh

\* The length of a run in the fallback: at least a page, at most what is left.
LEMMA HalfIs ==
  ASSUME NEW n \in Nat, n # 0
  PROVE  Min({16, Max({1, n \div 2})}) \in 1 .. n
<1> DEFINE h == n \div 2
<1>1. h \in Nat /\ h <= n
  OBVIOUS
<1> HIDE DEF h
<1>2. Max({1, h}) \in {1, h} /\ Max({1, h}) >= 1
  <2>1. \E x \in {1, h} : \A y \in {1, h} : x >= y
    BY <1>1
  <2> DEFINE m == CHOOSE x \in {1, h} : \A y \in {1, h} : x >= y
  <2>2. m \in {1, h} /\ \A y \in {1, h} : m >= y
    BY <2>1
  <2>3. Max({1, h}) = m
    BY DEF Max
  <2> QED BY Zenon, <2>2, <2>3
<1> DEFINE k == Max({1, h})
<1>3. k \in 1 .. n
  BY <1>1, <1>2
<1> HIDE DEF k
<1>4. Min({16, k}) \in {16, k} /\ Min({16, k}) <= k
  <2>1. \E x \in {16, k} : \A y \in {16, k} : x <= y
    BY <1>3
  <2> DEFINE m == CHOOSE x \in {16, k} : \A y \in {16, k} : x <= y
  <2>2. m \in {16, k} /\ \A y \in {16, k} : m <= y
    BY <2>1
  <2>3. Min({16, k}) = m
    BY DEF Min
  <2> QED BY Zenon, <2>2, <2>3
<1>5. Min({16, k}) \in 1 .. n
  BY <1>3, <1>4
<1> QED BY <1>5 DEF k, h

\* The states of the fallback of frame_alloc
Halves(n, used) ==
    {s \in [trks : SUBSET Tracker, left : 0 .. n] : Fresh(s.trks, used)}

\* One turn of the fallback of frame_alloc keeps its trackers fresh.
LEMMA RunFresh ==
  ASSUME NEW v \in Nat, NEW n \in Nat, v + n <= NPages, NEW used, NEW s \in Halves(n, used)
  PROVE  OneRun(v, n, used, s) \in Halves(n, used)
<1> DEFINE size == Min({16, Max({1, s.left \div 2})})
           now == used \cup {t.f : t \in s.trks}
           r == FirstRun(size, now)
           at == v + (n - s.left)
<1>1. s.left \in 0 .. n /\ Fresh(s.trks, used)
  BY DEF Halves
<1>2. OneRun(v, n, used, s) = IF s.left = 0 \/ r = 0 THEN s
                           ELSE [trks |-> s.trks \cup TrackRun(at, r, size), left |-> s.left - size]
  BY DEF OneRun
<1>3. CASE s.left = 0 \/ r = 0
  BY <1>2, <1>3
<1>4. CASE s.left # 0 /\ r # 0
  <2>1. size \in 1 .. s.left
    BY <1>1, <1>4, HalfIs
  <2> HIDE DEF size
  <2>2. NPages \in Nat
    BY MemoryAssumption
  <2>3. at \in Nat /\ at + size <= NPages /\ size \in Nat /\ s.left - size \in 0 .. n
    BY <1>1, <2>1, <2>2
  <2> HIDE DEF at
  <2>4. r \in Frames /\ \A i \in 0 .. size - 1 : r + i \in Frames /\ r + i \notin now
    BY <1>4, <2>3, FirstRunIs
  <2> HIDE DEF r
  <2>5. Fresh(TrackRun(at, r, size), now)
    <3> HIDE DEF now
    <3> QED BY <2>3, <2>4, TrackRunFresh
  <2> DEFINE more == TrackRun(at, r, size)
  <2>6. Fresh(s.trks \cup more, used)
    <3> HIDE DEF more
    <3> QED BY <1>1, <2>5, FreshJoin DEF more
  <2> HIDE DEF more
  <2>7. OneRun(v, n, used, s) = [trks |-> s.trks \cup more, left |-> s.left - size]
    BY <1>2, <1>4 DEF more
  <2> QED BY <2>3, <2>6, <2>7 DEF Halves, Fresh
<1> QED BY <1>3, <1>4

\* f runs the fallback n times.
Runs16(f, v, n, used) ==
    f = [k \in 0 .. n |-> IF k = 0 THEN [trks |-> {}, left |-> n] ELSE OneRun(v, n, used, f[k - 1])]

\* The first state of the fallback.
LEMMA RunsStart ==
  ASSUME NEW v, NEW n \in Nat, NEW used, NEW f, Runs16(f, v, n, used)
  PROVE  f[0] = [trks |-> {}, left |-> n]
<1> DEFINE G(j) == IF j = 0 THEN [trks |-> {}, left |-> n] ELSE OneRun(v, n, used, f[j - 1])
<1>1. f = [j \in 0 .. n |-> G(j)]
  BY Zenon DEF Runs16
<1> HIDE DEF G
<1>2. f[0] = G(0)
  BY <1>1
<1> QED BY Zenon, <1>2 DEF G

\* The state after one more turn.
LEMMA RunsNext ==
  ASSUME NEW v, NEW n, NEW used, NEW f, Runs16(f, v, n, used), NEW k \in 0 .. n, k # 0
  PROVE  f[k] = OneRun(v, n, used, f[k - 1])
<1> DEFINE G(j) == IF j = 0 THEN [trks |-> {}, left |-> n] ELSE OneRun(v, n, used, f[j - 1])
<1>1. f = [j \in 0 .. n |-> G(j)]
  BY Zenon DEF Runs16
<1> HIDE DEF G
<1>2. f[k] = G(k)
  BY Zenon, <1>1
<1> QED BY Zenon, <1>2 DEF G

\* The recursion of Segmented defines a function.
LEMMA RunsExists ==
  ASSUME NEW v \in Nat, NEW n \in Nat, v + n <= NPages, NEW used
  PROVE  \E f : Runs16(f, v, n, used)
<1> DEFINE H == Halves(n, used)
           a == [trks |-> {}, left |-> n]
           step == [k \in 1 .. n |-> [s \in H |-> OneRun(v, n, used, s)]]
           V == [k \in 0 .. n |-> H]
<1>1. PICK f : Follows(f, a, step, n)
  BY Zenon, FollowsExists
<1>2. \A k \in 1 .. n : \A s \in H : step[k][s] = OneRun(v, n, used, s) /\ step[k][s] \in H
  <2>1. \A s \in H : OneRun(v, n, used, s) \in H
    BY RunFresh
  <2> HIDE DEF H
  <2> QED BY <2>1
<1>3. a \in H
  BY DEF Halves, Fresh
<1> HIDE DEF step, H, a
<1>4. ASSUME NEW k \in 0 .. n PROVE f[k] = IF k = 0 THEN a ELSE step[k][f[k - 1]]
  BY <1>1, FollowsAt
<1>5. f = [k \in 0 .. n |-> f[k]]
  BY Zenon, <1>1 DEF Follows
<1>6. \A k \in 0 .. n : f[k] \in V[k]
  <2>1. f[0] \in V[0]
    BY <1>3, <1>4
  <2>2. ASSUME NEW k \in 1 .. n, f[k - 1] \in V[k - 1] PROVE f[k] \in V[k]
    <3>1. k - 1 \in 0 .. n /\ k \in 0 .. n /\ k # 0
      OBVIOUS
    <3> QED BY <3>1, <2>2, <1>2, <1>4
  <2> HIDE DEF V
  <2> QED BY Zenon, <2>1, <2>2, RecIn
<1>7. ASSUME NEW k \in 0 .. n
      PROVE  f[k] = IF k = 0 THEN a ELSE OneRun(v, n, used, f[k - 1])
  <2>1. CASE k = 0
    BY <2>1, <1>4
  <2>2. CASE k \in 1 .. n
    <3>1. k - 1 \in 0 .. n /\ k # 0
      BY <2>2
    <3> QED BY <2>2, <3>1, <1>2, <1>4, <1>6
  <2> QED BY <2>1, <2>2
<1>8. Runs16(f, v, n, used)
  BY Zenon, <1>5, <1>7 DEF Runs16, a
<1> QED BY <1>8

\* Every state of the fallback has fresh trackers.
LEMMA RunsFresh ==
  ASSUME NEW v \in Nat, NEW n \in Nat, v + n <= NPages, NEW used,
         NEW f, Runs16(f, v, n, used)
  PROVE  f[n] \in Halves(n, used)
<1> DEFINE V == [k \in 0 .. n |-> Halves(n, used)]
<1>1. f[0] \in V[0]
  <2>1. f[0] = [trks |-> {}, left |-> n]
    BY RunsStart
  <2> QED BY <2>1 DEF Halves, Fresh
<1>2. ASSUME NEW k \in 1 .. n, f[k - 1] \in V[k - 1] PROVE f[k] \in V[k]
  <2>1. k - 1 \in 0 .. n /\ k \in 0 .. n /\ k # 0
    OBVIOUS
  <2>2. f[k] = OneRun(v, n, used, f[k - 1])
    BY <2>1, RunsNext
  <2>3. f[k - 1] \in Halves(n, used)
    BY <2>1, <1>2
  <2>4. f[k] \in Halves(n, used)
    BY <2>2, <2>3, RunFresh
  <2> QED BY <2>1, <2>4
<1>3. \A k \in 0 .. n : f[k] \in V[k]
  <2> HIDE DEF V
  <2> QED BY Zenon, <1>1, <1>2, RecIn
<1> QED BY <1>3

\* The frames the fallback finds are fresh.
LEMMA SegmentedFresh ==
  ASSUME NEW v \in Nat, NEW n \in Nat, v + n <= NPages, NEW used
  PROVE  Fresh(Segmented(v, n, used), used)
<1> DEFINE f == CHOOSE g : Runs16(g, v, n, used)
<1>1. Runs16(f, v, n, used)
  BY Zenon, RunsExists
<1>2. Segmented(v, n, used) = IF f[n].left = 0 THEN f[n].trks ELSE {}
  BY DEF Segmented, Runs16
<1> HIDE DEF f
<1>3. f[n] \in Halves(n, used)
  BY <1>1, RunsFresh
<1> QED BY <1>2, <1>3 DEF Halves, Fresh

\* frame_alloc finds free frames, one for each page.
LEMMA FramesForFresh ==
  ASSUME NEW v \in Nat, NEW n \in Nat, v + n <= NPages, NEW used, NEW mtype
  PROVE  Fresh(FramesFor(v, mtype, n, used), used)
<1> DEFINE r == FirstRun(n, used)
<1>1. CASE r # 0
  <2>1. r \in Frames /\ \A i \in 0 .. n - 1 : r + i \in Frames /\ r + i \notin used
    BY Zenon, <1>1, FirstRunIs
  <2>2. Fresh(TrackRun(v, r, n), used)
    <3> HIDE DEF r
    <3> QED BY <2>1, TrackRunFresh
  <2> QED BY <1>1, <2>2 DEF FramesFor
<1>2. CASE r = 0
  BY <1>2, SegmentedFresh DEF FramesFor, Fresh
<1> QED BY <1>1, <1>2

-----------------------------------------------------------------------------
(* What the operations do to an address space                              *)

\* The frames a process tracks, and those it can write through a private page
Tracked(sp) ==
    {f \in Frames : \E i \in DOMAIN sp.areas : \E t \in sp.areas[i].trk : t.f = f}
Writable(sp) ==
    {f \in Frames : \E i \in DOMAIN sp.areas :
        /\ sp.areas[i].mtype \in Private
        /\ \E t \in sp.areas[i].trk : t.f = f /\ sp.pt[t.v] = [f |-> f, w |-> TRUE]}

\* No two trackers of a process are of one frame.
Single(sp) ==
    \A i, j \in DOMAIN sp.areas : \A t \in sp.areas[i].trk, u \in sp.areas[j].trk :
        t.f = u.f => i = j /\ t = u

\* A space that is made of another and of the frames F.
From(new, sp, F) ==
    /\ new \in Space /\ Single(new)
    /\ Tracked(new) \subseteq Tracked(sp) \cup F
    /\ Writable(new) \subseteq Writable(sp) \cup F

\* A space is made of itself.
LEMMA FromSelf ==
  ASSUME NEW sp \in Space, Single(sp), NEW F
  PROVE  From(sp, sp, F)
  BY DEF From

\* Two changes, one after the other.
LEMMA FromTrans ==
  ASSUME NEW s1, NEW s2, NEW s3, NEW F, NEW G, From(s2, s1, F), From(s3, s2, G)
  PROVE  From(s3, s1, F \cup G)
  BY DEF From

\* new maps what pt maps, or a frame of the trackers.
MappedBy(new, pt, trks) ==
    \A a \in Pages : new[a] = pt[a] \/ \E t \in trks : new[a].f = t.f

\* Mapping pages adds at most their frames.
LEMMA MapIs ==
  ASSUME NEW pt \in Table, NEW trks, trks \subseteq Tracker, NEW w \in BOOLEAN
  PROVE  Map(pt, trks, w) \in Table /\ MappedBy(Map(pt, trks, w), pt, trks)
<1>1. ASSUME NEW a \in Pages
      PROVE  /\ Map(pt, trks, w)[a] \in [f : 0 .. NFrames, w : BOOLEAN]
             /\ \/ Map(pt, trks, w)[a] = pt[a]
                \/ \E t \in trks : Map(pt, trks, w)[a].f = t.f
  <2>1. CASE \E t \in trks : t.v = a
    <3> DEFINE c == CHOOSE t \in trks : t.v = a
    <3>1. c \in trks /\ c.v = a
      BY <2>1
    <3>2. Map(pt, trks, w)[a] = [f |-> c.f, w |-> w]
      BY <2>1 DEF Map
    <3> HIDE DEF c
    <3>3. c.f \in 0 .. NFrames
      BY <3>1, MemoryAssumption DEF Tracker, Frames
    <3> QED BY <3>1, <3>2, <3>3
  <2>2. CASE ~\E t \in trks : t.v = a
    <3>1. Map(pt, trks, w)[a] = pt[a]
      BY <2>2 DEF Map
    <3> QED BY <3>1 DEF Table
  <2> QED BY <2>1, <2>2
<1>2. Map(pt, trks, w) = [a \in Pages |-> Map(pt, trks, w)[a]]
  BY DEF Map
<1>3. Map(pt, trks, w) \in Table
  BY <1>1, <1>2 DEF Table
<1>4. MappedBy(Map(pt, trks, w), pt, trks)
  BY <1>1 DEF MappedBy
<1> QED BY <1>3, <1>4

\* What is in a space has its type, and the frames of its trackers are tracked.
LEMMA AreaIs ==
  ASSUME NEW sp \in Space
  PROVE  /\ sp.areas \in Seq(Area) /\ sp.pt \in Table
         /\ DOMAIN sp.areas = 1 .. Len(sp.areas) /\ Len(sp.areas) \in Nat
         /\ \A i \in DOMAIN sp.areas : sp.areas[i] \in Area /\ sp.areas[i].trk \subseteq Tracker
         /\ \A i \in DOMAIN sp.areas : \A t \in sp.areas[i].trk :
               t \in Tracker /\ t.f \in Tracked(sp) /\ t.f \in Frames /\ t.v \in Pages
<1>1. sp.areas \in Seq(Area) /\ sp.pt \in Table
  BY DEF Space
<1>2. DOMAIN sp.areas = 1 .. Len(sp.areas) /\ Len(sp.areas) \in Nat
  BY <1>1
<1>3. \A i \in DOMAIN sp.areas : sp.areas[i] \in Area
  BY <1>1
<1>4. \A i \in DOMAIN sp.areas : sp.areas[i].trk \subseteq Tracker
  BY <1>3 DEF Area
<1>5. \A i \in DOMAIN sp.areas : \A t \in sp.areas[i].trk :
         t \in Tracker /\ t.f \in Frames /\ t.v \in Pages
  BY <1>4 DEF Tracker
<1>6. \A i \in DOMAIN sp.areas : \A t \in sp.areas[i].trk : t.f \in Tracked(sp)
  BY <1>5 DEF Tracked
<1> QED BY <1>1, <1>2, <1>3, <1>4, <1>5, <1>6

\* new has the areas of old, with trackers only of old, and of trks in area k.
GrownBy(new, old, trks, k) ==
    \A i \in DOMAIN new : \A t \in new[i].trk :
        \/ t \in trks /\ i = k
        \/ i \in DOMAIN old /\ t \in old[i].trk /\ new[i].mtype = old[i].mtype

\* New trackers, all of one area, and mappings of theirs.
LEMMA GrowFrom ==
  ASSUME NEW sp \in Space, Single(sp), NEW new \in Space, NEW trks, Fresh(trks, Tracked(sp)),
         NEW k, GrownBy(new.areas, sp.areas, trks, k), MappedBy(new.pt, sp.pt, trks)
  PROVE  From(new, sp, {t.f : t \in trks})
<1> DEFINE F == {t.f : t \in trks}
<1> USE DEF GrownBy, MappedBy
<1>1. \A t \in trks : t.f \in F /\ t.f \notin Tracked(sp)
  BY DEF Fresh
<1>2. \A i \in DOMAIN sp.areas : \A t \in sp.areas[i].trk : t.f \in Tracked(sp) /\ t.v \in Pages
  BY AreaIs
<1>3. Single(new)
  <2>1. SUFFICES ASSUME NEW i \in DOMAIN new.areas, NEW j \in DOMAIN new.areas,
                        NEW t \in new.areas[i].trk, NEW u \in new.areas[j].trk, t.f = u.f
                 PROVE  i = j /\ t = u
    BY DEF Single
  <2>2. CASE t \in trks /\ i = k
    <3>1. u \in trks /\ j = k
      BY <2>1, <2>2, <1>1, <1>2
    <3> QED BY <2>1, <2>2, <3>1 DEF Fresh
  <2>3. CASE i \in DOMAIN sp.areas /\ t \in sp.areas[i].trk
    <3>1. j \in DOMAIN sp.areas /\ u \in sp.areas[j].trk
      BY <2>1, <2>3, <1>1, <1>2
    <3> QED BY <2>1, <2>3, <3>1 DEF Single
  <2> QED BY <2>2, <2>3
<1>4. Tracked(new) \subseteq Tracked(sp) \cup F
  <2>1. SUFFICES ASSUME NEW f \in Tracked(new) PROVE f \in Tracked(sp) \cup F
    OBVIOUS
  <2>2. PICK i \in DOMAIN new.areas : \E t \in new.areas[i].trk : t.f = f
    BY DEF Tracked
  <2>3. PICK t \in new.areas[i].trk : t.f = f
    BY <2>2
  <2> QED BY <2>3, <1>1, <1>2
<1>5. Writable(new) \subseteq Writable(sp) \cup F
  <2>1. SUFFICES ASSUME NEW f \in Writable(new), f \notin F PROVE f \in Writable(sp)
    OBVIOUS
  <2>2. PICK i \in DOMAIN new.areas :
           /\ new.areas[i].mtype \in Private
           /\ \E t \in new.areas[i].trk : t.f = f /\ new.pt[t.v] = [f |-> f, w |-> TRUE]
    BY Zenon DEF Writable
  <2>3. PICK t \in new.areas[i].trk : t.f = f /\ new.pt[t.v] = [f |-> f, w |-> TRUE]
    BY <2>2
  <2>4. /\ i \in DOMAIN sp.areas /\ t \in sp.areas[i].trk
        /\ new.areas[i].mtype = sp.areas[i].mtype
    BY <2>1, <2>3, <1>1
  <2>5. new.pt[t.v].f = f
    BY <2>3
  <2>6. sp.pt[t.v] = [f |-> f, w |-> TRUE]
    <3>1. t.v \in Pages
      BY Zenon, <1>2, <2>4
    <3>2. new.pt[t.v] = sp.pt[t.v] \/ \E u \in trks : new.pt[t.v].f = u.f
      BY Zenon, <3>1
    <3>3. \A u \in trks : u.f # f
      BY Zenon, <1>1, <2>1
    <3> QED BY Zenon, <2>3, <2>5, <3>2, <3>3
  <2>7. f \in Frames
    BY DEF Writable
  <2> QED BY Zenon, <2>2, <2>3, <2>4, <2>6, <2>7 DEF Writable
<1> QED BY <1>3, <1>4, <1>5 DEF From

\* Other mappings of the same areas.
LEMMA RemapFrom ==
  ASSUME NEW sp \in Space, Single(sp), NEW new \in Space, new.areas = sp.areas, NEW F,
         \A a \in Pages : new.pt[a] = sp.pt[a] \/ new.pt[a].f \in F \/ ~new.pt[a].w
  PROVE  From(new, sp, F)
<1>1. Single(new) /\ Tracked(new) = Tracked(sp)
  BY DEF Single, Tracked
<1>2. Writable(new) \subseteq Writable(sp) \cup F
  <2>1. SUFFICES ASSUME NEW f \in Writable(new), f \notin F PROVE f \in Writable(sp)
    OBVIOUS
  <2>2. PICK i \in DOMAIN new.areas :
           /\ new.areas[i].mtype \in Private
           /\ \E t \in new.areas[i].trk : t.f = f /\ new.pt[t.v] = [f |-> f, w |-> TRUE]
    BY Zenon DEF Writable
  <2>3. PICK t \in new.areas[i].trk : t.f = f /\ new.pt[t.v] = [f |-> f, w |-> TRUE]
    BY <2>2
  <2>4. t.v \in Pages
    BY AreaIs
  <2>5. new.pt[t.v].f = f /\ new.pt[t.v].w
    BY <2>3
  <2>6. sp.pt[t.v] = [f |-> f, w |-> TRUE]
    BY <2>1, <2>3, <2>4, <2>5
  <2>7. f \in Frames
    BY DEF Writable
  <2> QED BY <2>2, <2>3, <2>6, <2>7 DEF Writable
<1> QED BY <1>1, <1>2 DEF From

\* A process without areas tracks nothing.
LEMMA ClearFrom ==
  ASSUME NEW new \in Space, new.areas = <<>>
  PROVE  Single(new) /\ Tracked(new) = {} /\ Writable(new) = {} /\ \A sp, F : From(new, sp, F)
<1>1. DOMAIN new.areas = {}
  OBVIOUS
<1>2. Single(new) /\ Tracked(new) = {} /\ Writable(new) = {}
  BY <1>1 DEF Single, Tracked, Writable
<1> QED BY <1>2 DEF From

\* A new area comes last and changes no other.
LEMMA PushIs ==
  ASSUME NEW sp \in Space, NEW x \in Area
  PROVE  /\ Push(sp, x) \in Space /\ Push(sp, x).pt = sp.pt
         /\ DOMAIN Push(sp, x).areas = 1 .. Len(sp.areas) + 1
         /\ Push(sp, x).areas[Len(sp.areas) + 1] = x
         /\ \A i \in DOMAIN sp.areas : Push(sp, x).areas[i] = sp.areas[i]
<1>1. sp.areas \in Seq(Area)
  BY DEF Space
<1>2. Push(sp, x).areas = Append(sp.areas, x)
  BY DEF Push, Space
<1>3. Append(sp.areas, x) \in Seq(Area) /\ Len(Append(sp.areas, x)) = Len(sp.areas) + 1
  BY <1>1
<1>4. Push(sp, x) \in Space /\ Push(sp, x).pt = sp.pt
  BY Zenon, <1>3 DEF Push, Space
<1> QED BY <1>1, <1>2, <1>3, <1>4

\* An area for new trackers
LEMMA PushFrom ==
  ASSUME NEW sp \in Space, Single(sp), NEW trks, Fresh(trks, Tracked(sp)), NEW w \in BOOLEAN,
         NEW x \in Area, x.trk = trks
  PROVE  From(Push([sp EXCEPT !.pt = Map(@, trks, w)], x), sp, {t.f : t \in trks})
<1> DEFINE m == [sp EXCEPT !.pt = Map(@, trks, w)]
           new == Push(m, x)
<1>1. sp.pt \in Table /\ trks \subseteq Tracker
  BY DEF Space, Fresh
<1>2. Map(sp.pt, trks, w) \in Table /\ MappedBy(Map(sp.pt, trks, w), sp.pt, trks)
  BY <1>1, MapIs
<1>3. m \in Space /\ m.areas = sp.areas /\ m.pt = Map(sp.pt, trks, w)
  BY <1>2 DEF Space
<1> HIDE DEF m
<1>4. /\ new \in Space /\ new.pt = m.pt
      /\ DOMAIN new.areas = 1 .. Len(sp.areas) + 1
      /\ new.areas[Len(sp.areas) + 1] = x
      /\ \A i \in DOMAIN sp.areas : new.areas[i] = sp.areas[i]
  BY <1>3, PushIs
<1> HIDE DEF new
<1>5. \A i \in DOMAIN new.areas : i = Len(sp.areas) + 1 \/ i \in DOMAIN sp.areas
  BY <1>4, AreaIs
<1>6. GrownBy(new.areas, sp.areas, trks, Len(sp.areas) + 1)
  BY <1>4, <1>5 DEF GrownBy
<1>7. MappedBy(new.pt, sp.pt, trks)
  BY <1>2, <1>3, <1>4
<1>8. From(new, sp, {t.f : t \in trks})
  BY Zenon, <1>4, <1>6, <1>7, GrowFrom
<1> QED BY <1>4, <1>8 DEF new, m

\* The space with the trackers of one area and the page table replaced
WithTrk(sp, k, T, pt) ==
    [sp EXCEPT !.areas = [sp.areas EXCEPT ![k] = [sp.areas[k] EXCEPT !.trk = T]], !.pt = pt]

\* new is sp with the trackers T in area k and the page table pt.
HasTrk(new, sp, k, T, pt) ==
    /\ new \in Space /\ new.pt = pt
    /\ DOMAIN new.areas = DOMAIN sp.areas
    /\ new.areas[k].trk = T /\ new.areas[k].mtype = sp.areas[k].mtype
    /\ \A i \in DOMAIN sp.areas \ {k} : new.areas[i] = sp.areas[i]

\* Only the one area and the page table change.
LEMMA WithTrkIs ==
  ASSUME NEW sp \in Space, NEW k \in DOMAIN sp.areas, NEW T, T \subseteq Tracker,
         NEW pt \in Table
  PROVE  HasTrk(WithTrk(sp, k, T, pt), sp, k, T, pt)
<1> DEFINE x == [sp.areas[k] EXCEPT !.trk = T]
           as == [sp.areas EXCEPT ![k] = x]
<1>1. sp.areas \in Seq(Area) /\ sp.areas[k] \in Area
  BY AreaIs
<1>2. x \in Area /\ x.trk = T /\ x.mtype = sp.areas[k].mtype
  BY Zenon, <1>1 DEF Area
<1> HIDE DEF x
<1>3. /\ as \in Seq(Area) /\ DOMAIN as = DOMAIN sp.areas /\ as[k] = x
      /\ \A i \in DOMAIN sp.areas \ {k} : as[i] = sp.areas[i]
  BY <1>1, <1>2
<1> HIDE DEF as
<1>4. WithTrk(sp, k, T, pt) = [sp EXCEPT !.areas = as, !.pt = pt]
  BY DEF WithTrk, as, x
<1>5. /\ WithTrk(sp, k, T, pt) \in Space
      /\ WithTrk(sp, k, T, pt).areas = as
      /\ WithTrk(sp, k, T, pt).pt = pt
  BY Zenon, <1>3, <1>4 DEF Space
<1>6. as[k].trk = T /\ as[k].mtype = sp.areas[k].mtype
  BY Zenon, <1>2, <1>3
<1> QED BY Zenon, <1>3, <1>5, <1>6 DEF HasTrk

\* An area with fewer trackers, or with fresh ones.
LEMMA WithTrkFrom ==
  ASSUME NEW sp \in Space, Single(sp), NEW k \in DOMAIN sp.areas, NEW trks,
         Fresh(trks, Tracked(sp)), NEW T, T \subseteq sp.areas[k].trk \cup trks,
         NEW pt \in Table, MappedBy(pt, sp.pt, trks)
  PROVE  From(WithTrk(sp, k, T, pt), sp, {t.f : t \in trks})
<1> DEFINE new == WithTrk(sp, k, T, pt)
<1>1. T \subseteq Tracker
  BY AreaIs DEF Fresh
<1>0. HasTrk(new, sp, k, T, pt)
  BY Zenon, <1>1, WithTrkIs
<1> HIDE DEF new
<1>2. new \in Space /\ new.pt = pt
  BY Zenon, <1>0 DEF HasTrk
<1>3. GrownBy(new.areas, sp.areas, trks, k)
  BY <1>0 DEF GrownBy, HasTrk
<1>4. From(new, sp, {t.f : t \in trks})
  BY Zenon, <1>2, <1>3, GrowFrom
<1> QED BY <1>4 DEF new

\* map_frames adds the trackers to the space.
LEMMA MapFramesFrom ==
  ASSUME NEW sp \in Space, Single(sp), NEW trks, Fresh(trks, Tracked(sp)), NEW w \in BOOLEAN,
         NEW mtype, NEW x \in Area, x.trk = trks
  PROVE  From(MapFrames(sp, mtype, trks, x, w), sp, {t.f : t \in trks})
<1> DEFINE stacks == {i \in DOMAIN sp.areas : sp.areas[i].mtype = "Stack"}
           m == [sp EXCEPT !.pt = Map(@, trks, w)]
           y == NewArea("Stack", StackStart, StackLen, 0, FALSE, trks)
<1>1. m.areas = sp.areas
  BY DEF Space
<1>2. MapFrames(sp, mtype, trks, x, w) =
        IF mtype # "Stack" THEN Push(m, x)
        ELSE IF stacks # {} THEN [m EXCEPT !.areas[Min(stacks)].trk = @ \cup trks]
        ELSE Push(m, y)
  BY DEF MapFrames
<1>3. y \in Area /\ y.trk = trks
  BY MemoryAssumption DEF NewArea, Area, Fresh
<1> HIDE DEF y
<1>4. CASE mtype # "Stack"
  <2>1. MapFrames(sp, mtype, trks, x, w) = Push(m, x)
    BY Zenon, <1>2, <1>4
  <2> QED BY Zenon, <2>1, PushFrom
<1>5. CASE mtype = "Stack" /\ stacks = {}
  <2>1. MapFrames(sp, mtype, trks, x, w) = Push(m, y)
    BY Zenon, <1>2, <1>5
  <2> QED BY Zenon, <2>1, <1>3, PushFrom
<1>6. CASE mtype = "Stack" /\ stacks # {}
  <2> DEFINE k == Min(stacks)
             T == sp.areas[k].trk \cup trks
             pt == Map(sp.pt, trks, w)
  <2>1. stacks \subseteq Nat
    BY AreaIs
  <2>2. k \in DOMAIN sp.areas
    BY <2>1, <1>6, MinIn
  <2> HIDE DEF k
  <2>3. sp.pt \in Table /\ trks \subseteq Tracker
    BY DEF Space, Fresh
  <2>4. pt \in Table /\ MappedBy(pt, sp.pt, trks)
    BY <2>3, MapIs
  <2>5. [m EXCEPT !.areas[k].trk = @ \cup trks] = WithTrk(sp, k, T, pt)
    <3> DEFINE as == [sp.areas EXCEPT ![k] = [sp.areas[k] EXCEPT !.trk = T]]
    <3>1. [m EXCEPT !.areas[k].trk = @ \cup trks] = [m EXCEPT !.areas = as]
      BY <1>1
    <3> HIDE DEF as
    <3>2. [m EXCEPT !.areas = as] = [sp EXCEPT !.areas = as, !.pt = pt]
      BY Zenon DEF Space
    <3> QED BY <3>1, <3>2 DEF WithTrk, as
  <2>6. MapFrames(sp, mtype, trks, x, w) = WithTrk(sp, k, T, pt)
    BY Zenon, <1>2, <1>6, <2>5 DEF k
  <2> HIDE DEF pt
  <2>7. From(WithTrk(sp, k, T, pt), sp, {t.f : t \in trks})
    BY <2>2, <2>4, WithTrkFrom
  <2> QED BY <2>6, <2>7
<1> QED BY Zenon, <1>4, <1>5, <1>6

\* Memory granted with fresh frames: frame_alloc and map_frames.
LEMMA GrantFrom ==
  ASSUME NEW sp \in Space, Single(sp), NEW trks, Fresh(trks, Tracked(sp)),
         NEW mtype \in {"Stack", "Mmap"}, NEW v \in Int, NEW n \in Int
  PROVE  From(Grant(sp, mtype, v, n, trks), sp, {t.f : t \in trks})
<1> DEFINE x == NewArea(mtype, v, n, 0, FALSE, trks)
<1>1. x \in Area /\ x.trk = trks
  BY DEF NewArea, Area, Fresh
<1>2. Grant(sp, mtype, v, n, trks) = MapFrames(sp, mtype, trks, x, TRUE)
  BY DEF Grant
<1> HIDE DEF x
<1> QED BY Zenon, <1>1, <1>2, MapFramesFrom

-----------------------------------------------------------------------------
(* Taking a range out                                                      *)

\* new has trackers only of old, those of one area in one area of the same type.
ShrunkBy(new, old, src) ==
    /\ \A i \in DOMAIN new : \A t \in new[i].trk :
          /\ src[i] \in DOMAIN old /\ t \in old[src[i]].trk
          /\ new[i].mtype = old[src[i]].mtype
    /\ \A i, j \in DOMAIN new :
          new[i].trk # {} /\ new[j].trk # {} /\ src[i] = src[j] => i = j

\* A space with fewer trackers and no new writable page is made of the old one.
LEMMA ShrinkFrom ==
  ASSUME NEW sp \in Space, Single(sp), NEW new \in Space, NEW src,
         ShrunkBy(new.areas, sp.areas, src),
         \A a \in Pages : new.pt[a] = sp.pt[a] \/ ~new.pt[a].w
  PROVE  From(new, sp, {})
<1> USE DEF ShrunkBy
<1>1. Single(new)
  <2>1. SUFFICES ASSUME NEW i \in DOMAIN new.areas, NEW j \in DOMAIN new.areas,
                        NEW t \in new.areas[i].trk, NEW u \in new.areas[j].trk, t.f = u.f
                 PROVE  i = j /\ t = u
    BY Zenon DEF Single
  <2>2. src[i] = src[j] /\ t = u
    BY <2>1 DEF Single
  <2> QED BY <2>2
<1>2. Tracked(new) \subseteq Tracked(sp)
  <2>1. SUFFICES ASSUME NEW f \in Tracked(new) PROVE f \in Tracked(sp)
    OBVIOUS
  <2>2. PICK i \in DOMAIN new.areas : \E t \in new.areas[i].trk : t.f = f
    BY DEF Tracked
  <2>3. PICK t \in new.areas[i].trk : t.f = f
    BY <2>2
  <2>4. src[i] \in DOMAIN sp.areas /\ t \in sp.areas[src[i]].trk
    OBVIOUS
  <2> QED BY <2>3, <2>4, AreaIs
<1>3. Writable(new) \subseteq Writable(sp)
  <2>1. SUFFICES ASSUME NEW f \in Writable(new) PROVE f \in Writable(sp)
    OBVIOUS
  <2>2. PICK i \in DOMAIN new.areas :
           /\ new.areas[i].mtype \in Private
           /\ \E t \in new.areas[i].trk : t.f = f /\ new.pt[t.v] = [f |-> f, w |-> TRUE]
    BY Zenon DEF Writable
  <2>3. PICK t \in new.areas[i].trk : t.f = f /\ new.pt[t.v] = [f |-> f, w |-> TRUE]
    BY Zenon, <2>2
  <2>4. /\ src[i] \in DOMAIN sp.areas /\ t \in sp.areas[src[i]].trk
        /\ new.areas[i].mtype = sp.areas[src[i]].mtype
    BY Zenon
  <2>5. t.v \in Pages
    BY Zenon, <2>4, AreaIs
  <2>9. [f |-> f, w |-> TRUE].w
    OBVIOUS
  <2>6. new.pt[t.v].w
    BY Zenon, <2>3, <2>9
  <2>7. sp.pt[t.v] = [f |-> f, w |-> TRUE]
    BY <2>3, <2>5, <2>6
  <2>8. f \in Frames
    BY DEF Writable
  <2> QED BY Zenon, <2>2, <2>3, <2>4, <2>7, <2>8 DEF Writable
<1> QED BY Zenon, <1>1, <1>2, <1>3 DEF From

\* What sub_area leaves of an area has trackers of the area.
LEMMA KeptIs ==
  ASSUME NEW x \in Area, NEW s \in Int, NEW e \in Int
  PROVE  Kept(x, s, e) \in Area /\ Kept(x, s, e).trk \subseteq x.trk
         /\ Kept(x, s, e).mtype = x.mtype
<1>1. x.trk \subseteq Tracker /\ x.start \in Int /\ x.len \in Int
  BY DEF Area
<1> DEFINE T1 == {t \in x.trk : ~Between(t.v, e, End(x))}
           T2 == {t \in x.trk : Between(t.v, x.start, s)}
           T3 == {t \in x.trk : Between(t.v, e, End(x))}
<1>3. T1 \subseteq x.trk /\ T2 \subseteq x.trk /\ T3 \subseteq x.trk /\ {} \subseteq x.trk
  OBVIOUS
<1>4. s - x.start \in Int /\ End(x) - e \in Int /\ 0 \in Int
  BY <1>1 DEF End
<1>5. \/ Kept(x, s, e) = x
      \/ Kept(x, s, e) = [x EXCEPT !.len = s - x.start, !.trk = T1]
      \/ Kept(x, s, e) = [x EXCEPT !.len = 0, !.trk = {}]
      \/ Kept(x, s, e) = [x EXCEPT !.len = s - x.start, !.trk = T2]
      \/ Kept(x, s, e) = [x EXCEPT !.start = e, !.len = End(x) - e, !.trk = T3]
  BY DEF Kept
<1> HIDE DEF T1, T2, T3
<1>6. CASE Kept(x, s, e) = x
  BY <1>6
<1>7. CASE Kept(x, s, e) = [x EXCEPT !.len = s - x.start, !.trk = T1]
  BY Zenon, <1>1, <1>3, <1>4, <1>7 DEF Area
<1>8. CASE Kept(x, s, e) = [x EXCEPT !.len = 0, !.trk = {}]
  BY Zenon, <1>1, <1>3, <1>4, <1>8 DEF Area
<1>9. CASE Kept(x, s, e) = [x EXCEPT !.len = s - x.start, !.trk = T2]
  BY Zenon, <1>1, <1>3, <1>4, <1>9 DEF Area
<1>10. CASE Kept(x, s, e) = [x EXCEPT !.start = e, !.len = End(x) - e, !.trk = T3]
  BY Zenon, <1>1, <1>3, <1>4, <1>10 DEF Area
<1> QED BY <1>5, <1>6, <1>7, <1>8, <1>9, <1>10

\* The upper part of a split has no trackers.
LEMMA UpperIs ==
  ASSUME NEW x \in Area, NEW s \in Int, NEW e \in Int
  PROVE  Upper(x, s, e) \in Area /\ (Splits(x, s, e) => Upper(x, s, e).trk = {})
<1> DEFINE T == {t \in Kept(x, s, e).trk : Between(t.v, e, End(x))}
<1>1. x.trk \subseteq Tracker /\ x.start \in Int /\ x.len \in Int
  BY DEF Area
<1>2. T \subseteq Tracker
  BY <1>1, KeptIs
<1>3. End(x) - e \in Int /\ e - x.start \in Int
  BY <1>1 DEF End
<1>4. Upper(x, s, e) = [x EXCEPT !.start = e, !.len = End(x) - e, !.offset = e - x.start,
                                 !.trk = T]
  BY DEF Upper
<1>5. ASSUME Splits(x, s, e) PROVE T = {}
  <2>1. Overlapping(x, s, e)
    BY <1>5 DEF Splits
  <2>2. Kept(x, s, e) = [x EXCEPT !.len = s - x.start,
                                  !.trk = {t \in x.trk : ~Between(t.v, e, End(x))}]
    BY <1>5, <2>1 DEF Kept
  <2>3. Kept(x, s, e).trk = {t \in x.trk : ~Between(t.v, e, End(x))}
    BY <2>2 DEF Area
  <2> QED BY <2>3
<1> HIDE DEF T
<1>6. Upper(x, s, e) \in Area /\ Upper(x, s, e).trk = T
  BY Zenon, <1>2, <1>3, <1>4 DEF Area
<1> QED BY <1>5, <1>6

\* Unmapping makes no page writable.
LEMMA UnmapIs ==
  ASSUME NEW pt \in Table, NEW vs
  PROVE  /\ Unmap(pt, vs) \in Table
         /\ \A a \in Pages : Unmap(pt, vs)[a] = pt[a] \/ ~Unmap(pt, vs)[a].w
<1>1. NoMap \in [f : 0 .. NFrames, w : BOOLEAN] /\ ~NoMap.w
  BY MemoryAssumption DEF NoMap
<1> QED BY <1>1 DEF Unmap, Table

\* The areas that sub_area leaves
SubAreas(areas, s, e) ==
    LET kept == [i \in DOMAIN areas |-> Kept(areas[i], s, e)]
        upper == [i \in DOMAIN areas |-> Upper(areas[i], s, e)]
    IN Chosen(kept, {i \in DOMAIN areas : kept[i].len # 0})
         \o Chosen(upper, {i \in DOMAIN areas : Splits(areas[i], s, e)})

\* A function on the first numbers is a sequence.
LEMMA SeqOver ==
  ASSUME NEW S, NEW n \in Nat, NEW q \in [1 .. n -> S]
  PROVE  q \in Seq(S) /\ Len(q) = n
  OBVIOUS

\* What sub_area leaves has trackers of the areas there were.
LEMMA SubAreasIs ==
  ASSUME NEW areas \in Seq(Area), NEW s \in Int, NEW e \in Int
  PROVE  SubAreas(areas, s, e) \in Seq(Area) /\ \E src : ShrunkBy(SubAreas(areas, s, e), areas, src)
<1> DEFINE kept == [i \in DOMAIN areas |-> Kept(areas[i], s, e)]
           upper == [i \in DOMAIN areas |-> Upper(areas[i], s, e)]
           I == {i \in DOMAIN areas : kept[i].len # 0}
           J == {i \in DOMAIN areas : Splits(areas[i], s, e)}
           A == Chosen(kept, I)
           B == Chosen(upper, J)
           new == A \o B
<1>1. DOMAIN areas = 1 .. Len(areas) /\ Len(areas) \in Nat /\ \A i \in DOMAIN areas : areas[i] \in Area
  OBVIOUS
<1>2. \A i \in DOMAIN areas : /\ kept[i] \in Area /\ kept[i].trk \subseteq areas[i].trk
                              /\ kept[i].mtype = areas[i].mtype
                              /\ upper[i] \in Area
                              /\ i \in J => upper[i].trk = {}
  <2> SUFFICES ASSUME NEW i \in DOMAIN areas
               PROVE  /\ kept[i] \in Area /\ kept[i].trk \subseteq areas[i].trk
                      /\ kept[i].mtype = areas[i].mtype
                      /\ upper[i] \in Area
                      /\ i \in J => upper[i].trk = {}
    BY Zenon
  <2>1. areas[i] \in Area
    BY Zenon, <1>1
  <2>2. kept[i] = Kept(areas[i], s, e) /\ upper[i] = Upper(areas[i], s, e)
    BY Zenon
  <2>3. i \in J => Splits(areas[i], s, e)
    BY Zenon
  <2> HIDE DEF kept, upper, J
  <2>4. /\ Kept(areas[i], s, e) \in Area /\ Kept(areas[i], s, e).trk \subseteq areas[i].trk
        /\ Kept(areas[i], s, e).mtype = areas[i].mtype
    BY ZenonT(30), <2>1, KeptIs
  <2>5. Upper(areas[i], s, e) \in Area /\ (Splits(areas[i], s, e) => Upper(areas[i], s, e).trk = {})
    BY ZenonT(30), <2>1, UpperIs
  <2>6. kept[i] \in Area /\ kept[i].trk \subseteq areas[i].trk /\ kept[i].mtype = areas[i].mtype
    BY <2>2, <2>4
  <2>7. upper[i] \in Area /\ (i \in J => upper[i].trk = {})
    BY <2>2, <2>3, <2>5
  <2> QED BY <2>6, <2>7
<1>3. kept \in Seq(Area) /\ Len(kept) = Len(areas) /\ upper \in Seq(Area) /\ Len(upper) = Len(areas)
  <2>1. kept \in [1 .. Len(areas) -> Area] /\ upper \in [1 .. Len(areas) -> Area]
    BY Zenon, <1>1, <1>2
  <2> QED BY Zenon, <1>1, <2>1, SeqOver
<1>4. I \subseteq 1 .. Len(kept) /\ J \subseteq 1 .. Len(upper)
  BY <1>1, <1>3
<1>5. SubAreas(areas, s, e) = new
  BY DEF SubAreas
<1> HIDE DEF kept, upper, I, J
<1>6. A \in Seq(Area)
  BY Zenon, <1>3, <1>4, ChosenIs
<1>7. PICK sa : Sourced(kept, I, A, sa)
  BY Zenon, <1>3, <1>4, ChosenIs
<1>8. B \in Seq(Area)
  BY Zenon, <1>3, <1>4, ChosenIs
<1>9. PICK sb : Sourced(upper, J, B, sb)
  BY Zenon, <1>3, <1>4, ChosenIs
<1> HIDE DEF A, B
<1>10. /\ new \in Seq(Area) /\ DOMAIN new = 1 .. Len(A) + Len(B)
       /\ Len(A) \in Nat /\ Len(B) \in Nat
       /\ \A i \in 1 .. Len(A) : new[i] = A[i]
       /\ \A i \in DOMAIN new : i \notin 1 .. Len(A) =>
             i - Len(A) \in 1 .. Len(B) /\ new[i] = B[i - Len(A)]
  BY <1>6, <1>8
<1> HIDE DEF new
<1>11. I \subseteq DOMAIN areas /\ J \subseteq DOMAIN areas
  BY DEF I, J
<1>12. \A i \in DOMAIN new : new[i].trk # {} => i \in 1 .. Len(A)
  <2>1. \A j \in 1 .. Len(B) : B[j] = upper[sb[j]] /\ sb[j] \in J
    BY <1>9 DEF Sourced
  <2>2. \A j \in 1 .. Len(B) : B[j].trk = {}
    BY <1>2, <1>11, <2>1
  <2> QED BY <1>10, <2>2
<1>13. ShrunkBy(new, areas, sa)
  <2>1. \A j \in 1 .. Len(A) : A[j] = kept[sa[j]] /\ sa[j] \in DOMAIN areas
    BY <1>7, <1>11 DEF Sourced
  <2>2. ASSUME NEW i \in DOMAIN new, NEW t \in new[i].trk
        PROVE  /\ sa[i] \in DOMAIN areas /\ t \in areas[sa[i]].trk
               /\ new[i].mtype = areas[sa[i]].mtype
    <3>1. i \in 1 .. Len(A) /\ new[i] = A[i]
      BY <1>10, <1>12
    <3>2. sa[i] \in DOMAIN areas /\ new[i] = kept[sa[i]]
      BY <2>1, <3>1
    <3> QED BY <1>2, <3>2
  <2>3. \A i, j \in DOMAIN new :
           new[i].trk # {} /\ new[j].trk # {} /\ sa[i] = sa[j] => i = j
    BY <1>7, <1>12 DEF Sourced
  <2> QED BY <2>2, <2>3 DEF ShrunkBy
<1> QED BY <1>5, <1>10, <1>13

\* sub_area only takes trackers and mappings away.
LEMMA SubAreaFrom ==
  ASSUME NEW sp \in Space, Single(sp), NEW s \in Int, NEW e \in Int
  PROVE  From(SubArea(sp, s, e), sp, {})
<1> DEFINE vs == UNION {Unmapped(x, s, e) : x \in Range(sp.areas)}
           pt == Unmap(sp.pt, vs)
           as == SubAreas(sp.areas, s, e)
           new == SubArea(sp, s, e)
<1>1. sp.areas \in Seq(Area) /\ sp.pt \in Table
  BY DEF Space
<1>2. new = [sp EXCEPT !.areas = as, !.pt = pt]
  BY DEF SubArea, SubAreas
<1>3. as \in Seq(Area)
  BY <1>1, SubAreasIs
<1>4. PICK src : ShrunkBy(as, sp.areas, src)
  BY <1>1, SubAreasIs
<1> HIDE DEF as, vs
<1>5. pt \in Table
  BY <1>1, UnmapIs
<1>6. \A a \in Pages : pt[a] = sp.pt[a] \/ ~pt[a].w
  BY <1>1, UnmapIs
<1> HIDE DEF pt
<1>7. new \in Space /\ new.areas = as /\ new.pt = pt
  BY Zenon, <1>2, <1>3, <1>5 DEF Space
<1> HIDE DEF new
<1>8. From(new, sp, {})
  BY Zenon, <1>4, <1>6, <1>7, ShrinkFrom
<1> QED BY <1>8 DEF new

-----------------------------------------------------------------------------
(* The processes together                                                  *)

SegFrames(sg) == UNION {Range(sg[k].frames) : k \in Keys}

\* The inductive invariant, of the spaces and the segments: a process tracks a
\* frame once at most, and none of a segment; what it can write through a
\* private page is not tracked by others.
Isolated(spc, sg) ==
    /\ spc \in [Procs -> Space] /\ sg \in Segments
    /\ \A p \in Procs : Single(spc[p]) /\ Tracked(spc[p]) \cap SegFrames(sg) = {}
    /\ \A p, q \in Procs : p # q => Writable(spc[p]) \cap Tracked(spc[q]) = {}

\* A frame that can be written is tracked.
LEMMA WritableTracked ==
  ASSUME NEW sp PROVE Writable(sp) \subseteq Tracked(sp)
  BY DEF Writable, Tracked

\* The frames of processes and segments are held.
LEMMA HeldIs ==
  ASSUME NEW spc \in [Procs -> Space], NEW sg
  PROVE  /\ \A p \in Procs : Tracked(spc[p]) \subseteq Held(spc, sg)
         /\ SegFrames(sg) \subseteq Held(spc, sg)
<1>1. ASSUME NEW p \in Procs, NEW f \in Tracked(spc[p]) PROVE f \in Held(spc, sg)
  <2>1. PICK i \in DOMAIN spc[p].areas : \E t \in spc[p].areas[i].trk : t.f = f
    BY DEF Tracked
  <2>2. PICK t \in spc[p].areas[i].trk : t.f = f
    BY <2>1
  <2>3. <<p, i, t>> \in Trackers(spc)
    BY DEF Trackers
  <2>4. <<p, i, t>>[3].f = f
    BY <2>2
  <2> QED BY <2>3, <2>4 DEF Held
<1>2. SegFrames(sg) \subseteq Held(spc, sg)
  BY DEF SegFrames, Held
<1> QED BY <1>1, <1>2

\* One process changes, with frames that are no one else's.
LEMMA ApartIsolated ==
  ASSUME NEW spc, NEW sg, Isolated(spc, sg), NEW p \in Procs, NEW sp, NEW F,
         \A q \in Procs \ {p} : F \cap Tracked(spc[q]) = {},
         F \cap SegFrames(sg) = {}, From(sp, spc[p], F)
  PROVE  Isolated([spc EXCEPT ![p] = sp], sg)
<1> DEFINE new == [spc EXCEPT ![p] = sp]
<1>1. spc \in [Procs -> Space] /\ sg \in Segments /\ sp \in Space /\ Single(sp)
  BY DEF Isolated, From
<1>2. new \in [Procs -> Space] /\ new[p] = sp /\ \A q \in Procs \ {p} : new[q] = spc[q]
  BY <1>1
<1> HIDE DEF new
<1>4. \A q \in Procs : Single(new[q]) /\ Tracked(new[q]) \cap SegFrames(sg) = {}
  BY <1>1, <1>2 DEF Isolated, From
<1>5. ASSUME NEW q \in Procs \ {p}
      PROVE  Writable(sp) \cap Tracked(spc[q]) = {} /\ Writable(spc[q]) \cap Tracked(sp) = {}
  <2>1. Writable(spc[q]) \subseteq Tracked(spc[q])
    BY WritableTracked
  <2>2. /\ Writable(spc[p]) \cap Tracked(spc[q]) = {}
        /\ Writable(spc[q]) \cap Tracked(spc[p]) = {}
    BY DEF Isolated
  <2> QED BY <2>1, <2>2 DEF From
<1>6. \A q, r \in Procs : q # r => Writable(new[q]) \cap Tracked(new[r]) = {}
  BY <1>2, <1>5 DEF Isolated
<1>7. Isolated(new, sg)
  BY <1>1, <1>2, <1>4, <1>6 DEF Isolated
<1> QED BY <1>7 DEF new

\* One process changes, with free frames.
LEMMA OneIsolated ==
  ASSUME NEW spc, NEW sg, Isolated(spc, sg), NEW p \in Procs, NEW sp, NEW F,
         F \cap Held(spc, sg) = {}, From(sp, spc[p], F)
  PROVE  Isolated([spc EXCEPT ![p] = sp], sg)
<1>1. spc \in [Procs -> Space]
  BY DEF Isolated
<1>2. /\ \A q \in Procs : F \cap Tracked(spc[q]) = {}
      /\ F \cap SegFrames(sg) = {}
  BY <1>1, HeldIs
<1> QED BY <1>2, ApartIsolated

\* Trackers of free frames.
LEMMA FreshFree ==
  ASSUME NEW spc, NEW sg, Isolated(spc, sg), NEW p \in Procs, NEW trks,
         Fresh(trks, Held(spc, sg))
  PROVE  Fresh(trks, Tracked(spc[p])) /\ {t.f : t \in trks} \cap Held(spc, sg) = {}
<1>1. Tracked(spc[p]) \subseteq Held(spc, sg)
  BY HeldIs DEF Isolated
<1> QED BY <1>1 DEF Fresh

\* One page of a free frame.
LEMMA OneFresh ==
  ASSUME NEW a \in Pages, NEW used, FirstRun(1, used) # 0
  PROVE  Fresh({[v |-> a, f |-> FirstRun(1, used)]}, used)
<1> DEFINE f == FirstRun(1, used)
<1>1. f \in Frames /\ \A i \in 0 .. 1 - 1 : f + i \in Frames /\ f + i \notin used
  BY FirstRunIs
<1>2. f \in Nat
  BY <1>1 DEF Frames
<1>3. f \notin used
  <2> HIDE DEF f
  <2>1. 0 \in 0 .. 1 - 1 /\ f + 0 = f
    BY <1>2
  <2> QED BY <1>1, <2>1
<1> QED BY <1>1, <1>3 DEF Fresh, Tracker

=============================================================================
