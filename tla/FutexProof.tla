----------------------------- MODULE FutexProof -----------------------------
(***************************************************************************)
(* The futex table of a process with any number of threads and addresses,  *)
(* and queues of any length: a thread is in it at most once, where it      *)
(* waits, and until a wait times out Futex implements WaitSets.            *)
(***************************************************************************)
EXTENDS Futex, FiniteSetTheorems, TLAPS

-----------------------------------------------------------------------------
(* Queues                                                                  *)

\* t is in q at most once.
Once(q, t) == \A i, j \in 1 .. Len(q) : q[i] = t /\ q[j] = t => i = j

\* The members of a queue with one thread more.
LEMMA AppendIn ==
  ASSUME NEW q \in Seq(Threads), NEW t \in Threads, NEW u
  PROVE  /\ Append(q, t) \in Seq(Threads)
         /\ Contains(Append(q, t), u) <=> Contains(q, u) \/ u = t
         /\ Once(q, u) /\ (u = t => ~Contains(q, t)) => Once(Append(q, t), u)
<1> DEFINE r == Append(q, t)
<1>1. r \in Seq(Threads) /\ Len(r) = Len(q) + 1 /\ r[Len(q) + 1] = t
  OBVIOUS
<1>2. \A i \in 1 .. Len(q) : r[i] = q[i]
  OBVIOUS
<1>3. Len(q) \in Nat
  OBVIOUS
<1> HIDE DEF r
<1>4. Contains(r, u) <=> Contains(q, u) \/ u = t
  BY <1>1, <1>2, <1>3 DEF Contains
<1>5. Once(q, u) /\ (u = t => ~Contains(q, t)) => Once(r, u)
  BY <1>1, <1>2, <1>3 DEF Contains, Once
<1> QED BY <1>1, <1>4, <1>5 DEF r

\* What follows the first n of the first m threads.
Part(q, n, m) == SubSeq(q, n + 1, m)

\* A part of a queue, place by place.
LEMMA PartAt ==
  ASSUME NEW q \in Seq(Threads), NEW n \in Nat, NEW m \in Nat, n <= m, m <= Len(q)
  PROVE  /\ Part(q, n, m) \in Seq(Threads) /\ Len(Part(q, n, m)) = m - n
         /\ \A i \in 1 .. m - n : Part(q, n, m)[i] = q[n + i]
  BY DEF Part

\* The members of a part of a queue.
LEMMA PartIn ==
  ASSUME NEW q \in Seq(Threads), NEW n \in Nat, NEW m \in Nat, n <= m, m <= Len(q), NEW u
  PROVE  Contains(Part(q, n, m), u) <=> \E i \in n + 1 .. m : q[i] = u
<1> DEFINE p == Part(q, n, m)
<1>1. Len(p) = m - n /\ \A i \in 1 .. m - n : p[i] = q[n + i]
  BY Zenon, PartAt
<1> HIDE DEF p
<1>2. ASSUME Contains(p, u) PROVE \E i \in n + 1 .. m : q[i] = u
  <2>1. PICK i \in 1 .. m - n : p[i] = u
    BY <1>1, <1>2 DEF Contains
  <2>2. n + i \in n + 1 .. m /\ q[n + i] = u
    BY <2>1, <1>1
  <2> QED BY <2>2
<1>3. ASSUME NEW i \in n + 1 .. m, q[i] = u PROVE Contains(p, u)
  <2>1. i - n \in 1 .. m - n /\ n + (i - n) = i
    OBVIOUS
  <2>2. p[i - n] = u
    BY <2>1, <1>1, <1>3
  <2> QED BY <2>1, <2>2, <1>1 DEF Contains
<1> QED BY <1>2, <1>3 DEF p

\* No thread is twice in a part of a queue that holds it once.
LEMMA PartOnce ==
  ASSUME NEW q \in Seq(Threads), NEW n \in Nat, NEW m \in Nat, n <= m, m <= Len(q), NEW u,
         Once(q, u)
  PROVE  Once(Part(q, n, m), u)
<1> DEFINE p == Part(q, n, m)
<1>1. Len(p) = m - n /\ \A i \in 1 .. m - n : p[i] = q[n + i]
  BY Zenon, PartAt
<1> HIDE DEF p
<1>2. ASSUME NEW i \in 1 .. m - n, NEW j \in 1 .. m - n, p[i] = u, p[j] = u
      PROVE  i = j
  <2>1. n + i \in 1 .. Len(q) /\ n + j \in 1 .. Len(q)
    OBVIOUS
  <2>2. q[n + i] = u /\ q[n + j] = u
    BY <1>1, <1>2
  <2>3. n + i = n + j
    BY <2>1, <2>2 DEF Once
  <2> QED BY <2>3
<1> QED BY <1>1, <1>2 DEF Once, p

\* The members of two queues joined.
LEMMA JoinIn ==
  ASSUME NEW q \in Seq(Threads), NEW p \in Seq(Threads), NEW u
  PROVE  /\ q \o p \in Seq(Threads) /\ Len(q \o p) = Len(q) + Len(p)
         /\ Contains(q \o p, u) <=> Contains(q, u) \/ Contains(p, u)
         /\ Once(q, u) /\ Once(p, u) /\ ~(Contains(q, u) /\ Contains(p, u)) => Once(q \o p, u)
<1> DEFINE r == q \o p
<1>1. r \in Seq(Threads) /\ Len(r) = Len(q) + Len(p)
  OBVIOUS
<1>2. \A i \in 1 .. Len(q) : r[i] = q[i]
  OBVIOUS
<1>3. \A i \in 1 .. Len(p) : r[Len(q) + i] = p[i]
  OBVIOUS
<1>4. Len(q) \in Nat /\ Len(p) \in Nat
  OBVIOUS
<1> HIDE DEF r
<1>5. \A i \in 1 .. Len(r) : i \in 1 .. Len(q) \/ (i - Len(q) \in 1 .. Len(p) /\ r[i] = p[i - Len(q)])
  <2> TAKE i \in 1 .. Len(r)
  <2>1. CASE i > Len(q)
    <3>1. i - Len(q) \in 1 .. Len(p) /\ Len(q) + (i - Len(q)) = i
      BY <2>1, <1>1, <1>4
    <3> QED BY <3>1, <1>3
  <2>2. CASE ~(i > Len(q))
    BY <2>2, <1>4
  <2> QED BY <2>1, <2>2
<1>6. ASSUME Contains(r, u) PROVE Contains(q, u) \/ Contains(p, u)
  BY Zenon, <1>2, <1>5, <1>6 DEF Contains
<1>7. ASSUME Contains(q, u) PROVE Contains(r, u)
  <2>1. PICK i \in 1 .. Len(q) : q[i] = u
    BY <1>7 DEF Contains
  <2>2. i \in 1 .. Len(r) /\ r[i] = u
    BY <2>1, <1>1, <1>2, <1>4
  <2> QED BY <2>2 DEF Contains
<1>8. ASSUME Contains(p, u) PROVE Contains(r, u)
  <2>1. PICK i \in 1 .. Len(p) : p[i] = u
    BY <1>8 DEF Contains
  <2>2. Len(q) + i \in 1 .. Len(r) /\ r[Len(q) + i] = u
    BY <2>1, <1>1, <1>3, <1>4
  <2> QED BY <2>2 DEF Contains
<1>9. ASSUME Once(q, u), Once(p, u), ~(Contains(q, u) /\ Contains(p, u)),
             NEW i \in 1 .. Len(r), NEW j \in 1 .. Len(r), r[i] = u, r[j] = u
      PROVE  i = j
  <2>1. CASE i \in 1 .. Len(q)
    <3>1. Contains(q, u)
      BY <2>1, <1>2, <1>9 DEF Contains
    <3>2. j \in 1 .. Len(q)
      BY <3>1, <1>5, <1>9 DEF Contains
    <3> QED BY <2>1, <3>2, <1>2, <1>9 DEF Once
  <2>2. CASE i \notin 1 .. Len(q)
    <3>1. i - Len(q) \in 1 .. Len(p) /\ p[i - Len(q)] = u
      BY <2>2, <1>5, <1>9
    <3>2. Contains(p, u)
      BY <3>1 DEF Contains
    <3>3. j \notin 1 .. Len(q)
      BY <3>2, <1>2, <1>9 DEF Contains
    <3>4. j - Len(q) \in 1 .. Len(p) /\ p[j - Len(q)] = u
      BY <3>3, <1>5, <1>9
    <3>5. i - Len(q) = j - Len(q)
      BY <3>1, <3>4, <1>9 DEF Once
    <3> QED BY <3>5, <1>4
  <2> QED BY <2>1, <2>2
<1>10. Once(q, u) /\ Once(p, u) /\ ~(Contains(q, u) /\ Contains(p, u)) => Once(r, u)
  BY <1>9 DEF Once
<1> QED BY <1>1, <1>6, <1>7, <1>8, <1>10 DEF r

\* Induction over the naturals, for a set.
LEMMA NatInd ==
  ASSUME NEW S, 0 \in S, \A n \in Nat : n \in S => n + 1 \in S
  PROVE  \A n \in Nat : n \in S
<1> DEFINE T == {n \in Nat : n \notin S}
<1> SUFFICES ASSUME T # {} PROVE FALSE
  OBVIOUS
<1>1. PICK m \in T : \A y \in T : ~(<<y, m>> \in OpToRel(<, Nat))
  BY Zenon, T \subseteq Nat, WFMin, NatLessThanWellFounded
<1>2. \A y \in T : ~(y < m)
  BY Zenon, <1>1 DEF OpToRel
<1>3. m - 1 \in Nat /\ m - 1 < m
  OBVIOUS
<1>4. m - 1 \in S
  BY <1>3, <1>2
<1>5. m - 1 + 1 \in S
  BY <1>4, <1>3
<1> QED BY <1>5

\* f is the function that retain computes, up to n.
Keeps(f, q, t, m) ==
    f = [n \in 0 .. m |-> IF n = 0 THEN <<>>
                          ELSE IF q[n] = t THEN f[n - 1]
                          ELSE Append(f[n - 1], q[n])]

\* What retain has kept after k places.
LEMMA KeepsAt ==
  ASSUME NEW q, NEW t, NEW m, NEW f, Keeps(f, q, t, m), NEW k \in 0 .. m
  PROVE  f[k] = IF k = 0 THEN <<>> ELSE IF q[k] = t THEN f[k - 1] ELSE Append(f[k - 1], q[k])
<1> DEFINE G(n) == IF n = 0 THEN <<>>
                   ELSE IF q[n] = t THEN f[n - 1]
                   ELSE Append(f[n - 1], q[n])
<1>1. f = [n \in 0 .. m |-> G(n)]
  BY Zenon DEF Keeps
<1> HIDE DEF G
<1>2. f[k] = G(k)
  BY Zenon, <1>1
<1> QED BY Zenon, <1>2 DEF G

\* retain is defined on every queue.
LEMMA KeepsExists ==
  ASSUME NEW q, NEW t
  PROVE  \A m \in Nat : \E f : Keeps(f, q, t, m)
<1> DEFINE S == {m \in Nat : \E f : Keeps(f, q, t, m)}
<1>1. 0 \in S
  <2> DEFINE f == [n \in 0 .. 0 |-> <<>>]
  <2>1. Keeps(f, q, t, 0)
    BY DEF Keeps
  <2> QED BY <2>1
<1>2. ASSUME NEW m \in Nat, m \in S PROVE m + 1 \in S
  <2>1. PICK f : Keeps(f, q, t, m)
    BY <1>2
  <2> DEFINE g == [n \in 0 .. m + 1 |->
                      IF n <= m THEN f[n]
                      ELSE IF q[n] = t THEN f[n - 1] ELSE Append(f[n - 1], q[n])]
  <2>2. ASSUME NEW n \in 0 .. m + 1
        PROVE  g[n] = IF n = 0 THEN <<>>
                      ELSE IF q[n] = t THEN g[n - 1] ELSE Append(g[n - 1], q[n])
    <3>1. CASE n = 0
      BY <2>1, <3>1, KeepsAt
    <3>2. CASE n \in 1 .. m
      <4>1. g[n] = f[n] /\ g[n - 1] = f[n - 1]
        BY <3>2
      <4>2. f[n] = IF q[n] = t THEN f[n - 1] ELSE Append(f[n - 1], q[n])
        <5>1. n \in 0 .. m /\ n # 0
          BY <3>2
        <5>2. f[n] = IF n = 0 THEN <<>>
                     ELSE IF q[n] = t THEN f[n - 1] ELSE Append(f[n - 1], q[n])
          BY <2>1, <5>1, KeepsAt
        <5> QED BY <5>1, <5>2
      <4> QED BY <4>1, <4>2, <3>2
    <3>3. CASE n = m + 1
      <4>1. g[n - 1] = f[n - 1]
        BY <3>3
      <4> QED BY <4>1, <3>3
    <3> QED BY <3>1, <3>2, <3>3
  <2>3. Keeps(g, q, t, m + 1)
    <3>1. g = [n \in 0 .. m + 1 |-> g[n]]
      OBVIOUS
    <3> HIDE DEF g
    <3> QED BY Zenon, <2>2, <3>1 DEF Keeps
  <2> QED BY <2>3
<1>3. \A m \in Nat : m \in S
  BY Zenon, <1>1, <1>2, NatInd
<1> QED BY <1>3

\* What is kept of the first n threads: those that are not t, as often as they
\* are there.
LEMMA KeptIn ==
  ASSUME NEW q \in Seq(Threads), NEW t, NEW f, Keeps(f, q, t, Len(q)), NEW u
  PROVE  \A n \in Nat : n <= Len(q) =>
            /\ f[n] \in Seq(Threads)
            /\ Contains(f[n], u) <=> u # t /\ \E i \in 1 .. n : q[i] = u
            /\ (\A i, j \in 1 .. n : q[i] = u /\ q[j] = u => i = j) => Once(f[n], u)
<1> DEFINE P(n) == /\ f[n] \in Seq(Threads)
                   /\ Contains(f[n], u) <=> u # t /\ \E i \in 1 .. n : q[i] = u
                   /\ (\A i, j \in 1 .. n : q[i] = u /\ q[j] = u => i = j) => Once(f[n], u)
           S == {n \in Nat : n <= Len(q) => P(n)}
<1>1. 0 \in S
  <2>1. f[0] = <<>>
    BY KeepsAt
  <2>2. Len(f[0]) = 0 /\ f[0] \in Seq(Threads)
    BY <2>1
  <2>3. ~Contains(f[0], u) /\ Once(f[0], u)
    BY <2>2 DEF Contains, Once
  <2> QED BY <2>2, <2>3
<1>2. ASSUME NEW n \in Nat, n \in S, n + 1 <= Len(q) PROVE P(n + 1)
  <2>1. P(n)
    BY <1>2
  <2>2. f[n + 1] = IF q[n + 1] = t THEN f[n] ELSE Append(f[n], q[n + 1])
    <3>1. n + 1 \in 0 .. Len(q) /\ n + 1 # 0 /\ n + 1 - 1 = n
      BY <1>2
    <3>2. f[n + 1] = IF n + 1 = 0 THEN <<>>
                     ELSE IF q[n + 1] = t THEN f[n + 1 - 1]
                     ELSE Append(f[n + 1 - 1], q[n + 1])
      BY <3>1, KeepsAt
    <3> QED BY <3>1, <3>2
  <2>3. \A i \in 1 .. n + 1 : i \in 1 .. n \/ i = n + 1
    OBVIOUS
  <2>4. n + 1 \in 1 .. n + 1 /\ \A i \in 1 .. n : i \in 1 .. n + 1
    OBVIOUS
  <2>5. CASE q[n + 1] = t
    BY <2>1, <2>2, <2>3, <2>4, <2>5
  <2>6. CASE q[n + 1] # t
    <3>1. q[n + 1] \in Threads
      BY <1>2
    <3>2. /\ f[n + 1] \in Seq(Threads)
          /\ Contains(f[n + 1], u) <=> Contains(f[n], u) \/ u = q[n + 1]
          /\ Once(f[n], u) /\ (u = q[n + 1] => ~Contains(f[n], q[n + 1])) => Once(f[n + 1], u)
      BY <2>1, <2>2, <2>6, <3>1, AppendIn
    <3>3. ASSUME \A i, j \in 1 .. n + 1 : q[i] = u /\ q[j] = u => i = j
          PROVE  Once(f[n + 1], u)
      <4>1. Once(f[n], u)
        BY <2>1, <2>4, <3>3
      <4>2. ASSUME u = q[n + 1], Contains(f[n], u) PROVE FALSE
        <5>1. PICK i \in 1 .. n : q[i] = u
          BY <2>1, <4>2
        <5>2. i = n + 1
          BY <5>1, <2>4, <3>3, <4>2
        <5> QED BY <5>2
      <4> QED BY <3>2, <4>1, <4>2
    <3>4. Contains(f[n + 1], u) <=> u # t /\ \E i \in 1 .. n + 1 : q[i] = u
      BY <2>1, <2>3, <2>4, <2>6, <3>2
    <3> QED BY <3>2, <3>3, <3>4
  <2> QED BY <2>5, <2>6
<1>3. ASSUME NEW n \in Nat, n \in S PROVE n + 1 \in S
  <2>1. n + 1 <= Len(q) => P(n + 1)
    BY <1>2, <1>3
  <2> QED BY <2>1
<1> HIDE DEF S
<1>4. \A n \in Nat : n \in S
  BY <1>1, <1>3, NatInd
<1> QED BY <1>4 DEF S

\* retain takes t out of a queue and leaves the others there.
LEMMA RetainIn ==
  ASSUME NEW q \in Seq(Threads), NEW t, NEW u
  PROVE  /\ retain(q, t) \in Seq(Threads)
         /\ Contains(retain(q, t), u) <=> u # t /\ Contains(q, u)
         /\ Once(q, u) => Once(retain(q, t), u)
<1> DEFINE k == CHOOSE f : Keeps(f, q, t, Len(q))
<1>1. Len(q) \in Nat /\ Len(q) <= Len(q)
  OBVIOUS
<1>2. Keeps(k, q, t, Len(q))
  BY <1>1, KeepsExists
<1>3. retain(q, t) = k[Len(q)]
  BY DEF retain, Keeps
<1> HIDE DEF k
<1>4. /\ k[Len(q)] \in Seq(Threads)
      /\ Contains(k[Len(q)], u) <=> u # t /\ \E i \in 1 .. Len(q) : q[i] = u
      /\ (\A i, j \in 1 .. Len(q) : q[i] = u /\ q[j] = u => i = j) => Once(k[Len(q)], u)
  BY Zenon, <1>1, <1>2, KeptIn
<1> QED BY <1>3, <1>4 DEF Contains, Once

-----------------------------------------------------------------------------
(* The table                                                               *)

Tables == [Addr -> Seq(Threads)]

\* What TableExact says, without counting and for queues of any length: a thread
\* none of whose waits timed out (not in ex) is in a queue at most once, only
\* while it waits and where it waits.
Exact(tab, s, o, ex) ==
    \A u \in Threads \ ex, a \in Addr :
        /\ Once(tab[a], u)
        /\ Contains(tab[a], u) => s[u] \in {"wait", "timed"} /\ o[u] = a

\* The inductive invariant: TableExact is kept only together with what the other
\* variables are.
IInv ==
    /\ futex_table \in Tables
    /\ st = [t \in Threads |-> st[t]]
    /\ on = [t \in Threads |-> on[t]]
    /\ clear_child_tid \in [Threads -> TidAddr \cup {NoAddr}]
    /\ Exact(futex_table, st, on, expired)

\* Threads left queues of tab, and none came.
Fewer(new, tab) ==
    /\ new \in Tables
    /\ \A a \in Addr, u \in Threads :
          /\ Contains(new[a], u) => Contains(tab[a], u)
          /\ Once(tab[a], u) => Once(new[a], u)

\* Taking threads out of the table keeps it exact.
LEMMA FewerExact ==
  ASSUME NEW tab, NEW new, NEW s, NEW o, NEW ex, Exact(tab, s, o, ex), Fewer(new, tab)
  PROVE  Exact(new, s, o, ex)
  BY DEF Exact, Fewer

\* A thread that is in no queue, or had a wait time out, may end its wait.
LEMMA FreeExact ==
  ASSUME NEW tab, NEW s, NEW o, NEW ex, NEW t \in Threads, Exact(tab, s, o, ex),
         s = [u \in Threads |-> s[u]], o = [u \in Threads |-> o[u]],
         t \in ex \/ \A a \in Addr : ~Contains(tab[a], t), NEW x, NEW y
  PROVE  Exact(tab, [s EXCEPT ![t] = x], [o EXCEPT ![t] = y], ex)
<1> SUFFICES ASSUME NEW u \in Threads \ ex, NEW a \in Addr
             PROVE  /\ Once(tab[a], u)
                    /\ Contains(tab[a], u) => [s EXCEPT ![t] = x][u] \in {"wait", "timed"}
                                              /\ [o EXCEPT ![t] = y][u] = a
  BY DEF Exact
<1>1. CASE u = t
  BY <1>1 DEF Exact
<1>2. CASE u # t
  <2>1. [s EXCEPT ![t] = x][u] = s[u] /\ [o EXCEPT ![t] = y][u] = o[u]
    BY <1>2
  <2> QED BY <2>1 DEF Exact
<1> QED BY <1>1, <1>2

\* The smaller of two numbers.
LEMMA MinOfTwo ==
  ASSUME NEW n \in Nat, NEW m \in Nat
  PROVE  Min({n, m}) = IF n <= m THEN n ELSE m
  BY DEF Min

\* A least member is a member.
LEMMA MinIn ==
  ASSUME NEW S, S \subseteq Nat, S # {}
  PROVE  Min(S) \in S
<1>1. PICK m \in S : \A y \in S : ~(<<y, m>> \in OpToRel(<, Nat))
  BY Zenon, WFMin, NatLessThanWellFounded
<1>2. \A y \in S : ~(y < m)
  BY Zenon, <1>1 DEF OpToRel
<1>3. \A y \in S : m <= y
  BY <1>2
<1> QED BY Zenon, <1>3 DEF Min

\* futex_wake takes the first threads off a queue.
LEMMA WakeFewer ==
  ASSUME NEW tab \in Tables, NEW a \in Addr, NEW n \in Nat
  PROVE  Fewer(futex_wake(tab, a, n), tab)
<1> DEFINE q == tab[a]
           k == Min({n, Len(q)})
           new == futex_wake(tab, a, n)
<1>1. q \in Seq(Threads) /\ Len(q) \in Nat
  BY DEF Tables
<1>2. k \in Nat /\ k <= Len(q)
  BY <1>1, MinOfTwo
<1>3. new = [tab EXCEPT ![a] = Drop(q, k)]
  BY DEF futex_wake
<1>4. Drop(q, k) = Part(q, k, Len(q))
  BY DEF Drop, Part
<1> HIDE DEF k, new
<1>5. Drop(q, k) \in Seq(Threads)
  BY <1>1, <1>2 DEF Drop
<1>6. new \in Tables
  BY <1>3, <1>5 DEF Tables
<1>7. ASSUME NEW u \in Threads
      PROVE  /\ Contains(Drop(q, k), u) => Contains(q, u)
             /\ Once(q, u) => Once(Drop(q, k), u)
  <2>1. /\ Contains(Part(q, k, Len(q)), u) <=> \E i \in k + 1 .. Len(q) : q[i] = u
        /\ Once(q, u) => Once(Part(q, k, Len(q)), u)
    <3>1. Len(q) <= Len(q)
      BY <1>1
    <3> HIDE DEF q
    <3> QED BY <3>1, <1>1, <1>2, PartIn, PartOnce
  <2>2. \A i \in k + 1 .. Len(q) : i \in 1 .. Len(q)
    BY <1>1, <1>2
  <2> QED BY <1>4, <2>1, <2>2 DEF Contains
<1>8. \A b \in Addr : new[b] = IF b = a THEN Drop(q, k) ELSE tab[b]
  BY <1>3 DEF Tables
<1> QED BY <1>6, <1>7, <1>8 DEF Fewer, new

\* The queue that a pending signal takes t off.
First(tab, t) == Min({b \in Addr : Contains(tab[b], t)})

\* The table after an interrupted wait: the thread is out of the first queue
\* that holds it.
LEMMA InterruptedAt ==
  ASSUME NEW tab \in Tables, NEW t, \E b \in Addr : Contains(tab[b], t)
  PROVE  /\ First(tab, t) \in Addr /\ Contains(tab[First(tab, t)], t)
         /\ Interrupted(tab, t) \in Tables
         /\ \A a \in Addr : Interrupted(tab, t)[a] =
               IF a = First(tab, t) THEN retain(tab[a], t) ELSE tab[a]
<1> DEFINE S == {b \in Addr : Contains(tab[b], t)}
<1>1. S \subseteq Nat /\ S # {}
  BY Zenon, FutexAssumption
<1>2. First(tab, t) \in S
  BY <1>1, MinIn DEF First
<1>3. Interrupted(tab, t) = [tab EXCEPT ![First(tab, t)] = retain(tab[First(tab, t)], t)]
  BY DEF Interrupted, First
<1>4. retain(tab[First(tab, t)], t) \in Seq(Threads)
  BY Zenon, <1>2, RetainIn DEF Tables
<1> QED BY <1>2, <1>3, <1>4 DEF Tables

\* An interrupted wait only takes threads out.
LEMMA InterruptedFewer ==
  ASSUME NEW tab \in Tables, NEW t, \E b \in Addr : Contains(tab[b], t)
  PROVE  Fewer(Interrupted(tab, t), tab)
<1>1. ASSUME NEW a \in Addr, NEW u
      PROVE  /\ Contains(Interrupted(tab, t)[a], u) => Contains(tab[a], u)
             /\ Once(tab[a], u) => Once(Interrupted(tab, t)[a], u)
  <2>1. tab[a] \in Seq(Threads)
    BY DEF Tables
  <2>2. Interrupted(tab, t)[a] = retain(tab[a], t) \/ Interrupted(tab, t)[a] = tab[a]
    BY InterruptedAt
  <2> QED BY <2>1, <2>2, RetainIn
<1> QED BY <1>1, InterruptedAt DEF Fewer

\* A thread that is in one queue only is in none then.
LEMMA InterruptedGone ==
  ASSUME NEW tab \in Tables, NEW t, NEW b \in Addr, Contains(tab[b], t),
         \A a \in Addr : Contains(tab[a], t) => a = b
  PROVE  \A a \in Addr : ~Contains(Interrupted(tab, t)[a], t)
<1> TAKE a \in Addr
<1>1. First(tab, t) = b
  BY InterruptedAt
<1>2. CASE a = b
  <2>1. Interrupted(tab, t)[a] = retain(tab[a], t)
    BY <1>1, <1>2, InterruptedAt
  <2>2. tab[a] \in Seq(Threads)
    BY DEF Tables
  <2> QED BY <2>1, <2>2, RetainIn
<1>3. CASE a # b
  BY <1>1, <1>3, InterruptedAt
<1> QED BY <1>2, <1>3

\* A thread enters the end of a queue.
Queued(tab, a, t) == [tab EXCEPT ![a] = Append(@, t)]

\* The table after a thread was queued.
LEMMA QueuedAt ==
  ASSUME NEW tab \in Tables, NEW a \in Addr, NEW t \in Threads
  PROVE  /\ Queued(tab, a, t) \in Tables
         /\ \A b \in Addr : Queued(tab, a, t)[b] = IF b = a THEN Append(tab[a], t) ELSE tab[b]
         /\ \A b \in Addr : \A u : Contains(Queued(tab, a, t)[b], u) <=>
                                     Contains(tab[b], u) \/ (u = t /\ b = a)
<1>1. tab[a] \in Seq(Threads)
  BY DEF Tables
<1>2. Append(tab[a], t) \in Seq(Threads)
  BY <1>1
<1>3. /\ Queued(tab, a, t) \in Tables
      /\ \A b \in Addr : Queued(tab, a, t)[b] = IF b = a THEN Append(tab[a], t) ELSE tab[b]
  BY <1>1, <1>2 DEF Queued, Tables
<1>4. \A u : Contains(Append(tab[a], t), u) <=> Contains(tab[a], u) \/ u = t
  BY <1>1, AppendIn
<1> QED BY <1>3, <1>4

\* Queueing a thread that is not there leaves each thread once.
LEMMA QueuedOnce ==
  ASSUME NEW tab \in Tables, NEW a \in Addr, NEW t \in Threads, NEW b \in Addr, NEW u,
         Once(tab[b], u), u = t => ~Contains(tab[b], t)
  PROVE  Once(Queued(tab, a, t)[b], u)
<1>1. tab[a] \in Seq(Threads)
  BY DEF Tables
<1> QED BY <1>1, QueuedAt, AppendIn

\* futex_requeue: what the two queues are then.
LEMMA RequeueAt ==
  ASSUME NEW tab \in Tables, NEW a \in Addr, NEW b \in Addr, NEW n \in Nat, NEW m \in Nat,
         n + m <= Len(tab[a])
  PROVE  LET new == futex_requeue(tab, a, n, b, m)
             left == Part(tab[a], n + m, Len(tab[a]))
             moved == Part(tab[a], n, n + m)
         IN  /\ left \in Seq(Threads) /\ moved \in Seq(Threads)
             /\ new \in Tables
             /\ \A c \in Addr : new[c] =
                   IF c = b THEN (IF c = a THEN left ELSE tab[c]) \o moved
                   ELSE IF c = a THEN left ELSE tab[c]
<1> DEFINE new == futex_requeue(tab, a, n, b, m)
           q == tab[a]
           left == Part(q, n + m, Len(q))
           moved == Part(q, n, n + m)
           rest == [tab EXCEPT ![a] = left]
<1>1. q \in Seq(Threads) /\ Len(q) \in Nat
  BY DEF Tables
<1>2. left \in Seq(Threads) /\ moved \in Seq(Threads)
  BY <1>1 DEF Part
<1>3. new = [rest EXCEPT ![b] = rest[b] \o moved]
  BY DEF futex_requeue, Drop, Part
<1> HIDE DEF left, moved, new, q
<1>4. /\ rest \in Tables
      /\ \A c \in Addr : rest[c] = IF c = a THEN left ELSE tab[c]
  BY <1>2 DEF Tables
<1> HIDE DEF rest
<1>5. rest[b] \o moved \in Seq(Threads)
  BY <1>2, <1>4 DEF Tables
<1>6. new \in Tables /\ \A c \in Addr : new[c] = IF c = b THEN rest[b] \o moved ELSE rest[c]
  BY <1>3, <1>4, <1>5 DEF Tables
<1> QED BY <1>2, <1>4, <1>6 DEF left, moved, new, q

\* Of a thread that is in queue a at most once: it cannot both move and stay, and
\* it stays or moves at most once.
LEMMA RequeueOnce ==
  ASSUME NEW q \in Seq(Threads), NEW n \in Nat, NEW m \in Nat, n + m <= Len(q), NEW u, Once(q, u)
  PROVE  LET left == Part(q, n + m, Len(q))
             moved == Part(q, n, n + m)
         IN  /\ Once(left, u) /\ Once(moved, u)
             /\ ~(Contains(left, u) /\ Contains(moved, u))
             /\ Contains(left, u) \/ Contains(moved, u) => Contains(q, u)
<1> DEFINE left == Part(q, n + m, Len(q))
           moved == Part(q, n, n + m)
<1>1. Len(q) \in Nat /\ Len(q) <= Len(q) /\ n + m \in Nat /\ n <= n + m
  OBVIOUS
<1>2. /\ Contains(left, u) <=> \E i \in n + m + 1 .. Len(q) : q[i] = u
      /\ Once(left, u)
  BY <1>1, PartIn, PartOnce
<1>3. /\ Contains(moved, u) <=> \E i \in n + 1 .. n + m : q[i] = u
      /\ Once(moved, u)
  BY <1>1, PartIn, PartOnce
<1>4. \A i \in n + m + 1 .. Len(q) : i \in 1 .. Len(q)
  BY <1>1
<1>5. \A i \in n + 1 .. n + m : i \in 1 .. Len(q)
  BY <1>1
<1>6. \A i \in n + 1 .. n + m, j \in n + m + 1 .. Len(q) : i # j
  BY <1>1
<1> HIDE DEF left, moved
<1>7. ~(Contains(left, u) /\ Contains(moved, u))
  BY Zenon, <1>2, <1>3, <1>4, <1>5, <1>6 DEF Once
<1>8. Contains(left, u) \/ Contains(moved, u) => Contains(q, u)
  BY Zenon, <1>2, <1>3, <1>4, <1>5 DEF Contains
<1> QED BY <1>2, <1>3, <1>7, <1>8 DEF left, moved

-----------------------------------------------------------------------------
(* The steps                                                               *)

\* A running thread none of whose waits timed out is in no queue.
LEMMA NotQueued ==
  ASSUME IInv, NEW t \in Threads \ expired, ~Waiting(t)
  PROVE  \A a \in Addr : ~Contains(futex_table[a], t)
  BY DEF IInv, Exact, Waiting

\* futex_wait keeps the invariant.
LEMMA WaitInv ==
  ASSUME IInv, NEW t \in Threads, NEW a \in Addr, NEW v, NEW timed \in BOOLEAN,
         sys_futex_wait(t, a, v, timed)
  PROVE  IInv'
<1> DEFINE tab == Queued(futex_table, a, t)
<1>1. futex_table \in Tables /\ ~Waiting(t) /\ Exact(futex_table, st, on, expired)
  BY DEF sys_futex_wait, IInv, Running, Waiting
<1>2. tab \in Tables /\ Contains(tab[a], t)
  BY <1>1, QueuedAt
<1>3. CASE signal[t]
  <2>1. futex_table' = Interrupted(tab, t) /\ UNCHANGED <<st, on, expired, clear_child_tid>>
    BY <1>3 DEF sys_futex_wait, Queued
  <2>2. Fewer(futex_table', tab)
    BY <1>2, <2>1, InterruptedFewer
  <2>3. ASSUME NEW u \in Threads \ expired, NEW b \in Addr
        PROVE  /\ Once(futex_table'[b], u)
               /\ Contains(futex_table'[b], u) => Contains(futex_table[b], u)
    <3>0. Once(futex_table[b], u)
      BY <1>1 DEF Exact
    <3>1. CASE u = t
      <4>1. \A c \in Addr : ~Contains(futex_table[c], t)
        BY <1>1, <3>1, NotQueued
      <4>2. Once(tab[b], u)
        BY <3>0, <3>1, <4>1, <1>1, QueuedOnce
      <4>3. \A c \in Addr : Contains(tab[c], t) => c = a
        BY <4>1, <1>1, QueuedAt
      <4>4. ~Contains(futex_table'[b], t)
        BY <4>3, <1>2, <2>1, InterruptedGone
      <4> QED BY <3>1, <4>2, <4>4, <2>2 DEF Fewer
    <3>2. CASE u # t
      <4>1. Once(tab[b], u) /\ (Contains(tab[b], u) => Contains(futex_table[b], u))
        BY Zenon, <3>0, <3>2, <1>1, QueuedOnce, QueuedAt
      <4> QED BY <4>1, <2>2 DEF Fewer
    <3> QED BY <3>1, <3>2
  <2>4. Exact(futex_table, st, on, expired)'
    BY <1>1, <2>1, <2>3 DEF Exact
  <2> QED BY <2>1, <2>2, <2>4 DEF IInv, Fewer
<1>4. CASE ~signal[t]
  <2>1. PICK x \in {"wait", "timed"} : st' = [st EXCEPT ![t] = x]
    BY <1>4 DEF sys_futex_wait
  <2>2. /\ futex_table' = tab /\ on' = [on EXCEPT ![t] = a]
        /\ UNCHANGED <<expired, clear_child_tid>>
    BY <1>4 DEF sys_futex_wait, Queued
  <2>3. ASSUME NEW u \in Threads \ expired, NEW b \in Addr
        PROVE  /\ Once(tab[b], u)
               /\ Contains(tab[b], u) => st'[u] \in {"wait", "timed"} /\ on'[u] = b
    <3>0. Once(futex_table[b], u)
      BY <1>1 DEF Exact
    <3>1. CASE u = t
      <4>1. \A c \in Addr : ~Contains(futex_table[c], t)
        BY <1>1, <3>1, NotQueued
      <4>2. Once(tab[b], u)
        BY <3>0, <3>1, <4>1, <1>1, QueuedOnce
      <4>3. Contains(tab[b], t) => b = a
        BY <4>1, <1>1, QueuedAt
      <4>4. st'[t] = x /\ on'[t] = a
        BY <2>1, <2>2 DEF IInv
      <4> QED BY <3>1, <4>2, <4>3, <4>4
    <3>2. CASE u # t
      <4>1. Once(tab[b], u) /\ (Contains(tab[b], u) => Contains(futex_table[b], u))
        BY Zenon, <3>0, <3>2, <1>1, QueuedOnce, QueuedAt
      <4>2. st'[u] = st[u] /\ on'[u] = on[u]
        BY Zenon, <3>2, <2>1, <2>2 DEF IInv
      <4> QED BY <4>1, <4>2, <1>1 DEF Exact
    <3> QED BY <3>1, <3>2
  <2>4. Exact(futex_table, st, on, expired)'
    BY <2>2, <2>3 DEF Exact
  <2>5. st' = [u \in Threads |-> st'[u]] /\ on' = [u \in Threads |-> on'[u]]
    BY Zenon, <2>1, <2>2 DEF IInv
  <2>6. futex_table' \in Tables /\ clear_child_tid' = clear_child_tid
    BY <1>2, <2>2
  <2> QED BY <2>4, <2>5, <2>6 DEF IInv
<1> QED BY <1>3, <1>4

\* A step that leaves the table and the waits alone.
LEMMA StillInv ==
  ASSUME IInv, UNCHANGED <<futex_table, st, on, expired>>,
         clear_child_tid' \in [Threads -> TidAddr \cup {NoAddr}]
  PROVE  IInv'
  BY DEF IInv, Exact

\* Thread t ends a wait, and some leave the table.
LEMMA EndInv ==
  ASSUME IInv, NEW t \in Threads, Fewer(futex_table', futex_table), NEW x, NEW y,
         t \in expired' \/ \A a \in Addr : ~Contains(futex_table'[a], t),
         expired \subseteq expired', UNCHANGED clear_child_tid,
         st' = [st EXCEPT ![t] = x], on' = [on EXCEPT ![t] = y]
  PROVE  IInv'
<1>1. Exact(futex_table', st, on, expired)
  BY FewerExact DEF IInv
<1>2. Exact(futex_table', st, on, expired')
  BY <1>1 DEF Exact
<1>3. Exact(futex_table', st', on', expired')
  BY Zenon, <1>2, FreeExact DEF IInv
<1>4. futex_table' \in Tables
  BY DEF Fewer
<1>5. st' = [u \in Threads |-> st'[u]] /\ on' = [u \in Threads |-> on'[u]]
  BY Zenon DEF IInv
<1> QED BY <1>3, <1>4, <1>5 DEF IInv

\* A table takes nothing out of itself.
LEMMA SameFewer ==
  ASSUME NEW tab \in Tables
  PROVE  Fewer(tab, tab)
  BY DEF Fewer

\* A poll of the waiting future keeps the invariant.
LEMMA PollInv ==
  ASSUME IInv, NEW t \in Threads, Poll(t) \/ WaitUntilsec(t)
  PROVE  IInv'
<1>0. futex_table \in Tables
  BY DEF IInv
<1>1. CASE WaitFutex_woken(t)
  <2>1. Fewer(futex_table', futex_table)
    BY <1>0, <1>1, SameFewer DEF WaitFutex_woken
  <2>2. \A a \in Addr : ~Contains(futex_table'[a], t)
    BY <1>1 DEF WaitFutex_woken, in_futex
  <2> QED BY Zenon, <1>1, <2>1, <2>2, EndInv DEF WaitFutex_woken
<1>2. CASE WaitFutex_interrupted(t)
  <2>1. PICK b \in Addr : Contains(futex_table[b], t)
    BY <1>2 DEF WaitFutex_interrupted, in_futex
  <2>2. Fewer(futex_table', futex_table)
    BY <1>0, <1>2, <2>1, InterruptedFewer DEF WaitFutex_interrupted
  <2>3. ASSUME t \notin expired PROVE \A a \in Addr : ~Contains(futex_table'[a], t)
    <3>1. \A a \in Addr : Contains(futex_table[a], t) => a = b
      BY <2>1, <2>3 DEF IInv, Exact
    <3> QED BY <1>0, <1>2, <2>1, <3>1, InterruptedGone DEF WaitFutex_interrupted
  <2> QED BY Zenon, <1>2, <2>2, <2>3, EndInv DEF WaitFutex_interrupted
<1>3. CASE WaitUntilsec(t)
  <2>1. Fewer(futex_table', futex_table)
    BY <1>0, <1>3, SameFewer DEF WaitUntilsec
  <2> QED BY Zenon, <1>3, <2>1, EndInv DEF WaitUntilsec
<1> QED BY <1>1, <1>2, <1>3 DEF Poll

\* futex_wake keeps it.
LEMMA WakeInv ==
  ASSUME IInv, NEW t \in Threads, NEW a \in Addr, NEW n \in Nat, sys_futex_wake(t, a, n)
  PROVE  IInv'
<1>1. Fewer(futex_table', futex_table)
  BY WakeFewer DEF IInv, sys_futex_wake
<1>2. Exact(futex_table', st, on, expired)
  BY <1>1, FewerExact DEF IInv
<1>3. futex_table' \in Tables /\ UNCHANGED <<st, on, expired, clear_child_tid>>
  BY <1>1 DEF Fewer, sys_futex_wake
<1> QED BY <1>2, <1>3 DEF IInv

\* The exit of a thread, which wakes its clear_child_tid, keeps it.
LEMMA ExitInv ==
  ASSUME IInv, NEW t \in Threads, thread_exit(t)
  PROVE  IInv'
<1>1. futex_table \in Tables /\ ~Waiting(t)
  BY DEF IInv, thread_exit, Running, Waiting
<1>2. Fewer(futex_table', futex_table)
  <2>1. CASE clear_child_tid[t] # NoAddr
    <3>1. clear_child_tid[t] \in Addr
      BY <2>1, FutexAssumption DEF IInv
    <3> QED BY <1>1, <2>1, <3>1, WakeFewer DEF thread_exit
  <2>2. CASE clear_child_tid[t] = NoAddr
    BY <1>1, <2>2, SameFewer DEF thread_exit
  <2> QED BY <2>1, <2>2
<1>3. t \in expired' \/ \A a \in Addr : ~Contains(futex_table'[a], t)
  BY <1>1, <1>2, NotQueued DEF Fewer, thread_exit
<1>4. on' = [on EXCEPT ![t] = on[t]]
  BY Zenon DEF thread_exit, IInv
<1> QED BY Zenon, <1>2, <1>3, <1>4, EndInv DEF thread_exit

\* futex_requeue keeps it.
LEMMA RequeueInv ==
  ASSUME IInv, NEW t \in Threads, NEW a \in Addr, NEW n \in Nat, NEW b \in Addr, NEW m \in Nat,
         sys_futex_requeue(t, a, n, b, m)
  PROVE  IInv'
<1> DEFINE q == futex_table[a]
           left == Part(q, n + m, Len(q))
           moved == Part(q, n, n + m)
<1>1. CASE ~(n + m <= Len(q))
  <2>1. UNCHANGED <<futex_table, st, on, expired, clear_child_tid>>
    BY <1>1 DEF sys_futex_requeue
  <2> QED BY <2>1, StillInv DEF IInv
<1>2. CASE n + m <= Len(q)
  <2>1. futex_table \in Tables /\ q \in Seq(Threads)
    BY DEF IInv, Tables
  <2>2. /\ futex_table' = futex_requeue(futex_table, a, n, b, m)
        /\ UNCHANGED <<st, expired, clear_child_tid>>
        /\ on' = [u \in Threads |-> IF Waiting(u) /\ Contains(moved, u) THEN b ELSE on[u]]
    BY <1>2 DEF sys_futex_requeue, Part
  <2>3. /\ left \in Seq(Threads) /\ moved \in Seq(Threads)
        /\ futex_table' \in Tables
        /\ \A c \in Addr : futex_table'[c] =
              IF c = b THEN (IF c = a THEN left ELSE futex_table[c]) \o moved
              ELSE IF c = a THEN left ELSE futex_table[c]
    BY <1>2, <2>1, <2>2, RequeueAt
  <2>4. ASSUME NEW u \in Threads \ expired, NEW c \in Addr
        PROVE  /\ Once(futex_table'[c], u)
               /\ Contains(futex_table'[c], u) => st[u] \in {"wait", "timed"} /\ on'[u] = c
    <3>1. \A d \in Addr : /\ Once(futex_table[d], u) /\ futex_table[d] \in Seq(Threads)
                          /\ Contains(futex_table[d], u) =>
                                st[u] \in {"wait", "timed"} /\ on[u] = d
      BY <2>1 DEF IInv, Exact, Tables
    <3>2. /\ Once(left, u) /\ Once(moved, u)
          /\ ~(Contains(left, u) /\ Contains(moved, u))
          /\ Contains(left, u) \/ Contains(moved, u) => Contains(q, u)
      BY Zenon, <1>2, <2>1, <3>1, RequeueOnce
    <3>3. on'[u] = IF Waiting(u) /\ Contains(moved, u) THEN b ELSE on[u]
      BY <2>2
    <3> HIDE DEF left, moved
    <3> DEFINE stay == IF c = a THEN left ELSE futex_table[c]
    <3>4. /\ stay \in Seq(Threads) /\ Once(stay, u)
          /\ ~(Contains(stay, u) /\ Contains(moved, u))
          /\ Contains(stay, u) => Contains(futex_table[c], u)
      BY <2>3, <3>1, <3>2
    <3> HIDE DEF stay
    <3>5. CASE c = b
      <4>1. futex_table'[c] = stay \o moved
        BY Zenon, <2>3, <3>5 DEF stay
      <4>2. /\ Contains(stay \o moved, u) <=> Contains(stay, u) \/ Contains(moved, u)
            /\ Once(stay \o moved, u)
        BY <2>3, <3>2, <3>4, JoinIn
      <4>3. ASSUME Contains(moved, u) PROVE st[u] \in {"wait", "timed"} /\ on'[u] = c
        BY <4>3, <3>1, <3>2, <3>3, <3>5 DEF Waiting
      <4>4. ASSUME Contains(stay, u) PROVE st[u] \in {"wait", "timed"} /\ on'[u] = c
        BY <4>4, <3>1, <3>3, <3>4
      <4> QED BY <4>1, <4>2, <4>3, <4>4
    <3>6. CASE c # b
      <4>1. futex_table'[c] = stay
        BY <2>3, <3>6 DEF stay
      <4> QED BY <4>1, <3>1, <3>3, <3>4
    <3> QED BY <3>5, <3>6
  <2>5. Exact(futex_table', st', on', expired')
    BY <2>2, <2>4 DEF Exact
  <2>6. on' = [u \in Threads |-> on'[u]]
    BY <2>2
  <2> QED BY <2>2, <2>3, <2>5, <2>6 DEF IInv
<1> QED BY <1>1, <1>2

\* The invariant holds with an empty table.
LEMMA InitInv == Init => IInv
<1> SUFFICES ASSUME Init PROVE IInv
  OBVIOUS
<1>1. futex_table \in Tables /\ \A a \in Addr : Len(futex_table[a]) = 0
  BY DEF Init, Tables
<1>2. Exact(futex_table, st, on, expired)
  BY <1>1 DEF Exact, Once, Contains
<1>3. /\ st = [t \in Threads |-> st[t]] /\ on = [t \in Threads |-> on[t]]
      /\ clear_child_tid \in [Threads -> TidAddr \cup {NoAddr}]
  BY DEF Init
<1> QED BY <1>1, <1>2, <1>3 DEF IInv

\* The steps that touch neither the table nor the waits.
Aside(t) ==
    \/ check_signal(t)
    \/ \E u \in Threads : sys_tkill(t, u)
    \/ \E a \in TidAddr : sys_set_tid_address(t, a)
    \/ \E a \in Addr, v \in Values : Store(t, a, v)

\* What the calls that only set addresses leave alone.
LEMMA AsideStill ==
  ASSUME IInv, NEW t \in Threads, Aside(t)
  PROVE  /\ UNCHANGED <<futex_table, st, on, expired>> /\ answer' = NoAnswer /\ st[t] = "user"
         /\ clear_child_tid' \in [Threads -> TidAddr \cup {NoAddr}]
<1>1. CASE check_signal(t)
  BY <1>1 DEF check_signal, IInv
<1>2. ASSUME NEW u \in Threads, sys_tkill(t, u)
      PROVE  /\ UNCHANGED <<futex_table, st, on, expired>> /\ answer' = NoAnswer /\ st[t] = "user"
             /\ clear_child_tid' = clear_child_tid
  BY <1>2 DEF sys_tkill, Running
<1>3. ASSUME NEW a \in TidAddr, sys_set_tid_address(t, a)
      PROVE  /\ UNCHANGED <<futex_table, st, on, expired>> /\ answer' = NoAnswer /\ st[t] = "user"
             /\ clear_child_tid' \in [Threads -> TidAddr \cup {NoAddr}]
  BY <1>3 DEF sys_set_tid_address, Running, IInv
<1>4. ASSUME NEW a \in Addr, NEW v \in Values, Store(t, a, v)
      PROVE  /\ UNCHANGED <<futex_table, st, on, expired>> /\ answer' = NoAnswer /\ st[t] = "user"
             /\ clear_child_tid' = clear_child_tid
  BY <1>4 DEF Store, Running
<1>5. clear_child_tid \in [Threads -> TidAddr \cup {NoAddr}]
  BY DEF IInv
<1> QED BY <1>1, <1>2, <1>3, <1>4, <1>5 DEF Aside

\* A step of t is one of these.
LEMMA StepCases ==
  ASSUME NEW t \in Threads, Step(t)
  PROVE  \/ Aside(t) \/ Poll(t) \/ WaitUntilsec(t) \/ thread_exit(t)
         \/ \E a \in Addr, v \in Values, timed \in BOOLEAN : sys_futex_wait(t, a, v, timed)
         \/ \E a \in Addr, n \in 1 .. Cardinality(Threads) : sys_futex_wake(t, a, n)
         \/ \E a \in Addr, b \in Addr, n \in Nat, m \in Nat : sys_futex_requeue(t, a, n, b, m)
<1>1. Timed \subseteq BOOLEAN /\ Wakes \subseteq Nat /\ Moves \subseteq Nat
  BY FutexAssumption
<1> QED BY Zenon, <1>1 DEF Step, Aside

\* Every step keeps the invariant.
LEMMA NextInv == IInv /\ [Next]_vars => IInv'
<1> SUFFICES ASSUME IInv, [Next]_vars PROVE IInv'
  OBVIOUS
<1>1. CASE UNCHANGED vars
  <2>1. UNCHANGED <<futex_table, st, on, expired, clear_child_tid>>
    BY <1>1 DEF vars
  <2> QED BY <2>1, StillInv DEF IInv
<1>2. ASSUME NEW t \in Threads, Step(t) PROVE IInv'
  <2>1. CASE Aside(t)
    BY <2>1, AsideStill, StillInv
  <2>2. ASSUME NEW a \in Addr, NEW n \in 1 .. Cardinality(Threads), sys_futex_wake(t, a, n)
        PROVE  IInv'
    <3>1. n \in Nat
      BY FS_CardinalityType, FutexAssumption
    <3> QED BY <2>2, <3>1, WakeInv
  <2> QED BY <1>2, <2>1, <2>2, StepCases, PollInv, ExitInv, WaitInv, RequeueInv
<1> QED BY <1>1, <1>2 DEF Next

\* A set whose members are equal has at most one.
LEMMA AtMostOne ==
  ASSUME NEW S, \A x, y \in S : x = y
  PROVE  Cardinality(S) <= 1
<1>1. CASE S = {}
  BY <1>1, FS_EmptySet
<1>2. CASE S # {}
  <2>1. PICK x : S = {x}
    BY <1>2
  <2> QED BY <2>1, FS_Singleton
<1> QED BY <1>1, <1>2

\* Whatever the threads do, a thread none of whose waits timed out is in the futex
\* table at most once, only while it waits and at the address it waits on.
THEOREM TableTheorem == Safety => []TableExact
<1>1. ASSUME IInv PROVE TableExact
  <2>1. ASSUME NEW t \in Threads \ expired, NEW p \in Places(t)
        PROVE  /\ p[1] \in Addr /\ Contains(futex_table[p[1]], t) /\ Waiting(t) /\ p[1] = on[t]
               /\ p = <<p[1], p[2]>>
               /\ p[2] \in 1 .. Len(futex_table[p[1]]) /\ futex_table[p[1]][p[2]] = t
    <3>1. /\ p = <<p[1], p[2]>> /\ p[1] \in Addr /\ p[2] \in 1 .. MaxQueue
          /\ p[2] <= Len(futex_table[p[1]]) /\ futex_table[p[1]][p[2]] = t
      BY DEF Places
    <3>2. Len(futex_table[p[1]]) \in Nat
      BY <3>1, <1>1 DEF IInv, Tables
    <3>3. p[2] \in 1 .. Len(futex_table[p[1]])
      BY <3>1, <3>2, FutexAssumption
    <3>4. Contains(futex_table[p[1]], t)
      BY <3>1, <3>3 DEF Contains
    <3> QED BY <3>1, <3>3, <3>4, <1>1 DEF IInv, Exact, Waiting
  <2>2. ASSUME NEW t \in Threads \ expired, NEW p \in Places(t), NEW r \in Places(t)
        PROVE  p = r
    <3>1. p[1] = r[1] /\ p[1] \in Addr
      BY <2>1
    <3>2. Once(futex_table[p[1]], t)
      BY <3>1, <1>1 DEF IInv, Exact
    <3>3. p[2] = r[2]
      BY <2>1, <3>1, <3>2 DEF Once
    <3> QED BY <2>1, <3>1, <3>3
  <2> QED BY <2>1, <2>2, AtMostOne DEF TableExact
<1> QED BY <1>1, InitInv, NextInv, PTL DEF Safety

-----------------------------------------------------------------------------
(* Refinement of WaitSets                                                  *)

Elems(q) == {u \in Threads : Contains(q, u)}

\* A queue without duplicates has as many threads as its length.
LEMMA ElemsCount ==
  ASSUME NEW q \in Seq(Threads), \A u \in Threads : Once(q, u)
  PROVE  IsFiniteSet(Elems(q)) /\ Cardinality(Elems(q)) = Len(q)
<1> DEFINE f == [i \in 1 .. Len(q) |-> q[i]]
<1>0. Len(q) \in Nat /\ \A i \in 1 .. Len(q) : q[i] \in Threads
  OBVIOUS
<1>1. f \in [1 .. Len(q) -> Elems(q)]
  BY <1>0 DEF Elems, Contains
<1>2. \A i, j \in 1 .. Len(q) : f[i] = f[j] => i = j
  BY <1>0 DEF Once
<1>3. \A u \in Elems(q) : \E i \in 1 .. Len(q) : f[i] = u
  BY DEF Elems, Contains
<1> HIDE DEF f
<1>4. f \in Bijection(1 .. Len(q), Elems(q))
  BY <1>1, <1>2, <1>3 DEF Bijection, Injection, IsInjective, Surjection
<1>5. ExistsBijection(1 .. Len(q), Elems(q))
  BY <1>4 DEF ExistsBijection
<1>6. Elems(q) \subseteq Threads
  BY DEF Elems
<1> QED BY <1>0, <1>5, <1>6, FS_CountingElements, FS_Subset, FutexAssumption

\* A part of a queue without repetition has as many threads as places.
LEMMA PartElems ==
  ASSUME NEW q \in Seq(Threads), \A u \in Threads : Once(q, u),
         NEW n \in Nat, NEW m \in Nat, n <= m, m <= Len(q)
  PROVE  /\ Elems(Part(q, n, m)) \subseteq Elems(q)
         /\ Cardinality(Elems(Part(q, n, m))) = m - n
<1>1. Part(q, n, m) \in Seq(Threads) /\ Len(Part(q, n, m)) = m - n
  BY Zenon, PartAt
<1>2. \A u \in Threads : Once(Part(q, n, m), u)
  BY PartOnce
<1>3. Cardinality(Elems(Part(q, n, m))) = m - n
  BY <1>1, <1>2, ElemsCount
<1>4. \A i \in n + 1 .. m : i \in 1 .. Len(q)
  OBVIOUS
<1>5. \A u \in Threads : Contains(Part(q, n, m), u) => Contains(q, u)
  BY <1>4, PartIn DEF Contains
<1> QED BY <1>3, <1>5 DEF Elems

\* The first n threads of a queue, the next m, and the others.
LEMMA ThreeParts ==
  ASSUME NEW q \in Seq(Threads), \A u \in Threads : Once(q, u),
         NEW n \in Nat, NEW m \in Nat, n + m <= Len(q)
  PROVE  LET W == Elems(Part(q, 0, n))
             M == Elems(Part(q, n, n + m))
         IN  /\ W \subseteq Elems(q) /\ Cardinality(W) = n
             /\ M \subseteq Elems(q) \ W /\ Cardinality(M) = m
             /\ Elems(Part(q, n + m, Len(q))) = Elems(q) \ (W \cup M)
<1> DEFINE W == Elems(Part(q, 0, n))
           M == Elems(Part(q, n, n + m))
           R == Elems(Part(q, n + m, Len(q)))
<1>1. /\ Len(q) \in Nat /\ n + m \in Nat /\ 0 \in Nat
      /\ 0 <= n /\ n <= n + m /\ n <= Len(q) /\ Len(q) <= Len(q)
  OBVIOUS
<1>2. W \subseteq Elems(q) /\ Cardinality(W) = n - 0
  BY Zenon, <1>1, PartElems
<1>3. M \subseteq Elems(q) /\ Cardinality(M) = (n + m) - n
  BY Zenon, <1>1, PartElems
<1>4. R \subseteq Elems(q)
  BY Zenon, <1>1, PartElems
<1>5. ASSUME NEW u \in Elems(q)
      PROVE  /\ u \in W <=> \E i \in 0 + 1 .. n : q[i] = u
             /\ u \in M <=> \E i \in n + 1 .. n + m : q[i] = u
             /\ u \in R <=> \E i \in n + m + 1 .. Len(q) : q[i] = u
  <2>0. u \in Threads
    BY DEF Elems
  <2>1. u \in W <=> \E i \in 0 + 1 .. n : q[i] = u
    BY <2>0, <1>1, PartIn DEF Elems
  <2>2. u \in M <=> \E i \in n + 1 .. n + m : q[i] = u
    BY <2>0, <1>1, PartIn DEF Elems
  <2>3. u \in R <=> \E i \in n + m + 1 .. Len(q) : q[i] = u
    BY <2>0, <1>1, PartIn DEF Elems
  <2> QED BY <2>1, <2>2, <2>3
<1> HIDE DEF W, M, R
<1>6. ASSUME NEW u \in Elems(q)
      PROVE  ~(u \in W /\ u \in M) /\ (u \in R <=> u \notin W /\ u \notin M)
  <2>1. PICK i \in 1 .. Len(q) : q[i] = u
    BY DEF Elems, Contains
  <2>2. \A j \in 1 .. Len(q) : q[j] = u => j = i
    BY <2>1 DEF Elems, Once
  <2>3. u \in W <=> i <= n
    BY <1>1, <1>5, <2>1, <2>2
  <2>4. u \in M <=> n < i /\ i <= n + m
    BY <1>1, <1>5, <2>1, <2>2
  <2>5. u \in R <=> n + m < i
    BY <1>1, <1>5, <2>1, <2>2
  <2> QED BY <2>1, <2>3, <2>4, <2>5, <1>1
<1>7. M \subseteq Elems(q) \ W /\ R = Elems(q) \ (W \cup M)
  BY <1>3, <1>4, <1>6
<1>8. n - 0 = n /\ (n + m) - n = m
  OBVIOUS
<1> QED BY <1>2, <1>3, <1>7, <1>8 DEF W, M, R

\* While no wait has timed out, who sleeps on an address is who is in its queue.
SleepersOf(tab, s, o) ==
    [a \in Addr |-> {t \in Threads : s[t] \in {"wait", "timed"} /\ o[t] = a
                                     /\ \E c \in Addr : Contains(tab[c], t)}]

\* The sleepers of an exact table are its queues' members.
LEMMA SleepersAre ==
  ASSUME NEW tab, NEW s, NEW o, Exact(tab, s, o, {})
  PROVE  SleepersOf(tab, s, o) = [a \in Addr |-> Elems(tab[a])]
<1>1. ASSUME NEW a \in Addr
      PROVE  {t \in Threads : s[t] \in {"wait", "timed"} /\ o[t] = a
                              /\ \E c \in Addr : Contains(tab[c], t)} = Elems(tab[a])
  BY DEF Exact, Elems
<1> QED BY <1>1 DEF SleepersOf

\* The sleepers before and after a step.
LEMMA SleepersNow ==
  /\ Sleepers = SleepersOf(futex_table, st, on)
  /\ Sleepers' = SleepersOf(futex_table', st', on')
  BY DEF Sleepers, SleepersOf, Waiting, in_futex

\* A signal takes a thread that is in one queue only off the table, and no other.
LEMMA InterruptedIn ==
  ASSUME NEW tab \in Tables, NEW t, NEW b \in Addr, Contains(tab[b], t),
         \A a \in Addr : Contains(tab[a], t) => a = b
  PROVE  \A a \in Addr, u \in Threads :
            Contains(Interrupted(tab, t)[a], u) <=> Contains(tab[a], u) /\ u # t
<1> TAKE a \in Addr, u \in Threads
<1>1. First(tab, t) = b
  BY InterruptedAt
<1>2. CASE a = b
  <2>1. Interrupted(tab, t)[a] = retain(tab[a], t)
    BY <1>1, <1>2, InterruptedAt
  <2>2. tab[a] \in Seq(Threads)
    BY DEF Tables
  <2> QED BY <2>1, <2>2, RetainIn
<1>3. CASE a # b
  BY <1>1, <1>3, InterruptedAt
<1> QED BY <1>2, <1>3

\* WaitSets counts as Futex does.
LEMMA SameCount ==
  ASSUME NEW S
  PROVE  Sets!Cardinality(S) = Cardinality(S)
  BY Zenon DEF Sets!Cardinality, Cardinality

\* The contract's subsets are this module's.
LEMMA SameSubsets ==
  ASSUME NEW S, NEW k
  PROVE  Sets!kSubset(k, S) = kSubset(k, S)
  BY SameCount DEF Sets!kSubset, kSubset

\* So are its least members.
LEMMA SameMin ==
  ASSUME NEW S
  PROVE  Sets!Min(S) = Min(S)
  BY DEF Sets!Min, Min

\* A thread that leaves its queue takes a step of the contract.
LEMMA LeaveStep ==
  ASSUME NEW t \in Threads, answer' = NoAnswer,
         Sleepers' = [a \in Addr |-> Sleepers[a] \ {t}]
  PROVE  Sets!Next
<1>1. Sets!Leave(t)
  BY DEF Sets!Leave, Sets!NoAnswer, NoAnswer
<1> QED BY <1>1 DEF Sets!Next

\* The queues say who sleeps, before and after a step.
Mapped ==
    /\ futex_table \in Tables /\ futex_table' \in Tables
    /\ Sleepers = [a \in Addr |-> Elems(futex_table[a])]
    /\ Sleepers' = [a \in Addr |-> Elems(futex_table'[a])]
    /\ \A a \in Addr : futex_table[a] \in Seq(Threads) /\ \A u \in Threads : Once(futex_table[a], u)

\* Without expired waits both states map.
LEMMA IsMapped ==
  ASSUME IInv, IInv', expired = {}, expired' = {}
  PROVE  Mapped
<1>1. Exact(futex_table, st, on, {}) /\ Exact(futex_table', st', on', {})
  BY DEF IInv
<1>2. /\ Sleepers = [a \in Addr |-> Elems(futex_table[a])]
      /\ Sleepers' = [a \in Addr |-> Elems(futex_table'[a])]
  BY <1>1, SleepersAre, SleepersNow
<1>3. futex_table \in Tables /\ futex_table' \in Tables
  BY DEF IInv
<1> QED BY <1>1, <1>2, <1>3 DEF Mapped, Exact, Tables

\* A step that changes no queue but for taking t off.
LEMMA OffStep ==
  ASSUME Mapped, NEW t \in Threads, answer' = NoAnswer,
         \A a \in Addr, u \in Threads :
            Contains(futex_table'[a], u) <=> Contains(futex_table[a], u) /\ u # t
  PROVE  Sets!Next
<1>1. ASSUME NEW a \in Addr PROVE Elems(futex_table'[a]) = Elems(futex_table[a]) \ {t}
  BY DEF Elems
<1>2. Sleepers' = [a \in Addr |-> Sleepers[a] \ {t}]
  BY Zenon, <1>1 DEF Mapped
<1> QED BY <1>2, LeaveStep

\* futex_wake wakes as many as WaitSets says.
LEMMA WakeStep ==
  ASSUME Mapped, NEW a \in Addr, NEW n \in 0 .. Cardinality(Threads),
         futex_table' = futex_wake(futex_table, a, n),
         answer' = [asked |-> n, count |-> Min({n, Len(futex_table[a])})]
  PROVE  Sets!Next
<1> DEFINE q == futex_table[a]
           k == Min({n, Len(q)})
           W == Elems(Part(q, 0, k))
<1>1. q \in Seq(Threads) /\ Len(q) \in Nat /\ \A u \in Threads : Once(q, u)
  BY DEF Mapped
<1>2. Cardinality(Threads) \in Nat
  BY FS_CardinalityType, FutexAssumption
<1>3. n \in Nat
  BY <1>2
<1>4. k \in Nat /\ k + 0 <= Len(q) /\ k + 0 = k
  BY <1>1, <1>3, MinOfTwo
<1>5. Sleepers[a] = Elems(q) /\ Cardinality(Elems(q)) = Len(q)
  BY <1>1, ElemsCount DEF Mapped
<1>6. futex_table' = [futex_table EXCEPT ![a] = Part(q, k, Len(q))]
  BY DEF futex_wake, Drop, Part
<1>7. answer' = [asked |-> n, count |-> k]
  OBVIOUS
<1> HIDE DEF k, q
<1>8. W \subseteq Elems(q) /\ Cardinality(W) = k
      /\ Elems(Part(q, k + 0, Len(q))) = Elems(q) \ (W \cup Elems(Part(q, k, k + 0)))
      /\ Cardinality(Elems(Part(q, k, k + 0))) = 0
      /\ Elems(Part(q, k, k + 0)) \subseteq Elems(q)
  BY <1>1, <1>4, 0 \in Nat, ThreeParts
<1>9. Elems(Part(q, k, k + 0)) = {}
  <2>1. IsFiniteSet(Elems(Part(q, k, k + 0)))
    <3>1. Elems(Part(q, k, k + 0)) \subseteq Threads
      BY DEF Elems
    <3> QED BY <3>1, FS_Subset, FutexAssumption
  <2> QED BY <1>8, <2>1, FS_EmptySet
<1>10. Elems(Part(q, k, Len(q))) = Elems(q) \ W
  BY <1>4, <1>8, <1>9
<1> HIDE DEF W
<1>11. \A c \in Addr : futex_table'[c] = IF c = a THEN Part(q, k, Len(q)) ELSE futex_table[c]
  BY <1>6 DEF Mapped, Tables
<1>12. Sleepers' = [Sleepers EXCEPT ![a] = @ \ W]
  BY Zenon, <1>5, <1>10, <1>11 DEF Mapped
<1>13. W \in kSubset(k, Sleepers[a])
  BY <1>5, <1>8 DEF kSubset
<1>14. Sets!Chosen(a, n) = k
  BY Zenon, <1>5, SameCount, SameMin DEF Sets!Chosen, k
<1>15. Sets!Wake(a, n)
  BY Zenon, <1>7, <1>12, <1>13, <1>14, SameSubsets DEF Sets!Wake
<1>16. n \in 0 .. Sets!Cardinality(Threads)
  BY SameCount
<1> QED BY <1>15, <1>16 DEF Sets!Next

\* futex_requeue is a step of the contract.
LEMMA RequeueStep ==
  ASSUME Mapped, NEW t \in Threads, NEW a \in Addr, NEW n \in Nat, NEW b \in Addr, NEW m \in Nat,
         sys_futex_requeue(t, a, n, b, m), n + m <= Len(futex_table[a])
  PROVE  Sets!Next
<1> DEFINE q == futex_table[a]
           W == Elems(Part(q, 0, n))
           M == Elems(Part(q, n, n + m))
           left == Part(q, n + m, Len(q))
           moved == Part(q, n, n + m)
<1>1. q \in Seq(Threads) /\ Len(q) \in Nat /\ (\A u \in Threads : Once(q, u)) /\ n + m <= Len(q)
  BY DEF Mapped
<1>2. /\ futex_table' = futex_requeue(futex_table, a, n, b, m)
      /\ answer' = [asked |-> n, count |-> n]
  BY DEF sys_futex_requeue
<1>3. /\ left \in Seq(Threads) /\ moved \in Seq(Threads)
      /\ \A c \in Addr : futex_table'[c] =
            IF c = b THEN (IF c = a THEN left ELSE futex_table[c]) \o moved
            ELSE IF c = a THEN left ELSE futex_table[c]
  BY <1>1, <1>2, RequeueAt DEF Mapped
<1>4. Sleepers[a] = Elems(q) /\ Cardinality(Elems(q)) = Len(q)
  BY <1>1, ElemsCount DEF Mapped
<1> HIDE DEF q
<1>5. /\ W \subseteq Elems(q) /\ Cardinality(W) = n
      /\ M \subseteq Elems(q) \ W /\ Cardinality(M) = m
      /\ Elems(left) = Elems(q) \ (W \cup M)
  BY <1>1, ThreeParts
<1>6. Elems(moved) = M
  OBVIOUS
<1> HIDE DEF W, M, left, moved
<1>7. ASSUME NEW c \in Addr
      PROVE  Elems(futex_table'[c]) = (IF c = a THEN Sleepers[c] \ (W \cup M) ELSE Sleepers[c])
                                      \cup (IF c = b THEN M ELSE {})
  <2> DEFINE stay == IF c = a THEN left ELSE futex_table[c]
  <2>1. stay \in Seq(Threads)
    BY <1>3 DEF Mapped
  <2>2. Elems(stay) = IF c = a THEN Sleepers[c] \ (W \cup M) ELSE Sleepers[c]
    BY Zenon, <1>4, <1>5 DEF Mapped
  <2>3. futex_table'[c] = IF c = b THEN stay \o moved ELSE stay
    BY <1>3
  <2> HIDE DEF stay
  <2>4. Elems(stay \o moved) = Elems(stay) \cup M
    <3>1. \A u \in Threads : Contains(stay \o moved, u) <=> Contains(stay, u) \/ Contains(moved, u)
      BY <1>3, <2>1, JoinIn
    <3> QED BY <3>1, <1>6 DEF Elems
  <2> QED BY <2>2, <2>3, <2>4
<1>8. Sleepers' = [c \in Addr |-> (IF c = a THEN Sleepers[c] \ (W \cup M) ELSE Sleepers[c])
                                  \cup (IF c = b THEN M ELSE {})]
  BY <1>7 DEF Mapped
<1>9. W \in kSubset(n, Sleepers[a]) /\ M \in kSubset(m, Sleepers[a] \ W)
  BY <1>4, <1>5 DEF kSubset
<1>10. Sets!Chosen(a, n) = n
  <2>1. Min({n, Len(q)}) = n
    BY <1>1, MinOfTwo
  <2> QED BY Zenon, <1>4, <2>1, SameCount, SameMin DEF Sets!Chosen
<1>11. Sets!Requeue(a, n, b, m)
  BY Zenon, <1>2, <1>8, <1>9, <1>10, SameSubsets DEF Sets!Requeue
<1>12. n \in 0 .. Sets!Cardinality(Threads) /\ m \in 0 .. Sets!Cardinality(Threads)
  <2>1. Elems(q) \subseteq Threads
    BY DEF Elems
  <2>2. Cardinality(Threads) \in Nat /\ Cardinality(Elems(q)) <= Cardinality(Threads)
    BY <2>1, FS_Subset, FS_CardinalityType, FutexAssumption
  <2>3. n <= Cardinality(Threads) /\ m <= Cardinality(Threads)
    BY <2>2, <1>1, <1>4
  <2> QED BY <2>2, <2>3, SameCount
<1> QED BY <1>11, <1>12 DEF Sets!Next

\* futex_wait is a step of the contract.
LEMMA WaitStep ==
  ASSUME IInv, expired = {}, Mapped, NEW t \in Threads, NEW a \in Addr, NEW v,
         NEW timed \in BOOLEAN, sys_futex_wait(t, a, v, timed)
  PROVE  Sets!Next
<1> DEFINE tab == Queued(futex_table, a, t)
<1>1. futex_table \in Tables /\ \A c \in Addr : ~Contains(futex_table[c], t)
  <2>1. ~Waiting(t)
    BY DEF sys_futex_wait, Running, Waiting
  <2> QED BY <2>1, NotQueued DEF Mapped
<1>2. tab \in Tables
      /\ \A c \in Addr : \A u : Contains(tab[c], u) <=> Contains(futex_table[c], u) \/ (u = t /\ c = a)
  BY <1>1, QueuedAt
<1>3. answer' = NoAnswer
  BY DEF sys_futex_wait
<1>4. CASE signal[t]
  <2>1. futex_table' = Interrupted(tab, t)
    BY <1>4 DEF sys_futex_wait, Queued
  <2> HIDE DEF tab
  <2>2. \A c \in Addr, u \in Threads : Contains(futex_table'[c], u) <=> Contains(tab[c], u) /\ u # t
    <3>1. Contains(tab[a], t) /\ \A c \in Addr : Contains(tab[c], t) => c = a
      BY <1>1, <1>2
    <3> QED BY <1>2, <2>1, <3>1, InterruptedIn
  <2>3. \A c \in Addr, u \in Threads :
           Contains(futex_table'[c], u) <=> Contains(futex_table[c], u) /\ u # t
    BY <1>2, <2>2
  <2> QED BY <1>3, <2>3, OffStep
<1>5. CASE ~signal[t]
  <2>1. futex_table' = tab
    BY <1>5 DEF sys_futex_wait, Queued
  <2>2. \A c \in Addr : Elems(futex_table'[c]) = IF c = a THEN Elems(futex_table[c]) \cup {t}
                                                 ELSE Elems(futex_table[c])
    BY <1>2, <2>1 DEF Elems
  <2>3. Sleepers' = [Sleepers EXCEPT ![a] = @ \cup {t}]
    BY Zenon, <2>2 DEF Mapped
  <2>4. \A c \in Addr : t \notin Sleepers[c]
    BY <1>1 DEF Mapped, Elems
  <2>5. Sets!Sleep(t, a)
    BY <1>3, <2>3, <2>4 DEF Sets!Sleep, Sets!NoAnswer, NoAnswer
  <2> QED BY <2>5 DEF Sets!Next
<1> QED BY <1>4, <1>5

\* A poll is a step of the contract.
LEMMA PollStep ==
  ASSUME IInv, expired = {}, Mapped, NEW t \in Threads, Poll(t)
  PROVE  Sets!Next
<1>1. CASE WaitFutex_woken(t)
  <2>1. \A a \in Addr : ~Contains(futex_table[a], t)
    BY <1>1 DEF WaitFutex_woken, in_futex
  <2>2. futex_table' = futex_table /\ answer' = NoAnswer
    BY <1>1 DEF WaitFutex_woken
  <2> QED BY <2>1, <2>2, OffStep
<1>2. CASE WaitFutex_interrupted(t)
  <2>1. PICK b \in Addr : Contains(futex_table[b], t)
    BY <1>2 DEF WaitFutex_interrupted, in_futex
  <2>2. \A a \in Addr : Contains(futex_table[a], t) => a = b
    BY <2>1 DEF IInv, Exact
  <2>3. futex_table' = Interrupted(futex_table, t) /\ answer' = NoAnswer
    BY <1>2 DEF WaitFutex_interrupted
  <2>4. \A c \in Addr, u \in Threads :
           Contains(futex_table'[c], u) <=> Contains(futex_table[c], u) /\ u # t
    BY <2>1, <2>2, <2>3, InterruptedIn DEF Mapped
  <2> QED BY <2>3, <2>4, OffStep
<1> QED BY <1>1, <1>2 DEF Poll

\* The exit of a thread is a step of the contract.
LEMMA ExitStep ==
  ASSUME IInv, expired = {}, Mapped, NEW t \in Threads, thread_exit(t)
  PROVE  Sets!Next
<1>1. CASE clear_child_tid[t] # NoAddr
  <2>1. clear_child_tid[t] \in Addr
    BY <1>1, FutexAssumption DEF IInv
  <2>2. 1 \in 0 .. Cardinality(Threads)
    BY FS_EmptySet, FS_CardinalityType, FutexAssumption
  <2> QED BY <1>1, <2>1, <2>2, WakeStep DEF thread_exit
<1>2. CASE clear_child_tid[t] = NoAddr
  <2>1. futex_table' = futex_table /\ answer' = NoAnswer /\ ~Waiting(t)
    BY <1>2 DEF thread_exit, Running, Waiting
  <2> QED BY <2>1, NotQueued, OffStep
<1> QED BY <1>1, <1>2

\* A wait that timed out is remembered.
LEMMA ExpiredGrows ==
  ASSUME NEW t \in Threads, Step(t)
  PROVE  expired \subseteq expired' /\ (WaitUntilsec(t) => expired' # {})
<1>1. ASSUME Poll(t) \/ thread_exit(t) \/ check_signal(t) PROVE expired' = expired
  BY <1>1 DEF Poll, WaitFutex_woken, WaitFutex_interrupted, thread_exit, check_signal
<1>2. ASSUME WaitUntilsec(t) PROVE expired' = expired \cup {t}
  BY <1>2 DEF WaitUntilsec
<1>3. \A u \in Threads : sys_tkill(t, u) => expired' = expired
  BY DEF sys_tkill
<1>4. \A a \in TidAddr : sys_set_tid_address(t, a) => expired' = expired
  BY DEF sys_set_tid_address
<1>5. \A a, v : Store(t, a, v) => expired' = expired
  BY DEF Store
<1>6. \A a, v, timed : sys_futex_wait(t, a, v, timed) => expired' = expired
  BY DEF sys_futex_wait
<1>7. \A a, n : sys_futex_wake(t, a, n) => expired' = expired
  BY DEF sys_futex_wake
<1>8. \A a, n, b, m : sys_futex_requeue(t, a, n, b, m) => expired' = expired
  BY DEF sys_futex_requeue
<1> QED BY <1>1, <1>2, <1>3, <1>4, <1>5, <1>6, <1>7, <1>8 DEF Step

\* Until a wait expires, every step is a step of the contract or a stutter.
LEMMA SetsStep ==
  ASSUME IInv, IInv', NEW t \in Threads, Step(t), expired' = {}
  PROVE  UNCHANGED Sets!vars \/ Sets!Next
<1>1. expired = {} /\ ~WaitUntilsec(t)
  BY ExpiredGrows
<1>2. Mapped
  BY <1>1, IsMapped
<1>3. CASE Aside(t)
  <2>1. futex_table' = futex_table /\ answer' = NoAnswer /\ ~Waiting(t)
    BY <1>3, AsideStill DEF Waiting
  <2> QED BY <1>1, <1>2, <2>1, NotQueued, OffStep
<1>4. ASSUME NEW a \in Addr, NEW n \in 1 .. Cardinality(Threads), sys_futex_wake(t, a, n)
      PROVE  Sets!Next
  <2>1. Cardinality(Threads) \in Nat
    BY FS_CardinalityType, FutexAssumption
  <2>2. n \in 0 .. Cardinality(Threads)
    BY <2>1
  <2> QED BY <1>2, <1>4, <2>2, WakeStep DEF sys_futex_wake
<1>5. ASSUME NEW a \in Addr, NEW b \in Addr, NEW n \in Nat, NEW m \in Nat,
             sys_futex_requeue(t, a, n, b, m)
      PROVE  UNCHANGED Sets!vars \/ Sets!Next
  <2>1. CASE n + m <= Len(futex_table[a])
    BY <1>2, <1>5, <2>1, RequeueStep
  <2>2. CASE ~(n + m <= Len(futex_table[a]))
    <3>1. UNCHANGED <<futex_table, answer>>
      BY <1>5, <2>2 DEF sys_futex_requeue
    <3> QED BY <1>2, <3>1 DEF Mapped, Sets!vars
  <2> QED BY <2>1, <2>2
<1> QED BY <1>1, <1>2, <1>3, <1>4, <1>5, StepCases, WaitStep, PollStep, ExitStep

\* Until a wait times out, what the calls do to the sleepers, and what they answer,
\* is what WaitSets says: Futex implements it, for any number of threads and
\* addresses and whatever counts programs give.
THEOREM WaitSetsTheorem == Safety => WaitSetsSpec
<1>1. Init => Sets!Init
  <2> SUFFICES ASSUME Init PROVE Sets!Init
    OBVIOUS
  <2>1. Sleepers = [a \in Addr |-> {}]
    BY DEF Init, Sleepers, Waiting
  <2> QED BY <2>1 DEF Init, Sets!Init, Sets!NoAnswer, NoAnswer
<1>2. IInv /\ IInv' /\ [Next]_vars => [expired' = {} => UNCHANGED Sets!vars \/ Sets!Next]_vars
  BY SetsStep DEF Next
<1> QED BY <1>1, <1>2, InitInv, NextInv, PTL DEF Safety, WaitSetsSpec
=============================================================================
