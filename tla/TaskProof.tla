----------------------------- MODULE TaskProof ------------------------------
(***************************************************************************)
(* What a task meets while it runs.  The executor (Executor), for every    *)
(* set of harts and every bound on the task ids: the invariants of the run *)
(* queue, and that every step is a step of the scheduler contract          *)
(* TaskPool.  Signals (Signals), for every set of signal numbers, actions  *)
(* and masks: no instance of a real-time signal is lost, and the mask and  *)
(* the registers of the interrupted code come back unless a handler was    *)
(* dropped or given up.  Descriptor tables (Files), for every limit and    *)
(* number of processes: a process knows which of its descriptors are open. *)
(***************************************************************************)
EXTENDS Executor, Signals, Files, FiniteSetTheorems, TLAPS

-----------------------------------------------------------------------------
(* Descriptor tables                                                       *)

Slots == FileIds \cup {None}

\* A set of numbers that is not empty has a least one, which Min answers.
LEMMA MinIn ==
    ASSUME NEW S, S \subseteq Nat, S # {}
    PROVE  Min(S) \in S /\ \A y \in S : Min(S) <= y
<1>1. PICK m \in S : \A y \in S : ~(<<y, m>> \in OpToRel(<, Nat))
  BY Zenon, WFMin, NatLessThanWellFounded
<1>2. \A y \in S : ~(y < m)
  BY Zenon, <1>1 DEF OpToRel
<1>3. \A y \in S : m <= y
  BY <1>2
<1> QED BY Zenon, <1>3 DEF Min

\* A descriptor that is set is open, one that is cleared is not, and no other
\* changes.
LEMMA OccupiedSet ==
    ASSUME NEW tab \in Seq(Slots), NEW fd \in 0 .. Len(tab) - 1, NEW f \in Slots
    PROVE  /\ [tab EXCEPT ![fd + 1] = f] \in Seq(Slots)
           /\ Len([tab EXCEPT ![fd + 1] = f]) = Len(tab)
           /\ Occupied([tab EXCEPT ![fd + 1] = f])
                = IF f = None THEN Occupied(tab) \ {fd} ELSE Occupied(tab) \cup {fd}
<1> DEFINE new == [tab EXCEPT ![fd + 1] = f]
<1>1. /\ new \in Seq(Slots) /\ Len(new) = Len(tab) /\ Len(tab) \in Nat
      /\ fd + 1 \in 1 .. Len(tab) /\ DOMAIN tab = 1 .. Len(tab)
  OBVIOUS
<1>2. \A i \in 1 .. Len(tab) : new[i] = IF i = fd + 1 THEN f ELSE tab[i]
  BY <1>1
<1> HIDE DEF new
<1>3. \A x \in 0 .. Len(tab) - 1 : x + 1 \in 1 .. Len(tab) /\ (x + 1 = fd + 1 <=> x = fd)
  BY <1>1
<1>4. Occupied(new) = IF f = None THEN Occupied(tab) \ {fd} ELSE Occupied(tab) \cup {fd}
  BY <1>1, <1>2, <1>3 DEF Occupied
<1> QED BY <1>1, <1>4 DEF new

\* A table that grows by a free slot.
LEMMA OccupiedGrown ==
    ASSUME NEW tab \in Seq(Slots)
    PROVE  /\ Append(tab, None) \in Seq(Slots) /\ Len(Append(tab, None)) = Len(tab) + 1
           /\ \A i \in 1 .. Len(tab) : Append(tab, None)[i] = tab[i]
           /\ Occupied(Append(tab, None)) = Occupied(tab)
<1> DEFINE new == Append(tab, None)
<1>1. /\ new \in Seq(Slots) /\ Len(new) = Len(tab) + 1 /\ Len(tab) \in Nat
      /\ new[Len(tab) + 1] = None /\ \A i \in 1 .. Len(tab) : new[i] = tab[i]
  BY DEF Slots
<1> HIDE DEF new
<1>2. \A x \in 0 .. Len(new) - 1 : x = Len(tab) \/ x + 1 \in 1 .. Len(tab)
  BY <1>1
<1>3. \A x \in 0 .. Len(tab) - 1 : x \in 0 .. Len(new) - 1 /\ x + 1 \in 1 .. Len(tab) /\ x # Len(tab)
  BY <1>1
<1>4. ASSUME NEW x \in Occupied(new) PROVE x \in Occupied(tab)
  <2>1. x \in 0 .. Len(new) - 1 /\ new[x + 1] # None
    BY <1>4 DEF Occupied
  <2>2. x # Len(tab)
    BY <1>1, <2>1
  <2> QED BY <1>1, <1>2, <2>1, <2>2 DEF Occupied
<1>5. ASSUME NEW x \in Occupied(tab) PROVE x \in Occupied(new)
  BY <1>1, <1>3, <1>5 DEF Occupied
<1> QED BY Zenon, <1>1, <1>4, <1>5 DEF new

\* alloc_fd answers a free descriptor below the limit and within the table, and
\* opens nothing.
LEMMA AllocIs ==
    ASSUME NEW tab \in Seq(Slots), NEW lim \in Nat, alloc_fd(tab, lim).fd # NoFd
    PROVE  LET a == alloc_fd(tab, lim)
           IN  /\ a.tab \in Seq(Slots) /\ a.fd \in 0 .. Len(a.tab) - 1 /\ a.fd < lim
               /\ Len(tab) <= Len(a.tab) /\ \A i \in 1 .. Len(tab) : a.tab[i] = tab[i]
               /\ Occupied(a.tab) = Occupied(tab) /\ a.fd \notin Occupied(tab)
<1> DEFINE free == {fd \in 0 .. Len(tab) - 1 : tab[fd + 1] = None /\ fd < lim}
           a == alloc_fd(tab, lim)
<1>0. Len(tab) \in Nat
  OBVIOUS
<1>1. CASE free # {}
  <2>1. a = [fd |-> Min(free), tab |-> tab]
    BY <1>1 DEF alloc_fd
  <2>2. Min(free) \in free
    <3>1. free \subseteq Nat
      BY <1>0
    <3> HIDE DEF free
    <3> QED BY Zenon, <1>1, <3>1, MinIn
  <2>3. a.fd \in free /\ a.tab = tab
    BY <2>1, <2>2
  <2> HIDE DEF a
  <2> QED BY <1>0, <2>3 DEF Occupied, a
<1>2. CASE free = {} /\ Len(tab) < lim
  <2>1. a = [fd |-> Len(tab), tab |-> Append(tab, None)]
    BY <1>2 DEF alloc_fd
  <2>2. a.fd = Len(tab) /\ a.tab = Append(tab, None)
    BY <2>1
  <2>3. Len(tab) \notin Occupied(tab)
    BY <1>0 DEF Occupied
  <2> HIDE DEF a
  <2>4. a.fd \in 0 .. Len(a.tab) - 1
    BY <1>0, <2>2, OccupiedGrown
  <2> QED BY <1>0, <1>2, <2>2, <2>3, <2>4, OccupiedGrown DEF a
<1>3. CASE free = {} /\ ~(Len(tab) < lim)
  <2>1. a.fd = NoFd
    BY <1>3 DEF alloc_fd
  <2> QED BY <2>1
<1> QED BY <1>1, <1>2, <1>3

\* get_fd answers what is in the table, for a descriptor that does not make it
\* panic.
LEMMA GetIs ==
    ASSUME NEW tab \in Seq(Slots), NEW lim \in Nat, NEW fd \in Nat, fd < lim => fd < Len(tab)
    PROVE  get_fd(tab, lim, fd) \in Slots
<1>1. CASE fd >= lim
  BY <1>1 DEF get_fd, Slots
<1>2. CASE ~(fd >= lim)
  <2>1. fd + 1 \in 1 .. Len(tab)
    BY <1>2
  <2>2. tab[fd + 1] \in Slots
    BY <2>1
  <2> QED BY <1>2, <2>2 DEF get_fd
<1> QED BY <1>1, <1>2

-----------------------------------------------------------------------------
(* What a process believes                                                 *)

\* A process that believes t of a table, and is excused where it is wrong.
KnownAs(tab, t, e) == (t \ Occupied(tab)) \cup (Occupied(tab) \ t) \subseteq e

\* The inductive invariant: DescriptorsKnown with the types it needs.
FilesInv ==
    /\ table \in [Procs -> Seq(Slots)] /\ limit \in [Procs -> Nat]
    /\ told \in [Procs -> SUBSET Nat] /\ excused \in [Procs -> SUBSET Nat]
    /\ \A p \in Procs : KnownAs(table[p], told[p], excused[p])

Still == UNCHANGED <<table, limit, told, excused>>

\* A step that leaves tables, limits and answers alone keeps the invariant.
LEMMA StillInv ==
    ASSUME FilesInv, Still
    PROVE  FilesInv'
  BY DEF FilesInv, Still, KnownAs, Occupied

\* A step of one process p, on its own table: tab is what the table becomes,
\* t what the process then believes, e what it is excused for.
StepOf(p, tab, t, e) ==
    /\ p \in Procs /\ tab \in Seq(Slots) /\ t \in SUBSET Nat /\ e \in SUBSET Nat
    /\ KnownAs(tab, t, e) /\ limit' \in [Procs -> Nat]
    /\ table' = [table EXCEPT ![p] = tab] /\ told' = [told EXCEPT ![p] = t]
    /\ excused' = [excused EXCEPT ![p] = e]

\* A step on the table of one process keeps the invariant when that table stays known.
LEMMA OneProcess ==
    ASSUME FilesInv, NEW p, NEW tab, NEW t, NEW e, StepOf(p, tab, t, e)
    PROVE  FilesInv'
<1>0. /\ p \in Procs /\ tab \in Seq(Slots) /\ t \in SUBSET Nat /\ e \in SUBSET Nat
      /\ KnownAs(tab, t, e) /\ limit' \in [Procs -> Nat]
      /\ table' = [table EXCEPT ![p] = tab] /\ told' = [told EXCEPT ![p] = t]
      /\ excused' = [excused EXCEPT ![p] = e]
  BY Zenon DEF StepOf
<1>1. /\ table' \in [Procs -> Seq(Slots)]
      /\ told' \in [Procs -> SUBSET Nat] /\ excused' \in [Procs -> SUBSET Nat]
  BY <1>0 DEF FilesInv
<1>2. ASSUME NEW q \in Procs PROVE KnownAs(table'[q], told'[q], excused'[q])
  <2>1. CASE q = p
    <3>1. table'[q] = tab /\ told'[q] = t /\ excused'[q] = e
      BY <1>0, <2>1 DEF FilesInv
    <3> QED BY Zenon, <1>0, <3>1
  <2>2. CASE q # p
    <3>1. table'[q] = table[q] /\ told'[q] = told[q] /\ excused'[q] = excused[q]
      BY <1>0, <2>2 DEF FilesInv
    <3> QED BY Zenon, <3>1 DEF FilesInv
  <2> QED BY <2>1, <2>2
<1>3. \A q \in Procs : KnownAs(table[q], told[q], excused[q])'
  BY Zenon, <1>2 DEF KnownAs, Occupied
<1> QED BY <1>0, <1>1, <1>3 DEF FilesInv

\* A descriptor that is opened and answered, or opened and left behind.
Opens(tab, fd, f, new) ==
    /\ tab \in Seq(Slots) /\ fd \in 0 .. Len(tab) - 1 /\ f \in FileIds
    /\ new = [tab EXCEPT ![fd + 1] = f]

\* Opening a descriptor occupies its slot and no other.
LEMMA OpensIs ==
    ASSUME NEW tab, NEW fd, NEW f, NEW new, Opens(tab, fd, f, new)
    PROVE  new \in Seq(Slots) /\ Occupied(new) = Occupied(tab) \cup {fd}
<1>0. /\ tab \in Seq(Slots) /\ fd \in 0 .. Len(tab) - 1 /\ f \in FileIds
      /\ new = [tab EXCEPT ![fd + 1] = f]
  BY Zenon DEF Opens
<1>1. f \in Slots /\ f # None
  BY <1>0, FilesAssumption DEF Slots, None
<1> QED BY Zenon, <1>0, <1>1, OccupiedSet

\* A descriptor opened and answered is known.
LEMMA OpenAnswered ==
    ASSUME NEW tab, NEW fd, NEW f, NEW new, NEW t, NEW e, Opens(tab, fd, f, new), KnownAs(tab, t, e)
    PROVE  KnownAs(new, t \cup {fd}, e)
<1>1. Occupied(new) = Occupied(tab) \cup {fd}
  BY Zenon, OpensIs
<1> QED BY <1>1 DEF KnownAs

\* A descriptor put where the caller asked is known and needs no excuse.
LEMMA OpenSet ==
    ASSUME NEW tab, NEW fd, NEW f, NEW new, NEW t, NEW e, Opens(tab, fd, f, new), KnownAs(tab, t, e)
    PROVE  KnownAs(new, t \cup {fd}, e \ {fd})
<1>1. Occupied(new) = Occupied(tab) \cup {fd}
  BY Zenon, OpensIs
<1> QED BY <1>1 DEF KnownAs

\* A descriptor opened and not answered is excused.
LEMMA OpenLeft ==
    ASSUME NEW tab, NEW fd, NEW f, NEW new, NEW t, NEW e, Opens(tab, fd, f, new), KnownAs(tab, t, e)
    PROVE  KnownAs(new, t, e \cup {fd})
<1>1. Occupied(new) = Occupied(tab) \cup {fd}
  BY Zenon, OpensIs
<1> QED BY <1>1 DEF KnownAs

\* set_fd of a descriptor below the limit and within the table
LEMMA SetIs ==
    ASSUME NEW tab, NEW lim \in Nat, NEW fd \in Nat, fd < lim, NEW f
    PROVE  set_fd(tab, lim, fd, f) = [tab EXCEPT ![fd + 1] = f]
  BY DEF set_fd

\* What the invariant says of one process.
LEMMA Known ==
    ASSUME FilesInv, NEW p \in Procs
    PROVE  /\ table[p] \in Seq(Slots) /\ limit[p] \in Nat /\ told[p] \in SUBSET Nat
           /\ excused[p] \in SUBSET Nat /\ KnownAs(table[p], told[p], excused[p])
           /\ told = [told EXCEPT ![p] = told[p]] /\ excused = [excused EXCEPT ![p] = excused[p]]
  BY DEF FilesInv

\* close forgets the descriptor, whether or not it was open.
LEMMA CloseInv ==
    ASSUME FilesInv, NEW t \in Tasks, NEW fd \in FdRange, sys_close(t, fd)
    PROVE  FilesInv'
<1> DEFINE p == ProcOf[t]
           tab == table[p]
           new == clear_fd(tab, fd)
<1>0. p \in Procs /\ fd \in Nat
  BY FilesAssumption DEF FdRange
<1> HIDE DEF p
<1>1. /\ table' = [table EXCEPT ![p] = new] /\ told' = [told EXCEPT ![p] = told[p] \ {fd}]
      /\ excused' = [excused EXCEPT ![p] = excused[p] \ {fd}] /\ limit' = limit
  BY DEF sys_close, Settle, Quiet, p
<1>2. /\ tab \in Seq(Slots) /\ told[p] \in SUBSET Nat /\ excused[p] \in SUBSET Nat
      /\ KnownAs(tab, told[p], excused[p])
  BY <1>0, Known
<1> HIDE DEF tab
<1>3. new \in Seq(Slots) /\ Occupied(new) = Occupied(tab) \ {fd}
  <2>1. CASE fd >= Len(tab)
    <3>1. new = tab
      BY <2>1 DEF clear_fd
    <3>2. fd \notin Occupied(tab)
      BY <1>0, <1>2, <2>1 DEF Occupied
    <3> HIDE DEF new
    <3> QED BY <1>2, <3>1, <3>2
  <2>2. CASE ~(fd >= Len(tab))
    <3>1. fd \in 0 .. Len(tab) - 1 /\ new = [tab EXCEPT ![fd + 1] = None] /\ None \in Slots
      BY <1>0, <1>2, <2>2 DEF clear_fd, Slots
    <3> HIDE DEF new
    <3> QED BY Zenon, <1>2, <3>1, OccupiedSet
  <2> QED BY <2>1, <2>2
<1> HIDE DEF new
<1>4. KnownAs(new, told[p] \ {fd}, excused[p] \ {fd})
  BY <1>2, <1>3 DEF KnownAs
<1>5. limit' \in [Procs -> Nat] /\ told[p] \ {fd} \in SUBSET Nat /\ excused[p] \ {fd} \in SUBSET Nat
  BY <1>1, <1>2 DEF FilesInv
<1>6. StepOf(p, new, told[p] \ {fd}, excused[p] \ {fd})
  BY Zenon, <1>0, <1>1, <1>3, <1>4, <1>5 DEF StepOf
<1> QED BY Zenon, <1>6, OneProcess


\* What a descriptor that may be looked up refers to
LEMMA FileIs ==
    ASSUME FilesInv, NEW t \in Tasks, NEW fd \in Nat, Safe(t, fd)
    PROVE  File(t, fd) \in Slots
<1>1. ProcOf[t] \in Procs
  BY FilesAssumption
<1>2. table[ProcOf[t]] \in Seq(Slots) /\ limit[ProcOf[t]] \in Nat
  BY <1>1, Known
<1>3. fd < limit[ProcOf[t]] => fd < Len(table[ProcOf[t]])
  BY DEF Safe, InBounds
<1> QED BY <1>2, <1>3, GetIs DEF File

\* dup3 opens its destination, or is excused for answering one at the limit.
LEMMA Dup3Inv ==
    ASSUME FilesInv, NEW t \in Tasks, NEW src \in FdRange, NEW dst \in DupTargets,
           Safe(t, src), Safe(t, dst), sys_dup3(t, src, dst)
    PROVE  FilesInv'
<1> DEFINE p == ProcOf[t]
           f == File(t, src)
           new == set_fd(table[p], limit[p], dst, f)
<1>0. p \in Procs /\ src \in Nat /\ dst \in Nat
  BY FilesAssumption DEF FdRange
<1>1. f \in FileIds
  <2>1. f \in Slots
    BY <1>0, FileIs
  <2>2. f # None
    BY DEF sys_dup3
  <2> QED BY <2>1, <2>2 DEF Slots
<1>2. dst < limit[p] => dst < Len(table[p])
  BY DEF Safe, InBounds
<1>3. /\ table' = [table EXCEPT ![p] = new] /\ told' = [told EXCEPT ![p] = told[p] \cup {dst}]
      /\ excused' = [excused EXCEPT ![p] = IF dst >= limit[p] THEN excused[p] \cup {dst}
                                           ELSE excused[p] \ {dst}]
      /\ limit' = limit
  BY Zenon DEF sys_dup3, Settle, Quiet, Answers
<1> HIDE DEF p, f
<1>4. /\ table[p] \in Seq(Slots) /\ limit[p] \in Nat /\ told[p] \in SUBSET Nat
      /\ excused[p] \in SUBSET Nat /\ KnownAs(table[p], told[p], excused[p])
  BY <1>0, Known
<1>5. limit' \in [Procs -> Nat] /\ told[p] \cup {dst} \in SUBSET Nat
  BY <1>0, <1>3, <1>4 DEF FilesInv
<1>6. CASE dst >= limit[p]
  <2>1. new = table[p]
    BY <1>6 DEF set_fd
  <2>2. KnownAs(table[p], told[p] \cup {dst}, excused[p] \cup {dst})
    BY <1>4 DEF KnownAs
  <2>3. excused[p] \cup {dst} \in SUBSET Nat
    BY <1>0, <1>4
  <2>4. excused' = [excused EXCEPT ![p] = excused[p] \cup {dst}]
    BY Zenon, <1>3, <1>6
  <2> HIDE DEF new
  <2>5. StepOf(p, table[p], told[p] \cup {dst}, excused[p] \cup {dst})
    BY Zenon, <1>0, <1>3, <1>4, <1>5, <2>1, <2>2, <2>3, <2>4 DEF StepOf
  <2> QED BY Zenon, <2>5, OneProcess
<1>7. CASE ~(dst >= limit[p])
  <2>1. dst < limit[p] /\ dst \in 0 .. Len(table[p]) - 1
    BY <1>0, <1>2, <1>4, <1>7
  <2>2. new = [table[p] EXCEPT ![dst + 1] = f]
    BY <1>0, <1>4, <2>1, SetIs
  <2>3. new \in Seq(Slots) /\ KnownAs(new, told[p] \cup {dst}, excused[p] \ {dst})
    <3>1. Opens(table[p], dst, f, new)
      BY Zenon, <1>1, <1>4, <2>1, <2>2 DEF Opens
    <3> HIDE DEF new
    <3> QED BY Zenon, <1>4, <3>1, OpensIs, OpenSet
  <2>4. excused' = [excused EXCEPT ![p] = excused[p] \ {dst}]
    BY Zenon, <1>3, <1>7
  <2>5. excused[p] \ {dst} \in SUBSET Nat
    BY <1>4
  <2> HIDE DEF new
  <2>6. StepOf(p, new, told[p] \cup {dst}, excused[p] \ {dst})
    BY Zenon, <1>0, <1>3, <1>5, <2>3, <2>4, <2>5 DEF StepOf
  <2> QED BY Zenon, <2>6, OneProcess
<1> QED BY <1>6, <1>7

\* A new descriptor in a table that alloc_fd may have grown
LEMMA AllocKnown ==
    ASSUME NEW tab \in Seq(Slots), NEW lim \in Nat, NEW t, NEW e, KnownAs(tab, t, e),
           alloc_fd(tab, lim).fd # NoFd
    PROVE  LET a == alloc_fd(tab, lim)
           IN  /\ a.tab \in Seq(Slots) /\ KnownAs(a.tab, t, e) /\ a.fd \in Nat
               /\ \A f \in FileIds :
                    /\ set_fd(a.tab, lim, a.fd, f) \in Seq(Slots)
                    /\ KnownAs(set_fd(a.tab, lim, a.fd, f), t \cup {a.fd}, e)
                    /\ KnownAs(set_fd(a.tab, lim, a.fd, f), t, e \cup {a.fd})
<1> DEFINE a == alloc_fd(tab, lim)
<1>1. /\ a.tab \in Seq(Slots) /\ a.fd \in 0 .. Len(a.tab) - 1 /\ a.fd < lim
      /\ Occupied(a.tab) = Occupied(tab)
  BY AllocIs
<1> HIDE DEF a
<1>2. KnownAs(a.tab, t, e) /\ a.fd \in Nat
  BY <1>1 DEF KnownAs
<1>3. ASSUME NEW f \in FileIds
      PROVE  /\ set_fd(a.tab, lim, a.fd, f) \in Seq(Slots)
             /\ KnownAs(set_fd(a.tab, lim, a.fd, f), t \cup {a.fd}, e)
             /\ KnownAs(set_fd(a.tab, lim, a.fd, f), t, e \cup {a.fd})
  <2>1. set_fd(a.tab, lim, a.fd, f) = [a.tab EXCEPT ![a.fd + 1] = f]
    <3>1. a.fd \in Nat /\ a.fd < lim
      BY Zenon, <1>1, <1>2
    <3>2. lim \in Nat
      OBVIOUS
    <3> QED BY <3>1, <3>2, SetIs
  <2>2. Opens(a.tab, a.fd, f, set_fd(a.tab, lim, a.fd, f))
    BY Zenon, <1>1, <2>1 DEF Opens
  <2> QED BY Zenon, <1>2, <2>2, OpensIs, OpenAnswered, OpenLeft
<1> QED BY Zenon, <1>1, <1>2, <1>3 DEF a

\* dup opens the descriptor that it answers; when its source is not open it may
\* have grown the table.
LEMMA DupInv ==
    ASSUME FilesInv, NEW t \in Tasks, NEW src \in FdRange, Safe(t, src), sys_dup(t, src)
    PROVE  FilesInv'
<1> DEFINE p == ProcOf[t]
           a == alloc_fd(table[p], limit[p])
           f == get_fd(a.tab, limit[p], src)
           new == IF f = None THEN a.tab ELSE set_fd(a.tab, limit[p], a.fd, f)
<1>0. p \in Procs /\ src \in Nat
  BY FilesAssumption DEF FdRange
<1>1. /\ table' = [table EXCEPT ![p] = new] /\ excused' = excused /\ limit' = limit
      /\ IF f = None THEN told' = told ELSE told' = [told EXCEPT ![p] = told[p] \cup {a.fd}]
      /\ a.fd # NoFd
  BY Zenon DEF sys_dup, Settle, Quiet, Answers
<1>2. src < limit[p] => src < Len(table[p])
  BY DEF Safe, InBounds
<1> HIDE DEF p
<1>3. /\ table[p] \in Seq(Slots) /\ limit[p] \in Nat /\ told[p] \in SUBSET Nat
      /\ excused[p] \in SUBSET Nat /\ KnownAs(table[p], told[p], excused[p])
      /\ told = [told EXCEPT ![p] = told[p]] /\ excused = [excused EXCEPT ![p] = excused[p]]
  BY <1>0, Known
<1>4. a.tab \in Seq(Slots) /\ Len(table[p]) <= Len(a.tab)
  BY <1>1, <1>3, AllocIs
<1>5. /\ KnownAs(a.tab, told[p], excused[p]) /\ a.fd \in Nat
      /\ \A g \in FileIds : /\ set_fd(a.tab, limit[p], a.fd, g) \in Seq(Slots)
                            /\ KnownAs(set_fd(a.tab, limit[p], a.fd, g), told[p] \cup {a.fd}, excused[p])
  BY Zenon, <1>1, <1>3, AllocKnown
<1> HIDE DEF a
<1>6. f \in Slots
  <2>1. src < limit[p] => src < Len(a.tab)
    BY <1>0, <1>2, <1>3, <1>4
  <2> QED BY <1>0, <1>3, <1>4, <2>1, GetIs
<1> HIDE DEF f
<1>7. limit' \in [Procs -> Nat] /\ told[p] \cup {a.fd} \in SUBSET Nat
  BY <1>1, <1>3, <1>5 DEF FilesInv
<1>8. CASE f = None
  <2>1. new = a.tab /\ told' = told
    BY Zenon, <1>1, <1>8
  <2> HIDE DEF new
  <2>2. StepOf(p, a.tab, told[p], excused[p])
    BY Zenon, <1>0, <1>1, <1>3, <1>4, <1>5, <1>7, <2>1 DEF StepOf
  <2> QED BY Zenon, <2>2, OneProcess
<1>9. CASE f # None
  <2>1. f \in FileIds
    BY <1>6, <1>9 DEF Slots
  <2>2. new = set_fd(a.tab, limit[p], a.fd, f) /\ told' = [told EXCEPT ![p] = told[p] \cup {a.fd}]
    BY <1>1, <1>9
  <2>3. new \in Seq(Slots) /\ KnownAs(new, told[p] \cup {a.fd}, excused[p])
    BY Zenon, <1>5, <2>1, <2>2
  <2> HIDE DEF new
  <2>4. StepOf(p, new, told[p] \cup {a.fd}, excused[p])
    BY Zenon, <1>0, <1>1, <1>3, <1>7, <2>2, <2>3 DEF StepOf
  <2> QED BY Zenon, <2>4, OneProcess
<1> QED BY <1>8, <1>9


\* The files that are not in use are numbers above None.
LEMMA FreshIs ==
    /\ FreshFile(files) \subseteq FileIds
    /\ FreshFile(files) # {} => Min(FreshFile(files)) \in FileIds
    /\ Cardinality(FreshFile(files)) > 1 =>
          /\ Min(FreshFile(files)) \in FileIds
          /\ Min(FreshFile(files) \ {Min(FreshFile(files))}) \in FileIds
<1> DEFINE F == FreshFile(files)
<1>1. F \subseteq FileIds /\ F \subseteq Nat /\ F \in SUBSET FileIds
  BY Zenon, FilesAssumption DEF FreshFile
<1>2. IsFiniteSet(F)
  BY <1>1, FilesAssumption, FS_Subset
<1> HIDE DEF F
<1>3. F # {} => Min(F) \in F
  BY Zenon, <1>1, MinIn
<1>4. ASSUME Cardinality(F) > 1
      PROVE  Min(F) \in F /\ Min(F \ {Min(F)}) \in F \ {Min(F)}
  <2>1. F # {}
    BY <1>4, FS_EmptySet
  <2> DEFINE G == F \ {Min(F)}
  <2>2. G # {}
    <3>1. Cardinality(G) = Cardinality(F) - 1 /\ Cardinality(F) \in Nat /\ IsFiniteSet(G)
      BY <1>2, <1>3, <2>1, FS_RemoveElement, FS_CardinalityType
    <3> HIDE DEF G
    <3>2. Cardinality(G) # 0
      BY <1>4, <3>1
    <3> QED BY <3>1, <3>2, FS_EmptySet
  <2>3. G \subseteq Nat
    BY Zenon, <1>1
  <2> HIDE DEF G
  <2>4. Min(G) \in G
    BY Zenon, <2>2, <2>3, MinIn
  <2> QED BY <1>3, <2>1, <2>4 DEF G
<1> QED BY <1>1, <1>3, <1>4 DEF F

\* epoll_create1 opens the descriptor that it answers.
LEMMA OpenedInv ==
    ASSUME FilesInv, NEW p \in Procs, NEW file, NEW ints, Opened(p, file, ints),
           FreshFile(files) # {}, limit' = limit
    PROVE  FilesInv'
<1> DEFINE a == alloc_fd(table[p], limit[p])
           f == Min(FreshFile(files))
           new == set_fd(a.tab, limit[p], a.fd, f)
<1>1. /\ table' = [table EXCEPT ![p] = new] /\ excused' = excused
      /\ told' = [told EXCEPT ![p] = told[p] \cup {a.fd}] /\ a.fd # NoFd
  BY Zenon DEF Opened, Settle, Answers
<1>2. f \in FileIds
  BY Zenon, FreshIs
<1> HIDE DEF f
<1>3. /\ table[p] \in Seq(Slots) /\ limit[p] \in Nat /\ told[p] \in SUBSET Nat
      /\ excused[p] \in SUBSET Nat /\ KnownAs(table[p], told[p], excused[p])
      /\ excused = [excused EXCEPT ![p] = excused[p]]
  BY Known
<1>4. /\ a.fd \in Nat /\ new \in Seq(Slots) /\ KnownAs(new, told[p] \cup {a.fd}, excused[p])
  BY Zenon, <1>1, <1>2, <1>3, AllocKnown
<1> HIDE DEF a, new
<1>5. limit' \in [Procs -> Nat] /\ told[p] \cup {a.fd} \in SUBSET Nat
  BY <1>3, <1>4 DEF FilesInv
<1>6. StepOf(p, new, told[p] \cup {a.fd}, excused[p])
  BY Zenon, <1>1, <1>3, <1>4, <1>5 DEF StepOf
<1> QED BY Zenon, <1>6, OneProcess

\* pipe2 and socketpair open two descriptors and answer them; when there is
\* only one, it is left behind and excused.
LEMMA OpenedBothInv ==
    ASSUME FilesInv, NEW p \in Procs, NEW first, NEW second, OpenedBoth(p, first, second),
           Cardinality(FreshFile(files)) > 1, limit' = limit
    PROVE  FilesInv'
<1> DEFINE a == alloc_fd(table[p], limit[p])
           f == Min(FreshFile(files))
           g == Min(FreshFile(files) \ {f})
           tab1 == set_fd(a.tab, limit[p], a.fd, f)
           b == alloc_fd(tab1, limit[p])
           new == set_fd(b.tab, limit[p], b.fd, g)
<1>1. /\ a.fd # NoFd
      /\ table' = [table EXCEPT ![p] = IF b.fd = NoFd THEN tab1 ELSE new]
      /\ IF b.fd = NoFd
         THEN excused' = [excused EXCEPT ![p] = excused[p] \cup {a.fd}] /\ told' = told
         ELSE told' = [told EXCEPT ![p] = told[p] \cup {a.fd, b.fd}] /\ excused' = excused
  BY Zenon DEF OpenedBoth, Settle, Answers
<1>2. f \in FileIds /\ g \in FileIds
  BY Zenon, FreshIs
<1> HIDE DEF f, g
<1>3. /\ table[p] \in Seq(Slots) /\ limit[p] \in Nat /\ told[p] \in SUBSET Nat
      /\ excused[p] \in SUBSET Nat /\ KnownAs(table[p], told[p], excused[p])
      /\ told = [told EXCEPT ![p] = told[p]] /\ excused = [excused EXCEPT ![p] = excused[p]]
  BY Known
<1>4. /\ a.fd \in Nat /\ tab1 \in Seq(Slots) /\ KnownAs(tab1, told[p] \cup {a.fd}, excused[p])
      /\ KnownAs(tab1, told[p], excused[p] \cup {a.fd})
  BY Zenon, <1>1, <1>2, <1>3, AllocKnown
<1> HIDE DEF a, tab1
<1>5. limit' \in [Procs -> Nat]
  BY DEF FilesInv
<1>6. CASE b.fd = NoFd
  <2>1. /\ table' = [table EXCEPT ![p] = tab1] /\ told' = [told EXCEPT ![p] = told[p]]
        /\ excused' = [excused EXCEPT ![p] = excused[p] \cup {a.fd}]
    BY Zenon, <1>1, <1>3, <1>6
  <2>2. excused[p] \cup {a.fd} \in SUBSET Nat
    BY <1>3, <1>4
  <2>3. StepOf(p, tab1, told[p], excused[p] \cup {a.fd})
    BY Zenon, <1>3, <1>4, <1>5, <2>1, <2>2 DEF StepOf
  <2> QED BY Zenon, <2>3, OneProcess
<1>7. CASE b.fd # NoFd
  <2>1. /\ b.fd \in Nat /\ new \in Seq(Slots)
        /\ KnownAs(new, (told[p] \cup {a.fd}) \cup {b.fd}, excused[p])
    BY Zenon, <1>2, <1>3, <1>4, <1>7, AllocKnown
  <2>2. (told[p] \cup {a.fd}) \cup {b.fd} = told[p] \cup {a.fd, b.fd}
    OBVIOUS
  <2>3. /\ table' = [table EXCEPT ![p] = new] /\ excused' = [excused EXCEPT ![p] = excused[p]]
        /\ told' = [told EXCEPT ![p] = told[p] \cup {a.fd, b.fd}]
    BY Zenon, <1>1, <1>3, <1>7
  <2> HIDE DEF new, b
  <2>4. told[p] \cup {a.fd, b.fd} \in SUBSET Nat
    BY <1>3, <1>4, <2>1
  <2>5. KnownAs(new, told[p] \cup {a.fd, b.fd}, excused[p])
    BY Zenon, <2>1, <2>2
  <2>6. StepOf(p, new, told[p] \cup {a.fd, b.fd}, excused[p])
    BY Zenon, <1>3, <1>5, <2>1, <2>3, <2>4, <2>5 DEF StepOf
  <2> QED BY Zenon, <2>6, OneProcess
<1> QED BY <1>6, <1>7

\* A new process believes what its parent does, of the same table.
LEMMA ForkInv ==
    ASSUME FilesInv, NEW t \in Tasks, cow_fork(t)
    PROVE  FilesInv'
<1> DEFINE p == ProcOf[t]
<1>1. PICK q \in Forked \ {p} :
         /\ table' = [table EXCEPT ![q] = table[p]] /\ limit' = [limit EXCEPT ![q] = FILE_MAX]
         /\ told' = [told EXCEPT ![q] = told[p]] /\ excused' = [excused EXCEPT ![q] = excused[p]]
  BY Zenon DEF cow_fork
<1>2. p \in Procs /\ q \in Procs
  BY FilesAssumption
<1> HIDE DEF p
<1>3. /\ table[p] \in Seq(Slots) /\ told[p] \in SUBSET Nat
      /\ excused[p] \in SUBSET Nat /\ KnownAs(table[p], told[p], excused[p])
  BY <1>2, Known
<1>4. limit' \in [Procs -> Nat]
  BY <1>1, FilesAssumption DEF FilesInv
<1>5. StepOf(q, table[p], told[p], excused[p])
  BY Zenon, <1>1, <1>2, <1>3, <1>4 DEF StepOf
<1> QED BY Zenon, <1>5, OneProcess

\* A process without descriptors believes in none.
LEMMA ClearedInv ==
    ASSUME FilesInv, NEW p \in Procs, NEW cs, Cleared(p, cs), limit' = limit
    PROVE  FilesInv'
<1>1. /\ table' = [table EXCEPT ![p] = <<>>] /\ told' = [told EXCEPT ![p] = {}]
      /\ excused' = [excused EXCEPT ![p] = {}]
  BY Zenon DEF Cleared, Settle
<1>2. <<>> \in Seq(Slots) /\ {} \in SUBSET Nat /\ limit' \in [Procs -> Nat]
  BY DEF FilesInv
<1>3. Occupied(<<>>) = {}
  BY DEF Occupied
<1>4. KnownAs(<<>>, {}, {})
  BY <1>3 DEF KnownAs
<1>5. StepOf(p, <<>>, {}, {})
  BY Zenon, <1>1, <1>2, <1>4 DEF StepOf
<1> QED BY Zenon, <1>5, OneProcess

\* prlimit64 keeps the invariant.
LEMMA LimitInv ==
    ASSUME FilesInv, NEW t \in Tasks, NEW lim \in Limits, sys_prlimit64(t, lim)
    PROVE  FilesInv'
<1>1. limit' \in [Procs -> Nat] /\ UNCHANGED <<table, told, excused>>
  BY FilesAssumption DEF FilesInv, sys_prlimit64, Belief
<1> QED BY <1>1 DEF FilesInv, KnownAs, Occupied


\* The steps of a call that waits leave the tables alone.
LEMMA ReadStill ==
    ASSUME NEW t, NEW c, WaitBlockingRead(t, c)
    PROVE  Still
  BY DEF WaitBlockingRead, Settle, Belief, Still

\* A waiting write leaves the tables alone.
LEMMA WriteStill ==
    ASSUME NEW t, NEW c, WaitBlockingWrite(t, c)
    PROVE  Still
  BY DEF WaitBlockingWrite, Settle, Quiet, Belief, Still

\* So does the halt of the machine.
LEMMA HaltStill ==
    ASSUME Halt
    PROVE  Still
  BY DEF Halt, Still

\* So does a round of a waiting call.
LEMMA RoundStill ==
    ASSUME NEW t, NEW c, NEW polled, NEW found, Round(t, c, polled, found)
    PROVE  Still
  BY DEF Round, Settle, Belief, Still

\* So does a round of ppoll.
LEMMA PpollStill ==
    ASSUME NEW t, NEW c, PpollRound(t, c)
    PROVE  Still
<1>1. Halt \/ \E polled, found : Round(t, c, polled, found)
  BY Zenon DEF PpollRound
<1> QED BY <1>1, HaltStill, RoundStill

\* So does a round of pselect.
LEMMA PselectStill ==
    ASSUME NEW t, NEW c, PselectRound(t, c)
    PROVE  Still
<1>1. \E polled, found : Round(t, c, polled, found)
  BY Zenon DEF PselectRound
<1> QED BY <1>1, RoundStill

\* So does a round of epoll_wait.
LEMMA EpollStill ==
    ASSUME NEW t, NEW c, EpollRound(t, c)
    PROVE  Still
<1>1. Halt \/ \E polled, found : Round(t, c, polled, found)
  BY Zenon DEF EpollRound
<1> QED BY <1>1, HaltStill, RoundStill

\* So does a yield.
LEMMA YieldsStill ==
    ASSUME NEW t, NEW c, Yields(t, c)
    PROVE  Still
  BY DEF Yields, Quiet, Belief, Still

\* The executor polls a waiting task.
LEMMA RetryStill ==
    ASSUME NEW t, Retry(t)
    PROVE  Still
<1> DEFINE c == call[t]
<1>1. \/ WaitBlockingRead(t, c) \/ WaitBlockingWrite(t, c) \/ PpollRound(t, c) \/ PselectRound(t, c)
      \/ EpollRound(t, c) \/ Halt
  <2>1. CASE c.op = "read"
    BY <2>1 DEF Retry
  <2>2. CASE c.op = "write"
    BY <2>2 DEF Retry
  <2>3. CASE c.op = "ppoll"
    BY <2>3 DEF Retry
  <2>4. CASE c.op = "pselect"
    BY <2>4 DEF Retry
  <2>5. CASE c.op = "epoll"
    BY <2>5 DEF Retry
  <2> QED BY <2>1, <2>2, <2>3, <2>4, <2>5 DEF Retry
<1> HIDE DEF c
<1> QED BY Zenon, <1>1, ReadStill, WriteStill, PpollStill, PselectStill, EpollStill, HaltStill

\* A call on a descriptor that does not change the table.
LEMMA OnFileStill ==
    ASSUME NEW t, NEW fd,
           \/ \E n \in ReadSizes : sys_read(t, fd, n)
           \/ \E n \in WriteSizes : sys_write(t, fd, n)
           \/ sys_readv(t, fd) \/ sys_writev(t, fd) \/ sys_fcntl(t, fd, TRUE, FALSE)
           \/ sys_epoll_wait(t, fd, 1, FALSE)
           \/ \E op, x, ev : sys_epoll_ctl(t, fd, op, x, ev)
    PROVE  Still
<1>1. ASSUME NEW n, sys_read(t, fd, n) PROVE Still
  <2>1. Halt \/ \E c : WaitBlockingRead(t, c)
    BY <1>1, Zenon DEF sys_read
  <2> QED BY <2>1, HaltStill, ReadStill
<1>2. ASSUME NEW n, sys_write(t, fd, n) PROVE Still
  <2>1. \E c : WaitBlockingWrite(t, c)
    BY <1>2, Zenon DEF sys_write
  <2> QED BY <2>1, WriteStill
<1>3. CASE sys_readv(t, fd)
  BY Zenon, <1>3 DEF sys_readv, Settle, Belief, Still
<1>4. CASE sys_writev(t, fd)
  BY Zenon, <1>4 DEF sys_writev, Settle, Quiet, Belief, Still
<1>5. CASE sys_fcntl(t, fd, TRUE, FALSE)
  BY <1>5 DEF sys_fcntl, Quiet, Belief, Still
<1>6. CASE sys_epoll_wait(t, fd, 1, FALSE)
  <2>1. \E c : Yields(t, c)
    BY <1>6, Zenon DEF sys_epoll_wait
  <2> QED BY <2>1, YieldsStill
<1>7. ASSUME NEW op, NEW x, NEW ev, sys_epoll_ctl(t, fd, op, x, ev) PROVE Still
  BY Zenon, <1>7 DEF sys_epoll_ctl, Quiet, Belief, Still
<1> QED BY Zenon, <1>1, <1>2, <1>3, <1>4, <1>5, <1>6, <1>7

\* A call on a descriptor.
LEMMA OnDescriptorInv ==
    ASSUME FilesInv, NEW t \in Tasks, NEW fd \in FdRange, Safe(t, fd), OnDescriptor(t, fd)
    PROVE  FilesInv'
<1>1. CASE \E dst \in DupTargets : Safe(t, dst) /\ sys_dup3(t, fd, dst)
  BY <1>1, Dup3Inv
<1>2. CASE sys_dup(t, fd)
  BY <1>2, DupInv
<1>3. CASE ~\E dst \in DupTargets : Safe(t, dst) /\ sys_dup3(t, fd, dst)
  <2>1. CASE ~sys_dup(t, fd)
    <3>1. Still
      BY Zenon, <1>3, <2>1, OnFileStill DEF OnDescriptor
    <3> QED BY <3>1, StillInv
  <2> QED BY <1>2, <2>1
<1> QED BY <1>1, <1>3

\* The calls that open one or two files.
LEMMA OpenInv ==
    ASSUME FilesInv, NEW t \in Tasks, sys_pipe2(t) \/ sys_socket_pair(t) \/ sys_epoll_create1(t)
    PROVE  FilesInv'
<1>1. ProcOf[t] \in Procs
  BY FilesAssumption
<1>2. CASE sys_pipe2(t) \/ sys_socket_pair(t)
  <2>1. /\ \E first, second : OpenedBoth(ProcOf[t], first, second)
        /\ Cardinality(FreshFile(files)) > 1 /\ limit' = limit
    BY <1>2, Zenon DEF sys_pipe2, sys_socket_pair, Quiet
  <2> QED BY <1>1, <2>1, OpenedBothInv
<1>3. CASE sys_epoll_create1(t)
  <2>1. /\ \E file, ints : Opened(ProcOf[t], file, ints)
        /\ FreshFile(files) # {} /\ limit' = limit
    BY <1>3, Zenon DEF sys_epoll_create1, Quiet
  <2> QED BY <1>1, <2>1, OpenedInv
<1> QED BY <1>2, <1>3

\* A task leaves.
LEMMA ExitInv ==
    ASSUME FilesInv, NEW t \in Tasks, Leaves(t)
    PROVE  FilesInv'
<1>1. ProcOf[t] \in Procs /\ limit' = limit
  BY FilesAssumption DEF Leaves
<1>2. Cleared(ProcOf[t], call) \/ Still
  BY <1>1 DEF Leaves, Belief, Still
<1> QED BY <1>1, <1>2, ClearedInv, StillInv

\* Every call of a task.
LEMMA CallsInv ==
    ASSUME FilesInv, NEW t \in Tasks, Calls(t)
    PROVE  FilesInv'
<1>1. ASSUME NEW fd \in FdRange, Safe(t, fd), OnDescriptor(t, fd) PROVE FilesInv'
  BY <1>1, OnDescriptorInv
<1>2. ASSUME NEW fd \in FdRange,
             \/ OutOfBounds(t, fd) \/ sys_fstat(t, fd) \/ sys_fchown(t, fd) \/ sys_fsync(t, fd)
             \/ sys_fdatasync(t, fd) \/ sys_flock(t, fd)
      PROVE  FilesInv'
  <2>1. Halt
    BY <1>2 DEF OutOfBounds, sys_fstat, sys_fchown, sys_fsync, sys_fdatasync, sys_flock
  <2> QED BY <2>1, HaltStill, StillInv
<1>3. CASE sys_sync(t)
  <2>1. Halt
    BY <1>3 DEF OutOfBounds, sys_sync
  <2> QED BY <2>1, HaltStill, StillInv
<1>4. ASSUME NEW fd \in FdRange, sys_close(t, fd) PROVE FilesInv'
  BY <1>4, CloseInv
<1>5. CASE sys_pipe2(t) \/ sys_socket_pair(t) \/ sys_epoll_create1(t)
  BY <1>5, OpenInv
<1>6. ASSUME NEW w, NEW timed, sys_ppoll(t, w, timed) PROVE FilesInv'
  BY <1>6, PpollStill, StillInv DEF sys_ppoll
<1>7. ASSUME NEW w, NEW timed, sys_pselect(t, w, timed) PROVE FilesInv'
  BY <1>7, YieldsStill, StillInv DEF sys_pselect
<1>8. ASSUME NEW w, NEW timeout, sys_poll(t, w, timeout) PROVE FilesInv'
  BY <1>8, PpollStill, StillInv DEF sys_poll
<1>9. ASSUME NEW lim \in Limits, sys_prlimit64(t, lim) PROVE FilesInv'
  BY <1>9, LimitInv
<1>10. CASE cow_fork(t)
  BY <1>10, ForkInv
<1>11. CASE thread_exit(t) \/ exit(t)
  BY <1>11, ExitInv DEF thread_exit, exit
<1> QED BY Zenon, <1>1, <1>2, <1>3, <1>4, <1>5, <1>6, <1>7, <1>8, <1>9, <1>10, <1>11 DEF Calls


\* The state a program starts the run from.
LEMMA FilesInit ==
    ASSUME Init
    PROVE  FilesInv
<1> DEFINE std == [i \in 1 .. FILE_MAX |-> IF i <= 3 THEN i ELSE None]
<1>1. std \in Seq(Slots) /\ <<>> \in Seq(Slots)
  BY FilesAssumption DEF Slots, None
<1>2. KnownAs(<<>>, {}, {})
  BY DEF KnownAs, Occupied
<1>3. KnownAs(std, {0, 1, 2}, {})
  BY FilesAssumption DEF KnownAs, Occupied, None
<1> HIDE DEF std
<1>4. \A p \in Procs : /\ table[p] = IF p \in Forked THEN <<>> ELSE std
                       /\ told[p] = IF p \in Forked THEN {} ELSE {0, 1, 2}
                       /\ excused[p] = {} /\ limit[p] = FILE_MAX
  BY DEF Init, std
<1>5. /\ table \in [Procs -> Seq(Slots)] /\ limit \in [Procs -> Nat]
      /\ told \in [Procs -> SUBSET Nat] /\ excused \in [Procs -> SUBSET Nat]
  <2>1. table \in [Procs -> Seq(Slots)]
    BY Zenon, <1>1 DEF Init, std
  <2>2. limit \in [Procs -> Nat] /\ excused \in [Procs -> SUBSET Nat]
    BY FilesAssumption DEF Init
  <2>3. told \in [Procs -> SUBSET Nat]
    BY DEF Init
  <2> QED BY <2>1, <2>2, <2>3
<1>6. \A p \in Procs : KnownAs(table[p], told[p], excused[p])
  BY Zenon, <1>2, <1>3, <1>4
<1> QED BY <1>5, <1>6 DEF FilesInv

\* Every step of the system keeps the tables and what is believed of them.
LEMMA FilesNext ==
    ASSUME FilesInv, [Next]_vars
    PROVE  FilesInv'
<1>1. ASSUME NEW t \in Tasks, SysCall(t) PROVE FilesInv'
  BY <1>1, CallsInv DEF SysCall
<1>2. ASSUME NEW t \in Tasks, Retry(t) PROVE FilesInv'
  BY <1>2, RetryStill, StillInv
<1>3. ASSUME NEW t \in Tasks, Stops(t) PROVE FilesInv'
  <2>1. Still
    BY <1>3 DEF Stops, Settle, Belief, Still
  <2> QED BY <2>1, StillInv
<1>4. ASSUME NEW p \in Procs, Released(p) PROVE FilesInv'
  <2>1. Cleared(p, call) /\ limit' = limit
    BY <1>4 DEF Released
  <2> QED BY <2>1, ClearedInv
<1>5. CASE Key
  <2>1. Still
    BY <1>5 DEF Key, Belief, Still
  <2> QED BY <2>1, StillInv
<1>6. CASE UNCHANGED vars
  <2>1. Still
    BY <1>6 DEF vars, Still
  <2> QED BY <2>1, StillInv
<1> QED BY Zenon, <1>1, <1>2, <1>3, <1>4, <1>5, <1>6 DEF Next

\* A process knows which of its descriptors are open: what open, dup, pipe and
\* fork answer and close takes away is what the table holds, for every number
\* of processes, threads and files, every limit and every size of the table.
\* The two known exceptions are the ones DescriptorsKnown names.
THEOREM DescriptorsTheorem == Spec => []DescriptorsKnown
<1>1. Init => FilesInv
  BY FilesInit
<1>2. FilesInv /\ [Next]_vars => FilesInv'
  BY FilesNext
<1>3. FilesInv => DescriptorsKnown
  BY DEF FilesInv, DescriptorsKnown, KnownAs
<1> QED BY <1>1, <1>2, <1>3, PTL DEF Spec

-----------------------------------------------------------------------------
(* The executor                                                            *)

\* The invariants are inductive together: TasksConserved needs Exclusive to know
\* that the item taken from the queue left no copy behind, Exclusive needs
\* TasksConserved to know that a spawned id is not queued already.
ExecInv == ExecTypeOK /\ Exclusive /\ TasksConserved /\ CurrentTask

\* The tasks there are, made, queued, polled or finished, each in one way.
Conserves(T, M, Q, P, F) ==
    T = M \cup Q \cup P \cup F /\ M \cap (Q \cup P \cup F) = {} /\ F \cap (Q \cup P) = {}

\* A task goes back to the queue.
LEMMA BackToQueue ==
    ASSUME NEW T, NEW M, NEW Q, NEW P, NEW F, NEW x \in P, Conserves(T, M, Q, P, F)
    PROVE  Conserves(T, M, Q \cup {x}, P \ {x}, F)
  BY DEF Conserves

\* A task that is polled ends.
LEMMA TaskEnds ==
    ASSUME NEW T, NEW M, NEW Q, NEW P, NEW F, NEW x \in P, x \notin Q, Conserves(T, M, Q, P, F)
    PROVE  Conserves(T, M, Q, P \ {x}, F \cup {x})
  BY DEF Conserves

\* A task is made.
LEMMA TaskMade ==
    ASSUME NEW T, NEW M, NEW Q, NEW P, NEW F, NEW x, x \notin M \cup Q \cup P \cup F,
           Conserves(T, M, Q, P, F)
    PROVE  Conserves(T \cup {x}, M \cup {x}, Q, P, F)
  BY DEF Conserves

USE MaxTaskAssumption, HartsAssumption DEF Task, NoItem

-----------------------------------------------------------------------------
(* What the two queue operations do to the set of queued tasks.            *)

Members(q) == {q[i] : i \in 1 .. Len(q)}
NoDup(q) == \A i, j \in 1 .. Len(q) : q[i] = q[j] => i = j

\* push_back adds one element, at the end.
LEMMA AppendMembers ==
    ASSUME NEW S, NEW q \in Seq(S), NEW e \in S
    PROVE  /\ Members(Append(q, e)) = Members(q) \cup {e}
           /\ (NoDup(q) /\ e \notin Members(q)) => NoDup(Append(q, e))
<1>1. /\ Len(Append(q, e)) = Len(q) + 1
      /\ \A i \in 1 .. Len(q) : Append(q, e)[i] = q[i]
      /\ Append(q, e)[Len(q) + 1] = e
      /\ Len(q) \in Nat
  OBVIOUS
<1>2. Members(Append(q, e)) = Members(q) \cup {e}
  <2>1. ASSUME NEW x \in Members(Append(q, e)) PROVE x \in Members(q) \cup {e}
    <3>1. PICK i \in 1 .. Len(q) + 1 : x = Append(q, e)[i]
      BY <1>1, <2>1 DEF Members
    <3>2. i \in 1 .. Len(q) \/ i = Len(q) + 1
      BY <1>1
    <3> QED BY <1>1, <3>1, <3>2 DEF Members
  <2>2. ASSUME NEW x \in Members(q) PROVE x \in Members(Append(q, e))
    <3>1. PICK i \in 1 .. Len(q) : x = q[i]
      BY <2>2 DEF Members
    <3>2. x = Append(q, e)[i] /\ i \in 1 .. Len(q) + 1
      BY <1>1, <3>1
    <3> QED BY <1>1, <3>2 DEF Members
  <2>3. e \in Members(Append(q, e))
    BY <1>1 DEF Members
  <2> QED BY <2>1, <2>2, <2>3
<1>3. ASSUME NoDup(q), e \notin Members(q) PROVE NoDup(Append(q, e))
  BY <1>1, <1>3 DEF NoDup, Members
<1> QED BY <1>2, <1>3

\* pop_front removes the first element and no other.
LEMMA TailMembers ==
    ASSUME NEW S, NEW q \in Seq(S), q # <<>>
    PROVE  /\ Head(q) \in S /\ Tail(q) \in Seq(S)
           /\ Members(q) = Members(Tail(q)) \cup {Head(q)}
           /\ NoDup(q) => NoDup(Tail(q)) /\ Head(q) \notin Members(Tail(q))
<1>1. /\ Len(q) \in Nat \ {0}
      /\ Head(q) = q[1] /\ Tail(q) \in Seq(S) /\ Head(q) \in S
      /\ Len(Tail(q)) = Len(q) - 1
      /\ \A i \in 1 .. Len(q) - 1 : Tail(q)[i] = q[i + 1]
  OBVIOUS
<1>2. ASSUME NEW x \in Members(q) PROVE x \in Members(Tail(q)) \cup {Head(q)}
  <2>1. PICK i \in 1 .. Len(q) : x = q[i]
    BY <1>2 DEF Members
  <2>2. CASE i = 1
    BY <1>1, <2>1, <2>2
  <2>3. CASE i # 1
    <3>1. i - 1 \in 1 .. Len(q) - 1 /\ Tail(q)[i - 1] = q[(i - 1) + 1]
      BY <1>1, <2>1, <2>3
    <3> QED BY <1>1, <2>1, <3>1 DEF Members
  <2> QED BY <2>2, <2>3
<1>3. ASSUME NEW x \in Members(Tail(q)) PROVE x \in Members(q)
  <2>1. PICK i \in 1 .. Len(q) - 1 : x = q[i + 1]
    BY Zenon, <1>1, <1>3 DEF Members
  <2> QED BY <1>1, <2>1 DEF Members
<1>4. Head(q) \in Members(q)
  BY <1>1 DEF Members
<1>5. ASSUME NoDup(q) PROVE NoDup(Tail(q)) /\ Head(q) \notin Members(Tail(q))
  <2>1. NoDup(Tail(q))
    BY <1>1, <1>5 DEF NoDup
  <2>2. Head(q) \notin Members(Tail(q))
    BY <1>1, <1>5 DEF NoDup, Members
  <2> QED BY <2>1, <2>2
<1> QED BY <1>1, <1>2, <1>3, <1>4, <1>5

-----------------------------------------------------------------------------
(* The inductive invariant.                                                *)

\* The executor's invariant holds at the start.
LEMMA ExecInitInv == ExecInit => ExecInv
<1> SUFFICES ASSUME ExecInit PROVE ExecInv
  OBVIOUS
<1>1. Queued = {1} /\ Len(task_queue) = 1 /\ task_queue[1] = 1
  BY DEF ExecInit, Queued
<1>2. Polled = {}
  BY DEF ExecInit, Polled
<1>3. ExecTypeOK
  BY DEF ExecInit, ExecTypeOK
<1>4. Exclusive
  BY <1>1 DEF ExecInit, Exclusive
<1>5. TasksConserved
  BY <1>1, <1>2 DEF ExecInit, TasksConserved
<1>6. CurrentTask
  BY DEF ExecInit, CurrentTask
<1> QED BY <1>3, <1>4, <1>5, <1>6 DEF ExecInv

\* Exclusive and TasksConserved in the vocabulary of the lemmas.
LEMMA InvForm ==
    ASSUME ExecTypeOK
    PROVE  /\ Queued = Members(task_queue)
           /\ Exclusive <=> /\ NoDup(task_queue)
                            /\ \A h \in Harts : item[h] # NoItem => item[h] \notin Queued
                            /\ \A g, h \in Harts :
                                  item[g] # NoItem /\ item[g] = item[h] => g = h
BY DEF Queued, Members, NoDup, Exclusive

\* A hart that holds no item takes one: the queue loses what the hart gains.
LEMMA PopFrontInv ==
    ASSUME ExecInv, NEW h \in Harts, PopFront(h)
    PROVE  /\ ExecInv'
           /\ Head(task_queue) \in Queued
           /\ Queued' = Queued \ {Head(task_queue)}
           /\ Polled' = Polled \cup {Head(task_queue)}
<1> USE DEF ExecInv
<1>1. /\ Head(task_queue) \in Task /\ Tail(task_queue) \in Seq(Task)
      /\ Queued = Members(task_queue) /\ NoDup(task_queue)
      /\ Members(task_queue) = Members(Tail(task_queue)) \cup {Head(task_queue)}
      /\ NoDup(Tail(task_queue)) /\ Head(task_queue) \notin Members(Tail(task_queue))
  BY TailMembers, InvForm DEF PopFront, ExecTypeOK
<1>2. ExecTypeOK'
  BY <1>1 DEF PopFront, ExecTypeOK
<1>3. Queued' = Queued \ {Head(task_queue)} /\ NoDup(task_queue')
  <2>1. Queued' = Members(Tail(task_queue))
    BY DEF Queued, Members, PopFront
  <2> QED BY <1>1, <2>1 DEF PopFront
<1>4. \A g \in Harts : item'[g] = IF g = h THEN Head(task_queue) ELSE item[g]
  BY DEF PopFront, ExecTypeOK
<1>5. Polled' = Polled \cup {Head(task_queue)}
  <2>1. ASSUME NEW x \in Polled' PROVE x \in Polled \cup {Head(task_queue)}
    BY <1>4, <2>1 DEF Polled
  <2>2. ASSUME NEW x \in Polled PROVE x \in Polled'
    BY <1>4, <2>2 DEF Polled, PopFront
  <2>3. Head(task_queue) \in Polled'
    <3>1. item'[h] = Head(task_queue)
      BY Zenon, <1>4
    <3>2. Head(task_queue) # NoItem
      BY <1>1
    <3> QED BY Zenon, <3>1, <3>2 DEF Polled
  <2> QED BY <2>1, <2>2, <2>3
<1>6. \A g \in Harts : item[g] # NoItem => item[g] \in Queued \cup Polled
  BY DEF Polled
<1>7. Exclusive'
  <2>1. \A g \in Harts : item'[g] # NoItem => item'[g] \notin Queued'
    BY <1>3, <1>4 DEF Exclusive
  <2>2. \A f, g \in Harts : item'[f] # NoItem /\ item'[f] = item'[g] => f = g
    BY Zenon, <1>1, <1>4 DEF Exclusive
  <2> QED BY Zenon, <1>3, <2>1, <2>2 DEF Exclusive, NoDup
<1>8. TasksConserved'
  <2>1. UNCHANGED <<task_id, made, finished>>
    BY DEF PopFront
  <2> QED BY <1>1, <1>3, <1>5, <2>1 DEF TasksConserved
<1>9. CurrentTask'
  BY <1>4 DEF CurrentTask, PopFront, ExecTypeOK
<1> QED BY <1>1, <1>2, <1>3, <1>5, <1>7, <1>8, <1>9

\* Steps that append a task nobody holds to the queue: Spawn and SpawnBlank,
\* and PollPending once the hart has let go of its item.
LEMMA PushBack ==
    ASSUME ExecTypeOK, NoDup(task_queue), NEW t \in Task, t \notin Queued,
           task_queue' = Append(task_queue, t)
    PROVE  /\ task_queue' \in Seq(Task) /\ NoDup(task_queue')
           /\ Queued' = Queued \cup {t}
<1>1. Queued = Members(task_queue)
  BY Zenon DEF Queued, Members
<1>2. Queued' = Members(task_queue')
  BY DEF Queued, Members
<1>3. task_queue \in Seq(Task)
  BY DEF ExecTypeOK
<1> QED BY <1>1, <1>2, <1>3, AppendMembers

\* A hart lets go of its item, in PollPending and PollReady.
LEMMA ReleaseItem ==
    ASSUME ExecTypeOK, Exclusive, NEW h \in Harts, item[h] # NoItem,
           item' = [item EXCEPT ![h] = NoItem]
    PROVE  /\ item' \in [Harts -> Task \cup {NoItem}]
           /\ item[h] \in Polled /\ item[h] \in Task
           /\ Polled' = Polled \ {item[h]}
           /\ \A g \in Harts : item'[g] # NoItem => item'[g] = item[g]
<1>1. \A g \in Harts : item'[g] = IF g = h THEN NoItem ELSE item[g]
  BY DEF ExecTypeOK
<1>2. item[h] \in Polled /\ item[h] \in Task
  BY DEF Polled, ExecTypeOK
<1>3. ASSUME NEW x \in Polled' PROVE x \in Polled \ {item[h]}
  <2>1. PICK g \in Harts : x = item'[g] /\ x # NoItem
    BY <1>3 DEF Polled
  <2>2. g # h /\ x = item[g]
    BY <1>1, <2>1
  <2>3. x # item[h]
    BY <2>1, <2>2 DEF Exclusive
  <2> QED BY <2>1, <2>2, <2>3 DEF Polled
<1>4. ASSUME NEW x \in Polled \ {item[h]} PROVE x \in Polled'
  <2>1. PICK g \in Harts : x = item[g] /\ x # NoItem
    BY <1>4 DEF Polled
  <2>2. x = item'[g]
    BY <1>1, <1>4, <2>1
  <2> QED BY <2>1, <2>2 DEF Polled
<1>5. Polled' = Polled \ {item[h]}
  BY <1>3, <1>4
<1>6. item' \in [Harts -> Task \cup {NoItem}]
  BY DEF ExecTypeOK
<1> QED BY <1>1, <1>2, <1>5, <1>6

\* A task that is pending returns to the queue.
LEMMA PollPendingInv ==
    ASSUME ExecInv, NEW h \in Harts, PollPending(h)
    PROVE  /\ ExecInv'
           /\ item[h] \in Polled
           /\ Queued' = Queued \cup {item[h]}
           /\ Polled' = Polled \ {item[h]}
<1> USE DEF ExecInv
<1>1. /\ item' \in [Harts -> Task \cup {NoItem}]
      /\ item[h] \in Polled /\ item[h] \in Task
      /\ Polled' = Polled \ {item[h]}
      /\ \A g \in Harts : item'[g] # NoItem => item'[g] = item[g]
  BY Zenon, ReleaseItem DEF PollPending
<1>2. item[h] \notin Queued /\ NoDup(task_queue)
  BY InvForm DEF PollPending, Exclusive, NoDup
<1>3. task_queue' \in Seq(Task) /\ NoDup(task_queue') /\ Queued' = Queued \cup {item[h]}
  BY <1>1, <1>2, PushBack DEF PollPending
<1>4. UNCHANGED <<task_id, made, cores, task_map, finished>>
  BY DEF PollPending
<1>5. ExecTypeOK'
  BY <1>1, <1>3, <1>4 DEF ExecTypeOK
<1>6. Exclusive'
  <2>1. \A g \in Harts : item'[g] # NoItem => item'[g] \notin Queued'
    <3> SUFFICES ASSUME NEW g \in Harts, item'[g] # NoItem PROVE item'[g] \notin Queued'
      OBVIOUS
    <3>1. item'[g] = item[g] /\ item'[g] \in Polled'
      BY Zenon, <1>1 DEF Polled
    <3> QED BY <1>1, <1>3, <3>1 DEF Exclusive
  <2>2. \A f, g \in Harts : item'[f] # NoItem /\ item'[f] = item'[g] => f = g
    BY <1>1 DEF Exclusive
  <2> QED BY Zenon, <1>3, <2>1, <2>2 DEF Exclusive, NoDup
<1>7. TasksConserved'
  <2>1. Conserves(1 .. task_id, made, Queued, Polled, finished)
    BY Zenon DEF TasksConserved, Conserves
  <2>2. Conserves(1 .. task_id, made, Queued \cup {item[h]}, Polled \ {item[h]}, finished)
    BY Zenon, <1>1, <2>1, BackToQueue
  <2>3. Conserves(1 .. task_id', made', Queued', Polled', finished')
    BY Zenon, <1>1, <1>3, <1>4, <2>2
  <2> QED BY Zenon, <2>3 DEF TasksConserved, Conserves
<1>8. CurrentTask'
  BY Zenon, <1>1, <1>4 DEF CurrentTask
<1> QED BY <1>1, <1>3, <1>5, <1>6, <1>7, <1>8

\* A task that is ready ends.
LEMMA PollReadyInv ==
    ASSUME ExecInv, NEW h \in Harts, PollReady(h)
    PROVE  /\ ExecInv'
           /\ item[h] \in Polled
           /\ Queued' = Queued
           /\ Polled' = Polled \ {item[h]}
<1> USE DEF ExecInv
<1>1. /\ item' \in [Harts -> Task \cup {NoItem}]
      /\ item[h] \in Polled /\ item[h] \in Task
      /\ Polled' = Polled \ {item[h]}
      /\ \A g \in Harts : item'[g] # NoItem => item'[g] = item[g]
  BY Zenon, ReleaseItem DEF PollReady
<1>2. UNCHANGED <<task_id, made, task_queue, cores, task_map>> /\ Queued' = Queued
  BY Zenon DEF PollReady, Queued
<1>3. finished' = finished \cup {item[h]}
  BY DEF PollReady
<1>4. ExecTypeOK'
  BY Zenon, <1>1, <1>2, <1>3 DEF ExecTypeOK
<1>5. Exclusive'
  BY <1>1, <1>2 DEF Exclusive
<1>6. item[h] \notin Queued /\ item[h] \notin made
  BY <1>1 DEF Exclusive, TasksConserved, PollReady
<1>7. TasksConserved'
  <2>1. Conserves(1 .. task_id, made, Queued, Polled, finished)
    BY Zenon DEF TasksConserved, Conserves
  <2>2. Conserves(1 .. task_id, made, Queued, Polled \ {item[h]}, finished \cup {item[h]})
    BY Zenon, <1>1, <1>6, <2>1, TaskEnds
  <2>3. Conserves(1 .. task_id', made', Queued', Polled', finished')
    BY Zenon, <1>1, <1>2, <1>3, <2>2
  <2> QED BY Zenon, <2>3 DEF TasksConserved, Conserves
<1>8. CurrentTask'
  BY Zenon, <1>1, <1>2 DEF CurrentTask
<1> QED BY <1>1, <1>2, <1>4, <1>5, <1>7, <1>8

\* An id that is not queued, polled or ended enters the queue; covers Spawn
\* (an id that was made earlier) and SpawnBlank (the id just allocated).
LEMMA EnqueueInv ==
    ASSUME ExecInv, NEW t \in Task, t \notin Queued \cup Polled \cup finished,
           task_queue' = Append(task_queue, t), task_map' = task_map \cup {t},
           UNCHANGED <<item, cores, finished>>,
           task_id' \in Task, made' \in SUBSET Task, t \notin made',
           1 .. task_id' = (1 .. task_id) \cup {t},
           made' = made \ {t}
    PROVE  ExecInv' /\ Queued' = Queued \cup {t} /\ Polled' = Polled
<1> USE DEF ExecInv
<1>1. NoDup(task_queue)
  BY Zenon, InvForm DEF Exclusive, NoDup
<1>2. task_queue' \in Seq(Task) /\ NoDup(task_queue') /\ Queued' = Queued \cup {t}
  BY <1>1, PushBack
<1>3. Polled' = Polled
  BY Zenon DEF Polled
<1>4. ExecTypeOK'
  BY <1>2 DEF ExecTypeOK
<1>5. Exclusive'
  <2>1. \A g \in Harts : item'[g] # NoItem => item'[g] \notin Queued'
    BY Zenon, <1>2 DEF Exclusive, Polled
  <2> QED BY Zenon, <1>2, <2>1 DEF Exclusive, NoDup
<1>6. TasksConserved'
  BY <1>2, <1>3 DEF TasksConserved
<1>7. CurrentTask'
  BY DEF CurrentTask
<1> QED BY <1>2, <1>3, <1>4, <1>5, <1>6, <1>7

\* An id beyond the counter belongs to no task.
LEMMA FreshId ==
    ASSUME ExecInv, task_id < MaxTask
    PROVE  /\ task_id + 1 \in Task
           /\ task_id + 1 \notin made \cup Queued \cup Polled \cup finished
           /\ 1 .. task_id + 1 = (1 .. task_id) \cup {task_id + 1}
<1>1. task_id + 1 \in Task /\ task_id + 1 \notin 1 .. task_id
  BY DEF ExecInv, ExecTypeOK
<1>2. 1 .. task_id + 1 = (1 .. task_id) \cup {task_id + 1}
  BY DEF ExecInv, ExecTypeOK
<1> QED BY <1>1, <1>2 DEF ExecInv, TasksConserved

\* Spawning: the id leaves made and enters the queue.
LEMMA SpawnInv ==
    ASSUME ExecInv, NEW h \in Harts, NEW t \in Task, Spawn(h, t)
    PROVE  /\ ExecInv'
           /\ t \notin Queued \cup Polled \cup finished
           /\ Queued' = Queued \cup {t} /\ Polled' = Polled
<1>1. t \notin Queued \cup Polled \cup finished /\ t \in 1 .. task_id
  BY DEF Spawn, ExecInv, TasksConserved
<1>2. /\ made' = made \ {t} /\ task_id' = task_id /\ task_queue' = Append(task_queue, t)
      /\ task_map' = task_map \cup {t} /\ UNCHANGED <<item, cores, finished>>
  BY DEF Spawn
<1>3. 1 .. task_id' = (1 .. task_id) \cup {t}
  BY <1>1, <1>2
<1>4. task_id' \in Task /\ made' \in SUBSET Task /\ t \notin made'
  BY <1>2 DEF ExecInv, ExecTypeOK
<1> QED BY <1>1, <1>2, <1>3, <1>4, EnqueueInv

\* spawn_blank queues a task that was made.
LEMMA SpawnBlankInv ==
    ASSUME ExecInv, NEW h \in Harts, SpawnBlank(h)
    PROVE  /\ ExecInv'
           /\ task_id + 1 \in Task
           /\ task_id + 1 \notin Queued \cup Polled \cup finished
           /\ Queued' = Queued \cup {task_id + 1} /\ Polled' = Polled
<1>1. /\ task_id + 1 \in Task
      /\ task_id + 1 \notin made \cup Queued \cup Polled \cup finished
      /\ 1 .. task_id + 1 = (1 .. task_id) \cup {task_id + 1}
  BY FreshId DEF SpawnBlank
<1>2. /\ made' = made /\ task_id' = task_id + 1 /\ task_queue' = Append(task_queue, task_id + 1)
      /\ task_map' = task_map \cup {task_id + 1} /\ UNCHANGED <<item, cores, finished>>
  BY DEF SpawnBlank
<1>3. made' = made \ {task_id + 1} /\ task_id + 1 \notin made'
  BY <1>1, <1>2
<1>4. task_id' \in Task /\ made' \in SUBSET Task
  BY <1>1, <1>2 DEF ExecInv, ExecTypeOK
<1> QED BY <1>1, <1>2, <1>3, <1>4, EnqueueInv

\* Allocating an id, dropping an unspawned task and releasing a map entry
\* leave the queue and the harts alone.
LEMMA OtherInv ==
    ASSUME ExecInv, NEW h \in Harts, NEW t \in Task,
           TaskIdAlloc(h) \/ DropUnspawned(h, t) \/ ReleaseTask(h, t)
    PROVE  ExecInv' /\ Queued' = Queued /\ Polled' = Polled
<1>1. UNCHANGED <<task_queue, item, cores>>
  BY DEF TaskIdAlloc, DropUnspawned, ReleaseTask
<1>2. Queued' = Queued /\ Polled' = Polled
  BY Zenon, <1>1 DEF Queued, Polled
<1>3. Exclusive' /\ CurrentTask'
  BY Zenon, <1>1, <1>2 DEF ExecInv, Exclusive, CurrentTask
<1>4. CASE TaskIdAlloc(h)
  <2>1. ExecTypeOK'
    BY Zenon, <1>1, <1>4, FreshId DEF ExecInv, ExecTypeOK, TaskIdAlloc
  <2>2. TasksConserved'
    <3>1. /\ task_id' = task_id + 1 /\ made' = made \cup {task_id + 1} /\ finished' = finished
          /\ task_id < MaxTask
      BY Zenon, <1>4 DEF TaskIdAlloc
    <3>2. Conserves(1 .. task_id, made, Queued, Polled, finished)
      BY Zenon DEF ExecInv, TasksConserved, Conserves
    <3>3. /\ task_id + 1 \notin made \cup Queued \cup Polled \cup finished
          /\ 1 .. task_id + 1 = (1 .. task_id) \cup {task_id + 1}
      BY Zenon, <3>1, FreshId
    <3>4. Conserves((1 .. task_id) \cup {task_id + 1}, made \cup {task_id + 1}, Queued, Polled, finished)
      BY Zenon, <3>2, <3>3, TaskMade
    <3>5. Conserves(1 .. task_id', made', Queued', Polled', finished')
      BY Zenon, <1>2, <3>1, <3>3, <3>4
    <3> QED BY Zenon, <3>5 DEF TasksConserved, Conserves
  <2> QED BY <1>2, <1>3, <2>1, <2>2 DEF ExecInv
<1>5. CASE DropUnspawned(h, t)
  <2>1. ExecTypeOK'
    BY <1>1, <1>5 DEF ExecInv, ExecTypeOK, DropUnspawned
  <2>2. TasksConserved'
    BY <1>2, <1>5 DEF ExecInv, TasksConserved, DropUnspawned
  <2> QED BY <1>2, <1>3, <2>1, <2>2 DEF ExecInv
<1>6. CASE ReleaseTask(h, t)
  <2>1. ExecTypeOK'
    BY <1>1, <1>6 DEF ExecInv, ExecTypeOK, ReleaseTask
  <2>2. TasksConserved'
    BY <1>2, <1>6 DEF ExecInv, TasksConserved, ReleaseTask
  <2> QED BY <1>2, <1>3, <2>1, <2>2 DEF ExecInv
<1> QED BY <1>4, <1>5, <1>6

\* Every step keeps the executor's invariant.
LEMMA ExecNextInv == ExecInv /\ [ExecNext]_execVars => ExecInv'
<1> SUFFICES ASSUME ExecInv, [ExecNext]_execVars PROVE ExecInv'
  OBVIOUS
<1>1. ASSUME NEW h \in Harts, PopFront(h) PROVE ExecInv'
  BY <1>1, PopFrontInv
<1>2. ASSUME NEW h \in Harts, PollPending(h) PROVE ExecInv'
  BY <1>2, PollPendingInv
<1>3. ASSUME NEW h \in Harts, PollReady(h) PROVE ExecInv'
  BY <1>3, PollReadyInv
<1>4. ASSUME NEW h \in Harts, TaskIdAlloc(h) PROVE ExecInv'
  <2>1. 1 \in Task
    OBVIOUS
  <2> QED BY <1>4, <2>1, OtherInv
<1>5. ASSUME NEW h \in Harts, SpawnBlank(h) PROVE ExecInv'
  BY <1>5, SpawnBlankInv
<1>6. ASSUME NEW h \in Harts, NEW t \in Task, Spawn(h, t) PROVE ExecInv'
  BY <1>6, SpawnInv
<1>7. ASSUME NEW h \in Harts, NEW t \in Task, DropUnspawned(h, t) \/ ReleaseTask(h, t)
      PROVE  ExecInv'
  BY <1>7, OtherInv
<1>8. CASE UNCHANGED execVars
  <2>1. /\ task_id' = task_id /\ made' = made /\ task_queue' = task_queue /\ item' = item
        /\ cores' = cores /\ task_map' = task_map /\ finished' = finished
    BY Zenon, <1>8 DEF execVars
  <2>2. Queued' = Queued /\ Polled' = Polled
    BY Zenon, <2>1 DEF Queued, Polled
  <2> QED BY Zenon, <2>1, <2>2 DEF ExecInv, ExecTypeOK, Exclusive, TasksConserved, CurrentTask
<1> QED BY <1>1, <1>2, <1>3, <1>4, <1>5, <1>6, <1>7, <1>8 DEF ExecNext

\* A future is never in two places at once, for any number of harts and tasks.
THEOREM ExclusiveTheorem == ExecSafety => []Exclusive
<1>1. ExecInv => Exclusive
  BY DEF ExecInv
<1> QED BY <1>1, ExecInitInv, ExecNextInv, PTL DEF ExecSafety

\* No task handed an id is ever lost by the executor, and none revives.
THEOREM ConservedTheorem == ExecSafety => []TasksConserved
<1>1. ExecInv => TasksConserved
  BY DEF ExecInv
<1> QED BY <1>1, ExecInitInv, ExecNextInv, PTL DEF ExecSafety

\* current_task() is the polled task on every hart.
THEOREM CurrentTaskTheorem == ExecSafety => []CurrentTask
<1>1. ExecInv => CurrentTask
  BY DEF ExecInv
<1> QED BY <1>1, ExecInitInv, ExecNextInv, PTL DEF ExecSafety

-----------------------------------------------------------------------------
(* Every step of the executor is a step of the scheduler contract.         *)

\* Every step is a step of the pool or a stutter.
LEMMA StepRefines ==
    ASSUME ExecInv, [ExecNext]_execVars
    PROVE  [Pool!Next]_(Pool!vars)
<1> USE DEF Pool!Next, Pool!vars
<1>1. ASSUME NEW h \in Harts, PopFront(h) PROVE Pool!Next
  <2>1. Head(task_queue) \in Task
    BY <1>1, TailMembers DEF ExecInv, ExecTypeOK, PopFront
  <2>2. Pool!Poll(Head(task_queue))
    BY Zenon, <1>1, PopFrontInv DEF Pool!Poll, PopFront
  <2> QED BY <2>1, <2>2
<1>2. ASSUME NEW h \in Harts, PollPending(h) PROVE Pool!Next
  <2>1. item[h] \in Task
    BY <1>2 DEF ExecInv, ExecTypeOK, PollPending
  <2>2. Pool!Requeue(item[h])
    BY Zenon, <1>2, PollPendingInv DEF Pool!Requeue, PollPending
  <2> QED BY <2>1, <2>2
<1>3. ASSUME NEW h \in Harts, PollReady(h) PROVE Pool!Next
  <2>1. item[h] \in Task
    BY <1>3 DEF ExecInv, ExecTypeOK, PollReady
  <2>2. Pool!Finish(item[h])
    BY Zenon, <1>3, PollReadyInv DEF Pool!Finish, PollReady
  <2> QED BY <2>1, <2>2
<1>4. ASSUME NEW h \in Harts, TaskIdAlloc(h) PROVE UNCHANGED Pool!vars
  <2>1. 1 \in Task
    OBVIOUS
  <2> QED BY <1>4, <2>1, OtherInv DEF TaskIdAlloc
<1>5. ASSUME NEW h \in Harts, SpawnBlank(h) PROVE Pool!Next
  <2>1. Pool!Add(task_id + 1) /\ task_id + 1 \in Task
    BY <1>5, SpawnBlankInv DEF Pool!Add, SpawnBlank
  <2> QED BY <2>1
<1>6. ASSUME NEW h \in Harts, NEW t \in Task, Spawn(h, t) PROVE Pool!Next
  <2>1. Pool!Add(t)
    BY <1>6, SpawnInv DEF Pool!Add, Spawn
  <2> QED BY <2>1
<1>7. ASSUME NEW h \in Harts, NEW t \in Task, DropUnspawned(h, t) PROVE Pool!Next
  <2>1. t \notin Queued \cup Polled \cup finished
    BY <1>7 DEF ExecInv, TasksConserved, DropUnspawned
  <2>2. Pool!Discard(t)
    BY <1>7, <2>1, OtherInv DEF Pool!Discard, DropUnspawned
  <2> QED BY <2>2
<1>8. ASSUME NEW h \in Harts, NEW t \in Task, ReleaseTask(h, t) PROVE UNCHANGED Pool!vars
  BY <1>8, OtherInv DEF ReleaseTask
<1>9. CASE UNCHANGED execVars
  BY Zenon, <1>9 DEF execVars, Queued, Polled
<1> QED BY Zenon, <1>1, <1>2, <1>3, <1>4, <1>5, <1>6, <1>7, <1>8, <1>9 DEF ExecNext

\* The FIFO executor implements the safety part of the contract the other
\* modules rely on: one poll of a task at a time, any ready task next.
THEOREM PoolRefinement == ExecSafety => Pool!Safety
<1>1. ExecInit => Pool!Init
  <2> SUFFICES ASSUME ExecInit PROVE Pool!Init
    OBVIOUS
  <2>1. Queued = {1} /\ Polled = {}
    BY DEF ExecInit, Queued, Polled
  <2> QED BY <2>1 DEF ExecInit, Pool!Init
<1>2. ExecInv /\ [ExecNext]_execVars => [Pool!Next]_(Pool!vars)
  BY StepRefines
<1> QED BY <1>1, <1>2, ExecInitInv, ExecNextInv, PTL DEF ExecSafety, Pool!Safety

HIDE DEF Task, NoItem

-----------------------------------------------------------------------------
(* Signals                                                                 *)

ActivationType == [sig : Sig, restorer : {"ok", "none", "bad"}]
HandlerType == [sig : Sig, mask : SUBSET Sig, ctx : Seq(ActivationType), blocked : BOOLEAN]

TypeOK ==
    /\ live = <<>> \/ \E h \in HandlerType : live = <<h>>
    /\ ctx \in Seq(ActivationType)
    /\ sigmask \subseteq Sig /\ wanted \subseteq Sig
    /\ sigaction \in [Sig -> ActionType]
    /\ dropped \in BOOLEAN /\ skipped \in BOOLEAN

\* The count of RealTimeConserved, with the types it needs.
Conserved ==
    /\ signal \subseteq Sig
    /\ signal_queue \in [Sig -> Nat] /\ owed \in [Sig -> Int]
    /\ RealTimeConserved

\* The signal whose handler runs stays in tcb.signal until the handler has
\* ended, and the code it interrupted was in no other handler, unless one was
\* dropped or given up before.
HandlerOf ==
    live # <<>> => /\ live[1].sig \in signal
                   /\ ~dropped /\ ~skipped => live[1].ctx = <<>>

\* The invariants are inductive together: a handler gives back the mask and the
\* registers it saved, and takes its signal off, because of HandlerOf.
IInv ==
    /\ TypeOK
    /\ Conserved
    /\ MaskLeaksOnlyByDrop
    /\ HandlersDoNotNest
    /\ HandlerOf

USE SignalsAssumption

\* The signal check_signal takes is a pending one that is not blocked.
LEMMA TryGetSignal ==
    ASSUME Conserved, Pending
    PROVE  try_get_signal \in signal /\ try_get_signal \in Sig /\ try_get_signal \notin sigmask
<1>1. signal \ sigmask \subseteq Nat
  <2>1. \A s \in signal : s \in 1 .. 64
    BY DEF Conserved
  <2> QED BY <2>1
<1>2. signal \ sigmask # {}
  BY DEF Pending
<1> QED BY <1>1, <1>2, MinIn DEF try_get_signal, Conserved

\* The signals' invariant holds at the start.
LEMMA InitInv == SigInit => IInv
<1> SUFFICES ASSUME SigInit PROVE IInv
  OBVIOUS
<1>1. Default \in ActionType
  BY DEF Default, ActionType
<1>2. TypeOK
  <2>1. ctx \in Seq(ActivationType)
    BY DEF SigInit
  <2>2. sigaction \in [Sig -> ActionType]
    BY <1>1 DEF SigInit
  <2> QED BY Zenon, <2>1, <2>2 DEF SigInit, TypeOK
<1>3. Conserved
  BY DEF SigInit, Conserved, RealTimeConserved
<1> QED BY <1>2, <1>3 DEF SigInit, IInv, HandlerOf, MaskLeaksOnlyByDrop, HandlersDoNotNest

-----------------------------------------------------------------------------
(* What a step does to the parts of the invariant.                         *)

\* Sending, by tkill, kill or a timer, keeps the count and never takes a
\* pending signal away.
LEMMA SendConserves ==
    ASSUME Conserved, NEW s \in Sig, sys_tkill(s) \/ sys_kill(s)
    PROVE  Conserved' /\ signal \subseteq signal'
<1>0. /\ signal \subseteq Sig /\ signal_queue \in [Sig -> Nat] /\ owed \in [Sig -> Int]
      /\ RealTimeConserved
  BY Zenon DEF Conserved
<1>1. CASE sys_tkill(s)
  <2>1. /\ signal' = signal \cup {s} /\ owed' = Owe(s)
        /\ signal_queue' = IF s \in signal \cap RealTime THEN [signal_queue EXCEPT ![s] = @ + 1]
                           ELSE signal_queue
    BY Zenon, <1>1 DEF sys_tkill
  <2>2. signal_queue' \in [Sig -> Nat] /\ owed' \in [Sig -> Int] /\ signal' \subseteq Sig
    BY <1>0, <2>1 DEF Owe
  <2>3. ASSUME NEW r \in Sig \cap RealTime
        PROVE  /\ owed'[r] = signal_queue'[r] + (IF r \in signal' THEN 1 ELSE 0)
               /\ signal_queue'[r] > 0 => r \in signal'
    <3>1. /\ owed[r] = signal_queue[r] + (IF r \in signal THEN 1 ELSE 0)
          /\ signal_queue[r] > 0 => r \in signal
          /\ owed[r] \in Int /\ signal_queue[r] \in Nat
      BY Zenon, <1>0, <2>3 DEF RealTimeConserved
    <3>2. CASE r # s
      <4>1. owed'[r] = owed[r] /\ signal_queue'[r] = signal_queue[r] /\ (r \in signal' <=> r \in signal)
        BY Zenon, <1>0, <2>1, <2>3, <3>2 DEF Owe
      <4> QED BY Zenon, <3>1, <4>1
    <3>3. CASE r = s
      <4>1. s \in RealTime /\ r \in signal' /\ Owe(s) = [owed EXCEPT ![s] = @ + 1]
        BY Zenon, <2>1, <2>3, <3>3 DEF Owe
      <4> QED BY <1>0, <2>1, <3>1, <3>3, <4>1
    <3> QED BY Zenon, <3>2, <3>3
  <2> QED BY Zenon, <2>1, <2>2, <2>3 DEF Conserved, RealTimeConserved
<1>2. CASE sys_kill(s)
  <2>1. /\ signal' = signal \cup {s} /\ owed' = (IF s \in signal THEN owed ELSE Owe(s))
        /\ signal_queue' = signal_queue
    BY Zenon, <1>2 DEF sys_kill
  <2>2. signal_queue' \in [Sig -> Nat] /\ owed' \in [Sig -> Int] /\ signal' \subseteq Sig
    BY <1>0, <2>1 DEF Owe
  <2>3. ASSUME NEW r \in Sig \cap RealTime
        PROVE  /\ owed'[r] = signal_queue'[r] + (IF r \in signal' THEN 1 ELSE 0)
               /\ signal_queue'[r] > 0 => r \in signal'
    <3>1. /\ owed[r] = signal_queue[r] + (IF r \in signal THEN 1 ELSE 0)
          /\ signal_queue[r] > 0 => r \in signal
          /\ owed[r] \in Int /\ signal_queue[r] \in Nat
      BY Zenon, <1>0, <2>3 DEF RealTimeConserved
    <3>2. CASE r # s
      <4>1. owed'[r] = owed[r] /\ signal_queue'[r] = signal_queue[r] /\ (r \in signal' <=> r \in signal)
        BY Zenon, <1>0, <2>1, <2>3, <3>2 DEF Owe
      <4> QED BY Zenon, <3>1, <4>1
    <3>3. CASE r = s
      <4>1. s \in RealTime /\ r \in signal' /\ Owe(s) = [owed EXCEPT ![s] = @ + 1]
        BY Zenon, <2>1, <2>3, <3>3 DEF Owe
      <4> QED BY <1>0, <2>1, <3>1, <3>3, <4>1
    <3> QED BY Zenon, <3>2, <3>3
  <2> QED BY Zenon, <2>1, <2>2, <2>3 DEF Conserved, RealTimeConserved
<1> QED BY <1>1, <1>2

\* Taking a pending signal keeps the count, and takes no other signal away.
LEMMA RemoveConserves ==
    ASSUME Conserved, NEW s \in signal, Remove(s)
    PROVE  Conserved'
<1>1. s \in Sig
  BY DEF Conserved
<1>2. CASE s \in RealTime /\ signal_queue[s] > 0
  <2>1. signal' = signal /\ signal_queue' = [signal_queue EXCEPT ![s] = @ - 1]
        /\ owed' = [owed EXCEPT ![s] = @ - 1]
    BY <1>2 DEF Remove
  <2> QED BY <1>1, <1>2, <2>1 DEF Conserved, RealTimeConserved, RealTime
<1>3. CASE s \in RealTime /\ ~(signal_queue[s] > 0)
  <2>1. signal' = signal \ {s} /\ signal_queue' = signal_queue
        /\ owed' = [owed EXCEPT ![s] = @ - 1]
    BY <1>3 DEF Remove
  <2> QED BY <1>1, <1>3, <2>1 DEF Conserved, RealTimeConserved, RealTime
<1>4. CASE s \notin RealTime
  <2>1. signal' = signal \ {s} /\ signal_queue' = signal_queue /\ owed' = owed
    BY <1>4 DEF Remove
  <2> QED BY <1>1, <1>4, <2>1 DEF Conserved, RealTimeConserved
<1> QED BY <1>2, <1>3, <1>4

\* A signal that is not a real-time signal is not counted.
LEMMA RaiseConserves ==
    ASSUME Conserved, NEW s \in Sig, s \notin RealTime, signal' = signal \cup {s},
           UNCHANGED <<signal_queue, owed>>
    PROVE  Conserved'
BY DEF Conserved, RealTimeConserved, RealTime

\* A step that leaves the handlers, the mask and the registers alone and takes
\* no signal away keeps what is said of them.
LEMMA HandlersKept ==
    ASSUME IInv, Conserved', signal \subseteq signal',
           UNCHANGED <<live, ctx, sigmask, wanted, sigaction, dropped, skipped>>
    PROVE  IInv'
<1>1. TypeOK'
  BY DEF IInv, TypeOK
<1>2. MaskLeaksOnlyByDrop' /\ HandlersDoNotNest'
  BY DEF IInv, MaskLeaksOnlyByDrop, HandlersDoNotNest
<1>3. HandlerOf'
  BY DEF IInv, HandlerOf
<1> QED BY <1>1, <1>2, <1>3 DEF IInv

\* The steps that touch neither the signals nor the handlers.
quiet == <<live, ctx, signal, signal_queue, sigmask, wanted, owed, dropped, skipped>>

\* A step that leaves the signals and their actions alone keeps the invariant.
LEMMA QuietStep ==
    ASSUME IInv, UNCHANGED quiet, UNCHANGED sigaction
    PROVE  IInv'
<1>1. Conserved' /\ signal' = signal
  BY DEF IInv, Conserved, RealTimeConserved, quiet
<1> QED BY <1>1, HandlersKept DEF quiet

-----------------------------------------------------------------------------
(* One lemma per action that changes the mask, the registers or a handler. *)

\* A mask that changes in a handler is not the one the program wants outside.
LEMMA SigprocmaskInv ==
    ASSUME IInv, NEW m \in Masks, sys_sigprocmask(m)
    PROVE  IInv'
<1>1. Conserved'
  BY DEF IInv, Conserved, RealTimeConserved, sys_sigprocmask
<1>2. TypeOK'
  BY DEF IInv, TypeOK, sys_sigprocmask
<1>3. MaskLeaksOnlyByDrop'
  BY Zenon DEF IInv, MaskLeaksOnlyByDrop, sys_sigprocmask
<1>4. HandlersDoNotNest' /\ HandlerOf'
  BY Zenon DEF IInv, HandlersDoNotNest, HandlerOf, sys_sigprocmask
<1> QED BY <1>1, <1>2, <1>3, <1>4 DEF IInv

\* rt_sigaction keeps the invariant.
LEMMA SigactionInv ==
    ASSUME IInv, NEW i \in Installs, sys_sigaction(i[1], i[2])
    PROVE  IInv'
<1>1. Conserved'
  BY DEF IInv, Conserved, RealTimeConserved, sys_sigaction
<1>2. i[1] \in Sig /\ i[2] \in ActionType
  OBVIOUS
<1>3. TypeOK'
  BY <1>2 DEF IInv, TypeOK, sys_sigaction
<1>4. MaskLeaksOnlyByDrop' /\ HandlersDoNotNest' /\ HandlerOf'
  BY Zenon DEF IInv, MaskLeaksOnlyByDrop, HandlersDoNotNest, HandlerOf, sys_sigaction
<1> QED BY <1>1, <1>3, <1>4 DEF IInv

\* Giving up after the mask was changed is what skipped records.
LEMMA CheckReturnInv ==
    ASSUME IInv, NEW stack \in BOOLEAN, check_signal_return(stack)
    PROVE  IInv'
<1> DEFINE s == try_get_signal
           out == Outcome(s, sigaction[s], stack)
<1>1. s \in signal /\ s \in Sig
  BY Zenon, TryGetSignal DEF IInv, check_signal_return
<1>2. /\ Remove(s)
      /\ live = <<>> /\ live' = live
      /\ sigmask' = IF out \in {"leak", "jump"} THEN sigaction[s].mask ELSE sigmask
      /\ ctx' = IF out = "jump" THEN Append(ctx, Activation(s, "none")) ELSE ctx
      /\ skipped' = (skipped \/ out \in {"leak", "jump"})
      /\ UNCHANGED <<sigaction, wanted, dropped>>
  BY Zenon DEF check_signal_return, Checking
<1> HIDE DEF s, out
<1>3. Conserved'
  BY <1>1, <1>2, RemoveConserves DEF IInv
<1>4. sigaction[s].mask \subseteq Sig
  BY <1>1 DEF IInv, TypeOK, ActionType
<1>5. Activation(s, "none") \in ActivationType
  BY <1>1 DEF Activation, ActivationType
<1>6. TypeOK'
  <2>1. ctx' \in Seq(ActivationType)
    <3>1. ctx \in Seq(ActivationType)
      BY Zenon DEF IInv, TypeOK
    <3>2. ctx' = Append(ctx, Activation(s, "none")) \/ ctx' = ctx
      BY Zenon, <1>2
    <3> QED BY <1>5, <3>1, <3>2
  <2>2. sigmask' \subseteq Sig
    BY Zenon, <1>2, <1>4 DEF IInv, TypeOK
  <2> QED BY Zenon, <1>2, <2>1, <2>2 DEF IInv, TypeOK
<1>7. MaskLeaksOnlyByDrop' /\ HandlersDoNotNest' /\ HandlerOf'
  BY Zenon, <1>2 DEF IInv, MaskLeaksOnlyByDrop, HandlersDoNotNest, HandlerOf
<1> QED BY <1>3, <1>6, <1>7 DEF IInv

\* A handler starts with the mask and the registers of the interrupted code
\* saved, while its signal stays pending.
LEMMA CheckHandlerInv ==
    ASSUME IInv, check_signal_handler
    PROVE  IInv'
<1> DEFINE s == try_get_signal
           h == [sig |-> s, mask |-> sigmask, ctx |-> ctx, blocked |-> FALSE]
<1>1. s \in signal /\ s \in Sig
  BY Zenon, TryGetSignal DEF IInv, check_signal_handler
<1>2. /\ live = <<>> /\ live' = <<h>>
      /\ sigmask' = sigaction[s].mask
      /\ ctx' = Append(ctx, Activation(s, sigaction[s].restorer))
      /\ UNCHANGED <<signal, signal_queue, sigaction, wanted, owed, dropped, skipped>>
  BY Zenon DEF check_signal_handler, Checking
<1>3. Conserved'
  BY Zenon, <1>2 DEF IInv, Conserved, RealTimeConserved
<1>4. sigaction[s].mask \subseteq Sig /\ sigaction[s].restorer \in {"ok", "none", "bad"}
  BY <1>1 DEF IInv, TypeOK, ActionType
<1>5. Activation(s, sigaction[s].restorer) \in ActivationType
  BY Zenon, <1>1, <1>4 DEF Activation, ActivationType
<1>6. h \in HandlerType
  BY Zenon, <1>1 DEF IInv, TypeOK, HandlerType
<1>7. h.sig = s /\ h.mask = sigmask /\ h.ctx = ctx
  OBVIOUS
<1> HIDE DEF s, h
<1>8. TypeOK'
  <2>1. ctx' \in Seq(ActivationType)
    BY <1>2, <1>5 DEF IInv, TypeOK
  <2> QED BY Zenon, <1>2, <1>4, <1>6, <2>1 DEF IInv, TypeOK
<1>9. live' # <<>> /\ live'[1] = h /\ Len(live') = 1
  BY <1>2
<1>10. MaskLeaksOnlyByDrop'
  BY Zenon, <1>2, <1>7, <1>9 DEF IInv, MaskLeaksOnlyByDrop
<1>11. ~dropped /\ ~skipped => ctx = <<>>
  <2>1. ~dropped /\ ~skipped => Len(ctx) <= 0
    BY <1>2 DEF IInv, HandlersDoNotNest
  <2> QED BY <2>1 DEF IInv, TypeOK
<1>12. HandlersDoNotNest'
  BY <1>2, <1>9, <1>11 DEF HandlersDoNotNest
<1>13. HandlerOf'
  BY <1>1, <1>2, <1>7, <1>9, <1>11 DEF HandlerOf
<1> QED BY <1>3, <1>8, <1>10, <1>12, <1>13 DEF IInv

\* The record of a handler, when there is one.
LEMMA LiveHandler ==
    ASSUME TypeOK, live # <<>>
    PROVE  /\ live[1] \in HandlerType /\ live = <<live[1]>> /\ Len(live) = 1
           /\ live[1].sig \in Sig /\ live[1].mask \subseteq Sig
           /\ live[1].ctx \in Seq(ActivationType)
<1>1. PICK h \in HandlerType : live = <<h>>
  BY DEF TypeOK
<1>2. live[1] = h /\ Len(live) = 1
  BY <1>1
<1> QED BY <1>1, <1>2 DEF HandlerType

\* A completed call drops the handler that ran in the meantime; from then on
\* the mask and the registers may be those of the handler.
LEMMA OrFirstInv ==
    ASSUME IInv, OrFirst
    PROVE  IInv'
<1>1. Conserved'
  BY DEF IInv, Conserved, RealTimeConserved, OrFirst
<1>2. TypeOK'
  BY DEF IInv, TypeOK, OrFirst
<1>3. MaskLeaksOnlyByDrop' /\ HandlersDoNotNest' /\ HandlerOf'
  BY Zenon DEF IInv, MaskLeaksOnlyByDrop, HandlersDoNotNest, HandlerOf, OrFirst, TypeOK
<1> QED BY <1>1, <1>2, <1>3 DEF IInv

\* A handler that makes a call that waits, and the end of that call.
LEMMA BlockedInv ==
    ASSUME IInv, live # <<>>, NEW b \in BOOLEAN, live' = <<[live[1] EXCEPT !.blocked = b]>>,
           UNCHANGED <<ctx, signal, signal_queue, sigmask, sigaction, wanted, owed, dropped, skipped>>
    PROVE  IInv'
<1> DEFINE h == [live[1] EXCEPT !.blocked = b]
<1>1. live[1] \in HandlerType /\ Len(live) = 1
  BY LiveHandler DEF IInv
<1>2. h \in HandlerType /\ h.sig = live[1].sig /\ h.mask = live[1].mask /\ h.ctx = live[1].ctx
  BY <1>1 DEF HandlerType
<1> HIDE DEF h
<1>3. live' # <<>> /\ live'[1] = h /\ Len(live') = 1
  BY DEF h
<1>4. Conserved'
  BY DEF IInv, Conserved, RealTimeConserved
<1>5. TypeOK'
  BY <1>2 DEF IInv, TypeOK, h
<1>6. MaskLeaksOnlyByDrop' /\ HandlersDoNotNest' /\ HandlerOf'
  BY <1>1, <1>2, <1>3 DEF IInv, MaskLeaksOnlyByDrop, HandlersDoNotNest, HandlerOf
<1> QED BY <1>4, <1>5, <1>6 DEF IInv

\* The end of a handler gives back the mask and the registers and takes off the
\* signal, which is still there.
LEMMA HandlerEndInv ==
    ASSUME IInv, live # <<>>, HandlerEnd
    PROVE  IInv'
<1>1. /\ live[1].sig \in Sig /\ live[1].mask \subseteq Sig
      /\ live[1].ctx \in Seq(ActivationType)
  BY LiveHandler DEF IInv
<1>2. Conserved'
  BY RemoveConserves DEF IInv, HandlerOf, HandlerEnd
<1>3. TypeOK'
  BY Zenon, <1>1 DEF IInv, TypeOK, HandlerEnd, Restored
<1>4. MaskLeaksOnlyByDrop' /\ HandlersDoNotNest' /\ HandlerOf'
  <2>1. /\ live' = <<>> /\ sigmask' = live[1].mask /\ ctx' = live[1].ctx
        /\ UNCHANGED <<wanted, dropped, skipped>>
    BY Zenon DEF HandlerEnd, Restored
  <2>2. ~dropped /\ ~skipped => live[1].mask = wanted /\ live[1].ctx = <<>>
    BY Zenon DEF IInv, MaskLeaksOnlyByDrop, HandlerOf
  <2>3. Len(<<>>) <= Len(<<>>)
    OBVIOUS
  <2> QED BY Zenon, <2>1, <2>2, <2>3 DEF MaskLeaksOnlyByDrop, HandlersDoNotNest, HandlerOf
<1> QED BY Zenon, <1>2, <1>3, <1>4 DEF IInv

\* Leaving a handler shortens the list of handlers user code is in.
LEMMA ReturnDirectInv ==
    ASSUME IInv, ReturnDirect
    PROVE  IInv'
<1>1. ctx \in Seq(ActivationType) /\ ctx # <<>> /\ ctx' = SubSeq(ctx, 1, Len(ctx) - 1)
  BY DEF IInv, TypeOK, ReturnDirect, Returning
<1>2. ctx' \in Seq(ActivationType) /\ Len(ctx') <= Len(ctx) /\ Len(ctx) \in Nat /\ Len(ctx') \in Nat
  BY <1>1
<1>3. Conserved'
  BY DEF IInv, Conserved, RealTimeConserved, ReturnDirect
<1>4. TypeOK'
  BY Zenon, <1>2 DEF IInv, TypeOK, ReturnDirect
<1>5. Len(live) \in Nat
  BY LiveHandler DEF IInv
<1>6. HandlersDoNotNest'
  <2>1. ~dropped /\ ~skipped => Len(ctx) <= Len(live)
    BY Zenon DEF IInv, HandlersDoNotNest
  <2>2. live' = live /\ dropped' = dropped /\ skipped' = skipped
    BY Zenon DEF ReturnDirect
  <2>3. ~dropped /\ ~skipped => Len(ctx') <= Len(live)
    BY <1>2, <1>5, <2>1
  <2> QED BY Zenon, <2>2, <2>3 DEF HandlersDoNotNest
<1>7. MaskLeaksOnlyByDrop' /\ HandlerOf'
  <2>1. UNCHANGED <<live, signal, sigmask, wanted, dropped, skipped>>
    BY Zenon DEF ReturnDirect
  <2> QED BY Zenon, <2>1 DEF IInv, MaskLeaksOnlyByDrop, HandlerOf
<1> QED BY <1>3, <1>4, <1>6, <1>7 DEF IInv

\* The timer's signal and that of a fault are not real-time signals.
LEMMA RaisedInv ==
    ASSUME IInv, check_timer \/ ReturnFault
    PROVE  IInv'
<1>1. CASE check_timer
  <2>1. Conserved'
    <3>1. SIGALRM \notin RealTime
      BY DEF SIGALRM, RealTime
    <3> QED BY Zenon, <1>1, <3>1, RaiseConserves DEF check_timer, IInv
  <2> QED BY Zenon, <1>1, <2>1, HandlersKept DEF check_timer
<1>2. CASE ReturnFault
  <2>1. Conserved'
    <3>1. SIGSEGV \notin RealTime
      BY DEF SIGSEGV, RealTime
    <3> QED BY Zenon, <1>2, <3>1, RaiseConserves DEF ReturnFault, IInv
  <2> QED BY Zenon, <1>2, <2>1, HandlersKept DEF ReturnFault
<1> QED BY <1>1, <1>2

\* Every step keeps the signals' invariant.
LEMMA NextInv == IInv /\ [SigNext]_sigVars => IInv'
<1> SUFFICES ASSUME IInv, [SigNext]_sigVars PROVE IInv'
  OBVIOUS
<1>1. CASE Kernel
  <2>1. CASE \E stack \in BOOLEAN : check_signal_return(stack)
    BY <2>1, CheckReturnInv
  <2>2. CASE check_signal_handler
    BY <2>2, CheckHandlerInv
  <2>3. CASE LoopTop \/ OrSecond \/ OrYield \/ WaitSignal \/ Trap
    <3>1. UNCHANGED quiet /\ UNCHANGED sigaction
      BY Zenon, <2>3 DEF LoopTop, OrSecond, OrYield, WaitSignal, Trap, quiet
    <3> QED BY <3>1, QuietStep
  <2>4. CASE HandlerExit
    BY <2>4, HandlerEndInv DEF HandlerExit
  <2> QED BY <1>1, <2>1, <2>2, <2>3, <2>4 DEF Kernel
<1>2. CASE Environment
  <2>1. CASE \E s \in Sent : sys_tkill(s) \/ sys_kill(s)
    <3>1. PICK s \in Sent : sys_tkill(s) \/ sys_kill(s)
      BY <2>1
    <3>2. s \in Sig
      OBVIOUS
    <3>3. Conserved' /\ signal \subseteq signal'
      BY <3>1, <3>2, SendConserves DEF IInv
    <3>4. UNCHANGED <<live, ctx, sigmask, wanted, sigaction, dropped, skipped>>
      BY Zenon, <3>1 DEF sys_tkill, sys_kill
    <3> QED BY <3>3, <3>4, HandlersKept
  <2>2. CASE \E m \in Masks : sys_sigprocmask(m)
    BY <2>2, SigprocmaskInv
  <2>3. CASE \E i \in Installs : sys_sigaction(i[1], i[2])
    BY <2>3, SigactionInv
  <2>4. CASE ProcessExit \/ sys_exit \/ sys_setitimer \/ SigreturnMain
    <3>1. UNCHANGED quiet /\ UNCHANGED sigaction
      BY Zenon, <2>4 DEF ProcessExit, sys_exit, sys_setitimer, SigreturnMain, quiet
    <3> QED BY <3>1, QuietStep
  <2>5. CASE OrFirst
    BY <2>5, OrFirstInv
  <2>6. CASE check_timer \/ ReturnFault
    BY <2>6, RaisedInv
  <2>7. CASE Block
    <3>1. CASE live = <<>>
      BY <2>7, <3>1, QuietStep DEF Block, quiet
    <3>2. CASE live # <<>>
      BY Zenon, <2>7, <3>2, BlockedInv DEF Block
    <3> QED BY <3>1, <3>2
  <2>8. CASE Unblock
    BY Zenon, <2>8, BlockedInv DEF Unblock
  <2>9. CASE SigreturnHandler
    BY <2>9, HandlerEndInv DEF SigreturnHandler, InHandler
  <2>10. CASE ReturnDirect
    BY <2>10, ReturnDirectInv
  <2> QED BY <1>2, <2>1, <2>2, <2>3, <2>4, <2>5, <2>6, <2>7, <2>8, <2>9, <2>10 DEF Environment
<1>3. CASE UNCHANGED sigVars
  BY Zenon, <1>3, QuietStep DEF sigVars, quiet
<1> QED BY <1>1, <1>2, <1>3 DEF SigNext

\* Whatever is sent, blocked, handled, dropped or given up in whatever order, no
\* instance of a real-time signal is lost or answered twice.
THEOREM RealTimeTheorem == SigSafety => []RealTimeConserved
<1>1. IInv => RealTimeConserved
  BY DEF IInv, Conserved
<1> QED BY <1>1, InitInv, NextInv, PTL DEF SigSafety

\* handle_signal gives back the mask it replaced: it is lost only through
\* future::or dropping the handler or through one of the early returns.
THEOREM MaskTheorem == SigSafety => []MaskLeaksOnlyByDrop
<1>1. IInv => MaskLeaksOnlyByDrop
  BY DEF IInv
<1> QED BY <1>1, InitInv, NextInv, PTL DEF SigSafety

\* No handler interrupts another one, under the same exceptions.
THEOREM NestingTheorem == SigSafety => []HandlersDoNotNest
<1>1. IInv => HandlersDoNotNest
  BY DEF IInv
<1> QED BY <1>1, InitInv, NextInv, PTL DEF SigSafety


=============================================================================
