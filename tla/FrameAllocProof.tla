-------------------------- MODULE FrameAllocProof ---------------------------
(* The allocator gives every frame to one owner and loses none, for all    *)
(* memory areas and however many harts use it; on one hart memory is       *)
(* cleared between two owners.                                             *)
EXTENDS FrameAlloc, RegionScan, FiniteSetTheorems, TLAPS

\* What a sequence of areas holds.
LEMMA ElementOf ==
  ASSUME NEW S, NEW s \in Seq(S), NEW k \in 1 .. Len(s)
  PROVE  s[k] \in S
  OBVIOUS

\* Every set of numbers but the empty one has a lowest element.
LEMMA LowestIn ==
  ASSUME NEW S \in SUBSET Nat, S # {}
  PROVE  Lowest(S) \in S
<1>1. \E x \in S : \A y \in S : ~ (<<y, x>> \in OpToRel(<, Nat))
  BY ZenonT(30), WFMin, NatLessThanWellFounded
<1>2. PICK x \in S : \A y \in S : ~ (<<y, x>> \in OpToRel(<, Nat))
  BY ZenonT(30), <1>1
<1>3. ASSUME NEW y \in S PROVE x <= y
  <2>1. ~ (<<y, x>> \in {ss \in Nat \X Nat : ss[1] < ss[2]})
    BY <1>2 DEF OpToRel
  <2> QED BY <2>1
<1> QED BY ZenonT(30), <1>3 DEF Lowest

-----------------------------------------------------------------------------
(* Regions and frames                                                      *)

\* Rounding up to whole words does not lose a page.
LEMMA RoundUp ==
  ASSUME NEW t \in Nat, NEW w \in Nat \ {0}
  PROVE  /\ (t + w - 1) \div w \in Nat
         /\ t <= ((t + w - 1) \div w) * w
<1> DEFINE q == (t + w - 1) \div w
<1>1. q \in Nat /\ t + w - 1 = w * q + ((t + w - 1) % w) /\ (t + w - 1) % w \in 0 .. w - 1
  BY Z3
<1> QED BY <1>1

\* A region's frames are the whole frames inside it, and its bitmap has a bit for each.
LEMMA AreaFacts ==
  ASSUME NEW k \in Region
  PROVE  /\ Lo(k) \in Nat /\ Hi(k) \in Nat /\ Total(k) \in Nat /\ Hi(k) = Lo(k) + Total(k)
         /\ 0 .. Total(k) - 1 \subseteq Bits(k)
         /\ Bits(k) \subseteq Nat
         /\ New(k) = Bits(k) \ (0 .. Total(k) - 1)
         /\ Pages(k) \subseteq Frames
         /\ \A f : f \in Pages(k) <=> f \in Nat /\ Lo(k) <= f /\ f < Hi(k)
<1>0. /\ Areas \in Seq([start : Nat, end : Nat])
      /\ PAGE_SIZE \in Nat \ {0} /\ Width \in Nat \ {0} /\ Lo(k) <= Hi(k)
  BY FrameAssumption
<1>1. Areas[k].start \in Nat /\ Areas[k].end \in Nat
  <2>1. Areas[k] \in [start : Nat, end : Nat]
    BY ZenonT(30), <1>0, ElementOf DEF Region
  <2> QED BY <2>1
<1>2. Lo(k) \in Nat
  BY ZenonT(30), <1>0, <1>1, RoundUp DEF Lo
<1>3. Hi(k) \in Nat
  <2>1. ASSUME NEW t \in Nat, NEW w \in Nat \ {0} PROVE t \div w \in Nat
    BY Z3
  <2> QED BY ZenonT(30), <1>0, <1>1, <2>1 DEF Hi
<1>4. Total(k) \in Nat /\ Hi(k) = Lo(k) + Total(k)
  BY <1>0, <1>2, <1>3 DEF Total
<1>5. PICK m \in Nat : m = ((Total(k) + Width - 1) \div Width) * Width /\ Total(k) <= m
  <2>1. PICK q \in Nat : q = (Total(k) + Width - 1) \div Width
    BY <1>0, <1>4, RoundUp
  <2>2. q * Width \in Nat
    BY <1>0
  <2>3. Total(k) <= q * Width
    BY ZenonT(30), <1>0, <1>4, <2>1, RoundUp
  <2> QED BY <2>1, <2>2, <2>3
<1>6. Bits(k) = 0 .. m - 1
  BY <1>5 DEF Bits
<1>7. 0 .. Total(k) - 1 \subseteq Bits(k) /\ Bits(k) \subseteq Nat
  BY <1>4, <1>5, <1>6
<1>8. New(k) = Bits(k) \ (0 .. Total(k) - 1)
  BY <1>4, <1>7 DEF New
<1>9. Pages(k) \subseteq Frames
  BY DEF Frames
<1>10. \A f : f \in Pages(k) <=> f \in Nat /\ Lo(k) <= f /\ f < Hi(k)
  BY <1>2, <1>3 DEF Pages
<1> QED BY <1>2, <1>3, <1>4, <1>7, <1>8, <1>9, <1>10

\* A frame belongs to one region and one bit.
LEMMA FrameFacts ==
  /\ \A k \in Region : \A p \in 0 .. Total(k) - 1 : Lo(k) + p \in Pages(k) /\ Lo(k) + p \in Frames
  /\ \A j, k \in Region : \A f : f \in Pages(j) /\ f \in Pages(k) => j = k
  /\ \A f \in Frames : \E k \in Region : f \in Pages(k)
  /\ \A k \in Region : \A f \in Pages(k) : f - Lo(k) \in 0 .. Total(k) - 1 /\ Lo(k) + (f - Lo(k)) = f
<1>1. ASSUME NEW k \in Region, NEW p \in 0 .. Total(k) - 1
      PROVE  Lo(k) + p \in Pages(k) /\ Lo(k) + p \in Frames
  BY AreaFacts
<1>2. \A j, k \in Region : \A f : f \in Pages(j) /\ f \in Pages(k) => j = k
  BY FrameAssumption
<1>3. \A f \in Frames : \E k \in Region : f \in Pages(k)
  BY DEF Frames
<1>4. ASSUME NEW k \in Region, NEW f \in Pages(k)
      PROVE  f - Lo(k) \in 0 .. Total(k) - 1 /\ Lo(k) + (f - Lo(k)) = f
  BY AreaFacts
<1> QED BY <1>1, <1>2, <1>3, <1>4


-----------------------------------------------------------------------------
(* The invariant                                                           *)

\* what the steps preserve
FInv == TypeOK /\ OneOwner /\ BitmapExact

InUse(f) == Owned(f) \/ Dropping(f)

\* BitmapExact, bit by bit
BitmapIff ==
    \A k \in Region :
        /\ New(k) \subseteq bits[k]
        /\ bits[k] \subseteq Bits(k)
        /\ \A p \in 0 .. Total(k) - 1 : p \in bits[k] <=> InUse(Lo(k) + p)

\* BitmapExact, region by region and bit by bit.
LEMMA BitmapEquiv == BitmapExact <=> BitmapIff
<1>1. ASSUME BitmapExact PROVE BitmapIff
  <2> SUFFICES ASSUME NEW k \in Region
               PROVE  /\ New(k) \subseteq bits[k]
                      /\ bits[k] \subseteq Bits(k)
                      /\ \A p \in 0 .. Total(k) - 1 : p \in bits[k] <=> InUse(Lo(k) + p)
    BY DEF BitmapIff
  <2>1. bits[k] = New(k) \cup {p \in 0 .. Total(k) - 1 : InUse(Lo(k) + p)}
    BY <1>1 DEF BitmapExact, InUse
  <2>2. New(k) = Bits(k) \ (0 .. Total(k) - 1) /\ 0 .. Total(k) - 1 \subseteq Bits(k)
    BY AreaFacts
  <2> HIDE DEF InUse
  <2> QED BY <2>1, <2>2
<1>2. ASSUME BitmapIff PROVE BitmapExact
  <2> SUFFICES ASSUME NEW k \in Region
               PROVE  bits[k] = New(k) \cup {p \in 0 .. Total(k) - 1 : InUse(Lo(k) + p)}
    BY DEF BitmapExact, InUse
  <2>1. /\ New(k) \subseteq bits[k] /\ bits[k] \subseteq Bits(k)
        /\ \A p \in 0 .. Total(k) - 1 : p \in bits[k] <=> InUse(Lo(k) + p)
    BY <1>2 DEF BitmapIff
  <2>2. New(k) = Bits(k) \ (0 .. Total(k) - 1) /\ 0 .. Total(k) - 1 \subseteq Bits(k)
    BY AreaFacts
  <2> QED BY <2>1, <2>2
<1> QED BY <1>1, <1>2

\* The same after a step.
LEMMA BitmapEquivNext == BitmapExact' <=> BitmapIff'
  BY BitmapEquiv, PTL

\* Marking free pages of a region for new owners keeps the invariant.
LEMMA TakeInv ==
  ASSUME FInv, NEW k \in Region, NEW S \in SUBSET (0 .. Total(k) - 1), S \cap bits[k] = {},
         bits' = SetBit(k, S), dropping' = dropping,
         \A f \in Frames : trackers'[f] + tables'[f]
            = IF f \in Pages(k) /\ f - Lo(k) \in S THEN trackers[f] + tables[f] + 1
              ELSE trackers[f] + tables[f]
  PROVE  OneOwner' /\ BitmapExact'
<1>1. BitmapIff
  BY BitmapEquiv DEF FInv
<1>2. \A f : Dropping(f)' <=> Dropping(f)
  BY DEF Dropping
<1>3. \A f \in Frames : trackers[f] \in Nat /\ tables[f] \in Nat
  BY DEF FInv, TypeOK
<1>4. \A f \in Frames : f \in Pages(k) /\ f - Lo(k) \in S => ~InUse(f)
  <2> SUFFICES ASSUME NEW f \in Frames, f \in Pages(k), f - Lo(k) \in S PROVE ~InUse(f)
    OBVIOUS
  <2>1. f - Lo(k) \in 0 .. Total(k) - 1 /\ Lo(k) + (f - Lo(k)) = f
    BY FrameFacts
  <2> QED BY <1>1, <2>1 DEF BitmapIff
<1>5. OneOwner'
  <2> SUFFICES ASSUME NEW f \in Frames
               PROVE  /\ trackers'[f] + tables'[f] <= 1
                      /\ Dropping(f)' => ~Owned(f)'
                      /\ \A g, h \in Harts : dropping'[g] = f /\ dropping'[h] = f => g = h
    BY DEF OneOwner
  <2>1. CASE f \in Pages(k) /\ f - Lo(k) \in S
    <3>1. trackers[f] + tables[f] = 0 /\ ~Dropping(f)
      BY <1>3, <1>4, <2>1 DEF InUse, Owned
    <3> QED BY <1>2, <2>1, <3>1 DEF FInv, OneOwner
  <2>2. CASE ~(f \in Pages(k) /\ f - Lo(k) \in S)
    BY <1>2, <2>2 DEF FInv, OneOwner, Owned
  <2> QED BY <2>1, <2>2
<1>6. BitmapIff'
  <2> SUFFICES ASSUME NEW j \in Region
               PROVE  /\ New(j) \subseteq bits'[j]
                      /\ bits'[j] \subseteq Bits(j)
                      /\ \A p \in 0 .. Total(j) - 1 : p \in bits'[j] <=> InUse(Lo(j) + p)'
    BY DEF BitmapIff
  <2>1. bits'[j] = IF j = k THEN bits[j] \cup S ELSE bits[j]
    BY ZenonT(30) DEF SetBit, FInv, TypeOK
  <2>2. New(j) \subseteq bits'[j] /\ bits'[j] \subseteq Bits(j)
    BY ZenonT(30), <1>1, <2>1, AreaFacts DEF BitmapIff
  <2>3. ASSUME NEW p \in 0 .. Total(j) - 1 PROVE p \in bits'[j] <=> InUse(Lo(j) + p)'
    <3>1. PICK f \in Frames : f = Lo(j) + p /\ f \in Pages(j)
      BY FrameFacts
    <3>2. f - Lo(j) = p
      BY <3>1, AreaFacts
    <3>3. p \in bits[j] <=> InUse(f)
      BY <1>1, <3>1 DEF BitmapIff
    <3>4. CASE j = k /\ p \in S
      <4>1. Owned(f)'
        BY <1>3, <3>1, <3>2, <3>4 DEF Owned
      <4> QED BY <2>1, <3>1, <3>4, <4>1 DEF InUse
    <3>5. CASE ~(j = k /\ p \in S)
      <4>1. ~(f \in Pages(k) /\ f - Lo(k) \in S)
        BY <3>1, <3>2, <3>5, FrameFacts
      <4>2. InUse(f)' <=> InUse(f)
        BY <1>2, <4>1 DEF InUse, Owned
      <4> QED BY <2>1, <3>1, <3>3, <3>5, <4>2
    <3> QED BY <3>4, <3>5
  <2> QED BY <2>2, <2>3
<1> QED BY <1>5, <1>6, BitmapEquivNext


-----------------------------------------------------------------------------
(* One lemma per action                                                    *)

\* The bit that frame_alloc takes is clear and belongs to a frame of its region.
LEMMA GivenFacts ==
  ASSUME FInv, FreeRegions # {}
  PROVE  /\ Given.region \in Region
         /\ Given.bit \in 0 .. Total(Given.region) - 1
         /\ Given.bit \notin bits[Given.region]
<1>1. PICK k : k = Lowest(FreeRegions)
  OBVIOUS
<1>2. k \in Region /\ Bits(k) \ bits[k] # {}
  <2>1. FreeRegions \in SUBSET Nat
    BY FrameAssumption DEF FreeRegions, Region
  <2>2. k \in FreeRegions
    BY <1>1, <2>1, LowestIn
  <2> QED BY <2>2 DEF FreeRegions
<1>3. PICK p : p = Lowest(Bits(k) \ bits[k])
  OBVIOUS
<1>4. p \in Bits(k) /\ p \notin bits[k]
  <2>1. Bits(k) \ bits[k] \in SUBSET Nat
    BY <1>2, AreaFacts
  <2>2. p \in Bits(k) \ bits[k]
    BY <1>2, <1>3, <2>1, LowestIn
  <2> QED BY <2>2
<1>5. New(k) \subseteq bits[k]
  BY <1>2, BitmapEquiv DEF FInv, BitmapIff
<1>6. p \in 0 .. Total(k) - 1
  BY <1>2, <1>4, <1>5, AreaFacts
<1>7. Given.region = k /\ Given.bit = p
  BY <1>1, <1>3 DEF Given
<1> QED BY <1>2, <1>4, <1>6, <1>7

\* f is the frame of bit p of region k.
LEMMA SameFrame ==
  ASSUME NEW k \in Region, NEW p \in 0 .. Total(k) - 1, NEW f \in Frames
  PROVE  f = Lo(k) + p <=> (f \in Pages(k) /\ f - Lo(k) \in {p})
<1>1. Lo(k) + p \in Pages(k) /\ Lo(k) \in Nat
  BY AreaFacts, FrameFacts
<1>2. f \in Pages(k) => f \in Nat
  BY AreaFacts
<1> QED BY <1>1, <1>2

\* frame_alloc keeps the invariant.
LEMMA FrameAllocInv == ASSUME FInv, NEW h \in Harts, frame_alloc(h) PROVE FInv'
<1>1. CASE FreeRegions = {}
  <2>1. UNCHANGED <<bits, trackers, tables, dropping, clearing, written, halted>> /\ failed' = 1
    BY <1>1 DEF frame_alloc
  <2> QED BY <2>1 DEF FInv, TypeOK, OneOwner, BitmapExact, Owned, Dropping
<1>2. CASE FreeRegions # {}
  <2>0. PICK k \in Region : k = Given.region
    BY <1>2, GivenFacts
  <2>1. PICK p \in 0 .. Total(k) - 1 : k = Given.region /\ p = Given.bit /\ p \notin bits[k]
    BY <1>2, <2>0, GivenFacts
  <2>2. PICK g \in Frames : g = Lo(k) + p
    BY <2>1, FrameFacts
  <2>3. /\ bits' = SetBit(k, {p}) /\ trackers' = [trackers EXCEPT ![g] = @ + 1] /\ failed' = 0
        /\ UNCHANGED <<tables, dropping, clearing, written, halted>>
    BY <1>2, <2>1, <2>2 DEF frame_alloc
  <2>4. trackers \in [Frames -> Nat] /\ tables \in [Frames -> Nat] /\ bits \in [Region -> SUBSET Nat]
    BY DEF FInv, TypeOK
  <2>5. trackers' \in [Frames -> Nat]
    BY <2>3, <2>4
  <2>6. bits' \in [Region -> SUBSET Nat]
    <3>1. bits[k] \cup {p} \in SUBSET Nat
      BY <2>4, AreaFacts
    <3> QED BY <2>3, <2>4, <3>1 DEF SetBit
  <2>7. TypeOK'
    BY ZenonT(30), <2>3, <2>5, <2>6 DEF FInv, TypeOK
  <2>8. ASSUME NEW f \in Frames
        PROVE  trackers'[f] + tables'[f]
                 = IF f \in Pages(k) /\ f - Lo(k) \in {p} THEN trackers[f] + tables[f] + 1
                   ELSE trackers[f] + tables[f]
    <3>1. f = g <=> (f \in Pages(k) /\ f - Lo(k) \in {p})
      BY <2>2, SameFrame
    <3> QED BY <2>3, <2>4, <3>1
  <2>9. {p} \cap bits[k] = {} /\ {p} \in SUBSET (0 .. Total(k) - 1)
    BY <2>1
  <2>10. OneOwner' /\ BitmapExact'
    BY <2>3, <2>8, <2>9, TakeInv
  <2> QED BY <2>7, <2>10 DEF FInv
<1> QED BY <1>1, <1>2

\* page_alloc keeps it.
LEMMA PageAllocInv == ASSUME FInv, NEW h \in Harts, page_alloc(h) PROVE FInv'
<1>1. CASE FreeRegions = {}
  <2>1. UNCHANGED <<bits, trackers, tables, dropping, clearing, written>> /\ failed' = 1 /\ halted' = TRUE
    BY SMTT(30), <1>1 DEF page_alloc
  <2> QED BY <2>1 DEF FInv, TypeOK, OneOwner, BitmapExact, Owned, Dropping
<1>2. CASE FreeRegions # {}
  <2>0. PICK k \in Region : k = Given.region
    BY <1>2, GivenFacts
  <2>1. PICK p \in 0 .. Total(k) - 1 : k = Given.region /\ p = Given.bit /\ p \notin bits[k]
    BY <1>2, <2>0, GivenFacts
  <2>2. PICK g \in Frames : g = Lo(k) + p
    BY <2>1, FrameFacts
  <2>3. /\ bits' = SetBit(k, {p}) /\ tables' = [tables EXCEPT ![g] = @ + 1] /\ failed' = 0
        /\ UNCHANGED <<trackers, dropping, clearing, written, halted>>
    BY <1>2, <2>1, <2>2 DEF page_alloc
  <2>4. trackers \in [Frames -> Nat] /\ tables \in [Frames -> Nat] /\ bits \in [Region -> SUBSET Nat]
    BY DEF FInv, TypeOK
  <2>5. tables' \in [Frames -> Nat]
    BY <2>3, <2>4
  <2>6. bits' \in [Region -> SUBSET Nat]
    <3>1. bits[k] \cup {p} \in SUBSET Nat
      BY <2>4, AreaFacts
    <3> QED BY <2>3, <2>4, <3>1 DEF SetBit
  <2>7. TypeOK'
    BY ZenonT(30), <2>3, <2>5, <2>6 DEF FInv, TypeOK
  <2>8. ASSUME NEW f \in Frames
        PROVE  trackers'[f] + tables'[f]
                 = IF f \in Pages(k) /\ f - Lo(k) \in {p} THEN trackers[f] + tables[f] + 1
                   ELSE trackers[f] + tables[f]
    <3>1. f = g <=> (f \in Pages(k) /\ f - Lo(k) \in {p})
      BY <2>2, SameFrame
    <3> QED BY <2>3, <2>4, <3>1
  <2>9. {p} \cap bits[k] = {} /\ {p} \in SUBSET (0 .. Total(k) - 1)
    BY <2>1
  <2>10. OneOwner' /\ BitmapExact'
    BY <2>3, <2>8, <2>9, TakeInv
  <2> QED BY <2>7, <2>10 DEF FInv
<1> QED BY <1>1, <1>2


\* frame_alloc_much keeps it: the run that it takes is clear.
LEMMA FrameAllocMuchInv ==
  ASSUME FInv, NEW h \in Harts, NEW n \in 0 .. MaxRun, frame_alloc_much(h, n) PROVE FInv'
<1> DEFINE rs == {k \in Region : Fits(k, n) # {}}
<1>0. n \in Nat
  BY FrameAssumption
<1>1. CASE rs = {}
  <2>1. UNCHANGED <<bits, trackers, tables, dropping, clearing, written, halted>> /\ failed' = n
    BY <1>1 DEF frame_alloc_much
  <2> QED BY <1>0, <2>1 DEF FInv, TypeOK, OneOwner, BitmapExact, Owned, Dropping
<1>2. CASE rs # {}
  <2>1. PICK k \in Region : k = Lowest(rs) /\ Fits(k, n) # {}
    <3>1. rs \in SUBSET Nat
      BY FrameAssumption DEF Region
    <3> QED BY ZenonT(30), <1>2, <3>1, LowestIn
  <2>2. PICK s \in Starts(bits[k], Total(k), n) : s = Lowest(Fits(k, n))
    <3>1. Fits(k, n) = Starts(bits[k], Total(k), n)
      BY <2>1 DEF Fits
    <3>2. Fits(k, n) \in SUBSET Nat
      BY <3>1 DEF Starts
    <3> QED BY ZenonT(30), <2>1, <3>1, <3>2, LowestIn
  <2>3. PICK run : run = s .. s + n - 1
    OBVIOUS
  <2>4. run \in SUBSET (0 .. Total(k) - 1) /\ run \cap bits[k] = {}
    BY SMTT(30), <1>0, <2>2, <2>3, AreaFacts DEF Starts
  <2>5. /\ bits' = SetBit(k, run)
        /\ trackers' = [f \in Frames |-> IF \E x \in run : f = Lo(k) + x
                                         THEN trackers[f] + 1 ELSE trackers[f]]
        /\ failed' = 0
        /\ UNCHANGED <<tables, dropping, clearing, written, halted>>
    BY ZenonT(30), <1>2, <2>1, <2>2, <2>3 DEF frame_alloc_much
  <2>6. trackers \in [Frames -> Nat] /\ tables \in [Frames -> Nat] /\ bits \in [Region -> SUBSET Nat]
    BY DEF FInv, TypeOK
  <2>7. trackers' \in [Frames -> Nat]
    BY <2>5, <2>6
  <2>8. bits' \in [Region -> SUBSET Nat]
    <3>1. bits[k] \cup run \in SUBSET Nat
      BY ZenonT(30), <2>4, <2>6, AreaFacts
    <3> QED BY <2>5, <2>6, <3>1 DEF SetBit
  <2>9. TypeOK'
    BY <2>5, <2>7, <2>8 DEF FInv, TypeOK
  <2>10. ASSUME NEW f \in Frames
         PROVE  trackers'[f] + tables'[f]
                  = IF f \in Pages(k) /\ f - Lo(k) \in run THEN trackers[f] + tables[f] + 1
                    ELSE trackers[f] + tables[f]
    <3>1. (\E x \in run : f = Lo(k) + x) <=> (f \in Pages(k) /\ f - Lo(k) \in run)
      <4>1. \A x \in run : f = Lo(k) + x <=> (f \in Pages(k) /\ f - Lo(k) \in {x})
        BY <2>4, SameFrame
      <4>2. f \in Pages(k) => Lo(k) + (f - Lo(k)) = f
        BY FrameFacts
      <4> QED BY <4>1, <4>2
    <3>2. trackers'[f] = IF \E x \in run : f = Lo(k) + x THEN trackers[f] + 1 ELSE trackers[f]
      BY <2>5
    <3>3. tables'[f] = tables[f] /\ trackers[f] \in Nat /\ tables[f] \in Nat
      BY <2>5, <2>6
    <3> QED BY <3>1, <3>2, <3>3
  <2>11. OneOwner' /\ BitmapExact'
    BY <2>4, <2>5, <2>10, TakeInv
  <2> QED BY <2>9, <2>11 DEF FInv
<1> QED BY <1>1, <1>2

\* Clearing the bit of a frame that is in use no more keeps the bitmaps exact.
LEMMA ReleaseInv ==
  ASSUME FInv, NEW f \in Frames, ~InUse(f)', \A g \in Frames \ {f} : InUse(g)' <=> InUse(g),
         bits' = Dealloc(f)
  PROVE  BitmapExact'
<1>1. BitmapIff
  BY BitmapEquiv DEF FInv
<1>2. BitmapIff'
  <2> SUFFICES ASSUME NEW k \in Region
               PROVE  /\ New(k) \subseteq bits'[k]
                      /\ bits'[k] \subseteq Bits(k)
                      /\ \A p \in 0 .. Total(k) - 1 : p \in bits'[k] <=> InUse(Lo(k) + p)'
    BY DEF BitmapIff
  <2>1. bits'[k] = IF f \in Pages(k) THEN bits[k] \ {f - Lo(k)} ELSE bits[k]
    BY DEF Dealloc
  <2>2. f \in Pages(k) => f - Lo(k) \notin New(k)
    BY FrameFacts, AreaFacts
  <2>3. New(k) \subseteq bits'[k] /\ bits'[k] \subseteq Bits(k)
    BY <1>1, <2>1, <2>2 DEF BitmapIff
  <2>4. ASSUME NEW p \in 0 .. Total(k) - 1 PROVE p \in bits'[k] <=> InUse(Lo(k) + p)'
    <3>1. PICK g \in Frames : g = Lo(k) + p /\ g \in Pages(k)
      BY FrameFacts
    <3>2. g - Lo(k) = p
      BY <3>1, AreaFacts
    <3>3. p \in bits[k] <=> InUse(g)
      BY <1>1, <3>1 DEF BitmapIff
    <3>4. CASE g = f
      <4>1. p \notin bits'[k]
        BY <2>1, <3>1, <3>2, <3>4
      <4> QED BY <3>1, <3>4, <4>1
    <3>5. CASE g # f
      <4>1. f \in Pages(k) => f - Lo(k) # p
        BY <3>1, <3>5, FrameFacts
      <4>2. p \in bits'[k] <=> p \in bits[k]
        BY <2>1, <4>1
      <4> QED BY <3>1, <3>3, <3>5, <4>2
    <3> QED BY <3>4, <3>5
  <2> QED BY <2>3, <2>4
<1> QED BY <1>2, BitmapEquivNext


\* A drop that clears the page keeps it.
LEMMA DropClearInv ==
  ASSUME FInv, NEW h \in Harts, NEW f \in Frames, drop_clear(h, f) PROVE FInv'
<1>1. /\ trackers[f] > 0 /\ dropping[h] = NoFrame
      /\ trackers' = [trackers EXCEPT ![f] = @ - 1]
      /\ dropping' = [dropping EXCEPT ![h] = f]
      /\ written' = written \ {f} /\ failed' = 0
      /\ UNCHANGED <<bits, tables, clearing, halted>>
  BY DEF drop_clear, Idle
<1>2. /\ trackers \in [Frames -> Nat] /\ tables \in [Frames -> Nat]
      /\ dropping \in [Harts -> Frames \cup {NoFrame}]
  BY DEF FInv, TypeOK
<1>3. trackers[f] = 1 /\ tables[f] = 0 /\ ~Dropping(f)
  <2>1. trackers[f] + tables[f] <= 1 /\ (Dropping(f) => ~Owned(f))
    BY DEF FInv, OneOwner
  <2>2. trackers[f] \in Nat /\ tables[f] \in Nat
    BY <1>2
  <2> QED BY <1>1, <2>1, <2>2 DEF Owned
<1>4. trackers' \in [Frames -> Nat] /\ dropping' \in [Harts -> Frames \cup {NoFrame}]
  BY <1>1, <1>2, <1>3
<1>5. TypeOK'
  BY <1>1, <1>4 DEF FInv, TypeOK
<1>6. NoFrame \notin Frames
  BY FrameAssumption
<1>7. ASSUME NEW g \in Frames, g # f
      PROVE  (Owned(g)' <=> Owned(g)) /\ (Dropping(g)' <=> Dropping(g))
  BY <1>1, <1>2, <1>6, <1>7 DEF Owned, Dropping
<1>8. Dropping(f)' /\ ~Owned(f)'
  BY <1>1, <1>2, <1>3 DEF Owned, Dropping
<1>9. OneOwner'
  <2> SUFFICES ASSUME NEW g \in Frames
               PROVE  /\ trackers'[g] + tables'[g] <= 1
                      /\ Dropping(g)' => ~Owned(g)'
                      /\ \A a, b \in Harts : dropping'[a] = g /\ dropping'[b] = g => a = b
    BY DEF OneOwner
  <2>1. CASE g = f
    <3>1. \A a \in Harts : dropping'[a] = f => a = h
      BY <1>1, <1>2, <1>3 DEF Dropping
    <3> QED BY <1>1, <1>2, <1>3, <1>8, <2>1, <3>1
  <2>2. CASE g # f
    BY <1>1, <1>2, <1>7, <2>2 DEF FInv, OneOwner
  <2> QED BY <2>1, <2>2
<1>10. \A g \in Frames : InUse(g)' <=> InUse(g)
  BY <1>3, <1>7, <1>8 DEF InUse, Owned
<1>11. BitmapIff'
  <2>1. BitmapIff
    BY BitmapEquiv DEF FInv
  <2>2. \A k \in Region : \A p \in 0 .. Total(k) - 1 : Lo(k) + p \in Frames
    BY FrameFacts
  <2> QED BY <1>1, <1>10, <2>1, <2>2 DEF BitmapIff
<1> QED BY <1>5, <1>9, <1>11, BitmapEquivNext DEF FInv

\* The release that ends the drop keeps it.
LEMMA DropDeallocInv ==
  ASSUME FInv, NEW h \in Harts, drop_dealloc(h) PROVE FInv'
<1>1. PICK f \in Frames : f = dropping[h]
  BY DEF drop_dealloc, FInv, TypeOK
<1>2. /\ bits' = Dealloc(f) /\ dropping' = [dropping EXCEPT ![h] = NoFrame] /\ failed' = 0
      /\ UNCHANGED <<trackers, tables, clearing, written, halted>>
  BY <1>1 DEF drop_dealloc
<1>3. /\ bits \in [Region -> SUBSET Nat] /\ dropping \in [Harts -> Frames \cup {NoFrame}]
      /\ NoFrame \notin Frames
  BY FrameAssumption DEF FInv, TypeOK
<1>4. bits' \in [Region -> SUBSET Nat] /\ dropping' \in [Harts -> Frames \cup {NoFrame}]
  BY <1>2, <1>3 DEF Dealloc
<1>5. TypeOK'
  BY <1>2, <1>4 DEF FInv, TypeOK
<1>6. \A a \in Harts : dropping'[a] = IF a = h THEN NoFrame ELSE dropping[a]
  BY <1>2, <1>3
<1>7. Dropping(f) /\ \A a \in Harts : dropping[a] = f => a = h
  BY <1>1 DEF Dropping, FInv, OneOwner
<1>8. ~Dropping(f)' /\ \A g \in Frames \ {f} : Dropping(g)' <=> Dropping(g)
  BY <1>1, <1>3, <1>6, <1>7 DEF Dropping
<1>9. \A g \in Frames : Owned(g)' <=> Owned(g)
  BY <1>2 DEF Owned
<1>10. ~Owned(f)
  BY <1>7 DEF FInv, OneOwner
<1>11. OneOwner'
  <2> SUFFICES ASSUME NEW g \in Frames
               PROVE  /\ trackers'[g] + tables'[g] <= 1
                      /\ Dropping(g)' => ~Owned(g)'
                      /\ \A a, b \in Harts : dropping'[a] = g /\ dropping'[b] = g => a = b
    BY DEF OneOwner
  <2>1. Dropping(g)' => Dropping(g)
    BY <1>8
  <2> QED BY <1>2, <1>3, <1>6, <1>9, <2>1 DEF FInv, OneOwner
<1>12. BitmapExact'
  <2>1. ~InUse(f)'
    BY <1>8, <1>9, <1>10 DEF InUse
  <2>2. \A g \in Frames \ {f} : InUse(g)' <=> InUse(g)
    BY <1>8, <1>9 DEF InUse
  <2> QED BY <1>2, <2>1, <2>2, ReleaseInv
<1> QED BY <1>5, <1>11, <1>12 DEF FInv

\* page_dealloc keeps it.
LEMMA PageDeallocInv ==
  ASSUME FInv, NEW h \in Harts, NEW f \in Frames, page_dealloc(h, f) PROVE FInv'
<1>1. /\ tables[f] > 0 /\ tables' = [tables EXCEPT ![f] = @ - 1]
      /\ bits' = Dealloc(f) /\ clearing' = [clearing EXCEPT ![h] = f] /\ failed' = 0
      /\ UNCHANGED <<trackers, dropping, written, halted>>
  BY DEF page_dealloc
<1>2. /\ trackers \in [Frames -> Nat] /\ tables \in [Frames -> Nat]
      /\ bits \in [Region -> SUBSET Nat] /\ clearing \in [Harts -> Frames \cup {NoFrame}]
  BY DEF FInv, TypeOK
<1>3. trackers[f] = 0 /\ tables[f] = 1 /\ ~Dropping(f)
  BY <1>1, <1>2 DEF FInv, OneOwner, Owned
<1>4. tables' \in [Frames -> Nat] /\ clearing' \in [Harts -> Frames \cup {NoFrame}]
  BY <1>1, <1>2, <1>3
<1>5. bits' \in [Region -> SUBSET Nat]
  BY <1>1, <1>2 DEF Dealloc
<1>6. TypeOK'
  BY <1>1, <1>4, <1>5 DEF FInv, TypeOK
<1>7. \A g \in Frames : Dropping(g)' <=> Dropping(g)
  BY <1>1 DEF Dropping
<1>8. ~Owned(f)' /\ \A g \in Frames \ {f} : trackers'[g] = trackers[g] /\ tables'[g] = tables[g]
  BY <1>1, <1>2, <1>3 DEF Owned
<1>9. OneOwner'
  <2> SUFFICES ASSUME NEW g \in Frames
               PROVE  /\ trackers'[g] + tables'[g] <= 1
                      /\ Dropping(g)' => ~Owned(g)'
                      /\ \A a, b \in Harts : dropping'[a] = g /\ dropping'[b] = g => a = b
    BY DEF OneOwner
  <2>1. CASE g = f
    BY SMTT(30), <1>1, <1>2, <1>3, <1>8, <2>1 DEF FInv, OneOwner
  <2>2. CASE g # f
    BY <1>1, <1>7, <1>8, <2>2 DEF FInv, OneOwner, Owned
  <2> QED BY <2>1, <2>2
<1>10. BitmapExact'
  <2>1. ~InUse(f)'
    BY <1>3, <1>7, <1>8 DEF InUse
  <2>2. \A g \in Frames \ {f} : InUse(g)' <=> InUse(g)
    BY <1>7, <1>8 DEF InUse, Owned
  <2> QED BY SMTT(30), <1>1, <2>1, <2>2, ReleaseInv
<1> QED BY <1>6, <1>9, <1>10 DEF FInv

\* Clearing and writing memory changes no owner and no bit.
LEMMA MemoryInv ==
  ASSUME FInv, NEW h \in Harts, page_clear(h) \/ \E f \in Frames : Write(h, f) PROVE FInv'
<1>1. /\ UNCHANGED <<bits, trackers, tables, dropping, halted>> /\ failed' = 0
      /\ clearing' = clearing \/ clearing' = [clearing EXCEPT ![h] = NoFrame]
      /\ written' \subseteq Frames
  BY DEF page_clear, Write, FInv, TypeOK
<1>2. TypeOK'
  BY <1>1 DEF FInv, TypeOK
<1> QED BY <1>1, <1>2 DEF FInv, OneOwner, BitmapExact, Owned, Dropping


-----------------------------------------------------------------------------
(* Theorems                                                                *)

\* The invariant holds after init.
LEMMA FInit == Init => FInv
<1> SUFFICES ASSUME Init PROVE FInv
  OBVIOUS
<1>1. \A f \in Frames : ~Owned(f) /\ ~Dropping(f)
  BY FrameAssumption DEF Init, Owned, Dropping
<1>2. \A k \in Region : New(k) \in SUBSET Nat
  BY AreaFacts
<1>3. TypeOK
  BY ZenonT(30), <1>2 DEF Init, TypeOK
<1>4. OneOwner
  BY <1>1, FrameAssumption DEF Init, OneOwner, Dropping
<1>5. BitmapIff
  <2> SUFFICES ASSUME NEW k \in Region
               PROVE  /\ New(k) \subseteq bits[k]
                      /\ bits[k] \subseteq Bits(k)
                      /\ \A p \in 0 .. Total(k) - 1 : p \in bits[k] <=> InUse(Lo(k) + p)
    BY DEF BitmapIff
  <2>1. bits[k] = New(k)
    BY DEF Init
  <2> QED BY <1>1, <2>1, AreaFacts, FrameFacts DEF InUse
<1> QED BY <1>3, <1>4, <1>5, BitmapEquiv DEF FInv

\* Every step keeps the invariant.
LEMMA FNext == ASSUME FInv, [Next]_vars PROVE FInv'
<1>1. CASE UNCHANGED vars
  BY <1>1 DEF vars, FInv, TypeOK, OneOwner, BitmapExact, Owned, Dropping
<1>2. CASE Next
  BY <1>2, FrameAllocInv, PageAllocInv, FrameAllocMuchInv, DropClearInv, DropDeallocInv,
     PageDeallocInv, MemoryInv DEF Next
<1> QED BY <1>1, <1>2

\* However many harts share the allocator, the bitmaps are exact and no frame
\* has two owners.
THEOREM FrameInvariant == Spec => []FInv
<1>1. FInv /\ [Next]_vars => FInv'
  BY FNext
<1> QED BY FInit, <1>1, PTL DEF Spec

\* No frame is handed out twice (alloc, alloc_much, dealloc).
THEOREM OneOwnerTheorem == Spec => []OneOwner
<1>1. FInv => OneOwner
  BY DEF FInv
<1> QED BY FrameInvariant, <1>1, PTL

\* No frame is lost and none beyond the end of a region is given.
THEOREM BitmapExactTheorem == Spec => []BitmapExact
<1>1. FInv => BitmapExact
  BY DEF FInv
<1> QED BY FrameInvariant, <1>1, PTL

\* Too few free pages leave no room for a run.
LEMMA CountFacts ==
  ASSUME FInv, NEW k \in Region, NEW n \in Nat, n > get_free_page_count(k),
         NEW s \in 0 .. Total(k) - 1, s + n <= Total(k)
  PROVE  \E x \in s .. s + n - 1 : x \in bits[k]
<1> DEFINE F == Bits(k) \ bits[k]
<1>1. SUFFICES ASSUME (s .. s + n - 1) \cap bits[k] = {} PROVE FALSE
  OBVIOUS
<1>2. Total(k) \in Nat /\ 0 .. Total(k) - 1 \subseteq Bits(k)
  BY AreaFacts
<1>3. (s .. s + n - 1) \subseteq F
  BY <1>1, <1>2
<1>4. IsFiniteSet(F)
  <2>1. ((Total(k) + Width - 1) \div Width) \in Nat /\ Width \in Nat
    BY <1>2, RoundUp, FrameAssumption
  <2>2. PICK m \in Int : m = ((Total(k) + Width - 1) \div Width) * Width - 1
    BY <2>1
  <2>3. Bits(k) = 0 .. m
    BY <2>2 DEF Bits
  <2>4. IsFiniteSet(Bits(k))
    BY <2>3, FS_Interval
  <2> QED BY <2>4, FS_Subset
<1>5. Cardinality(s .. s + n - 1) = n
  <2>1. s \in Int /\ s + n - 1 \in Int
    OBVIOUS
  <2> QED BY <2>1, FS_Interval
<1>6. Cardinality(s .. s + n - 1) <= Cardinality(F) /\ Cardinality(F) \in Nat
  BY <1>3, <1>4, FS_Subset, FS_CardinalityType
<1> QED BY <1>5, <1>6 DEF get_free_page_count

\* An allocation fails only if every run of that length has a frame in use.
LEMMA FailsNext == ASSUME FInv, FInv', FailsOnlyFull, [Next]_vars PROVE FailsOnlyFull'
<1>0. BitmapIff
  BY BitmapEquiv DEF FInv
<1>1. CASE failed' = 0
  BY <1>1 DEF FailsOnlyFull
<1>2. CASE UNCHANGED vars
  BY <1>2 DEF vars, FailsOnlyFull, Owned, Dropping
<1>3. ASSUME failed' = 1, FreeRegions = {}, UNCHANGED <<bits, trackers, tables, dropping>>
      PROVE  FailsOnlyFull'
  <2> SUFFICES ASSUME NEW k \in Region, NEW s \in 0 .. Total(k) - 1
               PROVE  \E x \in s .. s + 1 - 1 : Owned(Lo(k) + x)' \/ Dropping(Lo(k) + x)'
    BY <1>3 DEF FailsOnlyFull
  <2>1. s \in bits[k]
    BY <1>3, AreaFacts DEF FreeRegions
  <2>2. InUse(Lo(k) + s)
    BY <1>0, <2>1 DEF BitmapIff
  <2>3. Owned(Lo(k) + s)' \/ Dropping(Lo(k) + s)'
    BY <1>3, <2>2 DEF InUse, Owned, Dropping
  <2>4. s \in s .. s + 1 - 1
    OBVIOUS
  <2> QED BY <2>3, <2>4
<1>4. ASSUME NEW n \in Nat, n > 0, failed' = n, \A k \in Region : Fits(k, n) = {},
             UNCHANGED <<bits, trackers, tables, dropping>>
      PROVE  FailsOnlyFull'
  <2> SUFFICES ASSUME NEW k \in Region, NEW s \in 0 .. Total(k) - 1, s + n <= Total(k)
               PROVE  \E x \in s .. s + n - 1 : Owned(Lo(k) + x)' \/ Dropping(Lo(k) + x)'
    BY <1>4 DEF FailsOnlyFull
  <2>1. Total(k) \in Nat
    BY AreaFacts
  <2>2. PICK x \in s .. s + n - 1 : x \in bits[k]
    <3>1. CASE n > get_free_page_count(k)
      BY <3>1, CountFacts
    <3>2. CASE ~(n > get_free_page_count(k))
      <4>0. ~(n > Total(k))
        BY <2>1
      <4>1. Starts(bits[k], Total(k), n) = {}
        BY <1>4, <3>2, <4>0 DEF Fits
      <4>2. ({s} \cup (s .. s + n - 1)) \cap bits[k] # {}
        BY <4>1 DEF Starts
      <4>3. s \in s .. s + n - 1
        BY <1>4
      <4> QED BY <4>2, <4>3
    <3> QED BY <3>1, <3>2
  <2>3. x \in 0 .. Total(k) - 1
    BY <2>1
  <2>4. InUse(Lo(k) + x)
    BY <1>0, <2>2, <2>3 DEF BitmapIff
  <2>5. Owned(Lo(k) + x)' \/ Dropping(Lo(k) + x)'
    BY <1>4, <2>4 DEF InUse, Owned, Dropping
  <2> QED BY <2>5
<1>5. ASSUME NEW h \in Harts, frame_alloc(h) \/ page_alloc(h) PROVE FailsOnlyFull'
  BY <1>1, <1>3, <1>5 DEF frame_alloc, page_alloc
<1>6. ASSUME NEW h \in Harts, NEW n \in 0 .. MaxRun, frame_alloc_much(h, n) PROVE FailsOnlyFull'
  <2>1. n \in Nat
    BY FrameAssumption
  <2>2. CASE n = 0
    BY <1>1, <1>6, <2>2 DEF frame_alloc_much
  <2>3. CASE n > 0
    <3>1. \/ failed' = 0
          \/ /\ failed' = n /\ UNCHANGED <<bits, trackers, tables, dropping>>
             /\ \A k \in Region : Fits(k, n) = {}
      BY <1>6 DEF frame_alloc_much
    <3> QED BY <1>1, <1>4, <2>1, <2>3, <3>1
  <2> QED BY <2>1, <2>2, <2>3
<1>7. ASSUME NEW h \in Harts,
             \/ drop_dealloc(h) \/ page_clear(h)
             \/ \E f \in Frames : drop_clear(h, f) \/ page_dealloc(h, f) \/ Write(h, f)
      PROVE  FailsOnlyFull'
  BY <1>1, <1>7 DEF drop_dealloc, page_clear, drop_clear, page_dealloc, Write
<1> QED BY <1>2, <1>5, <1>6, <1>7 DEF Next

\* frame_alloc, PageAllocImpl::alloc and alloc_much fail only for want of room.
THEOREM FailsOnlyFullTheorem == Spec => []FailsOnlyFull
<1>1. Init => FailsOnlyFull
  BY DEF Init, FailsOnlyFull
<1>2. FInv /\ FInv' /\ FailsOnlyFull /\ [Next]_vars => FailsOnlyFull'
  BY FailsNext
<1> QED BY FrameInvariant, <1>1, <1>2, PTL DEF Spec


\* Every step leaves the free frames cleared.
LEMMA ClearedNext == ASSUME FInv, FreeIsCleared, [Next]_vars PROVE FreeIsCleared'
<1>1. /\ trackers \in [Frames -> Nat] /\ tables \in [Frames -> Nat]
      /\ clearing \in [Harts -> Frames \cup {NoFrame}] /\ NoFrame \notin Frames
  BY FrameAssumption DEF FInv, TypeOK
<1>2. FInv'
  BY FNext
<1>3. ASSUME NEW f \in Frames, f \in written, Owned(f), trackers'[f] >= trackers[f], tables'[f] >= tables[f]
      PROVE  Owned(f)'
  <2>1. /\ trackers[f] \in Nat /\ tables[f] \in Nat /\ trackers'[f] \in Nat /\ tables'[f] \in Nat
    BY <1>2 DEF FInv, TypeOK
  <2> QED BY <1>3, <2>1 DEF Owned
<1>4. ASSUME written' = written, clearing' = clearing,
             \A f \in Frames : trackers'[f] >= trackers[f] /\ tables'[f] >= tables[f]
      PROVE  FreeIsCleared'
  BY <1>3, <1>4 DEF FreeIsCleared, Clearing
<1>5. CASE UNCHANGED vars
  BY <1>5 DEF vars, FreeIsCleared, Owned, Clearing
<1>6. ASSUME NEW h \in Harts, frame_alloc(h) PROVE FreeIsCleared'
  <2>1. \A f \in Frames : trackers'[f] >= trackers[f] /\ tables'[f] >= tables[f]
    BY <1>1, <1>6 DEF frame_alloc
  <2> QED BY <1>4, <1>6, <2>1 DEF frame_alloc
<1>7. ASSUME NEW h \in Harts, page_alloc(h) PROVE FreeIsCleared'
  <2>1. \A f \in Frames : trackers'[f] >= trackers[f] /\ tables'[f] >= tables[f]
    BY <1>1, <1>7 DEF page_alloc
  <2> QED BY <1>4, <1>7, <2>1 DEF page_alloc
<1>8. ASSUME NEW h \in Harts, NEW n \in 0 .. MaxRun, frame_alloc_much(h, n) PROVE FreeIsCleared'
  <2>1. \A f \in Frames : trackers'[f] >= trackers[f] /\ tables'[f] >= tables[f]
    <3>1. tables' = tables /\ \A f \in Frames : trackers[f] \in Nat /\ tables[f] \in Nat
      BY <1>1, <1>8 DEF frame_alloc_much
    <3>2. \A f \in Frames : trackers'[f] = trackers[f] \/ trackers'[f] = trackers[f] + 1
      BY ZenonT(30), <1>8 DEF frame_alloc_much
    <3> QED BY <3>1, <3>2
  <2> QED BY <1>4, <1>8, <2>1 DEF frame_alloc_much
<1>9. ASSUME NEW h \in Harts, NEW f \in Frames, drop_clear(h, f) PROVE FreeIsCleared'
  <2>1. written' = written \ {f} /\ clearing' = clearing
        /\ \A g \in Frames \ {f} : trackers'[g] = trackers[g] /\ tables'[g] = tables[g]
    BY <1>1, <1>9 DEF drop_clear
  <2> QED BY <2>1 DEF FreeIsCleared, Owned, Clearing
<1>10. ASSUME NEW h \in Harts, drop_dealloc(h) PROVE FreeIsCleared'
  BY <1>10 DEF drop_dealloc, FreeIsCleared, Owned, Clearing
<1>11. ASSUME NEW h \in Harts, NEW f \in Frames, page_dealloc(h, f) PROVE FreeIsCleared'
  <2>1. /\ written' = written /\ \A a \in Harts : clearing'[a] = IF a = h THEN f ELSE clearing[a]
        /\ \A g \in Frames \ {f} : trackers'[g] = trackers[g] /\ tables'[g] = tables[g]
        /\ clearing[h] = NoFrame
    BY <1>1, <1>11 DEF page_dealloc, Idle
  <2> QED BY <1>1, <2>1 DEF FreeIsCleared, Owned, Clearing
<1>12. ASSUME NEW h \in Harts, page_clear(h) PROVE FreeIsCleared'
  <2>1. /\ written' = written \ {clearing[h]} /\ UNCHANGED <<trackers, tables>>
        /\ \A a \in Harts : clearing'[a] = IF a = h THEN NoFrame ELSE clearing[a]
    BY <1>1, <1>12 DEF page_clear
  <2> QED BY <2>1 DEF FreeIsCleared, Owned, Clearing
<1>13. ASSUME NEW h \in Harts, NEW f \in Frames, Write(h, f) PROVE FreeIsCleared'
  BY <1>13 DEF Write, FreeIsCleared, Owned, Clearing
<1> QED BY <1>5, <1>6, <1>7, <1>8, <1>9, <1>10, <1>11, <1>12, <1>13 DEF Next

\* On one hart nobody has a frame that is about to be cleared.
ClearsFree == \A h \in Harts, f \in Frames : clearing[h] = f => ~Owned(f)

\* With one hart, a drop clears a frame that nobody else holds.
LEMMA ClearsFreeNext ==
  ASSUME NEW CONSTANT hart, Harts = {hart}, FInv, FInv', ClearsFree, [Next]_vars
  PROVE  ClearsFree'
<1>1. /\ trackers \in [Frames -> Nat] /\ tables \in [Frames -> Nat]
      /\ clearing \in [Harts -> Frames \cup {NoFrame}] /\ NoFrame \notin Frames
  BY SMTT(30), FrameAssumption DEF FInv, TypeOK
<1>2. ASSUME clearing[hart] = NoFrame, clearing' = clearing PROVE ClearsFree'
  BY <1>1, <1>2 DEF ClearsFree
<1>3. CASE UNCHANGED vars
  BY <1>3 DEF vars, ClearsFree, Owned
<1>4. ASSUME NEW h \in Harts,
             \/ frame_alloc(h) \/ page_alloc(h) \/ \E n \in 0 .. MaxRun : frame_alloc_much(h, n)
             \/ \E f \in Frames : drop_clear(h, f) \/ Write(h, f)
      PROVE  ClearsFree'
  <2>1. h = hart
    OBVIOUS
  <2> QED BY ZenonT(30), <1>2, <1>4, <2>1
          DEF frame_alloc, page_alloc, frame_alloc_much, drop_clear, Write, Idle
<1>5. ASSUME NEW h \in Harts, drop_dealloc(h) PROVE ClearsFree'
  BY <1>5 DEF drop_dealloc, ClearsFree, Owned
<1>6. ASSUME NEW h \in Harts, NEW f \in Frames, page_dealloc(h, f) PROVE ClearsFree'
  <2>1. clearing'[hart] = f
    BY <1>1, <1>6 DEF page_dealloc
  <2>2. tables[f] > 0 /\ tables[f] + trackers[f] <= 1 /\ tables'[f] = tables[f] - 1 /\ trackers'[f] = trackers[f]
    BY <1>1, <1>6 DEF page_dealloc, FInv, OneOwner
  <2>3. ~Owned(f)'
    BY <1>1, <2>2 DEF Owned
  <2> QED BY <2>1, <2>3 DEF ClearsFree
<1>7. ASSUME NEW h \in Harts, page_clear(h) PROVE ClearsFree'
  <2>1. clearing'[hart] = NoFrame
    BY <1>1, <1>7 DEF page_clear
  <2> QED BY <1>1, <2>1 DEF ClearsFree
<1> QED BY <1>3, <1>4, <1>5, <1>6, <1>7 DEF Next


\* A frame that nobody has was cleared or is about to be, on any number of harts.
THEOREM FreeIsClearedTheorem == Spec => []FreeIsCleared
<1>1. Init => FreeIsCleared
  BY DEF Init, FreeIsCleared
<1>2. FInv /\ FreeIsCleared /\ [Next]_vars => FreeIsCleared'
  BY ClearedNext
<1> QED BY FrameInvariant, <1>1, <1>2, PTL DEF Spec

\* With one hart this holds throughout.
LEMMA ClearsFreeAlways ==
  ASSUME NEW CONSTANT hart, Harts = {hart}
  PROVE  Spec => []ClearsFree
<1>1. Init => ClearsFree
  BY FrameAssumption DEF Init, ClearsFree
<1>2. FInv /\ FInv' /\ ClearsFree /\ [Next]_vars => ClearsFree'
  BY ClearsFreeNext
<1> QED BY FrameInvariant, <1>1, <1>2, PTL DEF Spec

\* On one hart a frame that is handed out holds nothing its last owner wrote.
THEOREM HandedOutClearedTheorem ==
  ASSUME NEW CONSTANT hart, Harts = {hart}
  PROVE  Spec => HandedOutCleared
<1> DEFINE A == \A f \in Frames : ~Owned(f) /\ trackers'[f] + tables'[f] > 0 => f \notin written'
<1>1. ASSUME FInv, FreeIsCleared, [Next]_vars PROVE [A]_vars
  <2>0. /\ trackers \in [Frames -> Nat] /\ tables \in [Frames -> Nat] /\ NoFrame \notin Frames
    BY <1>1, FrameAssumption DEF FInv, TypeOK
  <2>1. ASSUME \A f \in Frames : trackers'[f] + tables'[f] <= trackers[f] + tables[f] PROVE A
    <3> SUFFICES ASSUME NEW f \in Frames, ~Owned(f), trackers'[f] + tables'[f] > 0 PROVE FALSE
      OBVIOUS
    <3>1. trackers[f] + tables[f] = 0
      BY <2>0 DEF Owned
    <3>2. FInv'
      BY <1>1, FNext
    <3>3. trackers'[f] \in Nat /\ tables'[f] \in Nat
      BY <3>2 DEF FInv, TypeOK
    <3> QED BY <2>1, <3>1, <3>3
  <2>2. ASSUME Idle(hart), written' = written PROVE A
    <3>1. \A f \in Frames : ~Clearing(f)
      BY SMTT(30), <2>0, <2>2 DEF Idle, Clearing
    <3> QED BY <1>1, <2>2, <3>1 DEF FreeIsCleared
  <2>3. ASSUME NEW h \in Harts,
               frame_alloc(h) \/ page_alloc(h) \/ \E n \in 0 .. MaxRun : frame_alloc_much(h, n)
        PROVE  A
    <3>1. h = hart
      OBVIOUS
    <3> QED BY ZenonT(30), <2>2, <2>3, <3>1 DEF frame_alloc, page_alloc, frame_alloc_much
  <2>4. ASSUME NEW h \in Harts, NEW f \in Frames, drop_clear(h, f) PROVE A
    <3>1. \A g \in Frames : trackers'[g] + tables'[g] <= trackers[g] + tables[g]
      BY <2>0, <2>4 DEF drop_clear
    <3> QED BY <2>1, <3>1
  <2>5. ASSUME NEW h \in Harts, NEW f \in Frames, page_dealloc(h, f) PROVE A
    <3>1. \A g \in Frames : trackers'[g] + tables'[g] <= trackers[g] + tables[g]
      BY <2>0, <2>5 DEF page_dealloc
    <3> QED BY <2>1, <3>1
  <2>6. ASSUME NEW h \in Harts,
               drop_dealloc(h) \/ page_clear(h) \/ \E f \in Frames : Write(h, f)
        PROVE  A
    <3>1. UNCHANGED <<trackers, tables>>
      BY <2>6 DEF drop_dealloc, page_clear, Write
    <3>2. \A g \in Frames : trackers'[g] + tables'[g] <= trackers[g] + tables[g]
      BY <2>0, <3>1
    <3> QED BY SMTT(30), <2>1, <3>2
  <2> QED BY <1>1, <2>3, <2>4, <2>5, <2>6 DEF Next
<1> QED BY FrameInvariant, FreeIsClearedTheorem, <1>1, PTL DEF Spec, HandedOutCleared

\* On one hart nobody but the owner of a frame clears it.
THEOREM OwnerKeepsContentsTheorem ==
  ASSUME NEW CONSTANT hart, Harts = {hart}
  PROVE  Spec => OwnerKeepsContents
<1> DEFINE A == \A f \in Frames :
                  f \in written /\ Owned(f) /\ f \notin written'
                  => trackers'[f] + tables'[f] < trackers[f] + tables[f]
<1>1. ASSUME FInv, ClearsFree, [Next]_vars PROVE [A]_vars
  <2>0. /\ trackers \in [Frames -> Nat] /\ tables \in [Frames -> Nat]
    BY <1>1 DEF FInv, TypeOK
  <2>1. ASSUME written \subseteq written' PROVE A
    BY <2>1
  <2>2. ASSUME NEW h \in Harts, NEW f \in Frames, drop_clear(h, f) PROVE A
    <3>1. trackers'[f] + tables'[f] < trackers[f] + tables[f] /\ written' = written \ {f}
      BY <2>0, <2>2 DEF drop_clear
    <3> QED BY <3>1
  <2>3. ASSUME NEW h \in Harts, page_clear(h) PROVE A
    BY <1>1, <2>3 DEF page_clear, ClearsFree
  <2>4. ASSUME NEW h \in Harts,
               \/ frame_alloc(h) \/ page_alloc(h) \/ drop_dealloc(h)
               \/ \E n \in 0 .. MaxRun : frame_alloc_much(h, n)
               \/ \E f \in Frames : page_dealloc(h, f) \/ Write(h, f)
        PROVE  A
    <3>1. written \subseteq written'
      BY ZenonT(30), <2>4 DEF frame_alloc, page_alloc, drop_dealloc, frame_alloc_much, page_dealloc, Write
    <3> QED BY SMTT(30), <2>1, <3>1
  <2> QED BY ZenonT(30), <1>1, <2>2, <2>3, <2>4 DEF Next
<1> QED BY FrameInvariant, ClearsFreeAlways, <1>1, PTL DEF Spec, OwnerKeepsContents

(***************************************************************************)
(* The scan of one region: alloc_much finds the lowest run of free pages,  *)
(* for every bitmap and every number of pages asked for.                   *)
(***************************************************************************)
\* A lower bound of a set of numbers that is in it is its lowest element.
LEMMA LowestIs ==
  ASSUME NEW S \in SUBSET Nat, NEW x \in S, \A y \in S : x <= y
  PROVE  Lowest(S) = x
<1>1. \E z \in S : \A y \in S : z <= y
  OBVIOUS
<1>2. Lowest(S) \in S /\ \A y \in S : Lowest(S) <= y
  BY <1>1 DEF Lowest
<1>3. Lowest(S) <= x /\ x <= Lowest(S) /\ Lowest(S) \in Nat /\ x \in Nat
  BY <1>2
<1> QED BY <1>3

\* free_page_count never rules out a run that exists.
LEMMA FreeCount ==
  ASSUME ScanTypeOK, pc = "check", pages > total_pages \/ pages > free_page_count
  PROVE  Runs = {}
<1> USE ScanAssumption
<1> DEFINE F == (0 .. total_pages - 1) \ used
<1>1. CASE pages > total_pages
  BY <1>1 DEF ScanTypeOK, Runs, Starts
<1>2. CASE pages > free_page_count
  <2>1. SUFFICES ASSUME NEW s \in Runs PROVE FALSE
    OBVIOUS
  <2>2. /\ s \in Nat /\ pages \in Nat /\ s + pages <= total_pages
        /\ (s .. s + pages - 1) \cap used = {}
    BY <2>1 DEF Runs, Starts, ScanTypeOK
  <2>3. (s .. s + pages - 1) \subseteq F
    BY <2>2
  <2>4. IsFiniteSet(F)
    <3>1. IsFiniteSet(0 .. total_pages - 1)
      <4>1. 0 \in Int /\ total_pages - 1 \in Int
        OBVIOUS
      <4> QED BY <4>1, FS_Interval
    <3>2. F \in SUBSET (0 .. total_pages - 1)
      OBVIOUS
    <3> QED BY <3>1, <3>2, FS_Subset
  <2>5. Cardinality(s .. s + pages - 1) = pages
    <3>1. CASE pages = 0
      BY <3>1, <2>2, FS_Interval
    <3>2. CASE pages # 0
      BY <3>2, <2>2, FS_Interval
    <3> QED BY <3>1, <3>2
  <2>6. Cardinality(s .. s + pages - 1) <= Cardinality(F)
    BY <2>3, <2>4, FS_Subset
  <2>7. Cardinality(F) \in Nat
    BY <2>4, FS_CardinalityType
  <2> QED BY <1>2, <2>2, <2>5, <2>6, <2>7 DEF free_page_count
<1> QED BY <1>1, <1>2, ScanAssumption

\* The scan's invariant holds where a scan starts.
LEMMA InitScan == ScanInit => ScanInv
<1> SUFFICES ASSUME ScanInit PROVE ScanInv
  OBVIOUS
<1> QED BY ScanAssumption DEF ScanInit, ScanInv, ScanTypeOK, Window, ScanExact, NoRun

\* The early returns keep the scan's invariant.
LEMMA CheckScan == ASSUME ScanInv, Check PROVE ScanInv'
<1> USE ScanAssumption
<1>1. ScanTypeOK'
  BY DEF ScanInv, ScanTypeOK, Check
<1>2. Runs' = Runs
  BY DEF Check, Runs
<1>3. CASE pages > total_pages \/ pages > free_page_count
  <2>1. Runs = {}
    BY <1>3, FreeCount DEF ScanInv, Check
  <2>2. pc' = "done" /\ ans' = NoRun /\ used' = entry'
    BY <1>3 DEF Check, ScanInv, ScanTypeOK
  <2> QED BY <1>1, <1>2, <2>1, <2>2 DEF ScanInv, Window, ScanExact
<1>4. CASE ~(pages > total_pages \/ pages > free_page_count)
  <2>1. pc' = "scan" /\ i' = 0 /\ consecutive_start' = 0 /\ consecutive_count' = 0
    BY <1>4 DEF Check, ScanInv, ScanTypeOK
  <2>2. \A s \in Runs : s >= 0
    BY DEF Runs, Starts
  <2>3. Window'
    BY <1>2, <2>1, <2>2 DEF Window
  <2> QED BY <1>1, <2>1, <2>3 DEF ScanInv, ScanExact
<1> QED BY <1>3, <1>4

\* No run starts before a used page that was not reached yet.
LEMMA UsedScan == ASSUME ScanInv, ScanUsed PROVE ScanInv'
<1> USE ScanAssumption
<1>1. ScanTypeOK'
  BY DEF ScanInv, ScanTypeOK, ScanUsed
<1>2. Runs' = Runs
  BY DEF ScanUsed, Runs
<1>3. \A s \in Runs : s >= i + 1
  <2>1. SUFFICES ASSUME NEW s \in Runs, ~(s >= i + 1) PROVE FALSE
    OBVIOUS
  <2>2. /\ s \in Nat /\ pages \in Nat /\ i \in Nat /\ consecutive_start \in Nat /\ consecutive_count \in Nat
        /\ s \notin used /\ \A x \in s .. s + pages - 1 : x \notin used
    BY <2>1 DEF Runs, Starts, ScanInv, ScanTypeOK, ScanUsed
  <2>3. s >= consecutive_start /\ consecutive_start + consecutive_count = i
        /\ (consecutive_count = 0 \/ consecutive_count < pages)
    BY <2>1 DEF ScanInv, Window, ScanUsed
  <2>4. i \in used
    BY DEF ScanUsed
  <2>5. i # s
    BY <2>2, <2>4
  <2>6. i \in s .. s + pages - 1
    BY <2>1, <2>2, <2>3, <2>5
  <2> QED BY <2>2, <2>4, <2>6
<1>4. Window'
  BY <1>2, <1>3 DEF Window, ScanUsed, ScanInv, ScanTypeOK
<1> QED BY <1>1, <1>4 DEF ScanInv, ScanExact, ScanUsed

\* A free page keeps it.
LEMMA FreeScan == ASSUME ScanInv, ScanFree PROVE ScanInv'
<1> USE ScanAssumption
<1>1. ScanTypeOK'
  BY DEF ScanInv, ScanTypeOK, ScanFree
<1>2. Runs' = Runs
  BY DEF ScanFree, Runs
<1>3. Window'
  BY <1>2 DEF Window, ScanFree, ScanInv, ScanTypeOK
<1> QED BY <1>1, <1>3 DEF ScanInv, ScanExact, ScanFree

\* The page that completes the run keeps it.
LEMMA FoundScan == ASSUME ScanInv, Found PROVE ScanInv'
<1> USE ScanAssumption
<1>1. ScanTypeOK'
  BY DEF ScanInv, ScanTypeOK, Window, Found
<1>2. Runs' = Runs
  BY DEF Found, Runs
<1>3. /\ used = entry /\ i \in Nat /\ pages \in Nat /\ consecutive_start \in Nat /\ consecutive_count \in Nat
      /\ i < total_pages /\ i \notin used /\ consecutive_count + 1 >= pages
      /\ consecutive_start + consecutive_count = i
      /\ (consecutive_start .. i - 1) \cap used = {}
      /\ consecutive_count = 0 \/ consecutive_count < pages
  BY DEF ScanInv, ScanTypeOK, Window, Found
<1>4. consecutive_start \in Runs
  <2>1. consecutive_start \in 0 .. total_pages - 1 /\ consecutive_start + pages <= total_pages
    BY <1>3
  <2>2. consecutive_start \notin used
    BY <1>3
  <2>3. ASSUME NEW x \in consecutive_start .. consecutive_start + pages - 1 PROVE x \notin used
    BY <1>3, <2>3
  <2> QED BY <1>3, <2>1, <2>2, <2>3 DEF Runs, Starts
<1>5. Lowest(Runs) = consecutive_start
  <2>1. Runs \in SUBSET Nat
    BY DEF Runs, Starts
  <2>2. \A s \in Runs : consecutive_start <= s
    BY <2>1, <1>3 DEF ScanInv, Window, Found
  <2> QED BY <1>4, <2>1, <2>2, LowestIs
<1>6. ScanExact'
  BY <1>2, <1>3, <1>4, <1>5 DEF ScanExact, Found
<1> QED BY <1>1, <1>6 DEF ScanInv, Window, Found

\* The end of a region without a run keeps it.
LEMMA ExhaustedScan == ASSUME ScanInv, Exhausted PROVE ScanInv'
<1> USE ScanAssumption
<1>1. ScanTypeOK'
  BY DEF ScanInv, ScanTypeOK, Exhausted
<1>2. Runs' = Runs
  BY DEF Exhausted, Runs
<1>3. Runs = {}
  <2>1. SUFFICES ASSUME NEW s \in Runs PROVE FALSE
    OBVIOUS
  <2>2. /\ s \in 0 .. total_pages - 1 /\ s + pages <= total_pages /\ s >= consecutive_start
        /\ pages \in Nat /\ consecutive_start \in Nat /\ consecutive_count \in Nat /\ i \in Nat
    <3>1. s \in 0 .. total_pages - 1 /\ s + pages <= total_pages
      BY <2>1 DEF Runs, Starts
    <3>2. s >= consecutive_start
      BY <2>1 DEF ScanInv, Window, Exhausted
    <3>3. pages \in Nat /\ consecutive_start \in Nat /\ consecutive_count \in Nat /\ i \in Nat
      BY DEF ScanInv, ScanTypeOK
    <3> QED BY <3>1, <3>2, <3>3
  <2>3. /\ i = total_pages /\ consecutive_start + consecutive_count = i
        /\ consecutive_count = 0 \/ consecutive_count < pages
    BY <2>2 DEF ScanInv, ScanTypeOK, Window, Exhausted
  <2> QED BY <2>2, <2>3
<1>4. ScanExact'
  BY <1>2, <1>3 DEF ScanExact, Exhausted, ScanInv, ScanTypeOK
<1> QED BY <1>1, <1>4 DEF ScanInv, Window, Exhausted

\* Whatever pages are in use and however many are asked for, alloc_much answers
\* the lowest run and marks exactly it, or answers NoRun and there is none.
THEOREM ScanTheorem == ScanSafety => []ScanExact
<1>1. ASSUME ScanInv, [ScanNext]_scanVars PROVE ScanInv'
  <2>1. CASE UNCHANGED scanVars
    BY <1>1, <2>1 DEF scanVars, ScanInv, ScanTypeOK, Window, ScanExact, Runs
  <2> QED BY <1>1, <2>1, CheckScan, UsedScan, FreeScan, FoundScan, ExhaustedScan DEF ScanNext
<1>2. ScanInv => ScanExact
  BY DEF ScanInv
<1> QED BY InitScan, <1>1, <1>2, PTL DEF ScanSafety
=============================================================================
