----------------------------- MODULE MemoryProofs -----------------------------
(***************************************************************************)
(* Proofs about the two memory allocators: the page allocator, for every   *)
(* set of memory maps that satisfies MemMapAssumption and every width of    *)
(* the counters, and the kernel heap, for every heap size, request and      *)
(* count, its block list well formed and an implementation of HeapSpec.     *)
(***************************************************************************)
EXTENDS Pmm, KHeap, FiniteSetTheorems, TLAPS

----------------------------------------------------------------------------
(* The page allocator.                                                      *)

(* The invariants of the model, as one inductive invariant: the exactness  *)
(* of the count needs the page given out to be free, out-of-memory needs    *)
(* the two passes to cover every page.                                      *)
PmmInv ==
  /\ PmmTypeOK
  /\ FreeCountExact
  /\ NoFreeBelowHint
  /\ OutOfMemoryIsReal
  /\ OwnedStaysUsed
  /\ ReservedNeverGranted
  /\ NoPageLeaks

(* A remainder of a number already in range is the number.                  *)
LEMMA ModSmall ==
  ASSUME NEW M \in Nat \ {0}, NEW x \in 0 .. (M - 1)
  PROVE  x % M = x
  BY SMT

LEMMA ModRange ==
  ASSUME NEW M \in Nat \ {0}, NEW x \in Int
  PROVE  x % M \in 0 .. (M - 1)
  BY SMT

(* Tracked pages are finitely many, so every set of them has a cardinality  *)
(* that fits the counter.                                                   *)
LEMMA TrackedFinite ==
  ASSUME NEW mm \in MemMaps, NEW S, S \subseteq 0 .. (TotalPages(mm) - 1)
  PROVE  /\ IsFiniteSet(S)
         /\ Cardinality(S) \in 0 .. TotalPages(mm)
         /\ Cardinality(S) \in 0 .. (CountMod - 1)
<1> DEFINE n == TotalPages(mm)
<1>1. n \in Nat \ {0} /\ n < CountMod
  BY MemMapAssumption
<1> HIDE DEF n
<1>2. IsFiniteSet(0 .. (n - 1)) /\ Cardinality(0 .. (n - 1)) = n
  BY <1>1, FS_Interval
<1>3. S \in SUBSET (0 .. (n - 1))
  BY DEF n
<1>4. IsFiniteSet(S) /\ Cardinality(S) <= Cardinality(0 .. (n - 1))
  BY <1>2, <1>3, FS_Subset
<1>5. Cardinality(S) \in Nat
  BY <1>4, FS_CardinalityType
<1>6. Cardinality(S) \in 0 .. n
  BY <1>2, <1>4, <1>5, <1>1
<1>7. Cardinality(S) \in 0 .. (CountMod - 1)
  BY <1>6, <1>1, WidthAssumption
<1>8. QED
  BY <1>4, <1>6, <1>7 DEF n

(* Taking a subset away from a finite set subtracts its cardinality.        *)
LEMMA CardinalityDifference ==
  ASSUME NEW S, IsFiniteSet(S), NEW T, T \subseteq S
  PROVE  Cardinality(S \ T) = Cardinality(S) - Cardinality(T)
<1>1. IsFiniteSet(T) /\ IsFiniteSet(S \ T)
  BY FS_Subset
<1>2. Cardinality((S \ T) \cup T) =
        Cardinality(S \ T) + Cardinality(T) - Cardinality((S \ T) \cap T)
  BY <1>1, FS_Union
<1>3. (S \ T) \cup T = S /\ (S \ T) \cap T = {}
  OBVIOUS
<1>4. Cardinality((S \ T) \cap T) = 0
  BY <1>3, FS_EmptySet
<1>5. Cardinality(S) \in Nat /\ Cardinality(T) \in Nat /\ Cardinality(S \ T) \in Nat
  BY <1>1, FS_CardinalityType
<1>6. Cardinality(S) = Cardinality(S \ T) + Cardinality(T) - 0
  BY <1>2, <1>3, <1>4, Zenon
<1>7. QED
  BY <1>5, <1>6

(* pmm_init establishes the invariant on every map.                         *)
LEMMA PmmInitInv == PmmInit => PmmInv
<1> SUFFICES ASSUME PmmInit PROVE PmmInv
  OBVIOUS
<1> DEFINE R == Reserved(memmap)
           U == UsablePages(memmap)
<1>1. memmap \in MemMaps /\ owned = {} /\ ret = NONE
  BY DEF PmmInit
<1>2. /\ Total \in Nat \ {0}
      /\ U \subseteq Tracked
      /\ R \subseteq Tracked
      /\ hint \in 0 .. Total
      /\ \A p \in U : FirstUsable(memmap).base <= p
  BY <1>1, MemMapAssumption DEF PmmInit, Total, Tracked
<1>3. PICK junk \in SUBSET (Tracked \ InitialisedPages(memmap)) :
        /\ used = Tracked \ ((U \cup junk) \ ((U \cup junk) \cap R))
        /\ free_count = (Cardinality(U \ junk) -
                          Cardinality((U \cup junk) \cap R)) % CountMod
  BY DEF PmmInit
<1> DEFINE nU == Cardinality(U \ junk)
           nT == Cardinality((U \cup junk) \cap R)
<1>4. nU \in Nat /\ nT \in Nat
  <2>1. U \ junk \subseteq Tracked /\ (U \cup junk) \cap R \subseteq Tracked
    BY <1>2, <1>3
  <2>2. QED
    BY <2>1, <1>1, TrackedFinite DEF Tracked, Total
<1>5. PmmTypeOK
  <2>1. free_count \in 0 .. (CountMod - 1)
    BY <1>3, <1>4, ModRange, WidthAssumption
  <2>2. QED
    BY <1>1, <1>2, <1>3, <2>1 DEF PmmTypeOK
<1>6. Covered(memmap) => /\ junk = {}
                         /\ Free = U \ R
  BY <1>2, <1>3 DEF Covered, Tracked, Total, Free
<1>7. FreeCountExact
  <2> SUFFICES ASSUME Covered(memmap) PROVE free_count = Cardinality(Free)
    BY DEF FreeCountExact
  <2>1. U \ junk = U /\ (U \cup junk) \cap R = U \cap R /\ Free = U \ (U \cap R)
    BY <1>6
  <2>2. IsFiniteSet(U)
    BY <1>1, <1>2, TrackedFinite DEF Tracked, Total
  <2>3. Cardinality(U \ (U \cap R)) = Cardinality(U) - Cardinality(U \cap R)
    BY <2>2, CardinalityDifference
  <2>4. free_count = Cardinality(Free) % CountMod
    BY <1>3, <2>1, <2>3
  <2>5. Cardinality(Free) \in 0 .. (CountMod - 1)
    BY <1>1, TrackedFinite DEF Free, Tracked, Total
  <2>6. QED
    BY <2>4, <2>5, ModSmall, WidthAssumption
<1>8. NoFreeBelowHint
  <2> SUFFICES ASSUME Covered(memmap), NEW p \in Free PROVE hint <= p
    BY DEF NoFreeBelowHint
  <2> DEFINE b == FirstUsable(memmap).base
             n == BitmapPages(memmap)
  <2>1. p \in U /\ p \notin R /\ p \in Int
    BY <1>6, <1>2 DEF Tracked
  <2>2. b <= p /\ b \in Nat /\ n \in Nat /\ hint = b + n
    BY <1>1, <1>2, <2>1, MemMapAssumption DEF PmmInit
  <2>3. p \notin b .. (b + n - 1)
    BY <2>1 DEF Reserved, BitmapSpan
  <2>4. QED
    BY <2>1, <2>2, <2>3
<1>9. ReservedNeverGranted /\ NoPageLeaks
  BY <1>1, <1>6 DEF ReservedNeverGranted, NoPageLeaks
<1>10. OutOfMemoryIsReal /\ OwnedStaysUsed
  BY <1>1 DEF OutOfMemoryIsReal, OwnedStaysUsed, OOM, NONE
<1>11. QED
  BY <1>5, <1>7, <1>8, <1>9, <1>10 DEF PmmInv

(* pmm_alloc_page, when it finds page p, preserves the invariant.           *)
LEMMA AllocPagePmmInv ==
  ASSUME PmmInv, NEW p \in Tracked, AllocPage(p)
  PROVE  PmmInv'
<1>1. /\ p \in Free /\ memmap' = memmap
      /\ used' = used \cup {p} /\ owned' = owned \cup {p}
      /\ hint' = p + 1 /\ ret' = p /\ free_count' = (free_count - 1) % CountMod
  BY DEF AllocPage, IsLeast, Pass0, Pass1
<1>2. Total \in Nat \ {0} /\ memmap \in MemMaps
  BY MemMapAssumption DEF PmmInv, PmmTypeOK, Total
<1>3. Total' = Total /\ Tracked' = Tracked /\ Free' = Free \ {p}
  BY <1>1 DEF Total, Tracked, Free
<1>4. PmmTypeOK'
  <2>1. free_count' \in 0 .. (CountMod - 1)
    BY <1>1, ModRange, WidthAssumption DEF PmmInv, PmmTypeOK
  <2>2. hint' \in 0 .. Total'
    BY <1>1, <1>2, <1>3 DEF Tracked
  <2>3. QED
    BY <1>1, <1>3, <2>1, <2>2 DEF PmmInv, PmmTypeOK
<1>5. FreeCountExact'
  <2> SUFFICES ASSUME Covered(memmap) PROVE free_count' = Cardinality(Free')
    BY <1>1 DEF FreeCountExact
  <2>1. IsFiniteSet(Free) /\ Cardinality(Free) \in 0 .. (CountMod - 1)
    BY <1>2, TrackedFinite DEF Free, Tracked, Total
  <2>2. Cardinality(Free') = Cardinality(Free) - 1
    BY <1>1, <1>3, <2>1, FS_RemoveElement
  <2>3. IsFiniteSet(Free') /\ Cardinality(Free') \in 0 .. (CountMod - 1)
    BY <1>2, <1>3, TrackedFinite DEF Free, Tracked, Total
  <2>4. free_count' = Cardinality(Free') % CountMod
    BY <1>1, <2>2 DEF PmmInv, FreeCountExact
  <2>5. QED
    BY <2>3, <2>4, ModSmall, WidthAssumption
<1>6. NoFreeBelowHint'
  <2> SUFFICES ASSUME Covered(memmap), NEW q \in Free' PROVE hint' <= q
    BY <1>1 DEF NoFreeBelowHint
  <2>1. \A r \in Free : hint <= r
    BY DEF PmmInv, NoFreeBelowHint
  <2>2. Pass0 = Free
    BY <2>1 DEF Pass0
  <2>3. IsLeast(p, Pass0)
    BY <1>1, <2>2 DEF AllocPage
  <2>4. p <= q /\ p # q /\ q \in Int /\ p \in Int
    BY <1>3, <2>2, <2>3 DEF IsLeast, Free, Tracked
  <2>5. QED
    BY <1>1, <2>4
<1>7. ReservedNeverGranted' /\ NoPageLeaks'
  BY <1>1, <1>3 DEF PmmInv, ReservedNeverGranted, NoPageLeaks
<1>8. OutOfMemoryIsReal' /\ OwnedStaysUsed'
  <2>1. ret' # OOM
    BY <1>1 DEF Tracked, OOM
  <2>2. QED
    BY <1>1, <1>3, <2>1 DEF PmmInv, OutOfMemoryIsReal, OwnedStaysUsed
<1>9. QED
  BY <1>4, <1>5, <1>6, <1>7, <1>8 DEF PmmInv

(* pmm_alloc_page, when both passes fail, preserves the invariant.          *)
LEMMA AllocFailsPmmInv ==
  ASSUME PmmInv, AllocFails
  PROVE  PmmInv'
<1>1. UNCHANGED <<memmap, used, hint, free_count, owned>> /\ ret' = OOM
  BY DEF AllocFails
<1>2. /\ Total' = Total /\ Tracked' = Tracked /\ Free' = Free
  BY <1>1 DEF Total, Tracked, Free
<1>3. Free = {}
  <2>1. \A p \in Free : hint <= p \/ p < hint
    BY DEF PmmInv, PmmTypeOK, Free, Tracked
  <2>2. QED
    BY <2>1 DEF AllocFails, Pass0, Pass1
<1>4. QED
  BY <1>1, <1>2, <1>3 DEF PmmInv, PmmTypeOK, FreeCountExact, NoFreeBelowHint,
     OutOfMemoryIsReal, OwnedStaysUsed, ReservedNeverGranted, NoPageLeaks

(* pmm_free_page preserves the invariant for the arguments callers pass.    *)
LEMMA FreePagePmmInv ==
  ASSUME PmmInv, NEW a \in FreeArgs, FreePage(a[1], a[2])
  PROVE  PmmInv'
<1> DEFINE p == a[1]
           off == a[2]
<1>1. memmap' = memmap /\ ret' = NONE
  BY DEF FreePage
<1>2. Total \in Nat \ {0} /\ memmap \in MemMaps /\ Total' = Total /\ Tracked' = Tracked
  BY <1>1, MemMapAssumption DEF PmmInv, PmmTypeOK, Total, Tracked
<1>3. CASE FreeIgnored(p, off)
  <2>1. UNCHANGED <<used, hint, free_count, owned>>
    BY <1>3 DEF FreePage
  <2>2. Free' = Free
    BY <1>2, <2>1 DEF Free
  <2>3. QED
    BY <1>1, <1>2, <2>1, <2>2 DEF PmmInv, PmmTypeOK, FreeCountExact, NoFreeBelowHint,
       OutOfMemoryIsReal, OwnedStaysUsed, ReservedNeverGranted, NoPageLeaks,
       OOM, NONE
<1>4. CASE ~FreeIgnored(p, off)
  <2>1. /\ used' = used \ {p} /\ owned' = owned \ {p}
        /\ hint' = (IF p < hint THEN p ELSE hint)
        /\ free_count' = (free_count + 1) % CountMod
    BY <1>4 DEF FreePage
  <2>2. p \in owned /\ p \in Tracked /\ p \in used /\ p \notin Free
    <3>1. p \in used /\ p \in Tracked
      BY <1>4 DEF FreeIgnored, PmmInv, PmmTypeOK
    <3>2. p # 0 /\ p # Total
      <4>1. a[2] = 0 /\ p # 0
        BY <1>4, <3>1 DEF FreeIgnored, FreeArgs
      <4>2. QED
        BY <3>1, <4>1, <1>2 DEF Tracked
    <3>3. QED
      BY <3>1, <3>2 DEF FreeArgs, Free
  <2>3. Free' = Free \cup {p}
    BY <1>2, <2>1, <2>2 DEF Free
  <2>4. PmmTypeOK'
    <3>1. free_count' \in 0 .. (CountMod - 1)
      BY <2>1, ModRange, WidthAssumption DEF PmmInv, PmmTypeOK
    <3>2. hint' \in 0 .. Total
      BY <1>2, <2>1, <2>2 DEF PmmInv, PmmTypeOK, Tracked
    <3>3. QED
      BY <1>1, <1>2, <2>1, <3>1, <3>2 DEF PmmInv, PmmTypeOK
  <2>5. FreeCountExact'
    <3> SUFFICES ASSUME Covered(memmap) PROVE free_count' = Cardinality(Free')
      BY <1>1 DEF FreeCountExact
    <3>1. IsFiniteSet(Free) /\ Cardinality(Free) \in 0 .. (CountMod - 1)
      BY <1>2, TrackedFinite DEF Free, Tracked, Total
    <3>2. Cardinality(Free') = Cardinality(Free) + 1
      BY <2>2, <2>3, <3>1, FS_AddElement
    <3>3. Cardinality(Free') \in 0 .. (CountMod - 1)
      BY <1>2, <2>2, <2>3, TrackedFinite DEF Free, Tracked, Total
    <3>4. free_count' = Cardinality(Free') % CountMod
      BY <2>1, <3>2 DEF PmmInv, FreeCountExact
    <3>5. QED
      BY <3>3, <3>4, ModSmall, WidthAssumption
  <2>6. NoFreeBelowHint'
    <3> SUFFICES ASSUME Covered(memmap), NEW q \in Free' PROVE hint' <= q
      BY <1>1 DEF NoFreeBelowHint
    <3>1. hint \in Int /\ p \in Int /\ q \in Int
      BY <2>2, <2>3 DEF PmmInv, PmmTypeOK, Tracked, Free
    <3>2. q = p \/ hint <= q
      BY <2>3 DEF PmmInv, NoFreeBelowHint
    <3>3. QED
      BY <2>1, <3>1, <3>2
  <2>7. OutOfMemoryIsReal' /\ OwnedStaysUsed' /\ ReservedNeverGranted' /\ NoPageLeaks'
    BY <1>1, <2>1, <2>2, <2>3 DEF PmmInv, OutOfMemoryIsReal, OwnedStaysUsed,
       ReservedNeverGranted, NoPageLeaks, OOM, NONE
  <2>8. QED
    BY <2>4, <2>5, <2>6, <2>7 DEF PmmInv
<1>5. QED
  BY <1>3, <1>4

(* Every step of the allocator preserves the invariant.                     *)
LEMMA PmmNextInv == PmmInv /\ [PmmNext]_pmm_vars => PmmInv'
<1> SUFFICES ASSUME PmmInv, [PmmNext]_pmm_vars PROVE PmmInv'
  OBVIOUS
<1>1. CASE \E p \in Tracked : AllocPage(p)
  BY <1>1, AllocPagePmmInv
<1>2. CASE AllocFails
  BY <1>2, AllocFailsPmmInv
<1>3. CASE \E a \in FreeArgs : FreePage(a[1], a[2])
  BY <1>3, FreePagePmmInv
<1>4. CASE UNCHANGED pmm_vars
  BY <1>4 DEF pmm_vars, PmmInv, PmmTypeOK, FreeCountExact, NoFreeBelowHint,
     OutOfMemoryIsReal, OwnedStaysUsed, ReservedNeverGranted, NoPageLeaks,
     Total, Tracked, Free
<1>5. QED
  BY <1>1, <1>2, <1>3, <1>4 DEF PmmNext

(* The invariant holds of every behaviour of the allocator.                 *)
LEMMA PmmSpecInv == PmmSpec => []PmmInv
  BY PmmInitInv, PmmNextInv, PTL DEF PmmSpec

(* Type correctness: the hint stays within the tracked pages and the count  *)
(* within its width.                                                        *)
THEOREM PmmTypeCorrect == PmmSpec => []PmmTypeOK
<1>1. PmmInv => PmmTypeOK
  BY DEF PmmInv
<1>2. QED
  BY <1>1, PmmSpecInv, PTL

(* pmm_free_count equals the number of clear bits, whatever the callers do. *)
THEOREM FreeCountCorrect == PmmSpec => []FreeCountExact
<1>1. PmmInv => FreeCountExact
  BY DEF PmmInv
<1>2. QED
  BY <1>1, PmmSpecInv, PTL

(* The scan starts at or below every free page: its wrap-around pass never  *)
(* finds one.                                                               *)
THEOREM HintCorrect == PmmSpec => []NoFreeBelowHint
<1>1. PmmInv => NoFreeBelowHint
  BY DEF PmmInv
<1>2. QED
  BY <1>1, PmmSpecInv, PTL

(* A page is in the hands of at most one caller, only usable, unreserved    *)
(* pages ever are, none is lost, and out-of-memory means no page is free.   *)
THEOREM OwnershipCorrect == PmmSpec => []PagesPartitioned
<1>1. PmmInv => PagesPartitioned
  BY DEF PmmInv, PagesPartitioned
<1>2. QED
  BY <1>1, PmmSpecInv, PTL

----------------------------------------------------------------------------
(* The kernel heap.                                                         *)

(* The list invariants of KHeap, of any header function h and list l, so    *)
(* that the two merges of kfree can be taken one at a time.                 *)
HEnd(h, b) == b + Header + h[b].size

Typed(h, l) == h \in [Addrs -> Headers] /\ l \in SUBSET Addrs

Tiled(h, l) ==
  \A b \in l : HEnd(h, b) = IF h[b].next = NULL THEN HeapUnits ELSE h[b].next

Chained(h, l) ==
  /\ 0 \in l
  /\ \A b \in l :
       /\ h[b].magic
       /\ (h[b].prev = NULL) <=> (b = 0)
       /\ h[b].next # NULL => h[b].next \in l /\ h[h[b].next].prev = b
       /\ h[b].prev # NULL => h[b].prev \in l /\ h[h[b].prev].next = b

Ordered(h, l) == \A b, c \in l : b < c => HEnd(h, b) <= c

StaleFree(h, l) == \A a \in Addrs \ l : h[a].spoiled \/ ~h[a].magic \/ h[a].free

Struct(h, l) ==
  Typed(h, l) /\ Tiled(h, l) /\ Chained(h, l) /\ Ordered(h, l) /\ StaleFree(h, l)

CoalescedAt(h, x) == h[x].free /\ h[x].next # NULL => ~h[h[x].next].free

UsedBlocks(h, l) == {b \in l : ~h[b].free}

IInv ==
  /\ TypeOK /\ Tiling /\ ListInOrder /\ Coalesced
  /\ StaleHeadersRejected /\ UsedIsLive

(* The invariants of the model are these, of hdr and linked.                *)
LEMMA ListForms ==
  /\ Tiling <=> Tiled(hdr, linked)
  /\ ListInOrder <=> Chained(hdr, linked) /\ Ordered(hdr, linked)
  /\ StaleHeadersRejected <=> StaleFree(hdr, linked)
  BY DEF Tiling, Tiled, ListInOrder, Chained, Ordered, StaleHeadersRejected,
     StaleFree, End, HEnd

(* A successor on the list lies higher; a block is not its own neighbour.   *)
LEMMA NextIsHigher ==
  ASSUME NEW h, NEW l, Struct(h, l), NEW b \in l, h[b].next # NULL
  PROVE  /\ h[b].next \in l /\ h[b].next \in Addrs /\ b \in Addrs
         /\ b < h[b].next
         /\ h[b].next = HEnd(h, b)
<1>1. b \in Addrs /\ h[b] \in Headers /\ h[b].next \in l /\ h[b].next \in Addrs
  BY DEF Struct, Typed, Chained
<1>2. h[b].next = HEnd(h, b)
  BY DEF Struct, Tiled
<1>3. QED
  BY <1>1, <1>2, HeapAssumption DEF HEnd, Headers, Addrs

(* kfree's merge of two free neighbours keeps the list well formed and      *)
(* changes no other block.                                                  *)
LEMMA AbsorbStruct ==
  ASSUME NEW h, NEW l, Struct(h, l),
         NEW b \in l, NEW n \in l, h[b].next = n, h[b].free, h[n].free
  PROVE  LET g == Absorb(h, b, n)
         IN  /\ Struct(g, l \ {n})
             /\ b \in l \ {n} /\ g[b].free /\ g[b].next = h[n].next
             /\ \A c \in l \ {n} : g[c].free = h[c].free
             /\ \A c \in l \ {b, n} : g[c].size = h[c].size /\ g[c].next = h[c].next
<1> DEFINE g == Absorb(h, b, n)
           s == h[n].next
           m == l \ {n}
<1>1. /\ b \in Addrs /\ n \in Addrs /\ b < n /\ n = HEnd(h, b)
      /\ h[b] \in Headers /\ h[n] \in Headers
  <2>1. n # NULL
    BY DEF Struct, Typed, Addrs, NULL
  <2>2. QED
    BY <2>1, NextIsHigher DEF Struct, Typed
<1>2. s # NULL => s \in l /\ s \in Addrs /\ n < s /\ h[s].prev = n /\ h[s] \in Headers
  <2>1. s # NULL => s \in l /\ s \in Addrs /\ n < s
    BY NextIsHigher
  <2>2. QED
    BY <2>1 DEF Struct, Typed, Chained
<1>3. b # n /\ s # n /\ s # b /\ NULL \notin Addrs
  BY <1>1, <1>2 DEF Addrs, NULL
<1>4. /\ DOMAIN g = Addrs
      /\ g[n] = [Block(0, NULL, NULL) EXCEPT !.free = h[n].free]
      /\ g[b] = [h[b] EXCEPT !.size = @ + Header + h[n].size, !.next = s]
      /\ s # NULL => g[s] = [h[s] EXCEPT !.prev = b]
      /\ \A a \in Addrs \ {b, n, s} : g[a] = h[a]
  BY <1>1, <1>2, <1>3 DEF Absorb
<1> HIDE DEF g
<1>5. h \in [Addrs -> Headers] /\ l \in SUBSET Addrs
  BY DEF Struct, Typed
<1>6. /\ h[b].size + Header + h[n].size \in 0 .. HeapUnits
      /\ HEnd(h, n) <= HeapUnits
  <2>1. HEnd(h, n) = IF s = NULL THEN HeapUnits ELSE s
    BY DEF Struct, Tiled
  <2>2. HEnd(h, n) <= HeapUnits
    BY <2>1, <1>2, HeapAssumption DEF Addrs
  <2>3. QED
    BY <1>1, <2>2, HeapAssumption DEF HEnd, Headers, Addrs
<1>7. Typed(g, m)
  <2>1. g[b] \in Headers
    BY <1>4, <1>1, <1>2, <1>6 DEF Headers
  <2>2. g[n] \in Headers
    <3>1. h[n].free \in BOOLEAN
      BY <1>1 DEF Headers
    <3>2. g[n] = [size |-> 0, magic |-> TRUE, free |-> h[n].free,
                  prev |-> NULL, next |-> NULL, spoiled |-> FALSE]
      BY <1>4 DEF Block
    <3>3. QED
      BY <3>1, <3>2, HeapAssumption DEF Headers
  <2>3. s # NULL => g[s] \in Headers
    BY <1>4, <1>1, <1>2 DEF Headers
  <2>4. \A a \in Addrs : g[a] \in Headers
    BY <2>1, <2>2, <2>3, <1>3, <1>4, <1>5
  <2>5. g = [a \in Addrs |-> g[a]]
    BY DEF g, Absorb
  <2>6. QED
    BY <2>4, <2>5, <1>5 DEF Typed
<1>8. /\ g[b].free = h[b].free /\ g[b].magic = h[b].magic /\ g[b].prev = h[b].prev
      /\ g[b].next = s /\ g[b].size = h[b].size + Header + h[n].size
  <2>1. /\ DOMAIN h[b] = {"size", "magic", "free", "prev", "next", "spoiled"}
        /\ g[b] = [h[b] EXCEPT !.size = h[b].size + Header + h[n].size, !.next = s]
    BY <1>4, <1>1 DEF Headers
  <2>2. QED
    BY <2>1
<1>9. s # NULL => /\ g[s].free = h[s].free /\ g[s].magic = h[s].magic
                  /\ g[s].prev = b /\ g[s].next = h[s].next /\ g[s].size = h[s].size
  BY <1>4, <1>2 DEF Headers
<1>10. \A c \in m \ {b} : /\ g[c].size = h[c].size /\ g[c].next = h[c].next
                          /\ g[c].free = h[c].free /\ g[c].magic = h[c].magic
                          /\ c # s => g[c].prev = h[c].prev
  BY <1>3, <1>4, <1>5, <1>9
<1>11. HEnd(g, b) = HEnd(h, n)
  BY <1>8, <1>1, HeapAssumption DEF HEnd, Headers, Addrs
<1>12. \A c \in m \ {b} : HEnd(g, c) = HEnd(h, c)
  BY <1>10 DEF HEnd
<1>13. Tiled(g, m)
  <2>1. HEnd(g, b) = IF g[b].next = NULL THEN HeapUnits ELSE g[b].next
    BY <1>8, <1>11 DEF Struct, Tiled
  <2>2. ASSUME NEW c \in m \ {b}
        PROVE HEnd(g, c) = IF g[c].next = NULL THEN HeapUnits ELSE g[c].next
    BY <1>10, <1>12 DEF Struct, Tiled
  <2>3. QED
    BY <2>1, <2>2 DEF Tiled
<1>14. Chained(g, m)
  <2>1. 0 \in m
    <3>1. h[n].prev = b
      BY <1>1 DEF Struct, Chained, NULL, Addrs
    <3>2. n # 0
      BY <3>1, <1>1 DEF Struct, Chained, NULL, Addrs
    <3>3. QED
      BY <3>2 DEF Struct, Chained
  <2>2. ASSUME NEW c \in m
        PROVE  /\ g[c].magic
               /\ (g[c].prev = NULL) <=> (c = 0)
               /\ g[c].next # NULL => g[c].next \in m /\ g[g[c].next].prev = c
               /\ g[c].prev # NULL => g[c].prev \in m /\ g[g[c].prev].next = c
    <3>0. /\ c \in l /\ c # n /\ c \in Addrs
          /\ h[c].magic /\ ((h[c].prev = NULL) <=> (c = 0))
          /\ h[c].next # NULL => h[c].next \in l /\ h[h[c].next].prev = c
          /\ h[c].prev # NULL => h[c].prev \in l /\ h[h[c].prev].next = c
      BY <1>5 DEF Struct, Chained
    <3>1. g[c].magic
      BY <3>0, <1>8, <1>10
    <3>2. (g[c].prev = NULL) <=> (c = 0)
      <4>1. CASE c = s
        BY <4>1, <3>0, <1>3, <1>9, <1>2, <1>1 DEF Addrs
      <4>2. CASE c # s
        BY <4>2, <3>0, <1>8, <1>10
      <4>3. QED
        BY <4>1, <4>2
    <3>3. g[c].next # NULL => g[c].next \in m /\ g[g[c].next].prev = c
      <4>1. CASE c = b
        BY <4>1, <1>2, <1>3, <1>8, <1>9
      <4>2. CASE c # b
        <5> SUFFICES ASSUME h[c].next # NULL
                     PROVE  h[c].next \in m /\ g[h[c].next].prev = c
          BY <4>2, <1>10
        <5> DEFINE d == h[c].next
        <5>1. d \in l /\ h[d].prev = c
          BY <3>0
        <5>2. d # n /\ d # s
          <6>1. h[n].prev = b
            BY <1>1 DEF Struct, Chained, NULL, Addrs
          <6>2. QED
            BY <6>1, <5>1, <4>2, <1>2, <3>0
        <5>3. g[d].prev = h[d].prev
          BY <5>1, <5>2, <1>8, <1>10
        <5>4. QED
          BY <5>1, <5>2, <5>3
      <4>3. QED
        BY <4>1, <4>2
    <3>4. g[c].prev # NULL => g[c].prev \in m /\ g[g[c].prev].next = c
      <4>1. CASE c = s
        BY <4>1, <1>2, <1>3, <1>8, <1>9, <3>0
      <4>2. CASE c # s
        <5> SUFFICES ASSUME h[c].prev # NULL
                     PROVE  h[c].prev \in m /\ g[h[c].prev].next = c
          BY <4>2, <1>8, <1>10
        <5> DEFINE d == h[c].prev
        <5>1. d \in l /\ h[d].next = c
          BY <3>0
        <5>2. d # n /\ d # b
          BY <5>1, <4>2, <3>0
        <5>3. QED
          BY <5>1, <5>2, <1>10
      <4>3. QED
        BY <4>1, <4>2
    <3>5. QED
      BY <3>1, <3>2, <3>3, <3>4
  <2>3. QED
    BY <2>1, <2>2 DEF Chained
<1>15. Ordered(g, m)
  <2> SUFFICES ASSUME NEW c \in m, NEW d \in m, c < d PROVE HEnd(g, c) <= d
    BY DEF Ordered
  <2>1. HEnd(h, c) <= d
    BY DEF Struct, Ordered
  <2>2. CASE c = b
    <3>1. n <= d /\ d # n /\ d \in Addrs
      BY <2>1, <2>2, <1>1, <1>5
    <3>2. n < d
      BY <3>1, <1>1 DEF Addrs
    <3>3. HEnd(h, n) <= d
      BY <3>2 DEF Struct, Ordered
    <3>4. QED
      BY <3>3, <2>2, <1>11
  <2>3. CASE c # b
    BY <2>1, <2>3, <1>12
  <2>4. QED
    BY <2>2, <2>3
<1>16. StaleFree(g, m)
  <2>1. g[n].free = h[n].free
    BY <1>4 DEF Block
  <2>2. ASSUME NEW a \in Addrs \ m, a # n
        PROVE  g[a].spoiled \/ ~g[a].magic \/ g[a].free
    <3>1. a \notin l /\ a # b /\ (s # NULL => a # s) /\ a # NULL
      BY <2>2, <1>2, <1>3 DEF NULL, Addrs
    <3>2. g[a] = h[a]
      BY <3>1, <1>4, <2>2
    <3>3. QED
      BY <3>1, <3>2 DEF Struct, StaleFree
  <2>3. QED
    BY <2>1, <2>2 DEF StaleFree
<1>17. \A c \in m : g[c].free = h[c].free
  BY <1>8, <1>10
<1>18. Struct(g, m)
  BY <1>7, <1>13, <1>14, <1>15, <1>16 DEF Struct
<1>19. QED
  BY <1>18, <1>17, <1>10, <1>8, <1>3 DEF g

(* A block on a well formed list ends inside the heap.                      *)
LEMMA EndInHeap ==
  ASSUME NEW h, NEW l, Struct(h, l), NEW b \in l
  PROVE  b \in Addrs /\ h[b] \in Headers /\ HEnd(h, b) <= HeapUnits
<1>1. b \in Addrs /\ h[b] \in Headers
  BY DEF Struct, Typed
<1>2. CASE h[b].next = NULL
  BY <1>1, <1>2, HeapAssumption DEF Struct, Tiled
<1>3. CASE h[b].next # NULL
  BY <1>1, <1>3, NextIsHigher, HeapAssumption DEF Addrs
<1>4. QED
  BY <1>1, <1>2, <1>3

(* Only the free flags of listed blocks may change for the list to stay     *)
(* well formed.                                                             *)
LEMMA FlagStruct ==
  ASSUME NEW h, NEW g, NEW l, Struct(h, l), Typed(g, l),
         \A a \in Addrs : /\ g[a].next = h[a].next /\ g[a].prev = h[a].prev
                         /\ g[a].size = h[a].size /\ g[a].magic = h[a].magic,
         \A a \in Addrs \ l : g[a] = h[a]
  PROVE  Struct(g, l)
<1>1. \A c \in l : c \in Addrs /\ HEnd(g, c) = HEnd(h, c)
  BY DEF HEnd, Typed
<1>2. Tiled(g, l) /\ Ordered(g, l)
  BY <1>1 DEF Struct, Tiled, Ordered
<1>3. Chained(g, l)
  BY <1>1 DEF Struct, Chained
<1>4. StaleFree(g, l)
  BY DEF Struct, StaleFree
<1>5. QED
  BY <1>2, <1>3, <1>4 DEF Struct

(* Overwriting memory that holds no listed header keeps the list.           *)
LEMMA WipeStruct ==
  ASSUME NEW h, NEW l, Struct(h, l), NEW x, NEW y
  PROVE  /\ Struct(Wiped(h, l, x, y), l)
         /\ \A c \in l : Wiped(h, l, x, y)[c] = h[c]
<1> DEFINE g == Wiped(h, l, x, y)
<1>1. h \in [Addrs -> Headers] /\ l \in SUBSET Addrs
  BY DEF Struct, Typed
<1>2. NoBlock \in Headers /\ ~NoBlock.magic
  BY HeapAssumption DEF NoBlock, Headers
<1>3. /\ \A a \in l : g[a] = h[a]
      /\ \A a \in Addrs : g[a] = h[a] \/ g[a] = NoBlock
  BY <1>1 DEF Wiped
<1>4. g \in [Addrs -> Headers]
  BY <1>1, <1>2 DEF Wiped
<1> HIDE DEF g
<1>5. Tiled(g, l) /\ Ordered(g, l)
  BY <1>3 DEF Struct, Tiled, Ordered, HEnd
<1>6. Chained(g, l)
  BY <1>3 DEF Struct, Chained
<1>7. StaleFree(g, l)
  BY <1>2, <1>3 DEF Struct, StaleFree
<1>8. QED
  BY <1>1, <1>3, <1>4, <1>5, <1>6, <1>7 DEF Struct, Typed, g

(* kmalloc's split keeps the list well formed: the new block is fresh, free, *)
(* and no other block changes.                                              *)
LEMMA SplitStruct ==
  ASSUME Struct(hdr, linked), NEW need \in Nat, NEW b \in linked,
         Splits(b, need)
  PROVE  LET g  == Split(b, need)
             nb == b + Header + need
         IN  /\ Struct(g, linked \cup {nb})
             /\ nb \notin linked /\ g[nb].free /\ g[nb].next = hdr[b].next
             /\ ~g[b].free /\ g[b].next = nb /\ g[b].size = need
             /\ \A c \in linked \ {b} : /\ g[c].free = hdr[c].free
                                        /\ g[c].next = hdr[c].next
                                        /\ g[c].size = hdr[c].size
<1> DEFINE g  == Split(b, need)
           nb == b + Header + need
           s  == hdr[b].next
           m  == linked \cup {nb}
<1>1. /\ hdr \in [Addrs -> Headers] /\ linked \in SUBSET Addrs
      /\ b \in Addrs /\ hdr[b] \in Headers
      /\ HEnd(hdr, b) <= HeapUnits
  BY EndInHeap DEF Struct, Typed
<1>2. /\ nb \in Addrs /\ b < nb /\ nb < HEnd(hdr, b) /\ nb \in Int
      /\ hdr[b].size - need - Header \in 0 .. HeapUnits
      /\ need \in 0 .. HeapUnits
      /\ nb + Header + (hdr[b].size - need - Header) = HEnd(hdr, b)
  <2> DEFINE z == hdr[b].size
  <2>1. z \in 0 .. HeapUnits /\ b \in 0 .. (HeapUnits - 1)
    BY <1>1 DEF Headers, Addrs
  <2>2. z >= need + Header + MinBlock
    BY DEF Splits
  <2>3. HEnd(hdr, b) = b + Header + z
    BY DEF HEnd
  <2> HIDE DEF z
  <2>4. /\ nb \in Int /\ b < nb /\ nb < HEnd(hdr, b)
        /\ z - need - Header \in 0 .. HeapUnits
        /\ need \in 0 .. HeapUnits
        /\ nb + Header + (z - need - Header) = HEnd(hdr, b)
    BY <2>1, <2>2, <2>3, HeapAssumption
  <2>5. nb \in Addrs
    BY <2>1, <2>4, <1>1, HeapAssumption DEF Addrs, HEnd
  <2>6. QED
    BY <2>4, <2>5 DEF z
<1>3. nb \notin linked
  <2>1. nb \in linked => HEnd(hdr, b) <= nb
    BY <1>2 DEF Struct, Ordered
  <2>2. QED
    BY <2>1, <1>1, <1>2, HeapAssumption DEF HEnd, Headers, Addrs
<1>4. s # NULL => /\ s \in linked /\ s \in Addrs /\ b < s /\ hdr[s].prev = b
                  /\ hdr[s] \in Headers /\ s = HEnd(hdr, b)
  <2>1. s # NULL => s \in linked /\ s \in Addrs /\ b < s /\ s = HEnd(hdr, b)
    BY NextIsHigher
  <2>2. QED
    BY <2>1, <1>1 DEF Struct, Chained
<1>5. b # nb /\ s # nb /\ s # b /\ NULL \notin Addrs
  BY <1>1, <1>2, <1>3, <1>4 DEF Addrs, NULL
<1>6. /\ g[nb] = Block(hdr[b].size - need - Header, b, s)
      /\ g[b] = [hdr[b] EXCEPT !.size = need, !.next = nb, !.free = FALSE]
      /\ s # NULL => g[s] = [hdr[s] EXCEPT !.prev = nb]
      /\ \A a \in Addrs \ {b, nb, s} : g[a] = hdr[a]
      /\ g = [a \in Addrs |-> g[a]]
  BY <1>1, <1>2, <1>4, <1>5 DEF Split
<1> HIDE DEF g, nb
<1>7. /\ g[nb].size = hdr[b].size - need - Header /\ g[nb].magic /\ g[nb].free
      /\ g[nb].prev = b /\ g[nb].next = s /\ g[nb] \in Headers
  <2>1. s \in Addrs \cup {NULL}
    BY <1>1 DEF Headers
  <2>2. QED
    BY <1>6, <1>1, <1>2, <2>1 DEF Block, Headers
<1>8. /\ g[b].size = need /\ g[b].magic = hdr[b].magic /\ ~g[b].free
      /\ g[b].prev = hdr[b].prev /\ g[b].next = nb /\ g[b] \in Headers
  BY <1>6, <1>1, <1>2 DEF Headers
<1>9. s # NULL => /\ g[s].free = hdr[s].free /\ g[s].magic = hdr[s].magic
                  /\ g[s].prev = nb /\ g[s].next = hdr[s].next
                  /\ g[s].size = hdr[s].size /\ g[s] \in Headers
  BY <1>6, <1>2, <1>4 DEF Headers
<1>10. \A c \in linked \ {b} :
         /\ g[c].size = hdr[c].size /\ g[c].next = hdr[c].next
         /\ g[c].free = hdr[c].free /\ g[c].magic = hdr[c].magic
         /\ c # s => g[c].prev = hdr[c].prev
  BY <1>1, <1>3, <1>5, <1>6, <1>9
<1>11. Typed(g, m)
  <2>1. \A a \in Addrs : g[a] \in Headers
    BY <1>1, <1>5, <1>6, <1>7, <1>8, <1>9
  <2>2. QED
    BY <2>1, <1>1, <1>2, <1>6 DEF Typed
<1>12. /\ HEnd(g, nb) = HEnd(hdr, b) /\ HEnd(g, b) = nb
       /\ \A c \in linked \ {b} : HEnd(g, c) = HEnd(hdr, c)
  <2>1. HEnd(g, nb) = HEnd(hdr, b)
    BY <1>2, <1>7 DEF HEnd
  <2>2. HEnd(g, b) = nb
    BY <1>8 DEF HEnd, nb
  <2>3. QED
    BY <2>1, <2>2, <1>10 DEF HEnd
<1>13. Tiled(g, m)
  <2>1. HEnd(g, nb) = IF g[nb].next = NULL THEN HeapUnits ELSE g[nb].next
    BY <1>7, <1>12 DEF Struct, Tiled
  <2>2. HEnd(g, b) = IF g[b].next = NULL THEN HeapUnits ELSE g[b].next
    BY <1>2, <1>5, <1>8, <1>12
  <2>3. ASSUME NEW c \in linked \ {b}
        PROVE HEnd(g, c) = IF g[c].next = NULL THEN HeapUnits ELSE g[c].next
    BY <1>10, <1>12 DEF Struct, Tiled
  <2>4. QED
    BY <2>1, <2>2, <2>3 DEF Tiled
<1>14. Chained(g, m)
  <2>1. 0 \in m
    BY DEF Struct, Chained
  <2>2. ASSUME NEW c \in m
        PROVE  /\ g[c].magic
               /\ (g[c].prev = NULL) <=> (c = 0)
               /\ g[c].next # NULL => g[c].next \in m /\ g[g[c].next].prev = c
               /\ g[c].prev # NULL => g[c].prev \in m /\ g[g[c].prev].next = c
    <3>1. CASE c = nb
      <4>1. nb # 0 /\ b # NULL
        BY <1>1, <1>2 DEF Addrs, NULL
      <4>2. QED
        BY <3>1, <4>1, <1>4, <1>7, <1>8, <1>9
    <3>2. CASE c # nb
      <4>0. /\ c \in linked /\ c \in Addrs
            /\ hdr[c].magic /\ ((hdr[c].prev = NULL) <=> (c = 0))
            /\ hdr[c].next # NULL => hdr[c].next \in linked /\ hdr[hdr[c].next].prev = c
            /\ hdr[c].prev # NULL => hdr[c].prev \in linked /\ hdr[hdr[c].prev].next = c
        BY <3>2, <1>1 DEF Struct, Chained
      <4>1. g[c].magic
        BY <4>0, <1>8, <1>10
      <4>2. (g[c].prev = NULL) <=> (c = 0)
        <5>1. CASE c = s
          BY <5>1, <4>0, <1>1, <1>2, <1>4, <1>5, <1>9 DEF Addrs
        <5>2. CASE c # s
          BY <5>2, <4>0, <1>8, <1>10
        <5>3. QED
          BY <5>1, <5>2
      <4>3. g[c].next # NULL => g[c].next \in m /\ g[g[c].next].prev = c
        <5>1. CASE c = b
          BY <5>1, <1>7, <1>8
        <5>2. CASE c # b
          <6> SUFFICES ASSUME hdr[c].next # NULL
                       PROVE  hdr[c].next \in m /\ g[hdr[c].next].prev = c
            BY <5>2, <4>0, <1>10
          <6>1. hdr[c].next \in linked /\ hdr[c].next # s
            BY <4>0, <5>2, <1>4
          <6>2. QED
            BY <6>1, <4>0, <1>8, <1>10
        <5>3. QED
          BY <5>1, <5>2
      <4>4. g[c].prev # NULL => g[c].prev \in m /\ g[g[c].prev].next = c
        <5>1. CASE c = s
          BY <5>1, <4>0, <1>5, <1>7, <1>9
        <5>2. CASE c # s
          <6> SUFFICES ASSUME hdr[c].prev # NULL
                       PROVE  hdr[c].prev \in m /\ g[hdr[c].prev].next = c
            BY <5>2, <4>0, <1>8, <1>10
          <6>1. hdr[c].prev \in linked /\ hdr[c].prev # b
            BY <4>0, <5>2
          <6>2. QED
            BY <6>1, <4>0, <1>10
        <5>3. QED
          BY <5>1, <5>2
      <4>5. QED
        BY <4>1, <4>2, <4>3, <4>4
    <3>3. QED
      BY <3>1, <3>2
  <2>3. QED
    BY <2>1, <2>2 DEF Chained
<1>15. Ordered(g, m)
  <2> SUFFICES ASSUME NEW c \in m, NEW d \in m, c < d PROVE HEnd(g, c) <= d
    BY DEF Ordered
  <2>1. c \in Int /\ d \in Int
    BY <1>1, <1>2 DEF Addrs
  <2>2. CASE c = nb
    <3>1. d \in linked /\ b < d
      BY <2>1, <2>2, <1>1, <1>2 DEF Addrs
    <3>2. QED
      BY <3>1, <2>2, <1>12 DEF Struct, Ordered
  <2>3. CASE c = b
    <3>1. CASE d = nb
      BY <3>1, <2>3, <1>2, <1>12
    <3>2. CASE d # nb
      <4>1. HEnd(hdr, b) <= d
        BY <3>2, <2>3 DEF Struct, Ordered
      <4>2. HEnd(hdr, b) \in Int
        BY <1>1, HeapAssumption DEF HEnd, Headers, Addrs
      <4>3. QED
        BY <4>1, <4>2, <2>1, <2>3, <1>2, <1>12
    <3>3. QED
      BY <3>1, <3>2
  <2>4. CASE c \in linked \ {b}
    <3>1. CASE d = nb
      <4>1. c < b \/ b < c
        BY <2>1, <2>4, <1>1 DEF Addrs
      <4>2. CASE c < b
        <5>1. HEnd(hdr, c) <= b
          BY <4>2, <2>4 DEF Struct, Ordered
        <5>2. HEnd(hdr, c) \in Int
          BY <2>4, <1>1, HeapAssumption DEF HEnd, Headers, Addrs
        <5>3. QED
          BY <5>1, <5>2, <3>1, <2>1, <2>4, <1>1, <1>2, <1>12 DEF Addrs
      <4>3. CASE b < c
        <5>1. HEnd(hdr, b) <= c
          BY <4>3, <2>4 DEF Struct, Ordered
        <5>2. HEnd(hdr, b) \in Int
          BY <1>1, HeapAssumption DEF HEnd, Headers, Addrs
        <5>3. QED
          BY <5>1, <5>2, <3>1, <2>1, <1>2
      <4>4. QED
        BY <4>1, <4>2, <4>3
    <3>2. CASE d # nb
      BY <3>2, <2>4, <1>12 DEF Struct, Ordered
    <3>3. QED
      BY <3>1, <3>2
  <2>5. QED
    BY <2>2, <2>3, <2>4
<1>16. StaleFree(g, m)
  <2> SUFFICES ASSUME NEW a \in Addrs \ m
               PROVE  g[a].spoiled \/ ~g[a].magic \/ g[a].free
    BY DEF StaleFree
  <2>1. a # b /\ a # nb /\ a # s
    BY <1>4, <1>5
  <2>2. g[a] = hdr[a]
    BY <2>1, <1>6
  <2>3. QED
    BY <2>2 DEF Struct, StaleFree
<1>17. Struct(g, m)
  BY <1>11, <1>13, <1>14, <1>15, <1>16 DEF Struct
<1>18. QED
  BY <1>17, <1>3, <1>7, <1>8, <1>10 DEF g, nb

(* What IInv says of the list and of the pointers, in the forms above.      *)
LEMMA IInvForms ==
  IInv <=> /\ TypeOK
           /\ Struct(hdr, linked)
           /\ \A b \in linked : CoalescedAt(hdr, b)
           /\ {b + Header : b \in UsedBlocks(hdr, linked)} = DOMAIN live
           /\ \A p \in DOMAIN live : live[p] = hdr[p - Header].size
  BY ListForms DEF IInv, TypeOK, Struct, Typed, Coalesced, CoalescedAt,
     UsedIsLive, UsedBlocks

(* The same of the next state.                                              *)
LEMMA IInvPrimed ==
  ASSUME TypeOK', Struct(hdr', linked'),
         \A b \in linked' : CoalescedAt(hdr', b),
         {b + Header : b \in UsedBlocks(hdr', linked')} = DOMAIN live',
         \A p \in DOMAIN live' : live'[p] = hdr'[p - Header].size
  PROVE  IInv'
<1>1. Tiling' /\ ListInOrder' /\ StaleHeadersRejected'
  BY DEF Struct, Tiling, Tiled, ListInOrder, Chained, Ordered,
     StaleHeadersRejected, StaleFree, End, HEnd
<1>2. Coalesced' /\ UsedIsLive'
  BY DEF Coalesced, CoalescedAt, UsedIsLive, UsedBlocks
<1>3. QED
  BY <1>1, <1>2 DEF IInv

(* Granting a free block keeps the list well formed and coalesced, adds it  *)
(* to the blocks in use and leaves the size of the others.                  *)
LEMMA GrantStruct ==
  ASSUME IInv, NEW need \in Nat, NEW b \in linked, hdr[b].free
  PROVE  LET g == Granted(b, need)
             m == Listed(b, need)
         IN  /\ Struct(g, m)
             /\ \A c \in m : CoalescedAt(g, c)
             /\ b \in m
             /\ UsedBlocks(g, m) = UsedBlocks(hdr, linked) \cup {b}
             /\ \A c \in UsedBlocks(hdr, linked) : g[c].size = hdr[c].size
<1> DEFINE g == Granted(b, need)
           m == Listed(b, need)
<1>1. Struct(hdr, linked) /\ \A c \in linked : CoalescedAt(hdr, c)
  BY IInvForms
<1>2. \A c \in linked : hdr[c].next # NULL => hdr[c].next \in linked
  BY <1>1 DEF Struct, Chained
<1>3. CASE Splits(b, need)
  <2> DEFINE nb == b + Header + need
  <2>1. /\ Struct(g, m) /\ m = linked \cup {nb}
        /\ nb \notin linked /\ g[nb].free /\ g[nb].next = hdr[b].next
        /\ ~g[b].free /\ g[b].next = nb
        /\ \A c \in linked \ {b} : /\ g[c].free = hdr[c].free
                                   /\ g[c].next = hdr[c].next
                                   /\ g[c].size = hdr[c].size
    BY <1>1, <1>3, SplitStruct DEF Granted, Listed
  <2> HIDE DEF g, m, nb
  <2>2. CoalescedAt(g, nb)
    <3> SUFFICES ASSUME hdr[b].next # NULL PROVE ~g[hdr[b].next].free
      BY <2>1 DEF CoalescedAt
    <3>1. hdr[b].next \in linked /\ ~hdr[hdr[b].next].free
      BY <1>1, <1>2 DEF CoalescedAt
    <3>2. QED
      BY <3>1, <2>1
  <2>3. ASSUME NEW c \in linked PROVE CoalescedAt(g, c)
    <3>1. CASE c = b
      BY <3>1, <2>1 DEF CoalescedAt
    <3>2. CASE c # b
      <4> SUFFICES ASSUME hdr[c].free, hdr[c].next # NULL
                   PROVE  ~g[hdr[c].next].free
        BY <3>2, <2>1 DEF CoalescedAt
      <4>1. hdr[c].next \in linked /\ ~hdr[hdr[c].next].free
        BY <1>1, <1>2 DEF CoalescedAt
      <4>2. QED
        BY <4>1, <2>1
    <3>3. QED
      BY <3>1, <3>2
  <2>4. UsedBlocks(g, m) = UsedBlocks(hdr, linked) \cup {b}
    BY <2>1 DEF UsedBlocks
  <2>5. \A c \in UsedBlocks(hdr, linked) : g[c].size = hdr[c].size
    BY <2>1 DEF UsedBlocks
  <2>6. QED
    BY <2>1, <2>2, <2>3, <2>4, <2>5 DEF g, m
<1>4. CASE ~Splits(b, need)
  <2>1. g = [hdr EXCEPT ![b].free = FALSE] /\ m = linked
    BY <1>4 DEF Granted, Listed
  <2> HIDE DEF g, m
  <2>11. hdr \in [Addrs -> Headers] /\ linked \in SUBSET Addrs /\ hdr[b] \in Headers
    BY <1>1 DEF Struct, Typed
  <2>12. /\ \A a \in Addrs \ {b} : g[a] = hdr[a]
        /\ g[b] = [hdr[b] EXCEPT !.free = FALSE]
    BY <2>1, <2>11
  <2>13. /\ ~g[b].free /\ g[b].magic = hdr[b].magic /\ g[b].size = hdr[b].size
        /\ g[b].prev = hdr[b].prev /\ g[b].next = hdr[b].next
        /\ g[b] \in Headers
    <3>. DEFINE h == hdr[b]
    <3>1. h \in Headers /\ g[b] = [h EXCEPT !.free = FALSE]
      BY <2>11, <2>12
    <3>. HIDE DEF h
    <3>2. /\ ~g[b].free /\ g[b].magic = h.magic /\ g[b].size = h.size
          /\ g[b].prev = h.prev /\ g[b].next = h.next /\ g[b] \in Headers
      BY <3>1 DEF Headers
    <3>. QED
      BY <3>2 DEF h
  <2>14. Typed(g, linked)
    BY <2>1, <2>11, <2>12, <2>13 DEF Typed
  <2>15. /\ \A a \in Addrs : /\ g[a].next = hdr[a].next /\ g[a].prev = hdr[a].prev
                            /\ g[a].size = hdr[a].size /\ g[a].magic = hdr[a].magic
        /\ \A a \in Addrs \ linked : g[a] = hdr[a]
    BY <2>12, <2>13
  <2>16. Struct(g, linked)
    BY <1>1, <2>14, <2>15, FlagStruct
  <2>2. /\ Struct(g, m) /\ ~g[b].free
        /\ \A c \in linked : g[c].next = hdr[c].next /\ g[c].size = hdr[c].size
        /\ \A c \in linked \ {b} : g[c].free = hdr[c].free
    BY <2>1, <2>11, <2>12, <2>13, <2>15, <2>16
  <2>3. ASSUME NEW c \in linked PROVE CoalescedAt(g, c)
    <3> SUFFICES ASSUME g[c].free, hdr[c].next # NULL
                 PROVE  ~g[hdr[c].next].free
      BY <2>2 DEF CoalescedAt
    <3>1. c # b /\ hdr[c].free
      BY <2>2
    <3>2. hdr[c].next \in linked /\ ~hdr[hdr[c].next].free
      BY <3>1, <1>1, <1>2 DEF CoalescedAt
    <3>3. QED
      BY <3>2, <2>2
  <2>4. UsedBlocks(g, m) = UsedBlocks(hdr, linked) \cup {b}
    BY <2>1, <2>2 DEF UsedBlocks
  <2>5. QED
    BY <2>1, <2>2, <2>3, <2>4 DEF g, m, UsedBlocks
<1>5. QED
  BY <1>3, <1>4

(* Lists whose listed headers agree are alike in all IInv speaks of.        *)
LEMMA SameListed ==
  ASSUME NEW g, NEW h, NEW m, Struct(g, m), \A c \in m : h[c] = g[c]
  PROVE  /\ UsedBlocks(h, m) = UsedBlocks(g, m)
         /\ \A c \in m : CoalescedAt(g, c) => CoalescedAt(h, c)
  BY DEF UsedBlocks, CoalescedAt, Struct, Chained

(* What a grant does to the pointers: one more live pointer, clear of every *)
(* other payload and inside the heap.                                       *)
LEMMA GrantIInv ==
  ASSUME IInv, NEW need \in Nat, NEW bytes, NEW b \in linked, hdr[b].free,
         Struct(hdr', linked'), linked' = Listed(b, need),
         \A c \in linked' : hdr'[c] = Granted(b, need)[c],
         Owns(b, need, bytes)
  PROVE  IInv' /\ Abstract!Alloc(b + Header, live'[b + Header])
               /\ b + Header \in 0 .. HeapUnits
               /\ live'[b + Header] \in 0 .. HeapUnits
<1> DEFINE g == Granted(b, need)
           m == Listed(b, need)
           p == b + Header
<1>1. /\ Struct(g, m) /\ b \in m
      /\ \A c \in m : CoalescedAt(g, c)
      /\ UsedBlocks(g, m) = UsedBlocks(hdr, linked) \cup {b}
      /\ \A c \in UsedBlocks(hdr, linked) : g[c].size = hdr[c].size
  BY GrantStruct
<1>2. /\ live' = Put(live, p, g[b].size)
      /\ short' = short \/ short' = short \cup {p}
  BY DEF Owns
<1> HIDE DEF g, m
<1>3. UsedBlocks(hdr', m) = UsedBlocks(g, m) /\ \A c \in m : CoalescedAt(hdr', c)
  BY <1>1, SameListed DEF g, m
<1>4. /\ {c + Header : c \in UsedBlocks(hdr, linked)} = DOMAIN live
      /\ \A q \in DOMAIN live : live[q] = hdr[q - Header].size
      /\ TypeOK /\ Struct(hdr, linked)
  BY IInvForms
<1>5. \A c \in linked : c \in Int
  BY <1>4 DEF TypeOK, Addrs
<1>6. /\ DOMAIN live' = DOMAIN live \cup {p}
      /\ live'[p] = g[b].size
      /\ \A q \in DOMAIN live \ {p} : live'[q] = live[q]
  BY <1>2 DEF Put
<1>7. p \notin DOMAIN live
  <2>1. ASSUME NEW c \in UsedBlocks(hdr, linked) PROVE c + Header # p
    BY <1>5, HeapAssumption DEF UsedBlocks
  <2>2. QED
    BY <1>4, <2>1
<1>8. {c + Header : c \in UsedBlocks(hdr', linked')} = DOMAIN live'
  BY <1>1, <1>3, <1>4, <1>6 DEF m
<1>9. ASSUME NEW q \in DOMAIN live' PROVE live'[q] = hdr'[q - Header].size
  <2>1. CASE q = p
    <3>1. q - Header = b
      BY <2>1, <1>5, HeapAssumption
    <3>2. hdr'[b] = g[b]
      BY <1>1 DEF g, m
    <3>3. QED
      BY <2>1, <3>1, <3>2, <1>6
  <2>2. CASE q # p
    <3>1. PICK c \in UsedBlocks(hdr, linked) : q = c + Header
      BY <2>2, <1>4, <1>6
    <3>2. q - Header = c
      BY <3>1, <1>5, HeapAssumption DEF UsedBlocks
    <3>3. c \in m /\ hdr'[c] = g[c] /\ g[c].size = hdr[c].size
      BY <1>1 DEF UsedBlocks, g, m
    <3>4. QED
      BY <2>2, <3>2, <3>3, <1>4, <1>6
  <2>3. QED
    BY <2>1, <2>2
<1>10. p \in Addrs \cup {HeapUnits} /\ live'[p] \in 0 .. HeapUnits
       /\ p + live'[p] <= HeapUnits
  <2>0. Struct(g, m) /\ b \in m
    BY <1>1
  <2>1. b \in Addrs /\ g[b] \in Headers /\ HEnd(g, b) <= HeapUnits
    BY <2>0, EndInHeap
  <2>2. QED
    BY <2>1, <1>6, HeapAssumption DEF HEnd, Headers, Addrs
<1>11. TypeOK'
  BY <1>2, <1>4, <1>6, <1>10 DEF TypeOK, Struct, Typed
<1>12. IInv'
  <2>1. \A c \in linked' : CoalescedAt(hdr', c)
    BY <1>3 DEF m
  <2>2. QED
    BY <2>1, <1>8, <1>9, <1>11, IInvPrimed
<1>13. ASSUME NEW q \in DOMAIN live
       PROVE  Abstract!Payload(q, live[q]) \cap Abstract!Payload(p, live'[p]) = {}
  <2>1. PICK c \in UsedBlocks(hdr, linked) : q = c + Header
    BY <1>4
  <2>2. /\ c \in m /\ c \in linked /\ c # b /\ g[c].size = hdr[c].size
        /\ live[q] = hdr[c].size
    <3>1. q - Header = c
      BY <2>1, <1>5, HeapAssumption DEF UsedBlocks
    <3>2. QED
      BY <3>1, <1>1, <1>4 DEF UsedBlocks
  <2>3. /\ c \in Int /\ b \in Int /\ g[c].size \in Int /\ g[b].size \in Int
    <3>1. g[c] \in Headers /\ g[b] \in Headers
      BY <1>1, <2>2, EndInHeap
    <3>2. QED
      BY <3>1, <2>2, <1>5, HeapAssumption DEF Headers
  <2>4. c < b => q + live[q] <= b
    BY <1>1, <2>1, <2>2, <2>3, HeapAssumption DEF Struct, Ordered, HEnd
  <2>5. b < c => p + live'[p] <= c
    BY <1>1, <1>6, <2>2, <2>3, HeapAssumption DEF Struct, Ordered, HEnd
  <2>6. q = c + Header /\ live[q] \in Int /\ live'[p] \in Int
    BY <2>1, <2>2, <2>3, <1>6
  <2>7. QED
    BY <2>2, <2>3, <2>4, <2>5, <2>6, HeapAssumption DEF Abstract!Payload
<1>14. Abstract!Alloc(p, live'[p])
  <2>1. Abstract!Payload(p, live'[p]) \subseteq 0 .. (HeapUnits - 1)
    BY <1>10, HeapAssumption DEF Abstract!Payload, Addrs
  <2>2. live' = [q \in DOMAIN live \cup {p} |-> IF q = p THEN live'[p] ELSE live[q]]
    BY <1>2, <1>6 DEF Put
  <2>3. QED
    BY <1>7, <1>13, <2>1, <2>2 DEF Abstract!Alloc
<1>15. p \in 0 .. HeapUnits
  BY <1>10, HeapAssumption DEF Addrs
<1>16. QED
  BY <1>10, <1>12, <1>14, <1>15

(* kmalloc preserves the invariant and is an allocation of HeapSpec.        *)
LEMMA AllocStep ==
  ASSUME IInv, NEW need \in Nat, NEW bytes, NEW b \in linked,
         FirstFit(b, need), Owns(b, need, bytes),
         \/ hdr' = Granted(b, need)
         \/ \E x, y : hdr' = Wiped(Granted(b, need), Listed(b, need), x, y)
  PROVE  IInv' /\ [Abstract!Next]_live
<1>1. hdr[b].free /\ linked' = Listed(b, need)
  BY DEF FirstFit, Fits, Owns
<1>2. Struct(Granted(b, need), Listed(b, need))
  BY <1>1, GrantStruct
<1>3. /\ Struct(hdr', linked')
      /\ \A c \in linked' : hdr'[c] = Granted(b, need)[c]
  <2>1. CASE hdr' = Granted(b, need)
    BY <2>1, <1>1, <1>2
  <2>2. CASE \E x, y : hdr' = Wiped(Granted(b, need), Listed(b, need), x, y)
    BY <2>2, <1>1, <1>2, WipeStruct
  <2>3. QED
    BY <2>1, <2>2
<1>4. /\ IInv' /\ Abstract!Alloc(b + Header, live'[b + Header])
      /\ b + Header \in 0 .. HeapUnits
      /\ live'[b + Header] \in 0 .. HeapUnits
  BY <1>1, <1>3, GrantIInv
<1>5. QED
  BY <1>4 DEF Abstract!Next

(* align16 yields a size in units.                                          *)
LEMMA AlignNat ==
  ASSUME NEW n \in Nat
  PROVE  Align16(n) \in Nat
<1>1. (n + Unit - 1) \in Nat
  BY HeapAssumption
<1>2. ASSUME NEW k \in Nat PROVE k % SizeMod \in Nat
  BY HeapAssumption
<1>3. ASSUME NEW k \in Nat PROVE k \div Unit \in Nat
  BY HeapAssumption
<1>4. QED
  BY <1>1, <1>2, <1>3 DEF Align16

LEMMA KmallocStep ==
  ASSUME IInv, NEW n \in Requests, Kmalloc(n)
  PROVE  IInv' /\ [Abstract!Next]_live
<1>1. n \in Nat
  BY HeapAssumption
<1>2. QED
  BY <1>1, AlignNat, AllocStep DEF Kmalloc

LEMMA KcallocStep ==
  ASSUME IInv, NEW c \in Counts, Kcalloc(c[1], c[2])
  PROVE  IInv' /\ [Abstract!Next]_live
<1>1. c[1] \in Nat /\ c[2] \in Nat
  BY HeapAssumption
<1>2. ASSUME NEW i \in Nat, NEW j \in Nat PROVE (i * j) % SizeMod \in Nat
  BY HeapAssumption
<1> DEFINE bytes == (c[1] * c[2]) % SizeMod
<1>3. bytes \in Nat
  BY <1>1, <1>2
<1>4. Align16(bytes) \in Nat
  BY <1>3, AlignNat
<1>5. PICK b \in linked :
        /\ FirstFit(b, Align16(bytes))
        /\ hdr' = Wiped(Granted(b, Align16(bytes)), Listed(b, Align16(bytes)),
                        b + Header, b + Header + Cleared(bytes) - 1)
        /\ Owns(b, Align16(bytes), c[1] * c[2])
  BY DEF Kcalloc
<1> HIDE DEF bytes
<1>6. QED
  BY <1>4, <1>5, AllocStep

(* A write to a live payload reaches no header of the list.                 *)
LEMMA PayloadUnlisted ==
  ASSUME IInv, NEW p \in DOMAIN live, NEW u \in p .. (p + live[p] - 1)
  PROVE  u \in Addrs \ linked
<1>1. /\ Struct(hdr, linked)
      /\ {b + Header : b \in UsedBlocks(hdr, linked)} = DOMAIN live
      /\ \A q \in DOMAIN live : live[q] = hdr[q - Header].size
  BY IInvForms
<1>2. PICK b \in linked : p = b + Header
  BY <1>1 DEF UsedBlocks
<1>3. b \in Addrs /\ hdr[b] \in Headers /\ HEnd(hdr, b) <= HeapUnits
  BY <1>1, EndInHeap
<1>4. p - Header = b /\ live[p] = hdr[b].size /\ hdr[b].size \in Nat
  BY <1>1, <1>2, <1>3, HeapAssumption DEF Addrs, Headers
<1>5. b < u /\ u < HEnd(hdr, b) /\ u \in Nat
  BY <1>2, <1>3, <1>4, HeapAssumption DEF HEnd, Addrs
<1>6. u \in Addrs
  BY <1>3, <1>4, <1>5, HeapAssumption DEF HEnd, Addrs
<1>7. ASSUME u \in linked PROVE FALSE
  <2>1. HEnd(hdr, b) <= u
    BY <1>1, <1>5, <1>7 DEF Struct, Ordered
  <2>2. HEnd(hdr, b) \in Int
    BY <1>3, <1>4, HeapAssumption DEF HEnd, Addrs
  <2>3. QED
    BY <2>1, <2>2, <1>5
<1>8. QED
  BY <1>6, <1>7

(* Changing the words of one header that is off the list keeps the list.    *)
LEMMA SpoilStruct ==
  ASSUME NEW h, NEW l, Struct(h, l), NEW u \in Addrs \ l, NEW v \in Headers,
         v.spoiled \/ ~v.magic \/ v.free
  PROVE  LET g == [h EXCEPT ![u] = v]
         IN  Struct(g, l) /\ \A c \in l : g[c] = h[c]
<1> DEFINE g == [h EXCEPT ![u] = v]
<1>1. h \in [Addrs -> Headers] /\ l \in SUBSET Addrs
  BY DEF Struct, Typed
<1>2. /\ \A a \in l : g[a] = h[a]
      /\ \A a \in Addrs : a # u => g[a] = h[a]
      /\ g[u] = v
      /\ g \in [Addrs -> Headers]
  BY <1>1
<1> HIDE DEF g
<1>3. Tiled(g, l) /\ Ordered(g, l)
  BY <1>2 DEF Struct, Tiled, Ordered, HEnd
<1>4. Chained(g, l)
  BY <1>2 DEF Struct, Chained
<1>5. StaleFree(g, l)
  BY <1>2 DEF Struct, StaleFree
<1>6. QED
  BY <1>1, <1>2, <1>3, <1>4, <1>5 DEF Struct, Typed, g

LEMMA WritePayloadStep ==
  ASSUME IInv, NEW p \in DOMAIN live, WritePayload(p)
  PROVE  IInv' /\ [Abstract!Next]_live
<1>1. UNCHANGED <<linked, live, short>>
  BY DEF WritePayload
<1>2. /\ Struct(hdr, linked) /\ TypeOK
      /\ \A b \in linked : CoalescedAt(hdr, b)
      /\ {b + Header : b \in UsedBlocks(hdr, linked)} = DOMAIN live
      /\ \A q \in DOMAIN live : live[q] = hdr[q - Header].size
  BY IInvForms
<1>3. Struct(hdr', linked') /\ \A c \in linked : hdr'[c] = hdr[c]
  <2>1. PICK u \in p .. (p + live[p] - 1), m \in BOOLEAN, f \in BOOLEAN :
          hdr' = [hdr EXCEPT ![u] =
                    IF m THEN [hdr[u] EXCEPT !.free = f, !.spoiled = ~f] ELSE NoBlock]
    BY DEF WritePayload
  <2> DEFINE v == IF m THEN [hdr[u] EXCEPT !.free = f, !.spoiled = ~f] ELSE NoBlock
  <2>2. u \in Addrs \ linked
    BY PayloadUnlisted
  <2>3. v \in Headers /\ (v.spoiled \/ ~v.magic \/ v.free)
    <3>1. CASE ~m
      BY <3>1, HeapAssumption DEF NoBlock, Headers
    <3>2. CASE m
      <4>1. hdr[u] \in Headers
        BY <1>2, <2>2 DEF Struct, Typed
      <4>2. v = [hdr[u] EXCEPT !.free = f, !.spoiled = ~f]
        BY <3>2
      <4> HIDE DEF v
      <4>3. v \in Headers /\ v.free = f /\ v.spoiled = ~f
        BY <4>1, <4>2 DEF Headers
      <4>4. QED
        BY <4>3
    <3>3. QED
      BY <3>1, <3>2
  <2>4. hdr' = [hdr EXCEPT ![u] = v]
    BY <2>1
  <2> HIDE DEF v
  <2>5. Struct([hdr EXCEPT ![u] = v], linked)
        /\ \A c \in linked : [hdr EXCEPT ![u] = v][c] = hdr[c]
    BY <1>2, <2>2, <2>3, SpoilStruct
  <2>6. QED
    BY <1>1, <2>4, <2>5
<1>4. /\ UsedBlocks(hdr', linked) = UsedBlocks(hdr, linked)
      /\ \A b \in linked : CoalescedAt(hdr', b)
  BY <1>1, <1>2, <1>3, SameListed
<1>5. TypeOK'
  BY <1>1, <1>2, <1>3 DEF TypeOK, Struct, Typed
<1>6. ASSUME NEW q \in DOMAIN live' PROVE live'[q] = hdr'[q - Header].size
  <2>1. PICK b \in UsedBlocks(hdr, linked) : q = b + Header
    BY <1>1, <1>2
  <2>2. q - Header = b /\ b \in linked
    BY <2>1, <1>2, HeapAssumption DEF UsedBlocks, TypeOK, Addrs
  <2>3. QED
    BY <2>2, <1>1, <1>2, <1>3
<1>7. IInv'
  BY <1>1, <1>3, <1>4, <1>5, <1>6, <1>2, IInvPrimed
<1>8. QED
  BY <1>1, <1>7

(* kfree: marking the block free, then at most two merges.                  *)
LEMMA KfreeStep ==
  ASSUME IInv, NEW p \in Addrs, MayFree(p), Kfree(p)
  PROVE  IInv' /\ [Abstract!Next]_live
<1> DEFINE b  == p - Header
           h1 == [hdr EXCEPT ![b].free = TRUE]
           pv == h1[b].prev
           b2 == IF FreeNeighbour(h1, pv) THEN pv ELSE b
           h2 == IF FreeNeighbour(h1, pv) THEN Absorb(h1, pv, b) ELSE h1
           nx == h2[b2].next
           l2 == IF FreeNeighbour(h1, pv) THEN linked \ {b} ELSE linked
<1>1. /\ Struct(hdr, linked) /\ TypeOK
      /\ \A c \in linked : CoalescedAt(hdr, c)
      /\ {c + Header : c \in UsedBlocks(hdr, linked)} = DOMAIN live
      /\ \A q \in DOMAIN live : live[q] = hdr[q - Header].size
  BY IInvForms
<1>2. /\ b \in Addrs /\ hdr[b].magic /\ ~hdr[b].free
      /\ \/ /\ FreeNeighbour(h2, nx)
            /\ hdr' = Absorb(h2, b2, nx)
            /\ linked' = l2 \ {nx}
         \/ /\ ~FreeNeighbour(h2, nx)
            /\ hdr' = h2
            /\ linked' = l2
      /\ live' = Drop(live, p)
      /\ short' = short \ {p}
  BY DEF Kfree
<1> HIDE DEF h1, b2, h2, nx, l2, pv
<1>3. b \in linked /\ b \in UsedBlocks(hdr, linked)
  BY <1>1, <1>2 DEF Struct, StaleFree, UsedBlocks, MayFree
<1>4. hdr \in [Addrs -> Headers] /\ linked \in SUBSET Addrs /\ hdr[b] \in Headers
  BY <1>1, <1>2 DEF Struct, Typed
(* The block is marked free. *)
<1>5. /\ Struct(h1, linked) /\ h1[b].free
      /\ \A c \in linked : h1[c].next = hdr[c].next /\ h1[c].size = hdr[c].size
      /\ \A c \in linked \ {b} : h1[c].free = hdr[c].free
  <2>1. /\ \A a \in Addrs \ {b} : h1[a] = hdr[a]
        /\ h1[b] = [hdr[b] EXCEPT !.free = TRUE]
    BY <1>2, <1>4 DEF h1
  <2>2. /\ h1[b].free /\ h1[b].magic = hdr[b].magic /\ h1[b].size = hdr[b].size
        /\ h1[b].prev = hdr[b].prev /\ h1[b].next = hdr[b].next
        /\ h1[b] \in Headers
    BY <2>1, <1>4 DEF Headers
  <2>3. Typed(h1, linked)
    <3>1. \A a \in Addrs : h1[a] \in Headers
      BY <2>1, <2>2, <1>4
    <3>2. h1 \in [Addrs -> Headers]
      BY <3>1, <1>4 DEF h1
    <3>3. QED
      BY <3>2, <1>4 DEF Typed
  <2>4. /\ \A a \in Addrs : /\ h1[a].next = hdr[a].next /\ h1[a].prev = hdr[a].prev
                            /\ h1[a].size = hdr[a].size /\ h1[a].magic = hdr[a].magic
        /\ \A a \in Addrs \ linked : h1[a] = hdr[a]
    BY <2>1, <2>2, <1>3
  <2>5. Struct(h1, linked)
    BY <1>1, <2>3, <2>4, FlagStruct
  <2>6. QED
    BY <2>1, <2>2, <2>4, <2>5, <1>4
<1>6. \A c \in linked \ {b} :
        c # pv /\ h1[c].free /\ h1[c].next # NULL =>
          h1[c].next \in linked /\ h1[c].next # b /\ ~h1[h1[c].next].free
  <2> SUFFICES ASSUME NEW c \in linked \ {b}, c # pv, h1[c].free, h1[c].next # NULL
               PROVE  h1[c].next \in linked /\ h1[c].next # b /\ ~h1[h1[c].next].free
    OBVIOUS
  <2>1. h1[c].next \in linked /\ h1[h1[c].next].prev = c
    BY <1>5 DEF Struct, Chained
  <2>2. h1[c].next # b
    BY <2>1 DEF pv
  <2>3. hdr[c].free /\ hdr[c].next = h1[c].next
    BY <1>5
  <2>4. ~hdr[h1[c].next].free
    BY <1>1, <2>3 DEF CoalescedAt
  <2>5. QED
    BY <2>1, <2>2, <2>4, <1>5
(* The merge with the predecessor. *)
<1>7. /\ Struct(h2, l2) /\ b2 \in l2 /\ h2[b2].free
      /\ l2 \subseteq linked /\ linked \ l2 \subseteq {b}
      /\ \A c \in l2 \ {b} : h2[c].free = hdr[c].free
      /\ b \in l2 => b = b2
      /\ \A c \in l2 \ {b2} : h2[c].size = hdr[c].size
      /\ \A c \in l2 \ {b2} : CoalescedAt(h2, c)
  <2>1. CASE FreeNeighbour(h1, pv)
    <3>1. h2 = Absorb(h1, pv, b) /\ b2 = pv /\ l2 = linked \ {b}
      BY <2>1 DEF h2, b2, l2
    <3>2. pv \in linked /\ h1[pv].next = b /\ h1[pv].free
      BY <2>1, <1>3, <1>5 DEF FreeNeighbour, pv, Struct, Chained
    <3>3. /\ Struct(h2, l2)
          /\ pv \in l2 /\ h2[pv].free
          /\ \A c \in l2 : h2[c].free = h1[c].free
          /\ \A c \in linked \ {pv, b} : h2[c].size = h1[c].size /\ h2[c].next = h1[c].next
      <4>1. Struct(h1, linked) /\ pv \in linked /\ b \in linked /\ h1[b].free
        BY <1>3, <1>5, <3>2
      <4> HIDE DEF h1, pv, h2, l2, b
      <4>2. /\ Struct(Absorb(h1, pv, b), linked \ {b})
            /\ pv \in linked \ {b} /\ Absorb(h1, pv, b)[pv].free
            /\ \A c \in linked \ {b} : Absorb(h1, pv, b)[c].free = h1[c].free
            /\ \A c \in linked \ {pv, b} :
                 /\ Absorb(h1, pv, b)[c].size = h1[c].size
                 /\ Absorb(h1, pv, b)[c].next = h1[c].next
        BY <4>1, <3>2, AbsorbStruct
      <4>3. QED
        BY <3>1, <4>2
    <3>4. ASSUME NEW c \in l2 \ {b2} PROVE CoalescedAt(h2, c)
      <4> SUFFICES ASSUME h1[c].free, h1[c].next # NULL
                   PROVE  ~h2[h1[c].next].free
        BY <3>1, <3>3 DEF CoalescedAt
      <4>1. h1[c].next \in linked /\ h1[c].next # b /\ ~h1[h1[c].next].free
        BY <1>6, <3>1
      <4>2. QED
        BY <4>1, <3>1, <3>3
    <3>5. QED
      BY <3>1, <3>3, <3>4, <1>5
  <2>2. CASE ~FreeNeighbour(h1, pv)
    <3>1. h2 = h1 /\ b2 = b /\ l2 = linked
      BY <2>2 DEF h2, b2, l2
    <3>2. ASSUME NEW c \in linked \ {b} PROVE CoalescedAt(h1, c)
      <4> SUFFICES ASSUME h1[c].free, h1[c].next # NULL
                   PROVE  ~h1[h1[c].next].free
        BY DEF CoalescedAt
      <4>1. c # pv
        <5>1. c # NULL
          BY <1>4 DEF Addrs, NULL
        <5>2. QED
          BY <5>1, <2>2 DEF FreeNeighbour
      <4>2. QED
        BY <4>1, <1>6
    <3>3. QED
      BY <3>1, <3>2, <1>3, <1>5
  <2>3. QED
    BY <2>1, <2>2
(* The merge with the successor. *)
<1>8. /\ Struct(hdr', linked')
      /\ \A c \in linked' : CoalescedAt(hdr', c)
      /\ UsedBlocks(hdr', linked') = UsedBlocks(hdr, linked) \ {b}
      /\ \A c \in UsedBlocks(hdr', linked') : hdr'[c].size = hdr[c].size
  <2>1. CASE FreeNeighbour(h2, nx)
    <3>1. hdr' = Absorb(h2, b2, nx) /\ linked' = l2 \ {nx}
      BY <1>2, <2>1
    <3>2. nx \in l2 /\ h2[nx].free /\ h2[b2].next = nx
      BY <2>1, <1>7 DEF FreeNeighbour, nx, Struct, Chained
    <3>3. /\ Struct(hdr', linked') /\ b2 \in linked' /\ b2 # nx
          /\ hdr'[b2].free /\ hdr'[b2].next = h2[nx].next
          /\ \A c \in linked' : hdr'[c].free = h2[c].free
          /\ \A c \in l2 \ {b2, nx} : hdr'[c].size = h2[c].size /\ hdr'[c].next = h2[c].next
      <4>1. Struct(h2, l2) /\ b2 \in l2 /\ h2[b2].free
        BY <1>7
      <4>2. LET g == Absorb(h2, b2, nx)
            IN  /\ Struct(g, l2 \ {nx})
                /\ b2 \in l2 \ {nx} /\ g[b2].free /\ g[b2].next = h2[nx].next
                /\ \A c \in l2 \ {nx} : g[c].free = h2[c].free
                /\ \A c \in l2 \ {b2, nx} : g[c].size = h2[c].size /\ g[c].next = h2[c].next
        BY <4>1, <3>2, AbsorbStruct
      <4>3. QED
        BY <4>2, <3>1
    <3>4. ASSUME NEW c \in linked' PROVE CoalescedAt(hdr', c)
      <4> SUFFICES ASSUME hdr'[c].free, hdr'[c].next # NULL
                   PROVE  ~hdr'[hdr'[c].next].free
        BY DEF CoalescedAt
      <4>1. hdr'[c].next \in linked'
        BY <3>3 DEF Struct, Chained
      <4>2. CASE c = b2
        <5>1. CoalescedAt(h2, nx)
          BY <1>7, <3>2, <3>3
        <5>2. ~h2[h2[nx].next].free
          BY <5>1, <4>2, <3>2, <3>3 DEF CoalescedAt
        <5>3. QED
          BY <5>2, <4>1, <4>2, <3>3
      <4>3. CASE c # b2
        <5>1. CoalescedAt(h2, c)
          BY <4>3, <1>7, <3>1
        <5>2. hdr'[c].next = h2[c].next /\ h2[c].free
          BY <4>3, <3>1, <3>3
        <5>3. QED
          BY <5>1, <5>2, <4>1, <3>3 DEF CoalescedAt
      <4>4. QED
        BY <4>2, <4>3
    <3>5. UsedBlocks(hdr', linked') = UsedBlocks(hdr, linked) \ {b}
      <4>1. ASSUME NEW c \in UsedBlocks(hdr, linked) \ {b}
            PROVE  c \in UsedBlocks(hdr', linked')
        <5>1. c \in l2 /\ ~h2[c].free
          BY <1>7 DEF UsedBlocks
        <5>2. c # nx
          BY <5>1, <3>2
        <5>3. QED
          BY <5>1, <5>2, <3>1, <3>3 DEF UsedBlocks
      <4>2. ASSUME NEW c \in UsedBlocks(hdr', linked')
            PROVE  c \in UsedBlocks(hdr, linked) \ {b}
        <5>1. c \in l2 /\ ~h2[c].free /\ c # b2
          BY <3>1, <3>3, <1>7 DEF UsedBlocks
        <5>2. QED
          BY <5>1, <1>7 DEF UsedBlocks
      <4>3. QED
        BY <4>1, <4>2
    <3>6. ASSUME NEW c \in UsedBlocks(hdr', linked') PROVE hdr'[c].size = hdr[c].size
      <4>1. c \in l2 \ {b2, nx}
        BY <3>1, <3>3 DEF UsedBlocks
      <4>2. QED
        BY <4>1, <3>3, <1>7
    <3>7. QED
      BY <3>3, <3>4, <3>5, <3>6
  <2>2. CASE ~FreeNeighbour(h2, nx)
    <3>1. hdr' = h2 /\ linked' = l2
      BY <1>2, <2>2
    <3>2. CoalescedAt(h2, b2)
      BY <2>2 DEF CoalescedAt, FreeNeighbour, nx
    <3>3. UsedBlocks(h2, l2) = UsedBlocks(hdr, linked) \ {b}
      BY <1>7 DEF UsedBlocks
    <3>4. \A c \in UsedBlocks(h2, l2) : h2[c].size = hdr[c].size
      BY <1>7 DEF UsedBlocks
    <3>5. QED
      BY <3>1, <3>2, <3>3, <3>4, <1>7
  <2>3. QED
    BY <2>1, <2>2
(* The pointer is the caller's no more. *)
<1>9. p = b + Header /\ p \in Int /\ b \in Int
  BY <1>2, HeapAssumption DEF Addrs
<1> HIDE DEF b
<1>10. p \in DOMAIN live
  BY <1>1, <1>3, <1>9
<1>11. DOMAIN live' = DOMAIN live \ {p} /\ \A q \in DOMAIN live' : live'[q] = live[q]
  BY <1>2 DEF Drop
<1>12. {c + Header : c \in UsedBlocks(hdr', linked')} = DOMAIN live'
  <2>1. ASSUME NEW c \in UsedBlocks(hdr, linked), c # b PROVE c + Header # p
    <3>1. c \in Int
      BY <1>4 DEF UsedBlocks, Addrs
    <3>2. QED
      BY <2>1, <3>1, <1>9, HeapAssumption
  <2>2. ASSUME NEW c \in UsedBlocks(hdr, linked) \ {b} PROVE c + Header \in DOMAIN live'
    <3>1. c + Header \in DOMAIN live
      BY <1>1
    <3>2. c + Header # p
      BY <2>1
    <3>3. QED
      BY <3>1, <3>2, <1>11
  <2>3. ASSUME NEW q \in DOMAIN live'
        PROVE \E c \in UsedBlocks(hdr, linked) \ {b} : q = c + Header
    <3>1. q \in DOMAIN live /\ q # p
      BY <1>11
    <3>2. PICK c \in UsedBlocks(hdr, linked) : q = c + Header
      BY <3>1, <1>1
    <3>3. c # b
      BY <3>1, <3>2, <1>9
    <3>4. QED
      BY <3>2, <3>3
  <2>4. QED
    BY <2>2, <2>3, <1>8
<1>13. ASSUME NEW q \in DOMAIN live' PROVE live'[q] = hdr'[q - Header].size
  <2>1. PICK c \in UsedBlocks(hdr', linked') : q = c + Header
    BY <1>12
  <2>2. q - Header = c
    <3>1. c \in UsedBlocks(hdr, linked)
      BY <1>8
    <3>2. c \in Int
      BY <3>1, <1>4 DEF UsedBlocks, Addrs
    <3>3. QED
      BY <2>1, <3>2, HeapAssumption
  <2>3. live'[q] = live[q] /\ live[q] = hdr[q - Header].size
    BY <1>1, <1>11
  <2>4. hdr'[c].size = hdr[c].size
    BY <1>8
  <2>5. live'[q] = hdr[c].size
    BY <2>2, <2>3
  <2>6. QED
    BY <2>2, <2>4, <2>5
<1>14. TypeOK'
  BY <1>1, <1>2, <1>8, <1>11 DEF TypeOK, Struct, Typed
<1>15. IInv'
  BY <1>8, <1>12, <1>13, <1>14, IInvPrimed
<1>16. Abstract!Free(p)
  BY <1>2 DEF Abstract!Free, Drop
<1>17. QED
  BY <1>10, <1>15, <1>16 DEF Abstract!Next

(* kheap_init: one free block covers the heap.                              *)
LEMMA InitIInv == Init => IInv /\ Abstract!Init
<1> SUFFICES ASSUME Init PROVE IInv
  BY DEF Init, Abstract!Init
<1>1. /\ hdr = [a \in Addrs |-> IF a = 0 THEN Block(HeapUnits - Header, NULL, NULL)
                                          ELSE NoBlock]
      /\ linked = {0} /\ live = << >> /\ short = {}
  BY DEF Init
<1>2. 0 \in Addrs /\ HeapUnits - Header \in 0 .. HeapUnits
  BY HeapAssumption DEF Addrs
<1>3. /\ hdr[0].size = HeapUnits - Header /\ hdr[0].magic /\ hdr[0].free
      /\ hdr[0].prev = NULL /\ hdr[0].next = NULL
      /\ \A a \in Addrs \ {0} : hdr[a] = NoBlock
  BY <1>1, <1>2 DEF Block
<1>4. hdr \in [Addrs -> Headers]
  BY <1>1, <1>2, HeapAssumption DEF Block, NoBlock, Headers
<1>5. TypeOK
  BY <1>1, <1>2, <1>4 DEF TypeOK
<1>6. Tiled(hdr, linked) /\ Ordered(hdr, linked)
  BY <1>1, <1>3, HeapAssumption DEF Tiled, Ordered, HEnd
<1>7. Chained(hdr, linked) /\ StaleFree(hdr, linked)
  BY <1>1, <1>3 DEF Chained, StaleFree, NoBlock
<1>8. Struct(hdr, linked) /\ \A c \in linked : CoalescedAt(hdr, c)
  BY <1>1, <1>2, <1>3, <1>4, <1>6, <1>7 DEF Struct, Typed, CoalescedAt
<1>9. UsedBlocks(hdr, linked) = {}
  BY <1>1, <1>3 DEF UsedBlocks
<1>10. QED
  BY <1>1, <1>5, <1>8, <1>9, IInvForms

(* Every step preserves the invariant and is a step of HeapSpec.            *)
LEMMA NextStep == IInv /\ [Next]_vars => IInv' /\ [Abstract!Next]_live
<1> SUFFICES ASSUME IInv, [Next]_vars PROVE IInv' /\ [Abstract!Next]_live
  OBVIOUS
<1>1. CASE \E n \in Requests : Kmalloc(n)
  BY <1>1, KmallocStep
<1>2. CASE \E c \in Counts : Kcalloc(c[1], c[2])
  BY <1>2, KcallocStep
<1>3. CASE \E p \in DOMAIN live : WritePayload(p)
  BY <1>3, WritePayloadStep
<1>4. CASE \E p \in Addrs : MayFree(p) /\ Kfree(p)
  BY <1>4, KfreeStep
<1>5. CASE UNCHANGED vars
  BY <1>5 DEF vars, IInv, TypeOK, Tiling, ListInOrder, Coalesced,
     StaleHeadersRejected, UsedIsLive, End
<1>6. QED
  BY <1>1, <1>2, <1>3, <1>4, <1>5 DEF Next

LEMMA SpecIInv == Spec => []IInv
<1>1. Init => IInv
  BY InitIInv
<1>2. IInv /\ [Next]_vars => IInv'
  BY NextStep
<1>3. QED
  BY <1>1, <1>2, PTL DEF Spec

(* The block list is well formed after any sequence of calls: the blocks    *)
(* tile the heap in address order, with consistent links, and a block is in *)
(* use exactly when a caller holds its pointer.                             *)
THEOREM ListCorrect == Spec => [](TypeOK /\ ListIsHeap /\ UsedIsLive)
<1>1. IInv => TypeOK /\ ListIsHeap /\ UsedIsLive
  BY DEF IInv, ListIsHeap
<1>2. QED
  BY <1>1, SpecIInv, PTL

(* kfree leaves no two free neighbours.                                     *)
THEOREM CoalescedCorrect == Spec => []Coalesced
<1>1. IInv => Coalesced
  BY DEF IInv
<1>2. QED
  BY <1>1, SpecIInv, PTL

(* A double free is recognised by the header it left, unless a caller's     *)
(* write has kept the magic of that header and cleared its free.            *)
THEOREM DoubleFreeCorrect == Spec => []StaleHeadersRejected
<1>1. IInv => StaleHeadersRejected
  BY DEF IInv
<1>2. QED
  BY <1>1, SpecIInv, PTL

(* When every pointer has been freed the heap is one block again, whatever  *)
(* the order of the calls: a block with a successor would have a free one.  *)
THEOREM AllFreedCorrect == Spec => []AllFreedIsOneBlock
<1>1. IInv => AllFreedIsOneBlock
  <2> SUFFICES ASSUME IInv, DOMAIN live = {}
               PROVE  linked = {0} /\ hdr[0].size = HeapUnits - Header
    BY DEF AllFreedIsOneBlock
  <2>1. /\ Struct(hdr, linked) /\ TypeOK
        /\ \A c \in linked : CoalescedAt(hdr, c)
        /\ UsedBlocks(hdr, linked) = {}
    BY IInvForms
  <2>2. 0 \in linked /\ \A c \in linked : hdr[c].free /\ c \in Addrs
    <3>1. \A c \in linked : hdr[c].free
      BY <2>1 DEF UsedBlocks
    <3>2. QED
      BY <2>1, <3>1 DEF Struct, Chained, TypeOK
  <2>3. hdr[0].next = NULL
    <3>1. hdr[0].next # NULL => hdr[0].next \in linked
      BY <2>1, <2>2 DEF Struct, Chained
    <3>2. hdr[0].next # NULL => ~hdr[hdr[0].next].free
      BY <2>1, <2>2 DEF CoalescedAt
    <3>3. QED
      BY <2>2, <3>1, <3>2
  <2>4. HEnd(hdr, 0) = HeapUnits
    BY <2>1, <2>2, <2>3 DEF Struct, Tiled
  <2>5. \A c \in linked : c = 0
    <3> SUFFICES ASSUME NEW c \in linked, c # 0 PROVE FALSE
      OBVIOUS
    <3>1. c \in Addrs /\ 0 < c
      BY <2>2 DEF Addrs
    <3>2. HeapUnits <= c
      BY <2>1, <2>2, <2>4, <3>1 DEF Struct, Ordered
    <3>3. QED
      BY <3>1, <3>2, HeapAssumption DEF Addrs
  <2>6. hdr[0] \in Headers
    BY <2>1, <2>2 DEF TypeOK
  <2>7. QED
    BY <2>2, <2>4, <2>5, <2>6, HeapAssumption DEF HEnd, Headers
<1>2. QED
  BY <1>1, SpecIInv, PTL

(* The heap implements HeapSpec: every allocation is of units no live       *)
(* pointer owns, and nothing but a free takes a live pointer away.          *)
THEOREM ImplementsCorrect == Spec => ImplementsHeapSpec
<1>1. Init => Abstract!Init
  BY InitIInv
<1>2. IInv /\ [Next]_vars => [Abstract!Next]_live
  BY NextStep
<1>3. QED
  BY <1>1, <1>2, SpecIInv, PTL DEF Spec, ImplementsHeapSpec, Abstract!Spec

(* What a grant owes: align16 rounds up to whole units, unless the sum      *)
(* wraps, and neither a split nor a whole block is shorter than the need.   *)
RoomInSizeT(n) == n + Unit - 1 < SizeMod

NoRequestWraps ==
  /\ \A n \in Requests : RoomInSizeT(n)
  /\ \A c \in Counts : RoomInSizeT(c[1] * c[2])

LEMMA RoundsUp ==
  ASSUME NEW n \in Nat, RoomInSizeT(n)
  PROVE  Align16(n) \in Nat /\ n <= Align16(n) * Unit
<1>1. ASSUME NEW u \in Nat \ {0}, NEW x \in Nat
      PROVE  x \div u \in Nat /\ x - u + 1 <= (x \div u) * u
  BY <1>1, Z3
<1>2. n + Unit - 1 \in Nat /\ (n + Unit - 1) % SizeMod = n + Unit - 1
  <2>1. ASSUME NEW x \in Nat, NEW m \in Nat \ {0}, x < m
        PROVE  x % m = x
    BY <2>1
  <2>2. n + Unit - 1 \in Nat
    BY HeapAssumption
  <2>. QED
    BY <2>1, <2>2, HeapAssumption DEF RoomInSizeT
<1>3. Align16(n) = (n + Unit - 1) \div Unit
  BY <1>2 DEF Align16
<1>4. Align16(n) \in Nat /\ (n + Unit - 1) - Unit + 1 <= Align16(n) * Unit
  BY <1>1, <1>2, <1>3, HeapAssumption
<1>5. (n + Unit - 1) - Unit + 1 = n
  BY HeapAssumption
<1>. QED
  BY <1>4, <1>5

LEMMA GrantCovers ==
  ASSUME IInv, NEW need \in Nat, NEW b \in linked, FirstFit(b, need)
  PROVE  LET n == Granted(b, need)[b].size IN n \in Nat /\ need <= n
<1>1. /\ hdr \in [Addrs -> Headers] /\ b \in Addrs /\ hdr[b] \in Headers
      /\ hdr[b].size \in Nat /\ need <= hdr[b].size /\ hdr[b].free
  BY IInvForms DEF TypeOK, FirstFit, Fits, Headers
<1>2. CASE Splits(b, need)
  <2>1. Split(b, need)[b].size = need
    <3>1. Struct(hdr, linked)
      BY IInvForms
    <3>. QED
      BY <1>2, <3>1, SplitStruct
  <2>2. Granted(b, need) = Split(b, need)
    BY <1>2, Zenon DEF Granted
  <2>. QED
    BY <2>1, <2>2
<1>3. CASE ~Splits(b, need)
  <2>1. Granted(b, need) = [hdr EXCEPT ![b].free = FALSE]
    BY <1>3, Zenon DEF Granted
  <2>2. Granted(b, need)[b].size = hdr[b].size
    BY <1>1, <2>1 DEF Headers
  <2>. QED
    BY <1>1, <2>2
<1>. QED
  BY <1>2, <1>3

LEMMA OwnsCovers ==
  ASSUME IInv, PayloadCoversRequest, NEW bytes \in Nat, RoomInSizeT(bytes),
         NEW b \in linked, FirstFit(b, Align16(bytes)),
         Owns(b, Align16(bytes), bytes)
  PROVE  PayloadCoversRequest'
<1>. DEFINE need == Align16(bytes)
            n == Granted(b, need)[b].size
<1>1. need \in Nat /\ bytes <= need * Unit
  BY RoundsUp
<1>2. n \in Nat /\ need <= n
  BY <1>1, GrantCovers
<1>3. short' = IF n * Unit < bytes THEN short \cup {b + Header} ELSE short
  BY DEF Owns
<1>. HIDE DEF need, n
<1>4. ASSUME NEW u \in Nat, NEW i \in Nat, NEW j \in Nat, i <= j
      PROVE  i * u \in Nat /\ j * u \in Nat /\ i * u <= j * u
  BY <1>4, Z3
<1>5. need * Unit \in Nat /\ n * Unit \in Nat /\ need * Unit <= n * Unit
  BY <1>1, <1>2, <1>4, HeapAssumption
<1>6. ~(n * Unit < bytes)
  BY <1>1, <1>5
<1>. QED
  BY <1>3, <1>6 DEF PayloadCoversRequest

(* A caller of kmalloc or kcalloc holds at least the bytes it asked for, as *)
(* long as no request, and no product kcalloc is given, comes within a unit *)
(* of the range of size_t.                                                  *)
THEOREM PayloadCorrect ==
  ASSUME NoRequestWraps
  PROVE  Spec => []PayloadCoversRequest
<1>1. Init => PayloadCoversRequest
  BY DEF Init, PayloadCoversRequest
<1>2. IInv /\ PayloadCoversRequest /\ [Next]_vars => PayloadCoversRequest'
  <2>. SUFFICES ASSUME IInv, PayloadCoversRequest, [Next]_vars
                PROVE  PayloadCoversRequest'
    OBVIOUS
  <2>1. ASSUME NEW n \in Requests, Kmalloc(n) PROVE PayloadCoversRequest'
    <3>1. n \in Nat /\ RoomInSizeT(n)
      BY HeapAssumption DEF NoRequestWraps
    <3>2. PICK b \in linked : FirstFit(b, Align16(n)) /\ Owns(b, Align16(n), n)
      BY <2>1 DEF Kmalloc
    <3>. QED
      BY <3>1, <3>2, OwnsCovers
  <2>2. ASSUME NEW c \in Counts, Kcalloc(c[1], c[2]) PROVE PayloadCoversRequest'
    <3>1. c[1] * c[2] \in Nat /\ RoomInSizeT(c[1] * c[2])
      BY HeapAssumption DEF NoRequestWraps
    <3>2. (c[1] * c[2]) % SizeMod = c[1] * c[2]
      <4>1. ASSUME NEW x \in Nat, NEW m \in Nat \ {0}, NEW u \in Nat \ {0},
                   x + u - 1 < m
            PROVE  x % m = x
        BY <4>1
      <4>. QED
        BY <3>1, <4>1, HeapAssumption DEF RoomInSizeT
    <3>3. PICK b \in linked : /\ FirstFit(b, Align16(c[1] * c[2]))
                             /\ Owns(b, Align16(c[1] * c[2]), c[1] * c[2])
      BY <2>2, <3>2 DEF Kcalloc
    <3>. QED
      BY <3>1, <3>3, OwnsCovers
  <2>3. ASSUME NEW p \in Addrs, Kfree(p) PROVE PayloadCoversRequest'
    BY <2>3 DEF Kfree, PayloadCoversRequest
  <2>4. ASSUME NEW p \in DOMAIN live, WritePayload(p) PROVE PayloadCoversRequest'
    BY <2>4 DEF WritePayload, PayloadCoversRequest
  <2>5. CASE UNCHANGED vars
    BY <2>5 DEF vars, PayloadCoversRequest
  <2>. QED
    BY <2>1, <2>2, <2>3, <2>4, <2>5 DEF Next
<1>. QED
  BY <1>1, <1>2, SpecIInv, PTL DEF Spec
=============================================================================
