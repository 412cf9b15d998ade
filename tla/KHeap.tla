-------------------------------- MODULE KHeap --------------------------------
(***************************************************************************)
(* The kernel heap, src/kernel/mm/kheap.c: first fit over a doubly linked  *)
(* list of blocks in address order, splitting on allocation and coalescing *)
(* on free.                                                                 *)
(*                                                                         *)
(* Addresses and sizes are in units of 16 bytes from kheap_base (every     *)
(* address and size of the code is a multiple of 16); requests are bytes.   *)
(* hdr holds what lies at each address when it is read as a heap_block: a  *)
(* header stays in memory after its block is merged away, until a caller   *)
(* writes the words of the payload it ends up in.                           *)
(***************************************************************************)
EXTENDS Integers, FiniteSets

CONSTANTS
  HeapUnits,   \* KHEAP_SIZE in units
  Header,      \* BLOCK_HEADER_SIZE in units (2)
  MinBlock,    \* HEAP_MIN_BLOCK in units (1)
  Unit,        \* bytes in a unit (16)
  SizeMod,     \* size_t is modulo this (2^64)
  Requests,    \* byte counts asked of kmalloc
  Counts       \* pairs <<n, size>> asked of kcalloc

ASSUME HeapAssumption ==
  /\ HeapUnits \in Nat /\ Header \in Nat \ {0} /\ MinBlock \in Nat \ {0}
  /\ HeapUnits > Header
  /\ Unit \in Nat \ {0} /\ SizeMod \in Nat \ {0}
  /\ Requests \subseteq Nat /\ Counts \subseteq Nat \X Nat

VARIABLES
  hdr,      \* the heap_block read at each address
  linked,   \* addresses of the blocks on the list (the walk from kheap_head)
  live,     \* payload units of the pointers callers hold (history)
  short     \* live pointers granted fewer bytes than asked for (history)

vars == <<hdr, linked, live, short>>

Addrs == 0 .. (HeapUnits - 1)
NULL  == -1

\* spoiled is history: a caller's write kept the magic of the header, long
\* merged away, and cleared its free.
Block(s, p, n) == [size |-> s, magic |-> TRUE, free |-> TRUE, prev |-> p, next |-> n,
                   spoiled |-> FALSE]
NoBlock == [size |-> 0, magic |-> FALSE, free |-> FALSE, prev |-> NULL, next |-> NULL,
            spoiled |-> FALSE]

\* Mutant: rounds down.
Align16Down(n) == n \div Unit

\* align16, in units: the sum wraps before the mask.
Align16(n) == ((n + Unit - 1) % SizeMod) \div Unit

End(b) == b + Header + hdr[b].size

Init ==
  /\ hdr = [a \in Addrs |-> IF a = 0 THEN Block(HeapUnits - Header, NULL, NULL)
                                     ELSE NoBlock]
  /\ linked = {0}
  /\ live = << >>
  /\ short = {}

-----------------------------------------------------------------------------
(* kmalloc *)

\* Mutant: the walk forgets to ask whether the block is free.
FitsInUse(b, need) == hdr[b].size >= need

Fits(b, need) == hdr[b].free /\ hdr[b].size >= need

\* The walk along next meets the blocks in address order (ListInOrder).
FirstFit(b, need) ==
  /\ b \in linked /\ Fits(b, need)
  /\ \A c \in linked : Fits(c, need) => b <= c

Splits(b, need) == hdr[b].size >= need + Header + MinBlock

\* The list after block b is cut to need units, the rest becoming block nb.
Split(b, need) ==
  LET nb == b + Header + need
      s  == hdr[b].next
  IN  [a \in Addrs |->
         CASE a = nb -> Block(hdr[b].size - need - Header, b, s)
           [] a = b  -> [hdr[b] EXCEPT !.size = need, !.next = nb, !.free = FALSE]
           [] a = s  -> [hdr[s] EXCEPT !.prev = nb]
           [] OTHER  -> hdr[a]]

Put(f, p, v) == [q \in DOMAIN f \cup {p} |-> IF q = p THEN v ELSE f[q]]
Drop(f, p)   == [q \in DOMAIN f \ {p} |-> f[q]]

\* The list once block b is granted, and the blocks then on it.
Granted(b, need) ==
  IF Splits(b, need) THEN Split(b, need) ELSE [hdr EXCEPT ![b].free = FALSE]
Listed(b, need) ==
  IF Splits(b, need) THEN linked \cup {b + Header + need} ELSE linked

\* memset over the units first..last loses the magic of the stale headers there.
Wiped(h, list, first, last) ==
  [a \in Addrs |-> IF a \in (first .. last) \ list THEN NoBlock ELSE h[a]]

\* The bookkeeping of a grant of block b to a caller that asked for bytes.
Owns(b, need, bytes) ==
  LET p == b + Header
      n == Granted(b, need)[b].size
  IN  /\ linked' = Listed(b, need)
      /\ live' = Put(live, p, n)
      /\ short' = IF n * Unit < bytes THEN short \cup {p} ELSE short

Kmalloc(n) ==
  LET need == Align16(n)
  IN  /\ n # 0
      /\ \E b \in linked :
           /\ FirstFit(b, need)
           /\ hdr' = Granted(b, need)
           /\ Owns(b, need, n)

\* The units whose magic memset(p, 0, bytes) reaches: it lies in the second
\* half of its unit, so the last unit may keep it.
Cleared(bytes) == (bytes + Unit - 1 - Unit \div 2) \div Unit

\* kcalloc multiplies without a check and clears what it multiplied to.
Kcalloc(n, size) ==
  LET bytes == (n * size) % SizeMod
      need  == Align16(bytes)
  IN  /\ n # 0 /\ size # 0 /\ bytes # 0
      /\ \E b \in linked :
           /\ FirstFit(b, need)
           /\ hdr' = Wiped(Granted(b, need), Listed(b, need),
                           b + Header, b + Header + Cleared(bytes) - 1)
           /\ Owns(b, need, n * size)

\* A caller writes its payload: some words of a stale header that lies there,
\* so that magic and free may each be kept, lost, set or cleared.  (The other
\* words of such a header are never read, and no data is taken to hold a
\* magic where no header was.)
WritePayload(p) ==
  /\ \E u \in p .. (p + live[p] - 1), magic, free \in BOOLEAN :
       /\ hdr[u].magic
       /\ hdr' = [hdr EXCEPT ![u] =
                    IF magic THEN [hdr[u] EXCEPT !.free = free, !.spoiled = ~free]
                             ELSE NoBlock]
  /\ UNCHANGED <<linked, live, short>>

-----------------------------------------------------------------------------
(* kfree *)

\* Mutants of the merge: the successor's prev is left behind; the merged
\* header is left in use; the header's own units are not counted.
AbsorbNoBackLink(h, b, n) ==
  [h EXCEPT ![n] = [Block(0, NULL, NULL) EXCEPT !.free = h[n].free],
            ![b].size = @ + Header + h[n].size, ![b].next = h[n].next]
Relinked(h, b, n) == IF h[n].next = NULL THEN h ELSE [h EXCEPT ![h[n].next].prev = b]
AbsorbLeftInUse(h, b, n) ==
  [Relinked(h, b, n) EXCEPT ![n] = [Block(0, NULL, NULL) EXCEPT !.free = FALSE],
            ![b].size = @ + Header + h[n].size, ![b].next = h[n].next]
AbsorbNoHeader(h, b, n) ==
  [Relinked(h, b, n) EXCEPT ![n] = [Block(0, NULL, NULL) EXCEPT !.free = h[n].free],
            ![b].size = @ + h[n].size, ![b].next = h[n].next]

\* Block b swallows its successor n on list h.  Of the header left at n only
\* magic and free can be read again.
Absorb(h, b, n) ==
  LET s == h[n].next
  IN  [a \in Addrs |->
         CASE a = n -> [Block(0, NULL, NULL) EXCEPT !.free = h[n].free]
           [] a = b -> [h[b] EXCEPT !.size = @ + Header + h[n].size, !.next = s]
           [] a = s -> [h[s] EXCEPT !.prev = b]
           [] OTHER -> h[a]]

\* Mutant: a merge only where more than a minimal block is gained.
FreeNeighbourLarge(h, b) == b # NULL /\ h[b].free /\ h[b].size > MinBlock

FreeNeighbour(h, b) == b # NULL /\ h[b].free

Kfree(p) ==
  LET b  == p - Header
      h1 == [hdr EXCEPT ![b].free = TRUE]
      pv == h1[b].prev
      b2 == IF FreeNeighbour(h1, pv) THEN pv ELSE b
      h2 == IF FreeNeighbour(h1, pv) THEN Absorb(h1, pv, b) ELSE h1
      nx == h2[b2].next
      l2 == IF FreeNeighbour(h1, pv) THEN linked \ {b} ELSE linked
  IN  /\ b \in Addrs /\ hdr[b].magic /\ ~hdr[b].free
      /\ \/ /\ FreeNeighbour(h2, nx)
            /\ hdr' = Absorb(h2, b2, nx)
            /\ linked' = l2 \ {nx}
         \/ /\ ~FreeNeighbour(h2, nx)
            /\ hdr' = h2
            /\ linked' = l2
      /\ live' = Drop(live, p)
      /\ short' = short \ {p}

(* Callers free any address of the heap: a live pointer, or one already    *)
(* freed, which the magic and free checks are there to reject.  Only the    *)
(* addresses behind a header whose magic a caller's write kept and whose    *)
(* free it cleared are left alone: kfree would take that for a block in     *)
(* use, and corrupt the list.                                               *)
MayFree(p) == p - Header \in Addrs => ~hdr[p - Header].spoiled

Next ==
  \/ \E n \in Requests : Kmalloc(n)
  \/ \E c \in Counts : Kcalloc(c[1], c[2])
  \/ \E p \in DOMAIN live : WritePayload(p)
  \/ \E p \in Addrs : MayFree(p) /\ Kfree(p)

Spec == Init /\ [][Next]_vars

-----------------------------------------------------------------------------
Headers == [size : 0 .. HeapUnits, magic : BOOLEAN, free : BOOLEAN,
            prev : Addrs \cup {NULL}, next : Addrs \cup {NULL}, spoiled : BOOLEAN]

(* Types of the headers, the list and the callers' pointers.                *)
TypeOK ==
  /\ hdr \in [Addrs -> Headers]
  /\ linked \in SUBSET Addrs
  /\ DOMAIN live \subseteq Addrs \cup {HeapUnits}
  /\ short \subseteq DOMAIN live

(* The blocks tile the heap: each ends where the next one begins, the last  *)
(* at the end of the heap, so no unit is lost by a split or a merge.        *)
Tiling ==
  \A b \in linked :
    End(b) = IF hdr[b].next = NULL THEN HeapUnits ELSE hdr[b].next

(* next and prev are inverse on the list, which starts at kheap_head and is *)
(* in address order: the walk meets every linked block once.                *)
ListInOrder ==
  /\ 0 \in linked
  /\ \A b \in linked :
       /\ hdr[b].magic
       /\ (hdr[b].prev = NULL) <=> (b = 0)
       /\ hdr[b].next # NULL => /\ hdr[b].next \in linked
                                /\ hdr[hdr[b].next].prev = b
       /\ hdr[b].prev # NULL => /\ hdr[b].prev \in linked
                                /\ hdr[hdr[b].prev].next = b
  /\ \A b, c \in linked : b < c => End(b) <= c

(* The list is the heap: its blocks, in order, fill it.                     *)
ListIsHeap == ListInOrder /\ Tiling

(* kfree leaves no two neighbours free: free space is never fragmented by   *)
(* a boundary between two free blocks ("Coalesces adjacent free blocks").   *)
Coalesced ==
  \A b \in linked :
    hdr[b].free /\ hdr[b].next # NULL => ~hdr[hdr[b].next].free

(* A header left behind by a merge still says free, so a second kfree of    *)
(* its pointer is caught instead of corrupting the list, however the units  *)
(* around it were split, merged, granted, cleared and written since.  Only  *)
(* a caller's write that keeps its magic and clears its free defeats this.  *)
StaleHeadersRejected ==
  \A a \in Addrs \ linked : hdr[a].spoiled \/ ~hdr[a].magic \/ hdr[a].free

(* The blocks in use are exactly the pointers callers hold.                 *)
UsedIsLive ==
  /\ {b + Header : b \in {c \in linked : ~hdr[c].free}} = DOMAIN live
  /\ \A p \in DOMAIN live : live[p] = hdr[p - Header].size

(* Once every pointer is freed, in any order, the heap is one block again.  *)
AllFreedIsOneBlock ==
  DOMAIN live = {} => linked = {0} /\ hdr[0].size = HeapUnits - Header

(* A caller gets at least the bytes it asked for, provided no request or     *)
(* product comes within Unit bytes of the range of size_t: splits and merges *)
(* never hand out a block shorter than the size its header shows.            *)
PayloadCoversRequest == short = {}

(* The heap does what kheap.h promises: live payloads are disjoint.         *)
Abstract == INSTANCE HeapSpec
ImplementsHeapSpec == Abstract!Spec
=============================================================================
