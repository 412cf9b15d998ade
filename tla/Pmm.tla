--------------------------------- MODULE Pmm ---------------------------------
(***************************************************************************)
(* The physical page allocator, src/kernel/mm/pmm.c.                       *)
(*                                                                         *)
(* A bitmap holds one bit per tracked page (set = in use).  used is the    *)
(* set of tracked pages whose bit is set; the three other statics keep     *)
(* their names without the pmm_ prefix.  All of pmm_init is the initial    *)
(* predicate; pmm_alloc_page and pmm_free_page are the actions.  Addresses *)
(* are page numbers: Limine aligns every usable entry to a page.           *)
(***************************************************************************)
EXTENDS Integers, FiniteSets, Sequences

CONSTANTS
  MemMaps,     \* the memory maps the bootloader may report
  ByteBits,    \* bits in a byte (8)
  WordBytes,   \* bytes in a bitmap word (8)
  PageBytes,   \* PAGE_SIZE (4096)
  LowReserve,  \* pages below 1 MiB (256)
  CountMod     \* uint64_t counts are modulo this (2^64)

VARIABLES
  memmap,      \* the map passed to pmm_init
  used,        \* tracked pages whose bitmap bit is set
  hint,        \* pmm_first_free_hint
  free_count,  \* pmm_free_count
  owned,       \* pages handed out and not given back (history)
  ret          \* what the last call told its caller

pmm_vars == <<memmap, used, hint, free_count, owned, ret>>

OOM  == -1     \* pmm_alloc_page returned 0
NONE == -2     \* pmm_init or pmm_free_page, which return nothing

CeilDiv(a, b) == (a + b - 1) \div b

-----------------------------------------------------------------------------
(* Memory map arithmetic of pmm_init. *)

UsableEntries(mm) == {i \in DOMAIN mm : mm[i].usable}
Span(e)           == e.base .. (e.base + e.pages - 1)
UsablePages(mm)   == UNION {Span(mm[i]) : i \in UsableEntries(mm)}

\* pmm_total_pages: one past the highest usable page.
TotalPages(mm) ==
  CHOOSE n \in {mm[i].base + mm[i].pages : i \in UsableEntries(mm)} :
    \A i \in UsableEntries(mm) : mm[i].base + mm[i].pages <= n

\* The first usable entry in map order holds the bitmap.
FirstUsable(mm) ==
  mm[CHOOSE i \in UsableEntries(mm) : \A j \in UsableEntries(mm) : i <= j]

BitmapBytes(mm) == TotalPages(mm) \div ByteBits
BitmapPages(mm) == CeilDiv(BitmapBytes(mm), PageBytes)
BitmapSpan(mm)  ==
  FirstUsable(mm).base .. (FirstUsable(mm).base + BitmapPages(mm) - 1)

\* The tracked pages whose bitmap word the "every page used" loop writes.
InitialisedPages(mm) ==
  {p \in 0 .. (TotalPages(mm) - 1) :
     p \div (ByteBits * WordBytes) < CeilDiv(BitmapBytes(mm), WordBytes)}

\* Every tracked page has its bit in a word that loop writes.
Covered(mm) == InitialisedPages(mm) = 0 .. (TotalPages(mm) - 1)

Reserved(mm) == (0 .. (LowReserve - 1)) \cup BitmapSpan(mm)

(* What Limine promises of a map (entries sorted by base, none overlapping  *)
(* a usable one) and what a machine of more than 1 MiB gives.               *)
ASSUME MemMapAssumption ==
  \A mm \in MemMaps :
    /\ UsableEntries(mm) # {}
    /\ TotalPages(mm) \in Nat \ {0}
    /\ TotalPages(mm) < CountMod
    /\ UsablePages(mm) \subseteq 0 .. (TotalPages(mm) - 1)
    /\ FirstUsable(mm).base \in Nat
    /\ \A p \in UsablePages(mm) : FirstUsable(mm).base <= p
    /\ BitmapPages(mm) \in Nat
    /\ FirstUsable(mm).base + BitmapPages(mm) \in 0 .. TotalPages(mm)
    /\ Reserved(mm) \subseteq 0 .. (TotalPages(mm) - 1)

ASSUME WidthAssumption ==
  /\ LowReserve \in Nat \ {0}
  /\ CountMod \in Nat \ {0}

-----------------------------------------------------------------------------
Total   == TotalPages(memmap)
Tracked == 0 .. (Total - 1)
Free    == Tracked \ used

(* pmm_init.  junk is the set of pages whose bit the fill loop never wrote  *)
(* and happens to be 0 in the memory the bitmap is laid over.               *)
PmmInit ==
  /\ memmap \in MemMaps
  /\ \E junk \in SUBSET (Tracked \ InitialisedPages(memmap)) :
       LET usable  == UsablePages(memmap)
           cleared == usable \cup junk
           taken   == cleared \cap Reserved(memmap)
       IN  /\ used = Tracked \ (cleared \ taken)
           /\ free_count =
                (Cardinality(usable \ junk) - Cardinality(taken)) % CountMod
  /\ hint = FirstUsable(memmap).base + BitmapPages(memmap)
  /\ owned = {}
  /\ ret = NONE

IsLeast(p, S) == p \in S /\ \A q \in S : p <= q

\* Mutant: the first pass starts above the hint.
Pass0AboveHint == {p \in Free : hint < p}

\* The two passes of the scan: from the hint up, then below the hint.
Pass0 == {p \in Free : hint <= p}
Pass1 == {p \in Free : p < hint}

\* Mutant: the bit of the page is not set.
AllocPageUnmarked(p) ==
  /\ IsLeast(p, Pass0)
  /\ free_count' = (free_count - 1) % CountMod
  /\ hint' = p + 1
  /\ owned' = owned \cup {p}
  /\ ret' = p
  /\ UNCHANGED <<memmap, used>>

AllocPage(p) ==
  /\ \/ IsLeast(p, Pass0)
     \/ Pass0 = {} /\ IsLeast(p, Pass1)
  /\ used' = used \cup {p}
  /\ free_count' = (free_count - 1) % CountMod
  /\ hint' = p + 1
  /\ owned' = owned \cup {p}
  /\ ret' = p
  /\ UNCHANGED memmap

AllocFails ==
  /\ Pass0 = {} /\ Pass1 = {}
  /\ ret' = OOM
  /\ UNCHANGED <<memmap, used, hint, free_count, owned>>

\* Mutant: a page already free is freed again.
FreeIgnoredNotFree(p, off) == (p = 0 /\ off = 0) \/ off # 0 \/ p >= Total

\* pmm_free_page(p * PAGE_SIZE + off): its early returns, then its effect.
FreeIgnored(p, off) == (p = 0 /\ off = 0) \/ off # 0 \/ p >= Total \/ p \notin used

FreePage(p, off) ==
  /\ ret' = NONE
  /\ \/ /\ FreeIgnored(p, off)
        /\ UNCHANGED <<used, hint, free_count, owned>>
     \/ /\ ~FreeIgnored(p, off)
        /\ used' = used \ {p}
        /\ free_count' = (free_count + 1) % CountMod
        /\ hint' = IF p < hint THEN p ELSE hint
        /\ owned' = owned \ {p}
  /\ UNCHANGED memmap

(* Callers return pages they own, and may repeat a free (the page is free), *)
(* or pass null, an unaligned address, or one past the tracked memory.      *)
FreeArgs == (owned \X {0, 1}) \cup ((Free \cup {0, Total}) \X {0})

PmmNext ==
  \/ \E p \in Tracked : AllocPage(p)
  \/ AllocFails
  \/ \E a \in FreeArgs : FreePage(a[1], a[2])

PmmSpec == PmmInit /\ [][PmmNext]_pmm_vars

-----------------------------------------------------------------------------
(* Types: the bitmap covers tracked pages, and the hint stays in 0..total.  *)
PmmTypeOK ==
  /\ memmap \in MemMaps
  /\ used \subseteq Tracked
  /\ hint \in 0 .. Total
  /\ free_count \in 0 .. (CountMod - 1)
  /\ owned \subseteq Tracked
  /\ ret \in Tracked \cup {OOM, NONE}

(* pmm_free_count, the figure the boot log and the system monitor report,  *)
(* is the number of clear bits after any sequence of calls.                 *)
FreeCountExact == Covered(memmap) => free_count = Cardinality(Free)

(* No free page is ever below the hint, so the first pass of the scan      *)
(* always finds the lowest free page and the wrap-around pass is only a     *)
(* safety net.                                                              *)
NoFreeBelowHint == Covered(memmap) => \A p \in Free : hint <= p

(* pmm_alloc_page reports out-of-memory only when every tracked page is in *)
(* use.                                                                     *)
OutOfMemoryIsReal == ret = OOM => Free = {}

(* A page in a caller's hands keeps its bit set, so it is never handed out  *)
(* to a second caller.                                                      *)
OwnedStaysUsed == owned \cap Free = {}

(* Pages below 1 MiB, the bitmap's own pages and pages the map does not     *)
(* call usable are never in a caller's hands and never become free.         *)
ReservedNeverGranted ==
  Covered(memmap) =>
    (owned \cup Free) \subseteq UsablePages(memmap) \ Reserved(memmap)

(* A page is lost to nobody: every usable unreserved page is free or owned. *)
NoPageLeaks ==
  Covered(memmap) =>
    UsablePages(memmap) \ Reserved(memmap) \subseteq owned \cup Free

(* Ownership: the pages the allocator governs are split between the callers *)
(* and the pool, nothing else ever is in either, and a caller is refused    *)
(* only when the pool is empty.                                             *)
PagesPartitioned ==
  /\ OwnedStaysUsed
  /\ ReservedNeverGranted
  /\ NoPageLeaks
  /\ OutOfMemoryIsReal
=============================================================================
