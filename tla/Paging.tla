------------------------------- MODULE Paging -------------------------------
(***************************************************************************)
(* Page tables, src/kernel/arch/x86_64/paging.c: mapping a physical range   *)
(* into tables that the bootloader and earlier calls have filled.           *)
(*                                                                         *)
(* An address is a number of PageBytes-sized pages and an offset; a page    *)
(* number is the path of indexes through the four levels. An entry that is  *)
(* present is a table, a huge page (one to three indexes) or a page (four). *)
(***************************************************************************)
EXTENDS Integers, Sequences

CONSTANTS
  PageBytes,   \* PAGE_SIZE
  Fan          \* entries of a table

ASSUME PagingAssumption == PageBytes \in Nat \ {0} /\ Fan \in Nat \ {0}

Table == -1

\* Pages under an entry of level l, and under all the tables.
Span(l) == << Fan * Fan * Fan, Fan * Fan, Fan, 1 >>[l]
Top == Fan * Fan * Fan * Fan

\* PAGE_INDEX_SHIFT of a page number, and the indexes of the first l levels.
Index(v, l) == (v \div Span(l)) % Fan
Path(v, l) == [k \in 1 .. l |-> Index(v, k)]

\* `entries' maps the paths present to Table, or to the frame the entry
\* maps; `pages' is what the allocator has left; `failed' that it had none.
Space(entries, pages) == [entries |-> entries, pages |-> pages, failed |-> FALSE]

Present(s, path) == path \in DOMAIN s.entries
Huge(s, path) == Present(s, path) /\ Len(path) < 4 /\ s.entries[path] # Table
With(s, path, e) ==
  [s EXCEPT !.entries = [q \in DOMAIN @ \cup {path} |-> IF q = path THEN e ELSE @[q]]]

\* paging_new_table for an entry that is not present.
NewTable(s, path) ==
  IF s.failed \/ Present(s, path) THEN s
  ELSE IF s.pages = 0 THEN [s EXCEPT !.failed = TRUE]
  ELSE [With(s, path, Table) EXCEPT !.pages = @ - 1]

\* A turn of the loop: v is the page of the address, page that of the memory.
\* PML4 entries are never huge.
MapPage(s, v, page) ==
  LET s1 == NewTable(s, Path(v, 1))
      s2 == NewTable(s1, Path(v, 2))
      s3 == NewTable(s2, Path(v, 3))
  IN IF s1.failed THEN s1
     ELSE IF Huge(s1, Path(v, 2)) THEN s1
     ELSE IF s2.failed \/ Huge(s2, Path(v, 3)) THEN s2
     ELSE IF s3.failed THEN s3
     ELSE With(s3, Path(v, 4), page)

\* Mutant: as many pages as the length has, wherever it begins.
PagesOfLength(phys, len) == (len + PageBytes - 1) \div PageBytes

\* Turns of the loop: from the page of the first byte to that of the last.
FirstPage(phys) == phys \div PageBytes
Pages(phys, len) == (phys + len + PageBytes - 1) \div PageBytes - FirstPage(phys)

----------------------------------------------------------------------------
(* What the tables are before a call: every path leads through tables, and  *)
(* a huge page where page v is to be is that of the identity map.           *)
IsTree(s) ==
  /\ \A p \in DOMAIN s.entries :
       /\ p \in Seq(0 .. Fan - 1) /\ Len(p) \in 1 .. 4
       /\ \A l \in 1 .. Len(p) - 1 :
            SubSeq(p, 1, l) \in DOMAIN s.entries /\ s.entries[SubSeq(p, 1, l)] = Table
       /\ s.entries[p] \in Nat \cup {Table}
       /\ Len(p) = 1 => s.entries[p] = Table
       /\ Len(p) = 4 => s.entries[p] # Table

IsIdentity(s, hhdm, v) ==
  \A l \in 1 .. 3 : Huge(s, Path(v, l)) => s.entries[Path(v, l)] + (v % Span(l)) = v - hhdm

(* What the processor makes of the tables: the frame of page v, or NotMapped. *)
NotMapped == -2
Translate(s, v) ==
  LET mapping == {l \in 1 .. 4 : Present(s, Path(v, l)) /\ s.entries[Path(v, l)] # Table
                                 /\ \A k \in 1 .. l - 1 : Present(s, Path(v, k))}
  IN IF mapping = {} THEN NotMapped
     ELSE LET l == CHOOSE l \in mapping : \A k \in mapping : l <= k
          IN s.entries[Path(v, l)] + (v % Span(l))

(* After a call that found memory every byte of the range is where the      *)
(* caller will look for it, at hhdm plus its address, huge pages of the     *)
(* bootloader's identity map included; when memory ran out every page of    *)
(* the range is there or as it was; no page outside the range ever moves.   *)
MapsRange(before, after, hhdm, phys, len) ==
  LET range == FirstPage(phys) .. ((phys + len - 1) \div PageBytes)
  IN \A v \in 0 .. Top - 1 :
       \/ v - hhdm \in range /\ Translate(after, v) = v - hhdm
       \/ /\ v - hhdm \notin range \/ after.failed
          /\ Translate(after, v) = Translate(before, v)
=============================================================================
