-------------------------------- MODULE MCPmm --------------------------------
(* Small instances of Pmm: a byte of 3 bits, a bitmap word of 2 bytes, and  *)
(* maps of at most 11 pages with holes.                                     *)
EXTENDS Pmm

Entry(b, n, u) == [base |-> b, pages |-> n, usable |-> u]

\* Low memory below a hole, then main memory; every word is written.
MapHole  == <<Entry(0, 3, TRUE), Entry(3, 1, FALSE), Entry(4, 6, TRUE)>>
\* The bitmap region starts above the low reserve.
MapHigh  == <<Entry(0, 2, FALSE), Entry(2, 4, TRUE), Entry(7, 3, TRUE)>>
\* The first usable region is not the first entry and the last word is full.
MapFull  == <<Entry(0, 1, FALSE), Entry(1, 5, TRUE), Entry(8, 4, TRUE)>>
\* Eight pages: the last two have their bits in a word the fill loop never
\* reaches, and page 6 is a hole.
MapTail  == <<Entry(1, 5, TRUE), Entry(7, 1, TRUE)>>

MCMaps == {MapHole, MapHigh, MapFull, MapTail}
=============================================================================
