-------------------------------- MODULE Png --------------------------------
(***************************************************************************)
(* The image decoder, src/kernel/png.c: bits, canonical Huffman codes,      *)
(* inflate, a turn of its loops at a time, and the filters of rows. The bit *)
(* reader is the bytes read and the position of the next bit; what is left  *)
(* of an inflate between two turns is a record of its local variables.      *)
(***************************************************************************)
EXTENDS Integers, Sequences, FiniteSets

MaxBits == 15   \* HUFF_MAX_BITS
Two[n \in 0 .. 16] == IF n = 0 THEN 1 ELSE 2 * Two[n - 1]

Fail == [ok |-> FALSE, bytes |-> << >>]
Good(bytes) == [ok |-> TRUE, bytes |-> bytes]

----------------------------------------------------------------------------
(* Bits.                                                                   *)

BitAt(src, k) == (src[k \div 8 + 1] \div Two[k % 8]) % 2

\* What the next bits make, the first the lowest.
BitsRead(src, pos, n) ==
  LET low[i \in 0 .. n] == IF i = 0 THEN 0 ELSE low[i - 1] + BitAt(src, pos + i - 1) * Two[i - 1]
  IN low

\* br_bits; -1 (all ones in the code) past the end, where nothing is taken.
BrBits(src, pos, n) == IF pos + n > 8 * Len(src) THEN -1 ELSE BitsRead(src, pos, n)[n]
BrPos(src, pos, n) == IF pos + n > 8 * Len(src) THEN pos ELSE pos + n

----------------------------------------------------------------------------
(* Huffman codes.                                                          *)

OfLength(lens, l) == {s \in 0 .. Len(lens) - 1 : lens[s + 1] = l}
Count(lens, l) == Cardinality(OfLength(lens, l))

\* huff_build; lens[s + 1] is the length of the code of symbol s. The symbols
\* are kept length by length, each time in their own order.
HuffBuild(lens) ==
  [ok |-> /\ \A i \in DOMAIN lens : lens[i] <= MaxBits
          /\ \A l \in 1 .. MaxBits : Count(lens, l) <= Two[l],
   counts |-> [l \in 1 .. MaxBits |-> Count(lens, l)],
   symbols |-> [l \in 1 .. MaxBits |-> [k \in 0 .. Count(lens, l) - 1 |->
                  CHOOSE s \in OfLength(lens, l) :
                    Cardinality({t \in OfLength(lens, l) : t < s}) = k]]]

\* code and first of huff_dec after the turns for lengths up to l: the bits
\* read, all ones once one is missing, and the first code one bit longer.
CodeRead(src, pos) ==
  LET code[l \in 0 .. MaxBits] ==
        IF l = 0 THEN 0
        ELSE IF pos + l > 8 * Len(src) THEN -1
        ELSE 2 * code[l - 1] + BitAt(src, pos + l - 1)
  IN code
FirstCodes(counts) ==
  LET first[l \in 0 .. MaxBits] == IF l = 0 THEN 0 ELSE 2 * (first[l - 1] + counts[l])
  IN first

\* huff_dec: the first length whose codes are not all below the code read. No
\* code is below the first but the one of missing bits, which is no symbol.
HuffDec(h, src, pos) ==
  LET code == CodeRead(src, pos)
      first == FirstCodes(h.counts)
      ends == {l \in 1 .. MaxBits : code[l] - h.counts[l] < first[l - 1]}
      len == CHOOSE l \in ends : \A m \in ends : l <= m
      k == code[len] - first[len - 1]
  IN IF ends = {} THEN [sym |-> -1, pos |-> pos]
     ELSE [sym |-> IF k < 0 THEN -1 ELSE h.symbols[len][k], pos |-> pos + len]

\* huff_fixed.
FixedLit == HuffBuild([i \in 1 .. 288 |-> IF i <= 144 THEN 8 ELSE IF i <= 256 THEN 9
                                          ELSE IF i <= 280 THEN 7 ELSE 8])
FixedDist == HuffBuild([i \in 1 .. 32 |-> 5])

LenBase == << 3, 4, 5, 6, 7, 8, 9, 10, 11, 13, 15, 17, 19, 23, 27, 31, 35, 43, 51, 59,
              67, 83, 99, 115, 131, 163, 195, 227, 258 >>
LenExtra == << 0, 0, 0, 0, 0, 0, 0, 0, 1, 1, 1, 1, 2, 2, 2, 2, 3, 3, 3, 3,
               4, 4, 4, 4, 5, 5, 5, 5, 0 >>
DistBase == << 1, 2, 3, 4, 5, 7, 9, 13, 17, 25, 33, 49, 65, 97, 129, 193, 257, 385, 513, 769,
               1025, 1537, 2049, 3073, 4097, 6145, 8193, 12289, 16385, 24577 >>
DistExtra == << 0, 0, 0, 0, 1, 1, 2, 2, 3, 3, 4, 4, 5, 5, 6, 6, 7, 7, 8, 8,
                9, 9, 10, 10, 11, 11, 12, 12, 13, 13 >>
ClcOrder == << 16, 17, 18, 0, 8, 7, 9, 6, 10, 5, 11, 4, 12, 3, 13, 2, 14, 1, 15 >>

----------------------------------------------------------------------------
(* inflate: before a block, in the code lengths of one, in its symbols.    *)

AtBlock(pos, out) == [at |-> "block", pos |-> pos, out |-> out]
AtLens(pos, out, last, clc, nlit, total, lens) ==
  [at |-> "lens", pos |-> pos, out |-> out, last |-> last,
   clc |-> clc, nlit |-> nlit, total |-> total, lens |-> lens]
AtCodes(pos, out, last, lit, dist) ==
  [at |-> "codes", pos |-> pos, out |-> out, last |-> last, lit |-> lit, dist |-> dist]
Ended(result) == [at |-> "ended", result |-> result]

\* Past the two bytes of a zlib header, when they are one.
Body(src) ==
  LET zlib == /\ Len(src) >= 2 /\ src[1] % 16 = 8 /\ src[1] \div 16 <= 7
              /\ (src[2] \div 32) % 2 = 0 /\ (256 * src[1] + src[2]) % 31 = 0
  IN IF zlib THEN SubSeq(src, 3, Len(src)) ELSE src

AfterBlock(pos, out, last) == IF last = 1 THEN Ended(Good(out)) ELSE AtBlock(pos, out)

\* LEN, its complement and the bytes, from the next whole byte.
Stored(src, cap, pos, out, last) ==
  LET at == (pos + 7) \div 8
      Half(k) == src[at + k] + 256 * src[at + k + 1]
      len == Half(1)
  IN IF \/ at + 4 > Len(src) \/ Half(1) + Half(3) # 65535
        \/ at + 4 + len > Len(src) \/ Len(out) + len > cap
     THEN Ended(Fail)
     ELSE AfterBlock(8 * (at + 4 + len), out \o SubSeq(src, at + 5, at + 4 + len), last)

\* A block with its own codes: the three counts, the codes of the code lengths.
Dynamic(src, pos, out, last) ==
  LET nlit == 257 + BrBits(src, pos, 5)
      ndist == 1 + BrBits(src, pos + 5, 5)
      hclen == BrBits(src, pos + 10, 4)
      end == pos + 14 + 3 * (4 + hclen)
      Place(s) == {k \in 1 .. 4 + hclen : ClcOrder[k] = s}
      clc == HuffBuild([i \in 1 .. 19 |->
               IF Place(i - 1) = {} THEN 0
               ELSE BrBits(src, pos + 14 + 3 * ((CHOOSE k \in Place(i - 1) : TRUE) - 1), 3)])
  IN IF hclen = -1 \/ nlit > 288 \/ end > 8 * Len(src) \/ ~clc.ok THEN Ended(Fail)
     ELSE AtLens(end, out, last, clc, nlit, nlit + ndist, << >>)

BlockTurn(src, cap, p) ==
  LET last == BrBits(src, p.pos, 1)
      type == BrBits(src, p.pos + 1, 2)
  IN CASE type = 0 -> Stored(src, cap, p.pos + 3, p.out, last)
       [] type = 1 -> AtCodes(p.pos + 3, p.out, last, FixedLit, FixedDist)
       [] type = 2 -> Dynamic(src, p.pos + 3, p.out, last)
       [] OTHER -> Ended(Fail)

\* A turn of the loop over li. Missing bits read as -1 make a shorter repeat,
\* as in the code.
LensTurn(src, p) ==
  LET lit == HuffBuild(SubSeq(p.lens, 1, p.nlit))
      dist == HuffBuild(SubSeq(p.lens, p.nlit + 1, p.total))
      s == HuffDec(p.clc, src, p.pos)
      extra == CASE s.sym = 16 -> 2 [] s.sym = 17 -> 3 [] s.sym = 18 -> 7 [] OTHER -> 0
      more == BrBits(src, s.pos, extra)
      n == IF s.sym < 16 THEN 1 ELSE IF s.sym < 18 THEN 3 + more ELSE 11 + more
      value == IF s.sym < 16 THEN s.sym ELSE IF s.sym = 16 THEN p.lens[Len(p.lens)] ELSE 0
  IN IF Len(p.lens) >= p.total
     THEN IF lit.ok /\ dist.ok THEN AtCodes(p.pos, p.out, p.last, lit, dist) ELSE Ended(Fail)
     ELSE IF s.sym = -1 \/ (s.sym = 16 /\ p.lens = << >>) \/ Len(p.lens) + n > p.total
     THEN Ended(Fail)
     ELSE AtLens(BrPos(src, s.pos, extra), p.out, p.last, p.clc, p.nlit, p.total,
                 p.lens \o [i \in 1 .. n |-> value])

\* Mutant: a match that runs into itself finds nothing there.
CopiedBefore(out, distance, n) ==
  [j \in 1 .. n |-> IF j <= distance THEN out[Len(out) - distance + j] ELSE 0]

\* A match byte by byte: past its distance it copies what it has copied.
Copied(out, distance, n) ==
  LET byte[j \in 1 .. n] == IF j <= distance THEN out[Len(out) - distance + j]
                            ELSE byte[j - distance]
  IN byte

\* Of a match its length, then its distance, then the bytes.
MatchTurn(src, cap, p, li, pos) ==
  LET more == BrBits(src, pos, LenExtra[li])
      len == LenBase[li] + more
      d == HuffDec(p.dist, src, pos + LenExtra[li])
      far == BrBits(src, d.pos, DistExtra[d.sym + 1])
      distance == DistBase[d.sym + 1] + far
  IN IF more = -1 \/ d.sym \notin 0 .. 29 THEN Ended(Fail)
     ELSE IF far = -1 \/ distance > Len(p.out) \/ Len(p.out) + len > cap THEN Ended(Fail)
     ELSE AtCodes(d.pos + DistExtra[d.sym + 1], p.out \o Copied(p.out, distance, len),
                  p.last, p.lit, p.dist)

\* A turn of the loop over literals and matches, up to the end of the block.
CodesTurn(src, cap, p) ==
  LET s == HuffDec(p.lit, src, p.pos)
  IN CASE s.sym \in 0 .. 255 ->
            IF Len(p.out) >= cap THEN Ended(Fail)
            ELSE AtCodes(s.pos, p.out \o << s.sym >>, p.last, p.lit, p.dist)
       [] s.sym = 256 -> AfterBlock(s.pos, p.out, p.last)
       [] s.sym \in 257 .. 285 -> MatchTurn(src, cap, p, s.sym - 256, s.pos)
       [] OTHER -> Ended(Fail)

----------------------------------------------------------------------------
(* Rows.                                                                   *)

AtRows(rows) == [at |-> "rows", rows |-> rows]

Paeth(a, b, c) ==
  LET p == a + b - c
      Off(v) == IF p > v THEN p - v ELSE v - p
  IN IF Off(a) <= Off(b) /\ Off(a) <= Off(c) THEN a
     ELSE IF Off(b) <= Off(c) THEN b ELSE c

\* What a filter expects of a byte, from the one to the left, the one above and
\* the one to the left of that.
Expected(ft, a, b, c) ==
  CASE ft = 0 -> 0 [] ft = 1 -> a [] ft = 2 -> b [] ft = 3 -> (a + b) \div 2
    [] ft = 4 -> Paeth(a, b, c)

\* The loops of png_decode over a row: each byte from those already restored.
Unfilter(ft, cur, prev, channels) ==
  LET row[i \in DOMAIN cur] ==
        (cur[i] + Expected(ft, IF i > channels THEN row[i - channels] ELSE 0,
                               IF prev = << >> THEN 0 ELSE prev[i],
                               IF i > channels /\ prev # << >> THEN prev[i - channels] ELSE 0)) % 256
  IN row

\* The next row, a filter byte and its data, filtered one after another; Up is
\* refused on the first.
RowTurn(filtered, channels, p) ==
  LET y == Len(p.rows) + 1
      prev == IF y = 1 THEN << >> ELSE p.rows[y - 1]
      ft == filtered[y].ft
  IN IF y > Len(filtered) THEN Ended(Good(p.rows))
     ELSE IF ft > 4 \/ (ft = 2 /\ y = 1) THEN Ended(Fail)
     ELSE AtRows(Append(p.rows, Unfilter(ft, filtered[y].data, prev, channels)))
============================================================================
