----------------------------- MODULE PngEncoder -----------------------------
(***************************************************************************)
(* What an encoder writes, from the definitions of DEFLATE (RFC 1951) and   *)
(* of the PNG filters: the reference the decoder of Png is held against.    *)
(* Codes, lengths and distances are computed here and tabulated there.      *)
(***************************************************************************)
EXTENDS Png

Bytes == 0 .. 255

High(v, n) == [i \in 1 .. n |-> (v \div Two[n - i]) % 2]
Low(v, n) == [i \in 1 .. n |-> (v \div Two[i - 1]) % 2]
Each(values, n) ==
  [i \in 1 .. n * Len(values) |-> (values[(i - 1) \div n + 1] \div Two[(i - 1) % n]) % 2]

Pack(bits) ==
  LET Bit(k) == IF k <= Len(bits) THEN bits[k] ELSE 0
  IN [b \in 1 .. (Len(bits) + 7) \div 8 |->
        Bit(8 * b - 7) + 2 * Bit(8 * b - 6) + 4 * Bit(8 * b - 5) + 8 * Bit(8 * b - 4)
          + 16 * Bit(8 * b - 3) + 32 * Bit(8 * b - 2) + 64 * Bit(8 * b - 1) + 128 * Bit(8 * b)]

----------------------------------------------------------------------------
(* Prefix codes. Codes of a shorter length come first, then those of        *)
(* smaller symbols.                                                         *)

\* The first code of l bits: what the codes of up to k bits take of them.
CodesBelow(lens, l) ==
  LET below[k \in 0 .. l - 1] == IF k = 0 THEN 0 ELSE below[k - 1] + Count(lens, k) * Two[l - k]
  IN below
CodeStart(lens, l) == CodesBelow(lens, l)[l - 1]
CodeOf(lens, s) ==
  CodeStart(lens, lens[s + 1]) + Cardinality({t \in 0 .. s - 1 : lens[t + 1] = lens[s + 1]})
CodeBits(lens, s) == High(CodeOf(lens, s), lens[s + 1])

\* The lengths of a prefix code: there are bits enough for the codes of each.
IsCode(lens) ==
  /\ lens \in Seq(0 .. MaxBits)
  /\ \A l \in 1 .. MaxBits : CodeStart(lens, l) + Count(lens, l) <= Two[l]
HasCode(lens, s) == s \in 0 .. Len(lens) - 1 /\ lens[s + 1] > 0

LitLens == [i \in 1 .. 288 |-> CASE i - 1 \in 0 .. 143 \cup 280 .. 287 -> 8
                                [] i - 1 \in 144 .. 255 -> 9 [] OTHER -> 7]
DistLens == [i \in 1 .. 32 |-> 5]

----------------------------------------------------------------------------
(* What a message is made of: literals and matches.                        *)

Literal(byte) == [sym |-> byte, more |-> 0, dist |-> 0, far |-> 0]
Match(sym, more, dist, far) == [sym |-> sym, more |-> more, dist |-> dist, far |-> far]

ExtraBits(sym) == IF sym < 265 \/ sym = 285 THEN 0 ELSE (sym - 261) \div 4
MatchLen(op) ==
  IF op.sym < 265 THEN op.sym - 254
  ELSE IF op.sym = 285 THEN 258
  ELSE 3 + (4 + ((op.sym - 261) % 4)) * Two[ExtraBits(op.sym)] + op.more
FarBits(dist) == IF dist < 4 THEN 0 ELSE dist \div 2 - 1
Distance(op) ==
  IF op.dist < 4 THEN op.dist + 1
  ELSE (2 + (op.dist % 2)) * Two[FarBits(op.dist)] + 1 + op.far

OpBits(lit, dist, op) ==
  IF op.sym < 256 THEN CodeBits(lit, op.sym)
  ELSE CodeBits(lit, op.sym) \o Low(op.more, ExtraBits(op.sym))
         \o CodeBits(dist, op.dist) \o Low(op.far, FarBits(op.dist))

\* A match repeats with the period of its distance.
OpMeant(out, op) ==
  IF op.sym < 256 THEN << op.sym >>
  ELSE [j \in 1 .. MatchLen(op) |->
          out[Len(out) - Distance(op) + 1 + ((j - 1) % Distance(op))]]

\* The bits of the first operations, and the bytes once they are done.
OpsBits(b) ==
  LET bits[j \in 0 .. Len(b.ops)] ==
        IF j = 0 THEN << >> ELSE bits[j - 1] \o OpBits(b.lit, b.dist, b.ops[j])
  IN bits
OpsMeant(b, out) ==
  LET meant[j \in 0 .. Len(b.ops)] ==
        IF j = 0 THEN out ELSE meant[j - 1] \o OpMeant(meant[j - 1], b.ops[j])
  IN meant

IsOp(b, op, out) ==
  \/ op.sym \in Bytes /\ HasCode(b.lit, op.sym)
  \/ /\ op.sym \in 257 .. 285 /\ HasCode(b.lit, op.sym)
     /\ op.more \in 0 .. Two[ExtraBits(op.sym)] - 1
     /\ op.dist \in 0 .. 29 /\ HasCode(b.dist, op.dist)
     /\ op.far \in 0 .. Two[FarBits(op.dist)] - 1 /\ Distance(op) <= Len(out)

----------------------------------------------------------------------------
(* Code lengths: a length, the last one again, or zeros.                   *)

Item(sym, more) == [sym |-> sym, more |-> more]
ItemExtra(item) == CASE item.sym < 16 -> 0 [] item.sym = 16 -> 2
                     [] item.sym = 17 -> 3 [] item.sym = 18 -> 7
ItemRun(item) == CASE item.sym < 16 -> 1 [] item.sym = 18 -> 11 + item.more
                   [] OTHER -> 3 + item.more
ItemMeant(lens, item) ==
  [i \in 1 .. ItemRun(item) |-> CASE item.sym < 16 -> item.sym
                                  [] item.sym = 16 -> lens[Len(lens)] [] OTHER -> 0]

ItemBits(b, item) == CodeBits(b.clc, item.sym) \o Low(item.more, ItemExtra(item))
ItemsBits(b) ==
  LET bits[j \in 0 .. Len(b.items)] ==
        IF j = 0 THEN << >> ELSE bits[j - 1] \o ItemBits(b, b.items[j])
  IN bits
ItemsMeant(b) ==
  LET lens[j \in 0 .. Len(b.items)] ==
        IF j = 0 THEN << >> ELSE lens[j - 1] \o ItemMeant(lens[j - 1], b.items[j])
  IN lens

IsItem(b, item, lens) ==
  /\ item.sym \in 0 .. 18 /\ HasCode(b.clc, item.sym)
  /\ item.more \in 0 .. Two[ItemExtra(item)] - 1
  /\ item.sym = 16 => lens # << >>

----------------------------------------------------------------------------
(* Blocks.                                                                 *)

StoredBlock(bytes) == [kind |-> "stored", bytes |-> bytes]
FixedBlock(ops) == [kind |-> "fixed", lit |-> LitLens, dist |-> DistLens, ops |-> ops]
DynamicBlock(lit, dist, nclc, clc, items, ops) ==
  [kind |-> "dynamic", lit |-> lit, dist |-> dist,
   nclc |-> nclc, clc |-> clc, items |-> items, ops |-> ops]

\* The symbol whose code has the k-th length of a dynamic block.
ClcSym(k) == IF k <= 3 THEN 15 + k ELSE IF k = 4 THEN 0
             ELSE IF k % 2 = 1 THEN 8 + (k - 5) \div 2 ELSE 8 - (k - 4) \div 2

\* What is before the code lengths and before the operations of a block, and
\* a block, begun after so many bits; bytes stored begin at a byte.
Header(last, type) == << last >> \o Low(type, 2)
LensHead(last, b) ==
  Header(last, 2)
    \o (Low(Len(b.lit) - 257, 5) \o Low(Len(b.dist) - 1, 5) \o Low(b.nclc - 4, 4)
          \o Each([k \in 1 .. b.nclc |-> b.clc[ClcSym(k) + 1]], 3))
OpsHead(last, b) ==
  IF b.kind = "fixed" THEN Header(last, 1)
  ELSE LensHead(last, b) \o ItemsBits(b)[Len(b.items)]
Half(n) == << n % 256, n \div 256 >>
Padding(n) == [i \in 1 .. 8 * ((n + 7) \div 8) - n |-> 0]
BlockBits(last, b, start) ==
  IF b.kind = "stored"
  THEN Header(last, 0)
         \o (Padding(start + 3)
               \o Each(Half(Len(b.bytes)) \o Half(65535 - Len(b.bytes)) \o b.bytes, 8))
  ELSE OpsHead(last, b) \o OpsBits(b)[Len(b.ops)] \o CodeBits(b.lit, 256)
BlockMeant(b, out) ==
  IF b.kind = "stored" THEN out \o b.bytes ELSE OpsMeant(b, out)[Len(b.ops)]

IsBlock(b, out) ==
  \/ b.kind = "stored" /\ b.bytes \in Seq(Bytes) /\ Len(b.bytes) < Two[16]
  \/ /\ \/ b.kind = "fixed" /\ b.lit = LitLens /\ b.dist = DistLens
        \/ b.kind = "dynamic"
     /\ IsCode(b.lit) /\ IsCode(b.dist) /\ HasCode(b.lit, 256)
     /\ Len(b.lit) \in 257 .. 288 /\ Len(b.dist) \in 1 .. 32
     /\ Len(b.ops) \in Nat
     /\ \A j \in 1 .. Len(b.ops) : IsOp(b, b.ops[j], OpsMeant(b, out)[j - 1])
     /\ b.kind = "dynamic" =>
          /\ IsCode(b.clc) /\ Len(b.clc) = 19 /\ \A i \in 1 .. 19 : b.clc[i] < 8
          /\ b.nclc \in 4 .. 19 /\ \A k \in b.nclc + 1 .. 19 : b.clc[ClcSym(k) + 1] = 0
          /\ Len(b.items) \in Nat
          /\ \A j \in 1 .. Len(b.items) : IsItem(b, b.items[j], ItemsMeant(b)[j - 1])
          /\ ItemsMeant(b)[Len(b.items)] = b.lit \o b.dist

\* The first blocks of a stream: their bits, and their bytes.
Written(blocks) ==
  LET bits[k \in 0 .. Len(blocks)] ==
        IF k = 0 THEN << >>
        ELSE bits[k - 1] \o BlockBits(IF k = Len(blocks) THEN 1 ELSE 0, blocks[k], Len(bits[k - 1]))
  IN bits
Meant(blocks) ==
  LET bytes[k \in 0 .. Len(blocks)] ==
        IF k = 0 THEN << >> ELSE BlockMeant(blocks[k], bytes[k - 1])
  IN bytes
Stream(blocks) == Written(blocks)[Len(blocks)]
Message(blocks) == Meant(blocks)[Len(blocks)]

IsStream(blocks) ==
  /\ Len(blocks) \in Nat \ {0}
  /\ \A k \in 1 .. Len(blocks) : IsBlock(blocks[k], Meant(blocks)[k - 1])

----------------------------------------------------------------------------
\* Of three neighbours the first nearest to where they point.
Nearest(a, b, c) ==
  LET v == << a, b, c >>
      Far(k) == IF a + b - c > v[k] THEN a + b - c - v[k] ELSE v[k] - (a + b - c)
  IN v[CHOOSE k \in 1 .. 3 :
         \A j \in 1 .. 3 : Far(k) < Far(j) \/ (Far(k) = Far(j) /\ k <= j)]

\* A row less what its filter predicts of each byte.
Filtered(ft, row, prev, channels) ==
  [i \in DOMAIN row |->
     LET a == IF i > channels THEN row[i - channels] ELSE 0
         b == IF prev = << >> THEN 0 ELSE prev[i]
         c == IF i > channels /\ prev # << >> THEN prev[i - channels] ELSE 0
     IN (row[i] - << 0, a, b, (a + b) \div 2, Nearest(a, b, c) >>[ft + 1]) % 256]
=============================================================================
