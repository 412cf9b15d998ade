---------------------------- MODULE ImageCalls ----------------------------
(***************************************************************************)
(* Calls of the image decoder (src/kernel/png.c), on what an encoder writes, *)
(* whole or cut short: what is passed, and what should come of it.          *)
(***************************************************************************)
EXTENDS PngEncoder

CONSTANTS
  Lengths,   \* code lengths
  Streams,   \* sequences of blocks
  Cuts,      \* bytes missing at the end of a stream
  Rooms,     \* bytes of room more than a stream needs
  Pictures,  \* [channels, rows]
  Filters    \* sequences of filters, one for each row

ASSUME ImageAssumption ==
  /\ \A blocks \in Streams : IsStream(blocks)
  /\ Cuts \subseteq Nat /\ Rooms \subseteq Int
  /\ \A pic \in Pictures :
       /\ pic.channels \in Nat \ {0} /\ Len(pic.rows) \in Nat \ {0}
       /\ Len(pic.rows[1]) \in Nat
       /\ pic.rows \in [1 .. Len(pic.rows) -> [1 .. Len(pic.rows[1]) -> Bytes]]
  /\ \A fts \in Filters : /\ fts \in Seq(Nat)
                            /\ \A pic \in Pictures : Len(fts) = Len(pic.rows)

\* Two symbols of a code.
CodeCalls ==
  UNION {{[f |-> "huff_dec", lens |-> lens, a |-> a, b |-> b] :
            a, b \in {s \in 0 .. Len(lens) - 1 : HasCode(lens, s)}} :
         lens \in {l \in Lengths : IsCode(l)}}
TwoCodes(c) == Pack(CodeBits(c.lens, c.a) \o CodeBits(c.lens, c.b))

\* A stream, with a zlib header or bare, some of its end missing, read into
\* more or less room than it needs.
ZlibHeader == << 120, 1 >>
InflateCall(blocks, cut, zlib, room) ==
  LET bytes == Pack(Stream(blocks))
      kept == Len(bytes) - cut
  IN [f |-> "inflate", blocks |-> blocks, kept |-> kept,
      src |-> (IF zlib THEN ZlibHeader ELSE << >>) \o SubSeq(bytes, 1, kept),
      cap |-> Len(Message(blocks)) + room]

\* Cuts in the middle of a repeat's count are left out: what is missing makes
\* the repeat shorter there, and the bits left are read as another code.
CutWell(blocks, kept) ==
  /\ kept >= 0
  /\ \A k \in 1 .. Len(blocks) :
       LET b == blocks[k]
           end(j) == Len(Written(blocks)[k - 1]) + Len(LensHead(0, b)) + Len(ItemsBits(b)[j])
       IN b.kind = "dynamic" =>
            \A j \in 1 .. Len(b.items) :
              8 * kept \notin end(j) - ItemExtra(b.items[j]) .. end(j) - 1

InflateCalls ==
  {c \in {InflateCall(blocks, cut, zlib, room) :
            blocks \in Streams, cut \in Cuts, zlib \in BOOLEAN, room \in Rooms} :
   c.cap \in Nat /\ CutWell(c.blocks, c.kept)}
Inflated(c) ==
  IF c.kept = Len(Pack(Stream(c.blocks))) /\ c.cap >= Len(Message(c.blocks))
  THEN Good(Message(c.blocks)) ELSE Fail

\* A picture's rows, each less what its filter predicts.
RowCalls ==
  {[f |-> "png_decode", channels |-> pic.channels, rows |-> pic.rows, fts |-> fts] :
     pic \in Pictures, fts \in Filters}
FilteredRows(c) ==
  [y \in 1 .. Len(c.rows) |->
     [ft |-> c.fts[y],
      data |-> IF c.fts[y] > 4 THEN c.rows[y]
               ELSE Filtered(c.fts[y], c.rows[y], IF y = 1 THEN << >> ELSE c.rows[y - 1],
                             c.channels)]]
Decoded(c) ==
  IF c.fts[1] = 2 \/ \E y \in 1 .. Len(c.rows) : c.fts[y] > 4 THEN Fail ELSE Good(c.rows)

----------------------------------------------------------------------------
(* The decoder's state at the start of a call.                              *)
Start(c) ==
  IF c.f = "inflate" THEN AtBlock(0, << >>)
  ELSE IF c.f = "png_decode" THEN AtRows(<< >>) ELSE Ended(Fail)
============================================================================
