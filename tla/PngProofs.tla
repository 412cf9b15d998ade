------------------------------ MODULE PngProofs ------------------------------
(***************************************************************************)
(* Proofs about the image decoder of src/kernel/png.c, for streams of any   *)
(* number of blocks of any kind, any codes, any bytes and any room, and for *)
(* pictures of any size under any filters: a call answers what the encoder  *)
(* of PngEncoder meant (PngExact).                                          *)
(*                                                                         *)
(* The argument follows the decoder's turns. The bits an encoder writes are *)
(* where it puts them (HasBits), also when the source ends before they do.  *)
(* Canonical codes are prefix codes: while fewer bits are read than a code  *)
(* has, the value is past the codes of that length (ShorterPassed), so the  *)
(* symbol decoded is the one written (Decode). Then one turn of each loop   *)
(* is right: a code length or a repeat, a literal or a match, the head of a *)
(* block of each kind; so a turn begun where a block's parts are goes on to *)
(* the next part (BlockGoes), or fails exactly when the stream is cut there *)
(* or the room is used up. StreamState says this of the whole stream and    *)
(* RowState of a picture's rows; PngInv, the invariant, says it of the call *)
(* being decoded.                                                           *)
(*                                                                         *)
(* Functions defined by recursion are shown to exist value by value, and    *)
(* what holds of all their values is shown for the least exception (UpTo,   *)
(* LeastNat), for no induction theorem can be used here.                    *)
(***************************************************************************)
EXTENDS KernelsProofs

(* Induction up to a bound, without a predicate as a parameter.             *)
LEMMA UpTo ==
  ASSUME NEW N \in Nat, NEW T, 0 \in T, \A i \in 1 .. N : i - 1 \in T => i \in T
  PROVE  \A i \in 0 .. N : i \in T
<1>. DEFINE U == {i \in 0 .. N : i \notin T}
<1>1. SUFFICES ASSUME U # {} PROVE FALSE
  OBVIOUS
<1>2. U \in SUBSET Nat
  OBVIOUS
<1>3. PICK m \in U : \A k \in U : m <= k
  BY <1>1, <1>2, LeastNat
<1>4. m \in 0 .. N /\ m \notin T
  OBVIOUS
<1>5. m # 0
  BY <1>4
<1>6. m \in 1 .. N /\ m - 1 \in 0 .. N
  BY <1>4, <1>5
<1>7. m - 1 \in T
  BY <1>3, <1>6
<1>. QED
  BY <1>4, <1>6, <1>7

-----------------------------------------------------------------------------
(* The powers of two.                                                       *)

\* The recursive definition of Two has a solution, so Two is it.
LEMMA TwoExists ==
  /\ Two[0] = 1
  /\ \A i \in 1 .. 16 : Two[i] = 2 * Two[i - 1]
<1>. DEFINE G(x) == 2 * x
            Is(f, n) == f = [i \in 0 .. n |-> IF i = 0 THEN 1 ELSE G(f[i - 1])]
            T == {n \in 0 .. 16 : \E f : Is(f, n)}
<1>. HIDE DEF G
<1>1. 0 \in T
  <2>. DEFINE g == [i \in 0 .. 0 |-> 1]
  <2>1. g = [i \in 0 .. 0 |-> IF i = 0 THEN 1 ELSE G(g[i - 1])]
    OBVIOUS
  <2>2. \E f : Is(f, 0)
    BY <2>1, Zenon
  <2>. QED
    BY <2>2
<1>2. ASSUME NEW n \in 1 .. 16, n - 1 \in T PROVE n \in T
  <2>1. PICK f : Is(f, n - 1)
    BY <1>2
  <2>. DEFINE g == [i \in 0 .. n |-> IF i < n THEN f[i] ELSE G(f[n - 1])]
  <2>2. ASSUME NEW i \in 0 .. n PROVE g[i] = IF i = 0 THEN 1 ELSE G(g[i - 1])
    <3>1. CASE i < n
      <4>1. i \in 0 .. n - 1 /\ g[i] = f[i]
        BY <3>1
      <4>2. f[i] = IF i = 0 THEN 1 ELSE G(f[i - 1])
        BY <2>1, <4>1
      <4>3. i # 0 => g[i - 1] = f[i - 1]
        BY <3>1
      <4>. QED
        BY <4>1, <4>2, <4>3
    <3>2. CASE i = n
      BY <3>2
    <3>. QED
      BY <3>1, <3>2
  <2>3. g = [i \in 0 .. n |-> IF i = 0 THEN 1 ELSE G(g[i - 1])]
    <3>1. g = [i \in 0 .. n |-> g[i]]
      OBVIOUS
    <3>. HIDE DEF g
    <3>. QED
      BY <2>2, <3>1
  <2>. HIDE DEF g
  <2>4. \E h : Is(h, n)
    BY <2>3, Zenon
  <2>. QED
    BY <2>4
<1>3. 16 \in T
  BY <1>1, <1>2, UpTo
<1>4. \E f : Is(f, 16)
  BY <1>3
<1>5. Two = [i \in 0 .. 16 |-> IF i = 0 THEN 1 ELSE 2 * Two[i - 1]]
  BY <1>4 DEF Two, G
<1>. QED
  BY <1>5

\* Its values.
LEMMA TwoIs ==
  /\ Two[0] = 1 /\ Two[1] = 2 /\ Two[2] = 4 /\ Two[3] = 8 /\ Two[4] = 16 /\ Two[5] = 32
  /\ Two[6] = 64 /\ Two[7] = 128 /\ Two[8] = 256 /\ Two[9] = 512 /\ Two[10] = 1024
  /\ Two[11] = 2048 /\ Two[12] = 4096 /\ Two[13] = 8192 /\ Two[14] = 16384 /\ Two[15] = 32768
  /\ Two[16] = 65536
<1>1. /\ Two[1] = 2 /\ Two[2] = 2 * Two[1] /\ Two[3] = 2 * Two[2] /\ Two[4] = 2 * Two[3]
      /\ Two[5] = 2 * Two[4] /\ Two[6] = 2 * Two[5] /\ Two[7] = 2 * Two[6] /\ Two[8] = 2 * Two[7]
  <2>1. \A i \in 1 .. 8 : Two[i] = 2 * Two[i - 1]
    BY TwoExists
  <2>. QED
    BY <2>1, TwoExists
<1>2. /\ Two[9] = 2 * Two[8] /\ Two[10] = 2 * Two[9] /\ Two[11] = 2 * Two[10]
      /\ Two[12] = 2 * Two[11] /\ Two[13] = 2 * Two[12] /\ Two[14] = 2 * Two[13]
      /\ Two[15] = 2 * Two[14] /\ Two[16] = 2 * Two[15]
  BY TwoExists
<1>. QED
  BY <1>1, <1>2, TwoExists

LEMMA TwoType ==
  ASSUME NEW n \in 0 .. 16
  PROVE  Two[n] \in Nat /\ Two[n] > 0
BY TwoIs

LEMMA TwoNext ==
  ASSUME NEW n \in 1 .. 16
  PROVE  Two[n] = 2 * Two[n - 1]
BY TwoExists

\* Dividing by one power of two after another.
LEMMA DivTwo ==
  ASSUME NEW v \in Nat, NEW n \in 0 .. 15
  PROVE  (v \div Two[n]) \div 2 = v \div Two[n + 1]
<1>. DEFINE d == Two[n]
<1>1. d \in Nat /\ d > 0
  BY TwoType
<1>2. Two[n + 1] = d * 2
  <2>1. n + 1 \in 1 .. 16 /\ (n + 1) - 1 = n
    OBVIOUS
  <2>2. Two[n + 1] = 2 * Two[n]
    BY <2>1, TwoNext
  <2>. QED
    BY <1>1, <2>2
<1>. HIDE DEF d
<1>3. (v \div d) \div 2 = v \div (d * 2)
  BY <1>1, DivDiv
<1>. QED
  BY <1>2, <1>3 DEF d

(* The powers of two multiply.                                              *)
LEMMA TwoSum ==
  ASSUME NEW i \in 0 .. 16, NEW j \in 0 .. 16, i + j <= 16
  PROVE  Two[i + j] = Two[i] * Two[j]
<1>. DEFINE T == {k \in 0 .. j : Two[i + k] = Two[i] * Two[k]}
<1>1. 0 \in T
  BY TwoIs, TwoType
<1>2. ASSUME NEW k \in 1 .. j, k - 1 \in T PROVE k \in T
  <2>. DEFINE a == Two[i]
              b == Two[k - 1]
  <2>1. Two[i + (k - 1)] = a * b
    BY <1>2
  <2>2. Two[i + k] = 2 * Two[i + (k - 1)]
    <3>1. i + k \in 1 .. 16 /\ (i + k) - 1 = i + (k - 1)
      OBVIOUS
    <3>. QED
      BY <3>1, TwoNext
  <2>3. Two[k] = 2 * b
    <3>1. k \in 1 .. 16
      OBVIOUS
    <3>. QED
      BY <3>1, TwoNext
  <2>4. a \in Nat /\ b \in Nat
    BY TwoType
  <2>. HIDE DEF a, b
  <2>5. 2 * (a * b) = a * (2 * b)
    BY <2>4, Z3
  <2>6. Two[i + k] = a * Two[k]
    BY <2>1, <2>2, <2>3, <2>5
  <2>. QED
    BY <2>6 DEF a
<1>3. j \in T
  BY <1>1, <1>2, UpTo
<1>. QED
  BY <1>3

(* Functions defined by recursion up to a bound: that there is one is shown *)
(* by adding a value at a time.                                             *)

LEMMA BitsReadIs ==
  ASSUME NEW src, NEW pos, NEW len \in Nat
  PROVE  BitsRead(src, pos, len) =
           [k \in 0 .. len |-> IF k = 0 THEN 0 ELSE
              BitsRead(src, pos, len)[k - 1] + BitAt(src, pos + k - 1) * Two[k - 1]]
<1>. DEFINE N == len
            a == 0
            G(k, x) == x + BitAt(src, pos + k - 1) * Two[k - 1]
            Is(f, n) == f = [k \in 0 .. n |-> IF k = 0 THEN a ELSE G(k, f[k - 1])]
            T == {n \in 0 .. N : \E f : Is(f, n)}
<1>1. N \in Nat
  OBVIOUS
<1>. HIDE DEF N, a, G
<1>2. 0 \in T
  <2>1. PICK f : f = [k \in 0 .. 0 |-> a]
    OBVIOUS
  <2>2. f = [k \in 0 .. 0 |-> IF k = 0 THEN a ELSE G(k, f[k - 1])]
    BY <2>1
  <2>. QED
    BY <1>1, <2>2
<1>3. ASSUME NEW n \in 1 .. N, n - 1 \in T PROVE n \in T
  <2>1. PICK f : Is(f, n - 1)
    BY <1>3
  <2>. DEFINE v == G(n, f[n - 1])
  <2>2. PICK g : g = [k \in 0 .. n |-> IF k < n THEN f[k] ELSE v]
    OBVIOUS
  <2>3. n \in Nat /\ n > 0
    BY <1>1
  <2>. HIDE DEF v
  <2>4. (\A k \in 0 .. n - 1 : g[k] = f[k]) /\ g[n] = v /\ g = [k \in 0 .. n |-> g[k]]
    BY ONLY <2>2, <2>3
  <2>5. \A k \in 0 .. n - 1 : f[k] = IF k = 0 THEN a ELSE G(k, f[k - 1])
    BY <2>1
  <2>6. ASSUME NEW k \in 0 .. n PROVE g[k] = IF k = 0 THEN a ELSE G(k, g[k - 1])
    <3>1. k # 0 => k - 1 \in 0 .. n - 1
      BY <2>3
    <3>2. CASE k = n
      <4>1. k # 0 /\ g[k] = v
        BY <2>3, <2>4, <3>2
      <4>2. g[k - 1] = f[n - 1]
        BY <2>4, <3>1, <3>2, <4>1
      <4>3. v = G(k, f[n - 1])
        BY <3>2 DEF v
      <4>. QED
        BY ONLY <4>1, <4>2, <4>3
    <3>3. CASE k # n
      <4>1. k \in 0 .. n - 1
        BY <2>3, <3>3
      <4>. QED
        BY <2>4, <2>5, <3>1, <4>1
    <3>. QED
      BY <3>2, <3>3
  <2>7. g = [k \in 0 .. n |-> IF k = 0 THEN a ELSE G(k, g[k - 1])]
    BY ONLY <2>4, <2>6
  <2>. QED
    BY <1>1, <2>7
<1>. HIDE DEF T
<1>4. N \in T
  <2>1. \A n \in 0 .. N : n \in T
    BY ONLY <1>1, <1>2, <1>3, UpTo
  <2>. QED
    BY ONLY <1>1, <2>1
<1>5. \E f : f = [k \in 0 .. N |-> IF k = 0 THEN a ELSE G(k, f[k - 1])]
  BY <1>4 DEF T
<1>. QED
  BY <1>5, Zenon DEF BitsRead, N, a, G

LEMMA CodeReadIs ==
  ASSUME NEW src, NEW pos
  PROVE  CodeRead(src, pos) =
           [k \in 0 .. MaxBits |-> IF k = 0 THEN 0 ELSE
              IF pos + k > 8 * Len(src) THEN -1 ELSE 2 * CodeRead(src, pos)[k - 1] + BitAt(src, pos + k - 1)]
<1>. DEFINE N == MaxBits
            a == 0
            G(k, x) == IF pos + k > 8 * Len(src) THEN -1 ELSE 2 * x + BitAt(src, pos + k - 1)
            Is(f, n) == f = [k \in 0 .. n |-> IF k = 0 THEN a ELSE G(k, f[k - 1])]
            T == {n \in 0 .. N : \E f : Is(f, n)}
<1>1. N \in Nat
  BY DEF MaxBits
<1>. HIDE DEF N, a, G
<1>2. 0 \in T
  <2>1. PICK f : f = [k \in 0 .. 0 |-> a]
    OBVIOUS
  <2>2. f = [k \in 0 .. 0 |-> IF k = 0 THEN a ELSE G(k, f[k - 1])]
    BY <2>1
  <2>. QED
    BY <1>1, <2>2
<1>3. ASSUME NEW n \in 1 .. N, n - 1 \in T PROVE n \in T
  <2>1. PICK f : Is(f, n - 1)
    BY <1>3
  <2>. DEFINE v == G(n, f[n - 1])
  <2>2. PICK g : g = [k \in 0 .. n |-> IF k < n THEN f[k] ELSE v]
    OBVIOUS
  <2>3. n \in Nat /\ n > 0
    BY <1>1
  <2>. HIDE DEF v
  <2>4. (\A k \in 0 .. n - 1 : g[k] = f[k]) /\ g[n] = v /\ g = [k \in 0 .. n |-> g[k]]
    BY ONLY <2>2, <2>3
  <2>5. \A k \in 0 .. n - 1 : f[k] = IF k = 0 THEN a ELSE G(k, f[k - 1])
    BY <2>1
  <2>6. ASSUME NEW k \in 0 .. n PROVE g[k] = IF k = 0 THEN a ELSE G(k, g[k - 1])
    <3>1. k # 0 => k - 1 \in 0 .. n - 1
      BY <2>3
    <3>2. CASE k = n
      <4>1. k # 0 /\ g[k] = v
        BY <2>3, <2>4, <3>2
      <4>2. g[k - 1] = f[n - 1]
        BY <2>4, <3>1, <3>2, <4>1
      <4>3. v = G(k, f[n - 1])
        BY <3>2 DEF v
      <4>. QED
        BY ONLY <4>1, <4>2, <4>3
    <3>3. CASE k # n
      <4>1. k \in 0 .. n - 1
        BY <2>3, <3>3
      <4>. QED
        BY <2>4, <2>5, <3>1, <4>1
    <3>. QED
      BY <3>2, <3>3
  <2>7. g = [k \in 0 .. n |-> IF k = 0 THEN a ELSE G(k, g[k - 1])]
    BY ONLY <2>4, <2>6
  <2>. QED
    BY <1>1, <2>7
<1>. HIDE DEF T
<1>4. N \in T
  <2>1. \A n \in 0 .. N : n \in T
    BY ONLY <1>1, <1>2, <1>3, UpTo
  <2>. QED
    BY ONLY <1>1, <2>1
<1>5. \E f : f = [k \in 0 .. N |-> IF k = 0 THEN a ELSE G(k, f[k - 1])]
  BY <1>4 DEF T
<1>. QED
  BY <1>5, Zenon DEF CodeRead, N, a, G

LEMMA FirstCodesIs ==
  ASSUME NEW counts
  PROVE  FirstCodes(counts) =
           [k \in 0 .. MaxBits |-> IF k = 0 THEN 0 ELSE
              2 * (FirstCodes(counts)[k - 1] + counts[k])]
<1>. DEFINE N == MaxBits
            a == 0
            G(k, x) == 2 * (x + counts[k])
            Is(f, n) == f = [k \in 0 .. n |-> IF k = 0 THEN a ELSE G(k, f[k - 1])]
            T == {n \in 0 .. N : \E f : Is(f, n)}
<1>1. N \in Nat
  BY DEF MaxBits
<1>. HIDE DEF N, a, G
<1>2. 0 \in T
  <2>1. PICK f : f = [k \in 0 .. 0 |-> a]
    OBVIOUS
  <2>2. f = [k \in 0 .. 0 |-> IF k = 0 THEN a ELSE G(k, f[k - 1])]
    BY <2>1
  <2>. QED
    BY <1>1, <2>2
<1>3. ASSUME NEW n \in 1 .. N, n - 1 \in T PROVE n \in T
  <2>1. PICK f : Is(f, n - 1)
    BY <1>3
  <2>. DEFINE v == G(n, f[n - 1])
  <2>2. PICK g : g = [k \in 0 .. n |-> IF k < n THEN f[k] ELSE v]
    OBVIOUS
  <2>3. n \in Nat /\ n > 0
    BY <1>1
  <2>. HIDE DEF v
  <2>4. (\A k \in 0 .. n - 1 : g[k] = f[k]) /\ g[n] = v /\ g = [k \in 0 .. n |-> g[k]]
    BY ONLY <2>2, <2>3
  <2>5. \A k \in 0 .. n - 1 : f[k] = IF k = 0 THEN a ELSE G(k, f[k - 1])
    BY <2>1
  <2>6. ASSUME NEW k \in 0 .. n PROVE g[k] = IF k = 0 THEN a ELSE G(k, g[k - 1])
    <3>1. k # 0 => k - 1 \in 0 .. n - 1
      BY <2>3
    <3>2. CASE k = n
      <4>1. k # 0 /\ g[k] = v
        BY <2>3, <2>4, <3>2
      <4>2. g[k - 1] = f[n - 1]
        BY <2>4, <3>1, <3>2, <4>1
      <4>3. v = G(k, f[n - 1])
        BY <3>2 DEF v
      <4>. QED
        BY ONLY <4>1, <4>2, <4>3
    <3>3. CASE k # n
      <4>1. k \in 0 .. n - 1
        BY <2>3, <3>3
      <4>. QED
        BY <2>4, <2>5, <3>1, <4>1
    <3>. QED
      BY <3>2, <3>3
  <2>7. g = [k \in 0 .. n |-> IF k = 0 THEN a ELSE G(k, g[k - 1])]
    BY ONLY <2>4, <2>6
  <2>. QED
    BY <1>1, <2>7
<1>. HIDE DEF T
<1>4. N \in T
  <2>1. \A n \in 0 .. N : n \in T
    BY ONLY <1>1, <1>2, <1>3, UpTo
  <2>. QED
    BY ONLY <1>1, <2>1
<1>5. \E f : f = [k \in 0 .. N |-> IF k = 0 THEN a ELSE G(k, f[k - 1])]
  BY <1>4 DEF T
<1>. QED
  BY <1>5, Zenon DEF FirstCodes, N, a, G

LEMMA CodesBelowIs ==
  ASSUME NEW lens, NEW l \in Nat \ {0}
  PROVE  CodesBelow(lens, l) =
           [k \in 0 .. l - 1 |-> IF k = 0 THEN 0 ELSE
              CodesBelow(lens, l)[k - 1] + Count(lens, k) * Two[l - k]]
<1>. DEFINE N == l - 1
            a == 0
            G(k, x) == x + Count(lens, k) * Two[l - k]
            Is(f, n) == f = [k \in 0 .. n |-> IF k = 0 THEN a ELSE G(k, f[k - 1])]
            T == {n \in 0 .. N : \E f : Is(f, n)}
<1>1. N \in Nat
  OBVIOUS
<1>. HIDE DEF N, a, G
<1>2. 0 \in T
  <2>1. PICK f : f = [k \in 0 .. 0 |-> a]
    OBVIOUS
  <2>2. f = [k \in 0 .. 0 |-> IF k = 0 THEN a ELSE G(k, f[k - 1])]
    BY <2>1
  <2>. QED
    BY <1>1, <2>2
<1>3. ASSUME NEW n \in 1 .. N, n - 1 \in T PROVE n \in T
  <2>1. PICK f : Is(f, n - 1)
    BY <1>3
  <2>. DEFINE v == G(n, f[n - 1])
  <2>2. PICK g : g = [k \in 0 .. n |-> IF k < n THEN f[k] ELSE v]
    OBVIOUS
  <2>3. n \in Nat /\ n > 0
    BY <1>1
  <2>. HIDE DEF v
  <2>4. (\A k \in 0 .. n - 1 : g[k] = f[k]) /\ g[n] = v /\ g = [k \in 0 .. n |-> g[k]]
    BY ONLY <2>2, <2>3
  <2>5. \A k \in 0 .. n - 1 : f[k] = IF k = 0 THEN a ELSE G(k, f[k - 1])
    BY <2>1
  <2>6. ASSUME NEW k \in 0 .. n PROVE g[k] = IF k = 0 THEN a ELSE G(k, g[k - 1])
    <3>1. k # 0 => k - 1 \in 0 .. n - 1
      BY <2>3
    <3>2. CASE k = n
      <4>1. k # 0 /\ g[k] = v
        BY <2>3, <2>4, <3>2
      <4>2. g[k - 1] = f[n - 1]
        BY <2>4, <3>1, <3>2, <4>1
      <4>3. v = G(k, f[n - 1])
        BY <3>2 DEF v
      <4>. QED
        BY ONLY <4>1, <4>2, <4>3
    <3>3. CASE k # n
      <4>1. k \in 0 .. n - 1
        BY <2>3, <3>3
      <4>. QED
        BY <2>4, <2>5, <3>1, <4>1
    <3>. QED
      BY <3>2, <3>3
  <2>7. g = [k \in 0 .. n |-> IF k = 0 THEN a ELSE G(k, g[k - 1])]
    BY ONLY <2>4, <2>6
  <2>. QED
    BY <1>1, <2>7
<1>. HIDE DEF T
<1>4. N \in T
  <2>1. \A n \in 0 .. N : n \in T
    BY ONLY <1>1, <1>2, <1>3, UpTo
  <2>. QED
    BY ONLY <1>1, <2>1
<1>5. \E f : f = [k \in 0 .. N |-> IF k = 0 THEN a ELSE G(k, f[k - 1])]
  BY <1>4 DEF T
<1>. QED
  BY <1>5, Zenon DEF CodesBelow, N, a, G

LEMMA OpsBitsIs ==
  ASSUME NEW b, Len(b.ops) \in Nat
  PROVE  OpsBits(b) =
           [k \in 0 .. Len(b.ops) |-> IF k = 0 THEN << >> ELSE
              OpsBits(b)[k - 1] \o OpBits(b.lit, b.dist, b.ops[k])]
<1>. DEFINE N == Len(b.ops)
            a == << >>
            G(k, x) == x \o OpBits(b.lit, b.dist, b.ops[k])
            Is(f, n) == f = [k \in 0 .. n |-> IF k = 0 THEN a ELSE G(k, f[k - 1])]
            T == {n \in 0 .. N : \E f : Is(f, n)}
<1>1. N \in Nat
  OBVIOUS
<1>. HIDE DEF N, a, G
<1>2. 0 \in T
  <2>1. PICK f : f = [k \in 0 .. 0 |-> a]
    OBVIOUS
  <2>2. f = [k \in 0 .. 0 |-> IF k = 0 THEN a ELSE G(k, f[k - 1])]
    BY <2>1
  <2>. QED
    BY <1>1, <2>2
<1>3. ASSUME NEW n \in 1 .. N, n - 1 \in T PROVE n \in T
  <2>1. PICK f : Is(f, n - 1)
    BY <1>3
  <2>. DEFINE v == G(n, f[n - 1])
  <2>2. PICK g : g = [k \in 0 .. n |-> IF k < n THEN f[k] ELSE v]
    OBVIOUS
  <2>3. n \in Nat /\ n > 0
    BY <1>1
  <2>. HIDE DEF v
  <2>4. (\A k \in 0 .. n - 1 : g[k] = f[k]) /\ g[n] = v /\ g = [k \in 0 .. n |-> g[k]]
    BY ONLY <2>2, <2>3
  <2>5. \A k \in 0 .. n - 1 : f[k] = IF k = 0 THEN a ELSE G(k, f[k - 1])
    BY <2>1
  <2>6. ASSUME NEW k \in 0 .. n PROVE g[k] = IF k = 0 THEN a ELSE G(k, g[k - 1])
    <3>1. k # 0 => k - 1 \in 0 .. n - 1
      BY <2>3
    <3>2. CASE k = n
      <4>1. k # 0 /\ g[k] = v
        BY <2>3, <2>4, <3>2
      <4>2. g[k - 1] = f[n - 1]
        BY <2>4, <3>1, <3>2, <4>1
      <4>3. v = G(k, f[n - 1])
        BY <3>2 DEF v
      <4>. QED
        BY ONLY <4>1, <4>2, <4>3
    <3>3. CASE k # n
      <4>1. k \in 0 .. n - 1
        BY <2>3, <3>3
      <4>. QED
        BY <2>4, <2>5, <3>1, <4>1
    <3>. QED
      BY <3>2, <3>3
  <2>7. g = [k \in 0 .. n |-> IF k = 0 THEN a ELSE G(k, g[k - 1])]
    BY ONLY <2>4, <2>6
  <2>. QED
    BY <1>1, <2>7
<1>. HIDE DEF T
<1>4. N \in T
  <2>1. \A n \in 0 .. N : n \in T
    BY ONLY <1>1, <1>2, <1>3, UpTo
  <2>. QED
    BY ONLY <1>1, <2>1
<1>5. \E f : f = [k \in 0 .. N |-> IF k = 0 THEN a ELSE G(k, f[k - 1])]
  BY <1>4 DEF T
<1>. QED
  BY <1>5, Zenon DEF OpsBits, N, a, G

LEMMA OpsMeantIs ==
  ASSUME NEW b, NEW out, Len(b.ops) \in Nat
  PROVE  OpsMeant(b, out) =
           [k \in 0 .. Len(b.ops) |-> IF k = 0 THEN out ELSE
              OpsMeant(b, out)[k - 1] \o OpMeant(OpsMeant(b, out)[k - 1], b.ops[k])]
<1>. DEFINE N == Len(b.ops)
            a == out
            G(k, x) == x \o OpMeant(x, b.ops[k])
            Is(f, n) == f = [k \in 0 .. n |-> IF k = 0 THEN a ELSE G(k, f[k - 1])]
            T == {n \in 0 .. N : \E f : Is(f, n)}
<1>1. N \in Nat
  OBVIOUS
<1>. HIDE DEF N, a, G
<1>2. 0 \in T
  <2>1. PICK f : f = [k \in 0 .. 0 |-> a]
    OBVIOUS
  <2>2. f = [k \in 0 .. 0 |-> IF k = 0 THEN a ELSE G(k, f[k - 1])]
    BY <2>1
  <2>. QED
    BY <1>1, <2>2
<1>3. ASSUME NEW n \in 1 .. N, n - 1 \in T PROVE n \in T
  <2>1. PICK f : Is(f, n - 1)
    BY <1>3
  <2>. DEFINE v == G(n, f[n - 1])
  <2>2. PICK g : g = [k \in 0 .. n |-> IF k < n THEN f[k] ELSE v]
    OBVIOUS
  <2>3. n \in Nat /\ n > 0
    BY <1>1
  <2>. HIDE DEF v
  <2>4. (\A k \in 0 .. n - 1 : g[k] = f[k]) /\ g[n] = v /\ g = [k \in 0 .. n |-> g[k]]
    BY ONLY <2>2, <2>3
  <2>5. \A k \in 0 .. n - 1 : f[k] = IF k = 0 THEN a ELSE G(k, f[k - 1])
    BY <2>1
  <2>6. ASSUME NEW k \in 0 .. n PROVE g[k] = IF k = 0 THEN a ELSE G(k, g[k - 1])
    <3>1. k # 0 => k - 1 \in 0 .. n - 1
      BY <2>3
    <3>2. CASE k = n
      <4>1. k # 0 /\ g[k] = v
        BY <2>3, <2>4, <3>2
      <4>2. g[k - 1] = f[n - 1]
        BY <2>4, <3>1, <3>2, <4>1
      <4>3. v = G(k, f[n - 1])
        BY <3>2 DEF v
      <4>. QED
        BY ONLY <4>1, <4>2, <4>3
    <3>3. CASE k # n
      <4>1. k \in 0 .. n - 1
        BY <2>3, <3>3
      <4>. QED
        BY <2>4, <2>5, <3>1, <4>1
    <3>. QED
      BY <3>2, <3>3
  <2>7. g = [k \in 0 .. n |-> IF k = 0 THEN a ELSE G(k, g[k - 1])]
    BY ONLY <2>4, <2>6
  <2>. QED
    BY <1>1, <2>7
<1>. HIDE DEF T
<1>4. N \in T
  <2>1. \A n \in 0 .. N : n \in T
    BY ONLY <1>1, <1>2, <1>3, UpTo
  <2>. QED
    BY ONLY <1>1, <2>1
<1>5. \E f : f = [k \in 0 .. N |-> IF k = 0 THEN a ELSE G(k, f[k - 1])]
  BY <1>4 DEF T
<1>. QED
  BY <1>5, Zenon DEF OpsMeant, N, a, G

LEMMA ItemsBitsIs ==
  ASSUME NEW b, Len(b.items) \in Nat
  PROVE  ItemsBits(b) =
           [k \in 0 .. Len(b.items) |-> IF k = 0 THEN << >> ELSE
              ItemsBits(b)[k - 1] \o ItemBits(b, b.items[k])]
<1>. DEFINE N == Len(b.items)
            a == << >>
            G(k, x) == x \o ItemBits(b, b.items[k])
            Is(f, n) == f = [k \in 0 .. n |-> IF k = 0 THEN a ELSE G(k, f[k - 1])]
            T == {n \in 0 .. N : \E f : Is(f, n)}
<1>1. N \in Nat
  OBVIOUS
<1>. HIDE DEF N, a, G
<1>2. 0 \in T
  <2>1. PICK f : f = [k \in 0 .. 0 |-> a]
    OBVIOUS
  <2>2. f = [k \in 0 .. 0 |-> IF k = 0 THEN a ELSE G(k, f[k - 1])]
    BY <2>1
  <2>. QED
    BY <1>1, <2>2
<1>3. ASSUME NEW n \in 1 .. N, n - 1 \in T PROVE n \in T
  <2>1. PICK f : Is(f, n - 1)
    BY <1>3
  <2>. DEFINE v == G(n, f[n - 1])
  <2>2. PICK g : g = [k \in 0 .. n |-> IF k < n THEN f[k] ELSE v]
    OBVIOUS
  <2>3. n \in Nat /\ n > 0
    BY <1>1
  <2>. HIDE DEF v
  <2>4. (\A k \in 0 .. n - 1 : g[k] = f[k]) /\ g[n] = v /\ g = [k \in 0 .. n |-> g[k]]
    BY ONLY <2>2, <2>3
  <2>5. \A k \in 0 .. n - 1 : f[k] = IF k = 0 THEN a ELSE G(k, f[k - 1])
    BY <2>1
  <2>6. ASSUME NEW k \in 0 .. n PROVE g[k] = IF k = 0 THEN a ELSE G(k, g[k - 1])
    <3>1. k # 0 => k - 1 \in 0 .. n - 1
      BY <2>3
    <3>2. CASE k = n
      <4>1. k # 0 /\ g[k] = v
        BY <2>3, <2>4, <3>2
      <4>2. g[k - 1] = f[n - 1]
        BY <2>4, <3>1, <3>2, <4>1
      <4>3. v = G(k, f[n - 1])
        BY <3>2 DEF v
      <4>. QED
        BY ONLY <4>1, <4>2, <4>3
    <3>3. CASE k # n
      <4>1. k \in 0 .. n - 1
        BY <2>3, <3>3
      <4>. QED
        BY <2>4, <2>5, <3>1, <4>1
    <3>. QED
      BY <3>2, <3>3
  <2>7. g = [k \in 0 .. n |-> IF k = 0 THEN a ELSE G(k, g[k - 1])]
    BY ONLY <2>4, <2>6
  <2>. QED
    BY <1>1, <2>7
<1>. HIDE DEF T
<1>4. N \in T
  <2>1. \A n \in 0 .. N : n \in T
    BY ONLY <1>1, <1>2, <1>3, UpTo
  <2>. QED
    BY ONLY <1>1, <2>1
<1>5. \E f : f = [k \in 0 .. N |-> IF k = 0 THEN a ELSE G(k, f[k - 1])]
  BY <1>4 DEF T
<1>. QED
  BY <1>5, Zenon DEF ItemsBits, N, a, G

LEMMA ItemsMeantIs ==
  ASSUME NEW b, Len(b.items) \in Nat
  PROVE  ItemsMeant(b) =
           [k \in 0 .. Len(b.items) |-> IF k = 0 THEN << >> ELSE
              ItemsMeant(b)[k - 1] \o ItemMeant(ItemsMeant(b)[k - 1], b.items[k])]
<1>. DEFINE N == Len(b.items)
            a == << >>
            G(k, x) == x \o ItemMeant(x, b.items[k])
            Is(f, n) == f = [k \in 0 .. n |-> IF k = 0 THEN a ELSE G(k, f[k - 1])]
            T == {n \in 0 .. N : \E f : Is(f, n)}
<1>1. N \in Nat
  OBVIOUS
<1>. HIDE DEF N, a, G
<1>2. 0 \in T
  <2>1. PICK f : f = [k \in 0 .. 0 |-> a]
    OBVIOUS
  <2>2. f = [k \in 0 .. 0 |-> IF k = 0 THEN a ELSE G(k, f[k - 1])]
    BY <2>1
  <2>. QED
    BY <1>1, <2>2
<1>3. ASSUME NEW n \in 1 .. N, n - 1 \in T PROVE n \in T
  <2>1. PICK f : Is(f, n - 1)
    BY <1>3
  <2>. DEFINE v == G(n, f[n - 1])
  <2>2. PICK g : g = [k \in 0 .. n |-> IF k < n THEN f[k] ELSE v]
    OBVIOUS
  <2>3. n \in Nat /\ n > 0
    BY <1>1
  <2>. HIDE DEF v
  <2>4. (\A k \in 0 .. n - 1 : g[k] = f[k]) /\ g[n] = v /\ g = [k \in 0 .. n |-> g[k]]
    BY ONLY <2>2, <2>3
  <2>5. \A k \in 0 .. n - 1 : f[k] = IF k = 0 THEN a ELSE G(k, f[k - 1])
    BY <2>1
  <2>6. ASSUME NEW k \in 0 .. n PROVE g[k] = IF k = 0 THEN a ELSE G(k, g[k - 1])
    <3>1. k # 0 => k - 1 \in 0 .. n - 1
      BY <2>3
    <3>2. CASE k = n
      <4>1. k # 0 /\ g[k] = v
        BY <2>3, <2>4, <3>2
      <4>2. g[k - 1] = f[n - 1]
        BY <2>4, <3>1, <3>2, <4>1
      <4>3. v = G(k, f[n - 1])
        BY <3>2 DEF v
      <4>. QED
        BY ONLY <4>1, <4>2, <4>3
    <3>3. CASE k # n
      <4>1. k \in 0 .. n - 1
        BY <2>3, <3>3
      <4>. QED
        BY <2>4, <2>5, <3>1, <4>1
    <3>. QED
      BY <3>2, <3>3
  <2>7. g = [k \in 0 .. n |-> IF k = 0 THEN a ELSE G(k, g[k - 1])]
    BY ONLY <2>4, <2>6
  <2>. QED
    BY <1>1, <2>7
<1>. HIDE DEF T
<1>4. N \in T
  <2>1. \A n \in 0 .. N : n \in T
    BY ONLY <1>1, <1>2, <1>3, UpTo
  <2>. QED
    BY ONLY <1>1, <2>1
<1>5. \E f : f = [k \in 0 .. N |-> IF k = 0 THEN a ELSE G(k, f[k - 1])]
  BY <1>4 DEF T
<1>. QED
  BY <1>5, Zenon DEF ItemsMeant, N, a, G

LEMMA WrittenIs ==
  ASSUME NEW blocks, Len(blocks) \in Nat
  PROVE  Written(blocks) =
           [k \in 0 .. Len(blocks) |-> IF k = 0 THEN << >> ELSE
              Written(blocks)[k - 1] \o BlockBits(IF k = Len(blocks) THEN 1 ELSE 0, blocks[k], Len(Written(blocks)[k - 1]))]
<1>. DEFINE N == Len(blocks)
            a == << >>
            G(k, x) == x \o BlockBits(IF k = Len(blocks) THEN 1 ELSE 0, blocks[k], Len(x))
            Is(f, n) == f = [k \in 0 .. n |-> IF k = 0 THEN a ELSE G(k, f[k - 1])]
            T == {n \in 0 .. N : \E f : Is(f, n)}
<1>1. N \in Nat
  OBVIOUS
<1>. HIDE DEF N, a, G
<1>2. 0 \in T
  <2>1. PICK f : f = [k \in 0 .. 0 |-> a]
    OBVIOUS
  <2>2. f = [k \in 0 .. 0 |-> IF k = 0 THEN a ELSE G(k, f[k - 1])]
    BY <2>1
  <2>. QED
    BY <1>1, <2>2
<1>3. ASSUME NEW n \in 1 .. N, n - 1 \in T PROVE n \in T
  <2>1. PICK f : Is(f, n - 1)
    BY <1>3
  <2>. DEFINE v == G(n, f[n - 1])
  <2>2. PICK g : g = [k \in 0 .. n |-> IF k < n THEN f[k] ELSE v]
    OBVIOUS
  <2>3. n \in Nat /\ n > 0
    BY <1>1
  <2>. HIDE DEF v
  <2>4. (\A k \in 0 .. n - 1 : g[k] = f[k]) /\ g[n] = v /\ g = [k \in 0 .. n |-> g[k]]
    BY ONLY <2>2, <2>3
  <2>5. \A k \in 0 .. n - 1 : f[k] = IF k = 0 THEN a ELSE G(k, f[k - 1])
    BY <2>1
  <2>6. ASSUME NEW k \in 0 .. n PROVE g[k] = IF k = 0 THEN a ELSE G(k, g[k - 1])
    <3>1. k # 0 => k - 1 \in 0 .. n - 1
      BY <2>3
    <3>2. CASE k = n
      <4>1. k # 0 /\ g[k] = v
        BY <2>3, <2>4, <3>2
      <4>2. g[k - 1] = f[n - 1]
        BY <2>4, <3>1, <3>2, <4>1
      <4>3. v = G(k, f[n - 1])
        BY <3>2 DEF v
      <4>. QED
        BY ONLY <4>1, <4>2, <4>3
    <3>3. CASE k # n
      <4>1. k \in 0 .. n - 1
        BY <2>3, <3>3
      <4>. QED
        BY <2>4, <2>5, <3>1, <4>1
    <3>. QED
      BY <3>2, <3>3
  <2>7. g = [k \in 0 .. n |-> IF k = 0 THEN a ELSE G(k, g[k - 1])]
    BY ONLY <2>4, <2>6
  <2>. QED
    BY <1>1, <2>7
<1>. HIDE DEF T
<1>4. N \in T
  <2>1. \A n \in 0 .. N : n \in T
    BY ONLY <1>1, <1>2, <1>3, UpTo
  <2>. QED
    BY ONLY <1>1, <2>1
<1>5. \E f : f = [k \in 0 .. N |-> IF k = 0 THEN a ELSE G(k, f[k - 1])]
  BY <1>4 DEF T
<1>. QED
  BY <1>5, Zenon DEF Written, N, a, G

LEMMA MeantIs ==
  ASSUME NEW blocks, Len(blocks) \in Nat
  PROVE  Meant(blocks) =
           [k \in 0 .. Len(blocks) |-> IF k = 0 THEN << >> ELSE
              BlockMeant(blocks[k], Meant(blocks)[k - 1])]
<1>. DEFINE N == Len(blocks)
            a == << >>
            G(k, x) == BlockMeant(blocks[k], x)
            Is(f, n) == f = [k \in 0 .. n |-> IF k = 0 THEN a ELSE G(k, f[k - 1])]
            T == {n \in 0 .. N : \E f : Is(f, n)}
<1>1. N \in Nat
  OBVIOUS
<1>. HIDE DEF N, a, G
<1>2. 0 \in T
  <2>1. PICK f : f = [k \in 0 .. 0 |-> a]
    OBVIOUS
  <2>2. f = [k \in 0 .. 0 |-> IF k = 0 THEN a ELSE G(k, f[k - 1])]
    BY <2>1
  <2>. QED
    BY <1>1, <2>2
<1>3. ASSUME NEW n \in 1 .. N, n - 1 \in T PROVE n \in T
  <2>1. PICK f : Is(f, n - 1)
    BY <1>3
  <2>. DEFINE v == G(n, f[n - 1])
  <2>2. PICK g : g = [k \in 0 .. n |-> IF k < n THEN f[k] ELSE v]
    OBVIOUS
  <2>3. n \in Nat /\ n > 0
    BY <1>1
  <2>. HIDE DEF v
  <2>4. (\A k \in 0 .. n - 1 : g[k] = f[k]) /\ g[n] = v /\ g = [k \in 0 .. n |-> g[k]]
    BY ONLY <2>2, <2>3
  <2>5. \A k \in 0 .. n - 1 : f[k] = IF k = 0 THEN a ELSE G(k, f[k - 1])
    BY <2>1
  <2>6. ASSUME NEW k \in 0 .. n PROVE g[k] = IF k = 0 THEN a ELSE G(k, g[k - 1])
    <3>1. k # 0 => k - 1 \in 0 .. n - 1
      BY <2>3
    <3>2. CASE k = n
      <4>1. k # 0 /\ g[k] = v
        BY <2>3, <2>4, <3>2
      <4>2. g[k - 1] = f[n - 1]
        BY <2>4, <3>1, <3>2, <4>1
      <4>3. v = G(k, f[n - 1])
        BY <3>2 DEF v
      <4>. QED
        BY ONLY <4>1, <4>2, <4>3
    <3>3. CASE k # n
      <4>1. k \in 0 .. n - 1
        BY <2>3, <3>3
      <4>. QED
        BY <2>4, <2>5, <3>1, <4>1
    <3>. QED
      BY <3>2, <3>3
  <2>7. g = [k \in 0 .. n |-> IF k = 0 THEN a ELSE G(k, g[k - 1])]
    BY ONLY <2>4, <2>6
  <2>. QED
    BY <1>1, <2>7
<1>. HIDE DEF T
<1>4. N \in T
  <2>1. \A n \in 0 .. N : n \in T
    BY ONLY <1>1, <1>2, <1>3, UpTo
  <2>. QED
    BY ONLY <1>1, <2>1
<1>5. \E f : f = [k \in 0 .. N |-> IF k = 0 THEN a ELSE G(k, f[k - 1])]
  BY <1>4 DEF T
<1>. QED
  BY <1>5, Zenon DEF Meant, N, a, G

-----------------------------------------------------------------------------
(* Bits written and bits read.                                              *)

Bit == {0, 1}

\* The bits from a position on are these, as far as there are any.
HasBits(src, pos, bits) ==
  \A i \in 1 .. Len(bits) : pos + i <= 8 * Len(src) => BitAt(src, pos + i - 1) = bits[i]

\* A bit of a number.
LEMMA BitOf ==
  ASSUME NEW v \in Nat, NEW n \in 0 .. 16
  PROVE  (v \div Two[n]) % 2 \in Bit
<1>. DEFINE d == Two[n]
<1>1. d \in Nat /\ d > 0
  BY TwoType
<1>. HIDE DEF d
<1>2. v \div d \in Nat
  BY <1>1, Division
<1>3. (v \div d) % 2 \in Nat /\ (v \div d) % 2 < 2
  BY <1>2, Division
<1>. QED
  BY <1>3 DEF Bit, d

\* A number's bits, least first and greatest first.
LEMMA LowSeq ==
  ASSUME NEW v \in Nat, NEW n \in 0 .. 16
  PROVE  /\ Low(v, n) \in Seq(Bit) /\ Len(Low(v, n)) = n
         /\ \A i \in 1 .. n : Low(v, n)[i] = (v \div Two[i - 1]) % 2
<1>1. \A i \in 1 .. n : (v \div Two[i - 1]) % 2 \in Bit
  BY BitOf
<1>2. Low(v, n) \in [1 .. n -> Bit]
  BY <1>1 DEF Low
<1>. QED
  BY <1>2 DEF Low

LEMMA HighSeq ==
  ASSUME NEW v \in Nat, NEW n \in 0 .. 16
  PROVE  /\ High(v, n) \in Seq(Bit) /\ Len(High(v, n)) = n
         /\ \A i \in 1 .. n : High(v, n)[i] = (v \div Two[n - i]) % 2
<1>1. \A i \in 1 .. n : (v \div Two[n - i]) % 2 \in Bit
  BY BitOf
<1>2. High(v, n) \in [1 .. n -> Bit]
  BY <1>1 DEF High
<1>. QED
  BY <1>2 DEF High

\* Bits after bits.
LEMMA ConcatBits ==
  ASSUME NEW a \in Seq(Bit), NEW c \in Seq(Bit)
  PROVE  a \o c \in Seq(Bit) /\ Len(a \o c) = Len(a) + Len(c) /\ Len(a) \in Nat /\ Len(c) \in Nat
OBVIOUS

\* The source holds both parts, each where it is.
LEMMA HasConcat ==
  ASSUME NEW src, NEW pos \in Nat, NEW a \in Seq(Bit), NEW b \in Seq(Bit),
         HasBits(src, pos, a \o b)
  PROVE  HasBits(src, pos, a) /\ HasBits(src, pos + Len(a), b)
<1>1. Len(a) \in Nat /\ Len(b) \in Nat /\ Len(a \o b) = Len(a) + Len(b)
  OBVIOUS
<1>2. ASSUME NEW i \in 1 .. Len(a), pos + i <= 8 * Len(src)
      PROVE  BitAt(src, pos + i - 1) = a[i]
  <2>1. i \in 1 .. Len(a \o b) /\ (a \o b)[i] = a[i]
    BY <1>1
  <2>. QED
    BY <1>2, <2>1 DEF HasBits
<1>3. ASSUME NEW i \in 1 .. Len(b), pos + Len(a) + i <= 8 * Len(src)
      PROVE  BitAt(src, pos + Len(a) + i - 1) = b[i]
  <2>. DEFINE k == Len(a) + i
  <2>1. k \in 1 .. Len(a \o b) /\ (a \o b)[k] = b[i] /\ pos + k = pos + Len(a) + i
    BY <1>1
  <2>2. pos + k - 1 = pos + Len(a) + i - 1
    BY <2>1
  <2>. HIDE DEF k
  <2>3. BitAt(src, pos + k - 1) = (a \o b)[k]
    BY <1>3, <2>1 DEF HasBits
  <2>. QED
    BY <2>1, <2>2, <2>3
<1>. QED
  BY <1>2, <1>3 DEF HasBits

\* br_bits reads the number written, least bit first.
LEMMA BrRight ==
  ASSUME NEW src, NEW pos \in Nat, NEW n \in 0 .. 16, NEW v \in 0 .. Two[n] - 1,
         HasBits(src, pos, Low(v, n)), Len(src) \in Nat, pos + n <= 8 * Len(src)
  PROVE  BrBits(src, pos, n) = v
<1>0. \A i \in 0 .. 16 : Two[i] \in Nat /\ Two[i] > 0
  BY TwoType
<1>9. v \in Nat /\ v < Two[n]
  <2>1. Two[n] \in Nat
    BY <1>0
  <2>. QED
    BY <2>1
<1>. DEFINE low == BitsRead(src, pos, n)
            T == {i \in 0 .. n : low[i] = v % Two[i]}
<1>1. low = [k \in 0 .. n |-> IF k = 0 THEN 0 ELSE
               low[k - 1] + BitAt(src, pos + k - 1) * Two[k - 1]]
  <2>1. n \in Nat
    OBVIOUS
  <2>. QED
    BY ONLY <2>1, BitsReadIs
<1>. HIDE DEF low
<1>2. 0 \in T
  <2>1. low[0] = 0
    BY <1>1
  <2>2. v % Two[0] = 0
    BY <1>9, TwoIs
  <2>. QED
    BY <2>1, <2>2
<1>3. ASSUME NEW i \in 1 .. n, i - 1 \in T PROVE i \in T
  <2>. DEFINE d == Two[i - 1]
              q == v \div d
              r == v % d
              bit == q % 2
  <2>1. d \in Nat /\ d > 0 /\ Two[i] = 2 * d /\ v \in Nat
    <3>1. i \in 1 .. 16 /\ i - 1 \in 0 .. 16
      OBVIOUS
    <3>. QED
      BY <1>0, <1>9, <3>1, TwoNext
  <2>2. low[i] = low[i - 1] + BitAt(src, pos + i - 1) * d
    BY <1>1
  <2>3. low[i - 1] = r
    BY <1>3
  <2>4. BitAt(src, pos + i - 1) = bit
    <3>1. Len(Low(v, n)) = n /\ Low(v, n)[i] = bit
      BY <2>1, LowSeq
    <3>2. i \in 1 .. Len(Low(v, n)) /\ pos + i <= 8 * Len(src)
      BY <3>1
    <3>. QED
      BY <3>1, <3>2 DEF HasBits
  <2>. HIDE DEF d
  <2>5. q \in Nat /\ r \in Nat /\ r < d /\ v = d * q + r
    BY <2>1, Division
  <2>. HIDE DEF q, r
  <2>6. q \div 2 \in Nat /\ bit \in {0, 1} /\ q = 2 * (q \div 2) + bit
    BY <2>5, Division
  <2>. HIDE DEF bit
  <2>. DEFINE D == 2 * d
              p == q \div 2
              s == r + bit * d
  <2>7. D \in Nat /\ D > 0 /\ s \in Nat /\ s < D
    BY <2>1, <2>5, <2>6
  <2>8. v = D * p + s
    <3>1. d * (2 * p + bit) = (2 * d) * p + bit * d
      BY <2>1, <2>6, Z3
    <3>2. (2 * d) * p \in Nat /\ bit * d \in Nat
      <4>1. 2 * d \in Nat /\ p \in Nat
        BY <2>1, <2>6
      <4>2. (2 * d) * p \in Nat
        BY ONLY <4>1, Z3
      <4>. QED
        BY <2>1, <2>6, <4>2
    <3>3. v = d * (2 * p + bit) + r
      BY ONLY <2>5, <2>6
    <3>4. v = (2 * d) * p + (r + bit * d)
      <4>. DEFINE A == d * (2 * p + bit)
                  B == (2 * d) * p
                  C == bit * d
      <4>1. v = A + r /\ A = B + C /\ B \in Nat /\ C \in Nat /\ r \in Nat
        BY ONLY <2>5, <3>1, <3>2, <3>3
      <4>. HIDE DEF A, B, C
      <4>2. v = B + (r + C)
        BY ONLY <4>1
      <4>. QED
        BY ONLY <4>2 DEF B, C
    <3>. QED
      BY ONLY <3>4
  <2>9. p \in Nat
    BY <2>6
  <2>. HIDE DEF D, p, s
  <2>10. v \div D \in Nat /\ v % D \in Nat /\ v % D < D /\ v = D * (v \div D) + (v % D)
    BY <2>1, <2>7, Division
  <2>11. D * p + s = D * (v \div D) + (v % D)
    BY <2>8, <2>10
  <2>12. p = v \div D
    BY <2>7, <2>9, <2>10, <2>11, Quotient
  <2>13. D * p \in Int
    BY <2>7, <2>9, Z3
  <2>14. s = v % D
    BY <2>7, <2>10, <2>11, <2>12, <2>13
  <2>15. low[i] = v % Two[i]
    BY <2>1, <2>2, <2>3, <2>4, <2>14 DEF s, D
  <2>. QED
    BY <2>15
<1>4. n \in T
  <2>. HIDE DEF T
  <2>1. n \in Nat
    OBVIOUS
  <2>2. \A i \in 0 .. n : i \in T
    BY ONLY <1>2, <1>3, <2>1, UpTo
  <2>. QED
    BY <2>1, <2>2
<1>5. low[n] = v % Two[n]
  BY <1>4
<1>6. v % Two[n] = v
  <2>. DEFINE d == Two[n]
  <2>1. d \in Nat /\ d > 0 /\ v \in Nat /\ v < d
    BY <1>0, <1>9
  <2>. HIDE DEF d
  <2>2. v % d = v
    BY <2>1, Z3
  <2>. QED
    BY <2>2 DEF d
<1>7. BrBits(src, pos, n) = low[n]
  BY DEF BrBits, low
<1>. QED
  BY <1>5, <1>6, <1>7

\* The bytes packed, as far as they are kept, hold the bits.
LEMMA PackHas ==
  ASSUME NEW bits \in Seq(Bit), NEW kept \in 0 .. (Len(bits) + 7) \div 8
  PROVE  LET src == SubSeq(Pack(bits), 1, kept)
         IN /\ Len(Pack(bits)) = (Len(bits) + 7) \div 8
            /\ src \in Seq(Bytes) /\ Len(src) = kept /\ HasBits(src, 0, bits)
<1>. DEFINE n == (Len(bits) + 7) \div 8
            At(k) == IF k <= Len(bits) THEN bits[k] ELSE 0
            pack == Pack(bits)
            src == SubSeq(pack, 1, kept)
<1>1. n \in Nat /\ Len(bits) \in Nat
  BY Division
<1>2. \A k \in Nat \ {0} : At(k) \in Bit
  BY <1>1 DEF Bit
<1>3. pack = [b \in 1 .. n |-> At(8 * b - 7) + 2 * At(8 * b - 6) + 4 * At(8 * b - 5)
                + 8 * At(8 * b - 4) + 16 * At(8 * b - 3) + 32 * At(8 * b - 2)
                + 64 * At(8 * b - 1) + 128 * At(8 * b)]
  BY DEF Pack
<1>. HIDE DEF pack, At, n
<1>4. ASSUME NEW b \in 1 .. n, NEW i \in 0 .. 7
      PROVE  pack[b] \in Bytes /\ (pack[b] \div Two[i]) % 2 = At(8 * (b - 1) + i + 1)
  <2>1. /\ 8 * b - 7 \in Nat \ {0} /\ 8 * b - 6 \in Nat \ {0} /\ 8 * b - 5 \in Nat \ {0}
        /\ 8 * b - 4 \in Nat \ {0} /\ 8 * b - 3 \in Nat \ {0} /\ 8 * b - 2 \in Nat \ {0}
        /\ 8 * b - 1 \in Nat \ {0} /\ 8 * b \in Nat \ {0}
    BY <1>1
  <2>2. /\ At(8 * b - 7) \in Bit /\ At(8 * b - 6) \in Bit /\ At(8 * b - 5) \in Bit
        /\ At(8 * b - 4) \in Bit /\ At(8 * b - 3) \in Bit /\ At(8 * b - 2) \in Bit
        /\ At(8 * b - 1) \in Bit /\ At(8 * b) \in Bit
    BY <1>2, <2>1
  <2>. DEFINE v == pack[b]
              b0 == At(8 * b - 7)
              b1 == At(8 * b - 6)
              b2 == At(8 * b - 5)
              b3 == At(8 * b - 4)
              b4 == At(8 * b - 3)
              b5 == At(8 * b - 2)
              b6 == At(8 * b - 1)
              b7 == At(8 * b)
  <2>3. v = b0 + 2 * b1 + 4 * b2 + 8 * b3 + 16 * b4 + 32 * b5 + 64 * b6 + 128 * b7
    BY <1>3
  <2>14. b0 \in Bit /\ b1 \in Bit /\ b2 \in Bit /\ b3 \in Bit /\ b4 \in Bit /\ b5 \in Bit /\ b6 \in Bit /\ b7 \in Bit
    BY <2>2
  <2>. HIDE DEF v, b0, b1, b2, b3, b4, b5, b6, b7
  <2>15. /\ v \in Bytes
         /\ (v \div 1) % 2 = b0 /\ (v \div 2) % 2 = b1 /\ (v \div 4) % 2 = b2 /\ (v \div 8) % 2 = b3
         /\ (v \div 16) % 2 = b4 /\ (v \div 32) % 2 = b5 /\ (v \div 64) % 2 = b6 /\ (v \div 128) % 2 = b7
    <3>1. v \in Bytes
      BY ONLY <2>3, <2>14 DEF Bit, Bytes
    <3>2. (v \div 1) % 2 = b0
      BY ONLY <2>3, <2>14 DEF Bit
    <3>3. (v \div 2) % 2 = b1
      BY ONLY <2>3, <2>14 DEF Bit
    <3>4. (v \div 4) % 2 = b2
      BY ONLY <2>3, <2>14 DEF Bit
    <3>5. (v \div 8) % 2 = b3
      BY ONLY <2>3, <2>14 DEF Bit
    <3>6. (v \div 16) % 2 = b4
      BY ONLY <2>3, <2>14 DEF Bit
    <3>7. (v \div 32) % 2 = b5
      BY ONLY <2>3, <2>14 DEF Bit
    <3>8. (v \div 64) % 2 = b6
      BY ONLY <2>3, <2>14 DEF Bit
    <3>9. (v \div 128) % 2 = b7
      BY ONLY <2>3, <2>14 DEF Bit
    <3>. QED
      BY <3>1, <3>2, <3>3, <3>4, <3>5, <3>6, <3>7, <3>8, <3>9
  <2>4. /\ v \in Bytes
        /\ (v \div 1) % 2 = At(8 * b - 7) /\ (v \div 2) % 2 = At(8 * b - 6)
        /\ (v \div 4) % 2 = At(8 * b - 5) /\ (v \div 8) % 2 = At(8 * b - 4)
        /\ (v \div 16) % 2 = At(8 * b - 3) /\ (v \div 32) % 2 = At(8 * b - 2)
        /\ (v \div 64) % 2 = At(8 * b - 1) /\ (v \div 128) % 2 = At(8 * b)
    BY <2>15 DEF b0, b1, b2, b3, b4, b5, b6, b7
  <2>5. CASE i = 0
    <3>1. 8 * (b - 1) + i + 1 = 8 * b - 7 /\ Two[i] = 1
      BY <1>1, <2>5, TwoIs
    <3>. QED
      BY <2>4, <3>1 DEF v
  <2>6. CASE i = 1
    <3>1. 8 * (b - 1) + i + 1 = 8 * b - 6 /\ Two[i] = 2
      BY <1>1, <2>6, TwoIs
    <3>. QED
      BY <2>4, <3>1 DEF v
  <2>7. CASE i = 2
    <3>1. 8 * (b - 1) + i + 1 = 8 * b - 5 /\ Two[i] = 4
      BY <1>1, <2>7, TwoIs
    <3>. QED
      BY <2>4, <3>1 DEF v
  <2>8. CASE i = 3
    <3>1. 8 * (b - 1) + i + 1 = 8 * b - 4 /\ Two[i] = 8
      BY <1>1, <2>8, TwoIs
    <3>. QED
      BY <2>4, <3>1 DEF v
  <2>9. CASE i = 4
    <3>1. 8 * (b - 1) + i + 1 = 8 * b - 3 /\ Two[i] = 16
      BY <1>1, <2>9, TwoIs
    <3>. QED
      BY <2>4, <3>1 DEF v
  <2>10. CASE i = 5
    <3>1. 8 * (b - 1) + i + 1 = 8 * b - 2 /\ Two[i] = 32
      BY <1>1, <2>10, TwoIs
    <3>. QED
      BY <2>4, <3>1 DEF v
  <2>11. CASE i = 6
    <3>1. 8 * (b - 1) + i + 1 = 8 * b - 1 /\ Two[i] = 64
      BY <1>1, <2>11, TwoIs
    <3>. QED
      BY <2>4, <3>1 DEF v
  <2>12. CASE i = 7
    <3>1. 8 * (b - 1) + i + 1 = 8 * b /\ Two[i] = 128
      BY <1>1, <2>12, TwoIs
    <3>. QED
      BY <2>4, <3>1 DEF v
  <2>. QED
    BY <2>5, <2>6, <2>7, <2>8, <2>9, <2>10, <2>11, <2>12
<1>5. pack \in Seq(Bytes) /\ Len(pack) = n
  <2>1. \A b \in 1 .. n : pack[b] \in Bytes
    <3>1. 0 \in 0 .. 7
      OBVIOUS
    <3>. QED
      BY <1>4, <3>1
  <2>2. pack \in [1 .. n -> Bytes]
    BY <1>3, <2>1
  <2>. QED
    BY <1>1, <2>2
<1>6. kept \in 0 .. n
  BY DEF n
<1>7. /\ src \in Seq(Bytes) /\ Len(src) = kept
      /\ \A b \in 1 .. kept : src[b] = pack[b]
  BY <1>1, <1>5, <1>6
<1>. HIDE DEF src
<1>8. ASSUME NEW k \in 1 .. Len(bits), 0 + k <= 8 * Len(src)
      PROVE  BitAt(src, 0 + k - 1) = bits[k]
  <2>. DEFINE j == k - 1
              q == j \div 8
              i == j % 8
  <2>1. j \in Nat /\ q \in Nat /\ i \in Nat /\ i < 8 /\ j = 8 * q + i
    <3>1. j \in Nat
      BY <1>1
    <3>. QED
      BY <3>1, Division
  <2>2. q + 1 \in 1 .. kept /\ q + 1 \in 1 .. n /\ i \in 0 .. 7
    <3>1. 8 * q + i + 1 <= 8 * kept
      BY <1>7, <1>8, <2>1
    <3>2. kept \in Nat /\ n \in Nat /\ kept <= n
      BY <1>1, <1>6
    <3>. QED
      BY <2>1, <3>1, <3>2
  <2>3. src[q + 1] = pack[q + 1]
    BY <1>7, <2>2
  <2>4. (pack[q + 1] \div Two[i]) % 2 = At(8 * ((q + 1) - 1) + i + 1)
    BY <1>4, <2>2
  <2>5. 8 * ((q + 1) - 1) + i + 1 = k
    BY <2>1
  <2>6. At(k) = bits[k]
    BY <1>1 DEF At
  <2>7. BitAt(src, j) = (src[q + 1] \div Two[i]) % 2
    BY DEF BitAt
  <2>8. 0 + k - 1 = j
    BY <1>1
  <2>. HIDE DEF j, q, i
  <2>. QED
    BY <2>3, <2>4, <2>5, <2>6, <2>7, <2>8
<1>9. HasBits(src, 0, bits)
  BY <1>8 DEF HasBits
<1>. QED
  BY <1>5, <1>7, <1>9 DEF src, pack, n

\* Place i of value k, counted from the first.
LEMMA Places ==
  ASSUME NEW n \in Nat \ {0}, NEW k \in Nat, NEW i \in 0 .. n - 1
  PROVE  (n * k + i) \div n = k /\ (n * k + i) % n = i /\ n * k + i \in Nat
<1>. DEFINE a == n * k + i
<1>1. n * k \in Nat
  BY Z3
<1>2. a \in Nat /\ i \in Nat /\ i < n
  BY <1>1
<1>3. a \div n \in Nat /\ a % n \in Nat /\ a % n < n /\ a = n * (a \div n) + (a % n)
  BY <1>2, Division
<1>4. n * k + i = n * (a \div n) + (a % n)
  BY <1>3
<1>. HIDE DEF a
<1>5. k = a \div n
  BY <1>2, <1>3, <1>4, Quotient
<1>6. n * (a \div n) = n * k
  BY <1>5
<1>7. i = a % n
  BY <1>1, <1>2, <1>3, <1>4, <1>6
<1>. QED
  BY <1>2, <1>5, <1>7 DEF a

\* Bytes are numbers.
LEMMA BytesAreNat ==
  ASSUME NEW s \in Seq(Bytes)
  PROVE  s \in Seq(Nat) /\ Len(s) \in Nat /\ \A k \in 1 .. Len(s) : s[k] \in Bytes
<1>1. Len(s) \in Nat /\ \A k \in 1 .. Len(s) : s[k] \in Bytes
  OBVIOUS
<1>2. s \in [1 .. Len(s) -> Nat]
  <2>1. DOMAIN s = 1 .. Len(s) /\ s = [k \in 1 .. Len(s) |-> s[k]]
    OBVIOUS
  <2>2. \A k \in 1 .. Len(s) : s[k] \in Nat
    <3>1. Bytes \subseteq Nat
      BY ONLY DEF Bytes
    <3>. QED
      BY ONLY <1>1, <3>1
  <2>. QED
    BY ONLY <2>1, <2>2
<1>. QED
  BY <1>1, <1>2

\* Values packed one after another, n bits each, and where the k-th is.
LEMMA EachSeq ==
  ASSUME NEW n \in 1 .. 16, NEW values \in Seq(Nat)
  PROVE  /\ Each(values, n) \in Seq(Bit) /\ Len(Each(values, n)) = n * Len(values)
         /\ \A k \in 1 .. Len(values), i \in 1 .. n :
              /\ n * (k - 1) + i \in 1 .. n * Len(values)
              /\ Each(values, n)[n * (k - 1) + i] = (values[k] \div Two[i - 1]) % 2
<1>. DEFINE m == Len(values)
            s == Each(values, n)
<1>0. m \in Nat /\ n \in Nat \ {0} /\ n * m \in Nat
  <2>1. m \in Nat /\ n \in Nat
    OBVIOUS
  <2>. HIDE DEF m
  <2>2. n * m \in Nat
    BY <2>1, Z3
  <2>. QED
    BY <2>1, <2>2
<1>1. s = [j \in 1 .. n * m |-> (values[(j - 1) \div n + 1] \div Two[(j - 1) % n]) % 2]
  BY DEF Each
<1>2. \A k \in 1 .. m : values[k] \in Nat
  OBVIOUS
<1>. HIDE DEF m, s
<1>3. ASSUME NEW j \in 1 .. n * m PROVE s[j] \in Bit
  <2>. DEFINE q == (j - 1) \div n
              i == (j - 1) % n
  <2>1. j - 1 \in Nat
    BY <1>0
  <2>2. q \in Nat /\ i \in Nat /\ i < n /\ j - 1 = n * q + i
    BY <1>0, <2>1, Division
  <2>. HIDE DEF q, i
  <2>3. q < m
    <3>1. SUFFICES ASSUME m <= q PROVE FALSE
      BY <1>0, <2>2
    <3>2. n * m <= n * q
      <4>1. q - m \in Nat
        BY <1>0, <2>2, <3>1
      <4>2. n * (q - m) \in Nat
        BY <1>0, <4>1, Z3
      <4>3. n * q = n * m + n * (q - m)
        BY <1>0, <2>2, Z3
      <4>. QED
        BY <1>0, <4>2, <4>3
    <3>3. n * q \in Nat
      BY <1>0, <2>2, Z3
    <3>. QED
      BY <1>0, <2>2, <3>2, <3>3
  <2>4. values[q + 1] \in Nat /\ i \in 0 .. 16
    BY <1>0, <1>2, <2>2, <2>3
  <2>5. s[j] = (values[q + 1] \div Two[i]) % 2
    BY <1>1 DEF q, i
  <2>. QED
    BY <2>4, <2>5, BitOf
<1>4. s \in [1 .. n * m -> Bit]
  BY <1>1, <1>3
<1>5. s \in Seq(Bit) /\ Len(s) = n * m
  BY <1>0, <1>4
<1>6. ASSUME NEW k \in 1 .. m, NEW i \in 1 .. n
      PROVE  /\ n * (k - 1) + i \in 1 .. n * m
             /\ s[n * (k - 1) + i] = (values[k] \div Two[i - 1]) % 2
  <2>1. k - 1 \in Nat /\ i - 1 \in 0 .. n - 1 /\ k - 1 < m
    BY <1>0
  <2>. DEFINE a == n * (k - 1)
  <2>2. (a + (i - 1)) \div n = k - 1 /\ (a + (i - 1)) % n = i - 1 /\ a \in Nat
    <3>1. a \in Nat
      BY <1>0, <2>1, Z3
    <3>. QED
      BY <1>0, <2>1, <3>1, Places
  <2>3. a + n <= n * m
    BY <1>0, <2>1, Monotone
  <2>. HIDE DEF a
  <2>4. a + i \in 1 .. n * m /\ (a + i) - 1 = a + (i - 1)
    BY <1>0, <2>1, <2>2, <2>3
  <2>5. s[a + i] = (values[((a + i) - 1) \div n + 1] \div Two[((a + i) - 1) % n]) % 2
    BY <1>1, <2>4
  <2>6. (k - 1) + 1 = k
    OBVIOUS
  <2>7. s[a + i] = (values[k] \div Two[i - 1]) % 2
    BY ONLY <2>2, <2>4, <2>5, <2>6
  <2>. QED
    BY <2>4, <2>7 DEF a
<1>. QED
  BY <1>5, <1>6 DEF m, s

LEMMA EachHas ==
  ASSUME NEW src, NEW pos \in Nat, NEW n \in 1 .. 16, NEW values \in Seq(Nat),
         HasBits(src, pos, Each(values, n)), NEW k \in 1 .. Len(values)
  PROVE  HasBits(src, pos + n * (k - 1), Low(values[k], n))
<1>. DEFINE s == Each(values, n)
            v == values[k]
            a == n * (k - 1)
<1>1. v \in Nat /\ a \in Nat
  <2>1. k - 1 \in Nat /\ n \in Nat
    OBVIOUS
  <2>2. a \in Nat
    BY ONLY <2>1, Z3
  <2>. QED
    BY <2>2
<1>2. /\ Len(s) = n * Len(values)
      /\ \A i \in 1 .. n : a + i \in 1 .. n * Len(values) /\ s[a + i] = (v \div Two[i - 1]) % 2
  BY EachSeq
<1>. HIDE DEF s, v, a
<1>3. Len(Low(v, n)) = n /\ \A i \in 1 .. n : Low(v, n)[i] = (v \div Two[i - 1]) % 2
  <2>1. n \in 0 .. 16
    OBVIOUS
  <2>. QED
    BY ONLY <1>1, <2>1, LowSeq
<1>4. ASSUME NEW i \in 1 .. Len(Low(v, n)), (pos + a) + i <= 8 * Len(src)
      PROVE  BitAt(src, (pos + a) + i - 1) = Low(v, n)[i]
  <2>1. i \in 1 .. n
    BY <1>3
  <2>2. pos + (a + i) = (pos + a) + i /\ pos + (a + i) - 1 = (pos + a) + i - 1
    BY <1>1, <2>1
  <2>3. a + i \in 1 .. Len(s)
    BY <1>2, <2>1
  <2>4. BitAt(src, pos + (a + i) - 1) = s[a + i]
    BY <1>4, <2>2, <2>3 DEF HasBits, s
  <2>. QED
    BY <1>2, <1>3, <2>1, <2>2, <2>4
<1>5. HasBits(src, pos + a, Low(v, n))
  BY <1>4 DEF HasBits
<1>. QED
  BY <1>5 DEF a, v

\* A byte is the number its eight bits make.
LEMMA ByteAt ==
  ASSUME NEW src \in Seq(Bytes), NEW j \in 0 .. Len(src) - 1
  PROVE  BrBits(src, 8 * j, 8) = src[j + 1]
<1>. DEFINE v == src[j + 1]
<1>1. v \in Bytes /\ Len(src) \in Nat /\ j \in Nat /\ j < Len(src)
  OBVIOUS
<1>. HIDE DEF v
<1>2. v \in Nat /\ v \in 0 .. Two[8] - 1
  BY <1>1, TwoIs DEF Bytes
<1>3. Len(Low(v, 8)) = 8 /\ \A i \in 1 .. 8 : Low(v, 8)[i] = (v \div Two[i - 1]) % 2
  <2>1. 8 \in 0 .. 16
    OBVIOUS
  <2>. QED
    BY ONLY <1>2, <2>1, LowSeq
<1>4. ASSUME NEW i \in 1 .. 8 PROVE BitAt(src, 8 * j + i - 1) = Low(v, 8)[i]
  <2>1. (8 * j + (i - 1)) \div 8 = j /\ (8 * j + (i - 1)) % 8 = i - 1
    BY <1>1, Places
  <2>2. 8 * j + i - 1 = 8 * j + (i - 1)
    BY <1>1
  <2>. QED
    BY <1>3, <2>1, <2>2 DEF BitAt, v
<1>5. HasBits(src, 8 * j, Low(v, 8))
  BY <1>3, <1>4 DEF HasBits
<1>6. 8 * j \in Nat /\ 8 * j + 8 <= 8 * Len(src)
  BY <1>1
<1>. QED
  BY <1>1, <1>2, <1>5, <1>6, BrRight DEF v

\* Bytes written at a byte of the source are its bytes.
LEMMA BytesAt ==
  ASSUME NEW src \in Seq(Bytes), NEW at \in Nat, NEW values \in Seq(Bytes),
         HasBits(src, 8 * at, Each(values, 8)), NEW k \in 1 .. Len(values), at + k <= Len(src)
  PROVE  src[at + k] = values[k]
<1>. DEFINE j == at + (k - 1)
            v == values[k]
<1>0. values \in Seq(Nat) /\ v \in Bytes /\ Len(src) \in Nat
  BY BytesAreNat
<1>1. HasBits(src, 8 * at + 8 * (k - 1), Low(v, 8))
  <2>1. 8 * at \in Nat /\ 8 \in 1 .. 16
    OBVIOUS
  <2>. QED
    BY ONLY <1>0, <2>1, EachHas, HasBits(src, 8 * at, Each(values, 8)), k \in 1 .. Len(values)
<1>2. 8 * at + 8 * (k - 1) = 8 * j /\ j \in 0 .. Len(src) - 1 /\ j + 1 = at + k
  BY <1>0
<1>. HIDE DEF j, v
<1>3. v \in 0 .. Two[8] - 1
  BY <1>0, TwoIs DEF Bytes
<1>4. 8 * j \in Nat /\ 8 * j + 8 <= 8 * Len(src)
  BY <1>0, <1>2
<1>5. BrBits(src, 8 * j, 8) = v
  <2>1. 8 \in 0 .. 16 /\ HasBits(src, 8 * j, Low(v, 8))
    BY <1>1, <1>2
  <2>. QED
    BY ONLY <1>0, <1>3, <1>4, <2>1, BrRight
<1>6. BrBits(src, 8 * j, 8) = src[j + 1]
  BY <1>2, ByteAt
<1>. QED
  BY <1>2, <1>5, <1>6 DEF v

-----------------------------------------------------------------------------
(* Huffman codes: what huff_build and huff_dec make of code lengths.        *)

CodeLens == Seq(0 .. MaxBits)

\* How many codes there are of a length; the first code of each length.
LEMMA CountType ==
  ASSUME NEW lens \in CodeLens, NEW l \in Nat
  PROVE  /\ IsFiniteSet(OfLength(lens, l)) /\ Count(lens, l) \in Nat
         /\ OfLength(lens, l) \subseteq 0 .. Len(lens) - 1
<1>1. Len(lens) \in Nat
  BY DEF CodeLens
<1>2. OfLength(lens, l) \subseteq 0 .. Len(lens) - 1
  BY DEF OfLength
<1>3. IsFiniteSet(0 .. Len(lens) - 1)
  BY <1>1, FS_Interval
<1>4. IsFiniteSet(OfLength(lens, l))
  BY <1>2, <1>3, FS_Subset
<1>. QED
  BY <1>2, <1>4, FS_CardinalityType DEF Count

LEMMA FirstCodesType ==
  ASSUME NEW counts \in [1 .. MaxBits -> Nat]
  PROVE  LET first == FirstCodes(counts)
         IN /\ first[0] = 0 /\ \A l \in 0 .. MaxBits : first[l] \in Nat
            /\ \A l \in 1 .. MaxBits : first[l] = 2 * (first[l - 1] + counts[l])
<1>. DEFINE first == FirstCodes(counts)
            T == {l \in 0 .. MaxBits : first[l] \in Nat}
<1>1. first = [k \in 0 .. MaxBits |-> IF k = 0 THEN 0 ELSE 2 * (first[k - 1] + counts[k])]
  BY FirstCodesIs
<1>. HIDE DEF first
<1>2. MaxBits \in Nat
  BY DEF MaxBits
<1>3. first[0] = 0 /\ \A l \in 1 .. MaxBits : first[l] = 2 * (first[l - 1] + counts[l])
  BY <1>1, <1>2
<1>4. 0 \in T
  BY <1>2, <1>3
<1>5. ASSUME NEW l \in 1 .. MaxBits, l - 1 \in T PROVE l \in T
  <2>1. first[l - 1] \in Nat /\ counts[l] \in Nat
    BY <1>5
  <2>2. first[l] \in Nat
    BY <1>3, <2>1
  <2>. QED
    BY <1>2, <2>2
<1>6. \A l \in 0 .. MaxBits : l \in T
  <2>. HIDE DEF T
  <2>. QED
    BY ONLY <1>2, <1>4, <1>5, UpTo
<1>. QED
  BY <1>3, <1>6 DEF first

\* What huff_build makes of code lengths: their counts, and at the rank of
\* a symbol among those of its length the symbol.
LEMMA BuildIs ==
  ASSUME NEW lens \in CodeLens
  PROVE  LET counts == HuffBuild(lens).counts
         IN /\ counts \in [1 .. MaxBits -> Nat]
            /\ \A l \in 1 .. MaxBits : counts[l] = Count(lens, l)
<1>1. HuffBuild(lens).counts = [l \in 1 .. MaxBits |-> Count(lens, l)]
  BY DEF HuffBuild
<1>2. \A l \in 1 .. MaxBits : Count(lens, l) \in Nat
  BY CountType DEF MaxBits
<1>. QED
  BY <1>1, <1>2

\* The first code of each length is the one an encoder computes.
LEMMA FirstIsStart ==
  ASSUME NEW lens \in CodeLens, NEW l \in 1 .. MaxBits
  PROVE  CodeStart(lens, l) = FirstCodes(HuffBuild(lens).counts)[l - 1]
<1>. DEFINE counts == HuffBuild(lens).counts
            first == FirstCodes(counts)
            below == CodesBelow(lens, l)
            T == {k \in 0 .. l - 1 : below[k] = first[k] * Two[(l - 1) - k]}
<1>1. counts \in [1 .. MaxBits -> Nat] /\ \A k \in 1 .. MaxBits : counts[k] = Count(lens, k)
  BY BuildIs
<1>. HIDE DEF counts
<1>2. /\ first[0] = 0 /\ \A k \in 0 .. MaxBits : first[k] \in Nat
      /\ \A k \in 1 .. MaxBits : first[k] = 2 * (first[k - 1] + counts[k])
  BY <1>1, FirstCodesType
<1>. HIDE DEF first
<1>3. l \in Nat \ {0} /\ l - 1 \in Nat /\ l <= 15
  BY DEF MaxBits
<1>4. below = [k \in 0 .. l - 1 |-> IF k = 0 THEN 0 ELSE below[k - 1] + Count(lens, k) * Two[l - k]]
  BY ONLY <1>3, CodesBelowIs
<1>. HIDE DEF below
<1>5. 0 \in T
  <2>1. Two[(l - 1) - 0] \in Nat
    BY <1>3, TwoType
  <2>2. below[0] = 0 /\ first[0] * Two[(l - 1) - 0] = 0
    BY <1>2, <1>3, <1>4, <2>1
  <2>. QED
    BY <1>3, <2>2
<1>6. ASSUME NEW k \in 1 .. l - 1, k - 1 \in T PROVE k \in T
  <2>. DEFINE f == first[k - 1]
              c == counts[k]
              d == Two[(l - 1) - k]
  <2>1. k \in 1 .. MaxBits /\ k - 1 \in 0 .. MaxBits /\ k \in Nat
    BY <1>3 DEF MaxBits
  <2>2. f \in Nat /\ c \in Nat /\ first[k] = 2 * (f + c) /\ Count(lens, k) = c
    BY <1>1, <1>2, <2>1
  <2>3. d \in Nat /\ Two[l - k] = 2 * d
    <3>1. (l - 1) - k \in 0 .. 16 /\ l - k \in 1 .. 16 /\ (l - k) - 1 = (l - 1) - k
      BY <1>3
    <3>2. Two[l - k] = 2 * Two[(l - k) - 1]
      BY <3>1, TwoNext
    <3>. QED
      BY <3>1, <3>2, TwoType
  <2>4. below[k - 1] = f * (2 * d)
    <3>1. (l - 1) - (k - 1) = l - k
      BY <1>3, <2>1
    <3>2. below[k - 1] = f * Two[(l - 1) - (k - 1)]
      BY <1>6
    <3>. QED
      BY <2>3, <3>1, <3>2
  <2>5. below[k] = below[k - 1] + c * (2 * d)
    BY <1>4, <2>2, <2>3
  <2>. HIDE DEF f, c, d
  <2>6. f * (2 * d) + c * (2 * d) = (2 * (f + c)) * d
    BY ONLY <2>2, <2>3, Z3
  <2>7. below[k] = first[k] * d
    BY <2>2, <2>4, <2>5, <2>6
  <2>. QED
    BY <1>3, <2>7 DEF d
<1>7. l - 1 \in T
  <2>. HIDE DEF T
  <2>1. \A k \in 0 .. l - 1 : k \in T
    BY ONLY <1>3, <1>5, <1>6, UpTo
  <2>. QED
    BY <1>3, <2>1
<1>8. below[l - 1] = first[l - 1] * Two[(l - 1) - (l - 1)]
  BY <1>7
<1>9. (l - 1) - (l - 1) = 0 /\ l - 1 \in 0 .. MaxBits
  BY <1>3 DEF MaxBits
<1>10. below[l - 1] = first[l - 1]
  BY <1>2, <1>8, <1>9, TwoIs
<1>. QED
  BY <1>10 DEF below, first, counts, CodeStart

\* The codes of longer lengths begin where those of a shorter one end.
LEMMA FirstLeads ==
  ASSUME NEW counts \in [1 .. MaxBits -> Nat],
         NEW k \in 1 .. MaxBits, NEW l \in 1 .. MaxBits, k < l
  PROVE  Two[l - k] * (FirstCodes(counts)[k - 1] + counts[k]) <= FirstCodes(counts)[l - 1]
<1>. DEFINE first == FirstCodes(counts)
            x == first[k - 1] + counts[k]
            N == (l - k) - 1
            T == {j \in 0 .. N : Two[j + 1] * x <= first[k + j]}
<1>1. /\ first[0] = 0 /\ \A j \in 0 .. MaxBits : first[j] \in Nat
      /\ \A j \in 1 .. MaxBits : first[j] = 2 * (first[j - 1] + counts[j])
  BY FirstCodesType
<1>. HIDE DEF first
<1>2. k \in Nat /\ l \in Nat /\ N \in Nat /\ k + N + 1 = l /\ l <= 15 /\ k > 0
  BY DEF MaxBits
<1>3. x \in Nat /\ first[k] = 2 * x
  <2>1. k - 1 \in 0 .. MaxBits
    BY DEF MaxBits
  <2>. QED
    BY <1>1, <2>1
<1>. HIDE DEF x, N
<1>4. 0 \in T
  <2>1. Two[0 + 1] = 2 /\ k + 0 = k
    BY <1>2, TwoIs
  <2>2. Two[0 + 1] * x <= first[k + 0]
    BY <1>3, <2>1
  <2>. QED
    BY <1>2, <2>2
<1>5. ASSUME NEW j \in 1 .. N, j - 1 \in T PROVE j \in T
  <2>. DEFINE d == Two[j]
  <2>1. j \in 1 .. 15 /\ (j - 1) + 1 = j /\ k + (j - 1) = (k + j) - 1 /\ k + j \in 1 .. MaxBits
        /\ (k + j) - 1 \in 0 .. MaxBits
    BY <1>2 DEF MaxBits
  <2>2. d * x <= first[(k + j) - 1]
    BY <1>5, <2>1
  <2>3. d \in Nat /\ Two[j + 1] = 2 * d
    <3>1. j + 1 \in 1 .. 16 /\ (j + 1) - 1 = j /\ j \in 0 .. 16
      BY <2>1
    <3>2. Two[j + 1] = 2 * Two[(j + 1) - 1]
      BY <3>1, TwoNext
    <3>. QED
      BY <3>1, <3>2, TwoType
  <2>4. first[k + j] = 2 * (first[(k + j) - 1] + counts[k + j]) /\ counts[k + j] \in Nat
        /\ first[(k + j) - 1] \in Nat
    BY <1>1, <2>1
  <2>. HIDE DEF d
  <2>5. (2 * d) * x = 2 * (d * x) /\ d * x \in Nat
    BY ONLY <1>3, <2>3, Z3
  <2>6. Two[j + 1] * x <= first[k + j]
    BY <2>2, <2>3, <2>4, <2>5
  <2>. QED
    BY <2>6
<1>6. N \in T
  <2>. HIDE DEF T
  <2>1. \A j \in 0 .. N : j \in T
    BY ONLY <1>2, <1>4, <1>5, UpTo
  <2>. QED
    BY <1>2, <2>1
<1>7. N + 1 = l - k /\ k + N = l - 1
  BY <1>2
<1>8. Two[l - k] * x <= first[l - 1]
  BY <1>6, <1>7
<1>. QED
  BY <1>8 DEF x, first

\* The symbol with a rank among those with codes as long as its own.
Rank(lens, s) == Cardinality({t \in 0 .. s - 1 : lens[t + 1] = lens[s + 1]})

LEMMA SymbolAt ==
  ASSUME NEW lens \in CodeLens, NEW s, HasCode(lens, s)
  PROVE  LET l == lens[s + 1]
         IN /\ l \in 1 .. MaxBits /\ Rank(lens, s) \in Nat /\ Rank(lens, s) < Count(lens, l)
            /\ HuffBuild(lens).symbols[l][Rank(lens, s)] = s
<1>. DEFINE l == lens[s + 1]
            S == OfLength(lens, l)
            Less(t) == {u \in S : u < t}
            k == Rank(lens, s)
<1>1. s \in 0 .. Len(lens) - 1 /\ Len(lens) \in Nat /\ l \in 1 .. MaxBits
  <2>1. s \in 0 .. Len(lens) - 1 /\ Len(lens) \in Nat /\ l > 0
    BY DEF HasCode, CodeLens
  <2>2. s + 1 \in 1 .. Len(lens)
    BY <2>1
  <2>3. l \in 0 .. MaxBits
    <3>1. lens \in Seq(0 .. MaxBits)
      BY DEF CodeLens
    <3>. QED
      BY ONLY <2>2, <3>1, ElementOfSeq
  <2>. QED
    BY <2>1, <2>3 DEF MaxBits
<1>2. IsFiniteSet(S) /\ S \subseteq 0 .. Len(lens) - 1 /\ Count(lens, l) = Cardinality(S)
  <2>1. l \in Nat
    BY <1>1
  <2>. QED
    BY <2>1, CountType DEF Count
<1>3. s \in S
  BY <1>1 DEF OfLength
<1>4. Less(s) = {t \in 0 .. s - 1 : lens[t + 1] = lens[s + 1]}
  BY <1>1 DEF OfLength
<1>. HIDE DEF l, S
<1>5. k = Cardinality(Less(s))
  BY <1>4 DEF Rank, l
<1>6. \A t \in S : IsFiniteSet(Less(t)) /\ Cardinality(Less(t)) \in Nat
  <2>1. \A t \in S : Less(t) \subseteq S
    OBVIOUS
  <2>2. \A t \in S : IsFiniteSet(Less(t))
    BY <1>2, <2>1, FS_Subset
  <2>. QED
    BY <2>2, FS_CardinalityType
<1>7. \A t \in S, u \in S : t < u => Cardinality(Less(t)) < Cardinality(Less(u))
  <2>1. SUFFICES ASSUME NEW t \in S, NEW u \in S, t < u
                 PROVE  Cardinality(Less(t)) < Cardinality(Less(u))
    OBVIOUS
  <2>2. t \in Int /\ u \in Int /\ \A v \in S : v \in Int
    BY <1>2
  <2>3. Less(t) \subseteq Less(u) /\ t \in Less(u) /\ t \notin Less(t)
    <3>1. ASSUME NEW v \in Less(t) PROVE v \in Less(u)
      BY <2>1, <2>2
    <3>2. ~(t < t)
      BY ONLY <2>2
    <3>. QED
      BY ONLY <2>1, <3>1, <3>2
  <2>4. Less(t) # Less(u)
    BY <2>3
  <2>5. Cardinality(Less(t)) <= Cardinality(Less(u)) /\ Cardinality(Less(t)) # Cardinality(Less(u))
    <3>1. IsFiniteSet(Less(u))
      BY <1>6
    <3>. HIDE DEF Less
    <3>. QED
      BY <2>3, <2>4, <3>1, FS_Subset
  <2>. QED
    BY <1>6, <2>5
<1>8. k \in Nat /\ k < Cardinality(S)
  <2>1. Less(s) \subseteq S /\ s \notin Less(s) /\ s \in S
    <3>1. s \in Int
      BY <1>1
    <3>. QED
      BY <1>3, <3>1
  <2>2. Less(s) # S
    BY <2>1
  <2>. HIDE DEF Less
  <2>3. Cardinality(Less(s)) <= Cardinality(S) /\ Cardinality(Less(s)) # Cardinality(S)
    BY <1>2, <2>1, <2>2, FS_Subset
  <2>4. Cardinality(S) \in Nat
    BY <1>2, FS_CardinalityType
  <2>. QED
    BY <1>3, <1>5, <1>6, <2>3, <2>4
<1>9. HuffBuild(lens).symbols[l][k] = CHOOSE t \in S : Cardinality(Less(t)) = k
  <2>1. HuffBuild(lens).symbols = [m \in 1 .. MaxBits |-> [j \in 0 .. Count(lens, m) - 1 |->
                  CHOOSE t \in OfLength(lens, m) :
                    Cardinality({u \in OfLength(lens, m) : u < t}) = j]]
    BY DEF HuffBuild
  <2>2. l \in 1 .. MaxBits /\ k \in 0 .. Count(lens, l) - 1
    <3>1. Count(lens, l) \in Nat
      BY <1>2, FS_CardinalityType
    <3>. QED
      BY <1>1, <1>2, <1>8, <3>1
  <2>. DEFINE At(m) == [j \in 0 .. Count(lens, m) - 1 |->
                         CHOOSE t \in OfLength(lens, m) :
                           Cardinality({u \in OfLength(lens, m) : u < t}) = j]
  <2>4. HuffBuild(lens).symbols = [m \in 1 .. MaxBits |-> At(m)]
    BY ONLY <2>1
  <2>. HIDE DEF k
  <2>5. At(l)[k] = CHOOSE t \in OfLength(lens, l) :
                    Cardinality({u \in OfLength(lens, l) : u < t}) = k
    BY ONLY <2>2
  <2>6. HuffBuild(lens).symbols[l] = At(l)
    <3>. HIDE DEF At
    <3>. QED
      BY ONLY <2>2, <2>4
  <2>3. HuffBuild(lens).symbols[l][k] = CHOOSE t \in OfLength(lens, l) :
                    Cardinality({u \in OfLength(lens, l) : u < t}) = k
    BY ONLY <2>5, <2>6
  <2>. QED
    BY <2>3 DEF S
<1>. HIDE DEF k
<1>10. \A t \in S : Cardinality(Less(t)) = k => t = s
  <2>1. SUFFICES ASSUME NEW t \in S, Cardinality(Less(t)) = k, t # s PROVE FALSE
    OBVIOUS
  <2>2. t \in Int /\ s \in Int
    BY <1>1, <1>2
  <2>3. t < s \/ s < t
    BY <2>1, <2>2
  <2>. HIDE DEF Less
  <2>4. Cardinality(Less(t)) \in Nat /\ Cardinality(Less(s)) \in Nat
    BY <1>3, <1>6
  <2>. QED
    BY <1>3, <1>5, <1>7, <2>1, <2>3, <2>4
<1>11. (CHOOSE t \in S : Cardinality(Less(t)) = k) = s
  <2>. HIDE DEF Less
  <2>. QED
    BY <1>3, <1>5, <1>10
<1>. QED
  BY <1>1, <1>2, <1>8, <1>9, <1>11 DEF k, l

\* The bits of a code, read one after another.
LEMMA CodeReadIsCode ==
  ASSUME NEW src, Len(src) \in Nat, NEW pos \in Nat, NEW n \in 1 .. MaxBits,
         NEW v \in 0 .. Two[n] - 1, HasBits(src, pos, High(v, n)), NEW k \in 0 .. n
  PROVE  CodeRead(src, pos)[k] =
           IF k # 0 /\ pos + k > 8 * Len(src) THEN -1 ELSE v \div Two[n - k]
<1>. DEFINE code == CodeRead(src, pos)
            Right(j) == code[j] = IF j # 0 /\ pos + j > 8 * Len(src) THEN -1 ELSE v \div Two[n - j]
            T == {j \in 0 .. n : Right(j)}
<1>1. code = [j \in 0 .. MaxBits |-> IF j = 0 THEN 0 ELSE
                IF pos + j > 8 * Len(src) THEN -1 ELSE 2 * code[j - 1] + BitAt(src, pos + j - 1)]
  BY ONLY CodeReadIs
<1>. HIDE DEF code
<1>2. n \in Nat /\ n <= 15 /\ MaxBits \in Nat /\ n <= MaxBits /\ Two[n] \in Nat /\ Two[n] > 0
      /\ v \in Nat /\ v < Two[n]
  <2>1. n \in 0 .. 16 /\ n <= 15 /\ n \in Nat
    BY DEF MaxBits
  <2>2. Two[n] \in Nat /\ Two[n] > 0
    BY <2>1, TwoType
  <2>. QED
    BY <2>1, <2>2 DEF MaxBits
<1>3. Len(High(v, n)) = n /\ \A i \in 1 .. n : High(v, n)[i] = (v \div Two[n - i]) % 2
  <2>1. n \in 0 .. 16
    BY <1>2
  <2>. QED
    BY ONLY <1>2, <2>1, HighSeq
<1>4. 0 \in T
  <2>. DEFINE d == Two[n]
  <2>1. code[0] = 0 /\ n - 0 = n
    BY <1>1, <1>2
  <2>2. v \div d = 0
    <3>1. d \in Nat /\ v \in Nat /\ v < d
      BY <1>2
    <3>. HIDE DEF d
    <3>. QED
      BY <3>1, Z3
  <2>3. Right(0)
    BY <2>1, <2>2
  <2>. QED
    BY <1>2, <2>3
<1>5. ASSUME NEW j \in 1 .. n, j - 1 \in T PROVE j \in T
  <2>1. j \in Nat /\ j # 0 /\ j - 1 \in Nat /\ j \in 1 .. MaxBits /\ n - j \in 0 .. 15
        /\ (n - j) + 1 = n - (j - 1)
    BY <1>2
  <2>2. CASE pos + j > 8 * Len(src)
    <3>1. code[j] = -1
      BY <1>1, <2>1, <2>2
    <3>. QED
      BY <2>1, <2>2, <3>1
  <2>3. CASE ~(pos + j > 8 * Len(src))
    <3>. DEFINE q == v \div Two[n - j]
    <3>1. q \in Nat /\ q \div 2 = v \div Two[n - (j - 1)]
      <4>1. Two[n - j] \in Nat /\ Two[n - j] > 0
        <5>1. n - j \in 0 .. 16
          BY <2>1
        <5>. QED
          BY ONLY <5>1, TwoType
      <4>2. q \in Nat
        BY <1>2, <4>1, Division
      <4>3. q \div 2 = v \div Two[(n - j) + 1]
        BY ONLY <1>2, <2>1, DivTwo
      <4>. QED
        BY <2>1, <4>2, <4>3
    <3>2. code[j - 1] = q \div 2
      <4>1. ~(pos + (j - 1) > 8 * Len(src))
        BY <2>1, <2>3
      <4>. QED
        BY <1>5, <3>1, <4>1
    <3>3. BitAt(src, pos + j - 1) = q % 2
      <4>1. pos + j <= 8 * Len(src)
        BY <2>1, <2>3
      <4>. QED
        BY <1>3, <4>1 DEF HasBits
    <3>4. code[j] = 2 * code[j - 1] + BitAt(src, pos + j - 1)
      <4>1. j \in 0 .. MaxBits
        BY <2>1
      <4>2. code[j] = IF j = 0 THEN 0 ELSE
                IF pos + j > 8 * Len(src) THEN -1 ELSE 2 * code[j - 1] + BitAt(src, pos + j - 1)
        BY ONLY <1>1, <4>1
      <4>. QED
        BY ONLY <2>1, <2>3, <4>2
    <3>5. q = 2 * (q \div 2) + (q % 2)
      BY <3>1, Division
    <3>6. code[j] = q
      BY <3>2, <3>3, <3>4, <3>5
    <3>. QED
      BY <2>1, <2>3, <3>6
  <2>. QED
    BY <2>2, <2>3
<1>6. k \in T
  <2>. HIDE DEF T
  <2>1. \A j \in 0 .. n : j \in T
    BY ONLY <1>2, <1>4, <1>5, UpTo
  <2>. QED
    BY <2>1
<1>. QED
  BY <1>6 DEF code

\* A quotient is at least what its divisor times does not exceed.
LEMMA AtLeast ==
  ASSUME NEW d \in Nat, d > 0, NEW e \in Nat, NEW c \in Nat, d * e <= c
  PROVE  e <= c \div d
<1>. DEFINE q == c \div d
            r == c % d
<1>1. q \in Nat /\ r \in Nat /\ r < d /\ c = d * q + r
  BY Division
<1>. HIDE DEF q, r
<1>2. SUFFICES ASSUME q < e PROVE FALSE
  BY <1>1
<1>3. d * q + d <= d * e
  BY <1>1, <1>2, Monotone
<1>4. d * q \in Nat /\ d * e \in Nat
  BY <1>1
<1>. QED
  BY <1>1, <1>3, <1>4

\* The code of a symbol: it fits in its length.
LEMMA CodeFits ==
  ASSUME NEW lens, IsCode(lens), NEW s, HasCode(lens, s)
  PROVE  LET l == lens[s + 1]
             h == HuffBuild(lens)
         IN /\ lens \in CodeLens /\ l \in 1 .. MaxBits
            /\ CodeOf(lens, s) = FirstCodes(h.counts)[l - 1] + Rank(lens, s)
            /\ CodeOf(lens, s) \in 0 .. Two[l] - 1
            /\ CodeBits(lens, s) \in Seq(Bit) /\ Len(CodeBits(lens, s)) = l
<1>. DEFINE l == lens[s + 1]
            first == FirstCodes(HuffBuild(lens).counts)
            c == CodeOf(lens, s)
<1>1. lens \in CodeLens
  BY DEF IsCode, CodeLens
<1>2. l \in 1 .. MaxBits /\ Rank(lens, s) \in Nat /\ Rank(lens, s) < Count(lens, l)
  BY <1>1, SymbolAt
<1>3. CodeStart(lens, l) = first[l - 1]
  BY <1>1, <1>2, FirstIsStart
<1>4. c = first[l - 1] + Rank(lens, s)
  BY <1>3 DEF CodeOf, Rank
<1>5. first[l - 1] \in Nat
  <2>1. HuffBuild(lens).counts \in [1 .. MaxBits -> Nat]
    BY <1>1, BuildIs
  <2>2. l - 1 \in 0 .. MaxBits
    BY <1>2 DEF MaxBits
  <2>3. \A k \in 0 .. MaxBits : first[k] \in Nat
    BY ONLY <2>1, FirstCodesType
  <2>. QED
    BY ONLY <2>2, <2>3
<1>6. l \in 0 .. 16 /\ Two[l] \in Nat
  <2>1. l \in 0 .. 16
    BY <1>2 DEF MaxBits
  <2>. QED
    BY <2>1, TwoType
<1>7. c \in 0 .. Two[l] - 1
  <2>1. first[l - 1] + Count(lens, l) <= Two[l]
    BY <1>2, <1>3 DEF IsCode
  <2>2. Count(lens, l) \in Nat
    BY <1>1, <1>2, CountType
  <2>. HIDE DEF l, first, c
  <2>. QED
    BY <1>2, <1>4, <1>5, <1>6, <2>1, <2>2
<1>8. CodeBits(lens, s) \in Seq(Bit) /\ Len(CodeBits(lens, s)) = l
  <2>1. c \in Nat
    BY <1>6, <1>7
  <2>2. High(c, l) \in Seq(Bit) /\ Len(High(c, l)) = l
    BY ONLY <1>6, <2>1, HighSeq
  <2>. QED
    BY <2>2 DEF CodeBits
<1>. QED
  BY <1>1, <1>2, <1>4, <1>7, <1>8

\* The lengths shorter than a symbol's own have no code there.
LEMMA ShorterPassed ==
  ASSUME NEW lens, IsCode(lens), NEW s, HasCode(lens, s),
         NEW k \in 1 .. MaxBits, k < lens[s + 1]
  PROVE  LET h == HuffBuild(lens)
         IN CodeOf(lens, s) \div Two[lens[s + 1] - k] - h.counts[k] >= FirstCodes(h.counts)[k - 1]
<1>. DEFINE l == lens[s + 1]
            counts == HuffBuild(lens).counts
            first == FirstCodes(counts)
            c == CodeOf(lens, s)
            d == Two[l - k]
            e == first[k - 1] + counts[k]
<1>1. lens \in CodeLens /\ l \in 1 .. MaxBits /\ c = first[l - 1] + Rank(lens, s)
  BY CodeFits
<1>2. Rank(lens, s) \in Nat
  BY <1>1, SymbolAt
<1>3. counts \in [1 .. MaxBits -> Nat]
  BY <1>1, BuildIs
<1>4. \A j \in 0 .. MaxBits : first[j] \in Nat
  BY ONLY <1>3, FirstCodesType
<1>5. d * e <= first[l - 1]
  BY ONLY <1>1, <1>3, k \in 1 .. MaxBits, k < lens[s + 1], FirstLeads
<1>6. l - 1 \in 0 .. MaxBits /\ k - 1 \in 0 .. MaxBits /\ l - k \in 0 .. 16
  BY <1>1 DEF MaxBits
<1>7. d \in Nat /\ d > 0
  BY ONLY <1>6, TwoType
<1>8. first[l - 1] \in Nat /\ first[k - 1] \in Nat /\ counts[k] \in Nat
  BY <1>3, <1>4, <1>6
<1>9. e \in Nat
  BY <1>8
<1>10. c \in Nat /\ d * e <= c
  <2>1. d * e \in Nat
    BY <1>7, <1>9
  <2>. HIDE DEF c, d, e, first, l
  <2>. QED
    BY <1>1, <1>2, <1>5, <1>8, <2>1
<1>. HIDE DEF c, d, e
<1>11. e <= c \div d
  BY ONLY <1>7, <1>9, <1>10, AtLeast
<1>12. c \div d \in Nat
  BY <1>7, <1>10, Division
<1>13. (c \div d) - counts[k] >= first[k - 1]
  <2>1. e = first[k - 1] + counts[k]
    BY DEF e
  <2>. HIDE DEF first, counts
  <2>. QED
    BY <1>8, <1>11, <1>12, <2>1
<1>. QED
  BY <1>13 DEF c, d

\* The symbol an encoder wrote is the one decoded, when its bits are there;
\* and none is when some are missing.
LEMMA Decode ==
  ASSUME NEW lens, IsCode(lens), NEW s, HasCode(lens, s),
         NEW src, Len(src) \in Nat, NEW pos \in Nat, HasBits(src, pos, CodeBits(lens, s))
  PROVE  LET dec == HuffDec(HuffBuild(lens), src, pos)
         IN IF pos + lens[s + 1] <= 8 * Len(src)
            THEN dec = [sym |-> s, pos |-> pos + lens[s + 1]] ELSE dec.sym = -1
<1>. DEFINE l == lens[s + 1]
            h == HuffBuild(lens)
            code == CodeRead(src, pos)
            first == FirstCodes(h.counts)
            ends == {j \in 1 .. MaxBits : code[j] - h.counts[j] < first[j - 1]}
            len == CHOOSE j \in ends : \A m \in ends : j <= m
            k == code[len] - first[len - 1]
            c == CodeOf(lens, s)
            dec == HuffDec(h, src, pos)
<1>1. dec = IF ends = {} THEN [sym |-> -1, pos |-> pos]
            ELSE [sym |-> IF k < 0 THEN -1 ELSE h.symbols[len][k], pos |-> pos + len]
  BY DEF HuffDec
<1>2. /\ lens \in CodeLens /\ l \in 1 .. MaxBits /\ c = first[l - 1] + Rank(lens, s)
      /\ c \in 0 .. Two[l] - 1
  BY CodeFits
<1>3. Rank(lens, s) \in Nat /\ Rank(lens, s) < Count(lens, l) /\ h.symbols[l][Rank(lens, s)] = s
  BY <1>2, SymbolAt
<1>4. h.counts \in [1 .. MaxBits -> Nat] /\ h.counts[l] = Count(lens, l)
  BY <1>2, BuildIs
<1>5. \A j \in 0 .. MaxBits : first[j] \in Nat
  BY ONLY <1>4, FirstCodesType
<1>. HIDE DEF h, first, code, c, l
<1>6. \A j \in 0 .. l : code[j] = IF j # 0 /\ pos + j > 8 * Len(src) THEN -1 ELSE c \div Two[l - j]
  <2>1. HasBits(src, pos, High(c, l))
    BY DEF CodeBits, c, l
  <2>. QED
    BY ONLY <1>2, <2>1, Len(src) \in Nat, pos \in Nat, CodeReadIsCode DEF code
<1>7. \A j \in 1 .. MaxBits : j < l => (c \div Two[l - j]) - h.counts[j] >= first[j - 1]
  BY ShorterPassed DEF c, l, h, first
<1>8. \A j \in 1 .. MaxBits : h.counts[j] \in Nat /\ first[j - 1] \in Nat /\ j \in Nat
  <2>1. \A j \in 1 .. MaxBits : j - 1 \in 0 .. MaxBits /\ j \in Nat
    BY DEF MaxBits
  <2>. QED
    BY <1>4, <1>5, <2>1
<1>9. l \in Nat /\ l # 0
  BY <1>2 DEF MaxBits
<1>10. \A j \in 1 .. MaxBits : j < l /\ ~(pos + j > 8 * Len(src)) => j \notin ends
  <2>1. SUFFICES ASSUME NEW j \in 1 .. MaxBits, j < l, ~(pos + j > 8 * Len(src))
                 PROVE  ~(code[j] - h.counts[j] < first[j - 1])
    OBVIOUS
  <2>2. code[j] = c \div Two[l - j]
    <3>1. j \in 0 .. l
      BY <1>9, <2>1
    <3>. QED
      BY ONLY <1>6, <2>1, <3>1
  <2>3. (c \div Two[l - j]) - h.counts[j] >= first[j - 1]
    BY <1>7, <2>1
  <2>4. c \div Two[l - j] \in Nat
    <3>1. l - j \in 0 .. 16
      BY <1>2, <2>1 DEF MaxBits
    <3>2. Two[l - j] \in Nat /\ Two[l - j] > 0
      BY ONLY <3>1, TwoType
    <3>3. c \in Nat
      <4>1. l \in 0 .. 16
        BY <1>2 DEF MaxBits
      <4>2. Two[l] \in Nat
        BY ONLY <4>1, TwoType
      <4>. QED
        BY <1>2, <4>2
    <3>. HIDE DEF ends
    <3>. QED
      BY ONLY <3>2, <3>3, Division
  <2>. HIDE DEF ends
  <2>5. code[j] \in Nat /\ code[j] - h.counts[j] >= first[j - 1]
    BY <2>2, <2>3, <2>4
  <2>. QED
    BY <1>8, <2>5
<1>11. l \in ends
  <2>1. CASE pos + l > 8 * Len(src)
    <3>1. code[l] = -1
      BY <1>6, <1>9, <2>1
    <3>. QED
      BY <1>2, <1>8, <3>1
  <2>2. CASE ~(pos + l > 8 * Len(src))
    <3>1. code[l] = c
      <4>1. code[l] = c \div Two[l - l]
        BY <1>6, <1>9, <2>2
      <4>2. l - l = 0
        BY <1>9
      <4>3. c \in Int
        BY <1>2
      <4>4. c \div 1 = c
        BY ONLY <4>3
      <4>. QED
        BY ONLY <4>1, <4>2, <4>4, TwoIs
    <3>2. first[l - 1] \in Nat /\ h.counts[l] \in Nat
      BY <1>2, <1>8
    <3>3. c - h.counts[l] < first[l - 1]
      BY <1>2, <1>3, <1>4, <3>2
    <3>. QED
      BY <1>2, <3>1, <3>3
  <2>. QED
    BY <2>1, <2>2
<1>12. len \in ends /\ \A m \in ends : len <= m
  <2>1. ends \subseteq Nat
    BY DEF MaxBits
  <2>. HIDE DEF ends
  <2>2. \E j \in ends : \A m \in ends : j <= m
    BY ONLY <1>11, <2>1, LeastNat
  <2>. QED
    BY ONLY <2>2
<1>13. len \in 1 .. MaxBits /\ len <= l /\ len \in Nat
  <2>1. len \in 1 .. MaxBits
    BY <1>12
  <2>. HIDE DEF len, ends
  <2>. QED
    BY <1>11, <1>12, <2>1 DEF MaxBits
<1>14. CASE pos + l <= 8 * Len(src)
  <2>1. len = l
    <3>1. SUFFICES ASSUME len # l PROVE FALSE
      OBVIOUS
    <3>. HIDE DEF len, ends
    <3>2. len < l /\ ~(pos + len > 8 * Len(src))
      BY <1>9, <1>13, <1>14, <3>1
    <3>. QED
      BY <1>10, <1>12, <1>13, <3>2
  <2>2. code[l] = c
    <3>1. code[l] = c \div Two[l - l]
      <4>1. ~(pos + l > 8 * Len(src))
        BY <1>9, <1>14
      <4>. QED
        BY <1>6, <1>9, <4>1
    <3>2. l - l = 0
      BY <1>9
    <3>3. c \in Int
      BY <1>2
    <3>4. c \div 1 = c
      BY ONLY <3>3
    <3>. QED
      BY ONLY <3>1, <3>2, <3>4, TwoIs
  <2>3. k = Rank(lens, s)
    <3>1. first[l - 1] \in Nat
      BY <1>2, <1>8
    <3>2. c - first[l - 1] = Rank(lens, s)
      BY <1>2, <1>3, <3>1
    <3>. HIDE DEF len
    <3>. QED
      BY <2>1, <2>2, <3>2
  <2>4. ends # {} /\ ~(k < 0)
    <3>1. ~(Rank(lens, s) < 0)
      BY <1>3
    <3>. HIDE DEF ends, k
    <3>. QED
      BY <1>11, <2>3, <3>1
  <2>5. h.symbols[len][k] = s
    <3>. HIDE DEF len, k
    <3>. QED
      BY <1>3, <2>1, <2>3
  <2>. HIDE DEF len, ends, k
  <2>6. dec = [sym |-> s, pos |-> pos + l]
    <3>. HIDE DEF dec
    <3>. QED
      BY ONLY <1>1, <2>1, <2>4, <2>5
  <2>. QED
    BY ONLY <1>14, <2>6 DEF dec, h, l
<1>15. CASE ~(pos + l <= 8 * Len(src))
  <2>1. pos + len > 8 * Len(src)
    <3>1. SUFFICES ASSUME ~(pos + len > 8 * Len(src)) PROVE FALSE
      OBVIOUS
    <3>. HIDE DEF len, ends
    <3>2. len < l
      BY <1>9, <1>13, <1>15, <3>1
    <3>. QED
      BY <1>10, <1>12, <1>13, <3>1, <3>2
  <2>2. code[len] = -1
    <3>. HIDE DEF len
    <3>1. len \in 0 .. l /\ len # 0
      BY <1>9, <1>13 DEF MaxBits
    <3>. QED
      BY ONLY <1>6, <2>1, <3>1
  <2>3. k < 0
    <3>1. first[len - 1] \in Nat
      BY <1>8, <1>13
    <3>. HIDE DEF len
    <3>. QED
      BY <2>2, <3>1
  <2>4. ends # {}
    BY <1>11
  <2>. HIDE DEF len, ends, k
  <2>5. dec.sym = -1
    <3>. HIDE DEF dec
    <3>. QED
      BY ONLY <1>1, <2>3, <2>4
  <2>. QED
    BY ONLY <1>15, <2>5 DEF dec, h, l
<1>. QED
  BY <1>14, <1>15

-----------------------------------------------------------------------------
(* Literals and matches.                                                    *)

\* The tables of the code are what the definitions of lengths and distances give.
LEMMA LengthTables ==
  ASSUME NEW op, op.sym \in 257 .. 285, op.more \in 0 .. Two[ExtraBits(op.sym)] - 1
  PROVE  /\ LenExtra[op.sym - 256] = ExtraBits(op.sym) /\ ExtraBits(op.sym) \in 0 .. 16
         /\ MatchLen(op) = LenBase[op.sym - 256] + op.more
         /\ MatchLen(op) \in Nat /\ MatchLen(op) > 0
<1>a. op.more \in 0 .. Two[ExtraBits(op.sym)] - 1
  OBVIOUS
<1>1. CASE op.sym = 257
  BY ONLY <1>a, <1>1, TwoIs DEF ExtraBits, MatchLen, LenBase, LenExtra
<1>2. CASE op.sym = 258
  BY ONLY <1>a, <1>2, TwoIs DEF ExtraBits, MatchLen, LenBase, LenExtra
<1>3. CASE op.sym = 259
  BY ONLY <1>a, <1>3, TwoIs DEF ExtraBits, MatchLen, LenBase, LenExtra
<1>4. CASE op.sym = 260
  BY ONLY <1>a, <1>4, TwoIs DEF ExtraBits, MatchLen, LenBase, LenExtra
<1>5. CASE op.sym = 261
  BY ONLY <1>a, <1>5, TwoIs DEF ExtraBits, MatchLen, LenBase, LenExtra
<1>6. CASE op.sym = 262
  BY ONLY <1>a, <1>6, TwoIs DEF ExtraBits, MatchLen, LenBase, LenExtra
<1>7. CASE op.sym = 263
  BY ONLY <1>a, <1>7, TwoIs DEF ExtraBits, MatchLen, LenBase, LenExtra
<1>8. CASE op.sym = 264
  BY ONLY <1>a, <1>8, TwoIs DEF ExtraBits, MatchLen, LenBase, LenExtra
<1>9. CASE op.sym = 265
  BY ONLY <1>a, <1>9, TwoIs DEF ExtraBits, MatchLen, LenBase, LenExtra
<1>10. CASE op.sym = 266
  BY ONLY <1>a, <1>10, TwoIs DEF ExtraBits, MatchLen, LenBase, LenExtra
<1>11. CASE op.sym = 267
  BY ONLY <1>a, <1>11, TwoIs DEF ExtraBits, MatchLen, LenBase, LenExtra
<1>12. CASE op.sym = 268
  BY ONLY <1>a, <1>12, TwoIs DEF ExtraBits, MatchLen, LenBase, LenExtra
<1>13. CASE op.sym = 269
  BY ONLY <1>a, <1>13, TwoIs DEF ExtraBits, MatchLen, LenBase, LenExtra
<1>14. CASE op.sym = 270
  BY ONLY <1>a, <1>14, TwoIs DEF ExtraBits, MatchLen, LenBase, LenExtra
<1>15. CASE op.sym = 271
  BY ONLY <1>a, <1>15, TwoIs DEF ExtraBits, MatchLen, LenBase, LenExtra
<1>16. CASE op.sym = 272
  BY ONLY <1>a, <1>16, TwoIs DEF ExtraBits, MatchLen, LenBase, LenExtra
<1>17. CASE op.sym = 273
  BY ONLY <1>a, <1>17, TwoIs DEF ExtraBits, MatchLen, LenBase, LenExtra
<1>18. CASE op.sym = 274
  BY ONLY <1>a, <1>18, TwoIs DEF ExtraBits, MatchLen, LenBase, LenExtra
<1>19. CASE op.sym = 275
  BY ONLY <1>a, <1>19, TwoIs DEF ExtraBits, MatchLen, LenBase, LenExtra
<1>20. CASE op.sym = 276
  BY ONLY <1>a, <1>20, TwoIs DEF ExtraBits, MatchLen, LenBase, LenExtra
<1>21. CASE op.sym = 277
  BY ONLY <1>a, <1>21, TwoIs DEF ExtraBits, MatchLen, LenBase, LenExtra
<1>22. CASE op.sym = 278
  BY ONLY <1>a, <1>22, TwoIs DEF ExtraBits, MatchLen, LenBase, LenExtra
<1>23. CASE op.sym = 279
  BY ONLY <1>a, <1>23, TwoIs DEF ExtraBits, MatchLen, LenBase, LenExtra
<1>24. CASE op.sym = 280
  BY ONLY <1>a, <1>24, TwoIs DEF ExtraBits, MatchLen, LenBase, LenExtra
<1>25. CASE op.sym = 281
  BY ONLY <1>a, <1>25, TwoIs DEF ExtraBits, MatchLen, LenBase, LenExtra
<1>26. CASE op.sym = 282
  BY ONLY <1>a, <1>26, TwoIs DEF ExtraBits, MatchLen, LenBase, LenExtra
<1>27. CASE op.sym = 283
  BY ONLY <1>a, <1>27, TwoIs DEF ExtraBits, MatchLen, LenBase, LenExtra
<1>28. CASE op.sym = 284
  BY ONLY <1>a, <1>28, TwoIs DEF ExtraBits, MatchLen, LenBase, LenExtra
<1>29. CASE op.sym = 285
  BY ONLY <1>a, <1>29, TwoIs DEF ExtraBits, MatchLen, LenBase, LenExtra
<1>. QED
  BY ONLY op.sym \in 257 .. 285, <1>1, <1>2, <1>3, <1>4, <1>5, <1>6, <1>7, <1>8, <1>9, <1>10, <1>11, <1>12, <1>13, <1>14, <1>15, <1>16, <1>17, <1>18, <1>19, <1>20, <1>21, <1>22, <1>23, <1>24, <1>25, <1>26, <1>27, <1>28, <1>29

LEMMA DistanceTables ==
  ASSUME NEW op, op.dist \in 0 .. 29, op.far \in 0 .. Two[FarBits(op.dist)] - 1
  PROVE  /\ DistExtra[op.dist + 1] = FarBits(op.dist) /\ FarBits(op.dist) \in 0 .. 16
         /\ Distance(op) = DistBase[op.dist + 1] + op.far
         /\ Distance(op) \in Nat /\ Distance(op) > 0
<1>a. op.far \in 0 .. Two[FarBits(op.dist)] - 1
  OBVIOUS
<1>1. CASE op.dist = 0
  BY ONLY <1>a, <1>1, TwoIs DEF FarBits, Distance, DistBase, DistExtra
<1>2. CASE op.dist = 1
  BY ONLY <1>a, <1>2, TwoIs DEF FarBits, Distance, DistBase, DistExtra
<1>3. CASE op.dist = 2
  BY ONLY <1>a, <1>3, TwoIs DEF FarBits, Distance, DistBase, DistExtra
<1>4. CASE op.dist = 3
  BY ONLY <1>a, <1>4, TwoIs DEF FarBits, Distance, DistBase, DistExtra
<1>5. CASE op.dist = 4
  BY ONLY <1>a, <1>5, TwoIs DEF FarBits, Distance, DistBase, DistExtra
<1>6. CASE op.dist = 5
  BY ONLY <1>a, <1>6, TwoIs DEF FarBits, Distance, DistBase, DistExtra
<1>7. CASE op.dist = 6
  BY ONLY <1>a, <1>7, TwoIs DEF FarBits, Distance, DistBase, DistExtra
<1>8. CASE op.dist = 7
  BY ONLY <1>a, <1>8, TwoIs DEF FarBits, Distance, DistBase, DistExtra
<1>9. CASE op.dist = 8
  BY ONLY <1>a, <1>9, TwoIs DEF FarBits, Distance, DistBase, DistExtra
<1>10. CASE op.dist = 9
  BY ONLY <1>a, <1>10, TwoIs DEF FarBits, Distance, DistBase, DistExtra
<1>11. CASE op.dist = 10
  BY ONLY <1>a, <1>11, TwoIs DEF FarBits, Distance, DistBase, DistExtra
<1>12. CASE op.dist = 11
  BY ONLY <1>a, <1>12, TwoIs DEF FarBits, Distance, DistBase, DistExtra
<1>13. CASE op.dist = 12
  BY ONLY <1>a, <1>13, TwoIs DEF FarBits, Distance, DistBase, DistExtra
<1>14. CASE op.dist = 13
  BY ONLY <1>a, <1>14, TwoIs DEF FarBits, Distance, DistBase, DistExtra
<1>15. CASE op.dist = 14
  BY ONLY <1>a, <1>15, TwoIs DEF FarBits, Distance, DistBase, DistExtra
<1>16. CASE op.dist = 15
  BY ONLY <1>a, <1>16, TwoIs DEF FarBits, Distance, DistBase, DistExtra
<1>17. CASE op.dist = 16
  BY ONLY <1>a, <1>17, TwoIs DEF FarBits, Distance, DistBase, DistExtra
<1>18. CASE op.dist = 17
  BY ONLY <1>a, <1>18, TwoIs DEF FarBits, Distance, DistBase, DistExtra
<1>19. CASE op.dist = 18
  BY ONLY <1>a, <1>19, TwoIs DEF FarBits, Distance, DistBase, DistExtra
<1>20. CASE op.dist = 19
  BY ONLY <1>a, <1>20, TwoIs DEF FarBits, Distance, DistBase, DistExtra
<1>21. CASE op.dist = 20
  BY ONLY <1>a, <1>21, TwoIs DEF FarBits, Distance, DistBase, DistExtra
<1>22. CASE op.dist = 21
  BY ONLY <1>a, <1>22, TwoIs DEF FarBits, Distance, DistBase, DistExtra
<1>23. CASE op.dist = 22
  BY ONLY <1>a, <1>23, TwoIs DEF FarBits, Distance, DistBase, DistExtra
<1>24. CASE op.dist = 23
  BY ONLY <1>a, <1>24, TwoIs DEF FarBits, Distance, DistBase, DistExtra
<1>25. CASE op.dist = 24
  BY ONLY <1>a, <1>25, TwoIs DEF FarBits, Distance, DistBase, DistExtra
<1>26. CASE op.dist = 25
  BY ONLY <1>a, <1>26, TwoIs DEF FarBits, Distance, DistBase, DistExtra
<1>27. CASE op.dist = 26
  BY ONLY <1>a, <1>27, TwoIs DEF FarBits, Distance, DistBase, DistExtra
<1>28. CASE op.dist = 27
  BY ONLY <1>a, <1>28, TwoIs DEF FarBits, Distance, DistBase, DistExtra
<1>29. CASE op.dist = 28
  BY ONLY <1>a, <1>29, TwoIs DEF FarBits, Distance, DistBase, DistExtra
<1>30. CASE op.dist = 29
  BY ONLY <1>a, <1>30, TwoIs DEF FarBits, Distance, DistBase, DistExtra
<1>. QED
  BY ONLY op.dist \in 0 .. 29, <1>1, <1>2, <1>3, <1>4, <1>5, <1>6, <1>7, <1>8, <1>9, <1>10, <1>11, <1>12, <1>13, <1>14, <1>15, <1>16, <1>17, <1>18, <1>19, <1>20, <1>21, <1>22, <1>23, <1>24, <1>25, <1>26, <1>27, <1>28, <1>29, <1>30

\* The order of the code lengths' code lengths, each symbol once.
LEMMA ClcTable ==
  /\ \A k \in 1 .. 19 : ClcOrder[k] = ClcSym(k) /\ ClcSym(k) \in 0 .. 18
  /\ \A s \in 0 .. 18 : \E k \in 1 .. 19 : ClcOrder[k] = s
  /\ \A j, k \in 1 .. 19 : ClcOrder[j] = ClcOrder[k] => j = k
<1>1. /\ ClcOrder[1] = 16 /\ ClcOrder[2] = 17 /\ ClcOrder[3] = 18 /\ ClcOrder[4] = 0
      /\ ClcOrder[5] = 8 /\ ClcOrder[6] = 7 /\ ClcOrder[7] = 9 /\ ClcOrder[8] = 6
      /\ ClcOrder[9] = 10 /\ ClcOrder[10] = 5 /\ ClcOrder[11] = 11 /\ ClcOrder[12] = 4
      /\ ClcOrder[13] = 12 /\ ClcOrder[14] = 3 /\ ClcOrder[15] = 13 /\ ClcOrder[16] = 2
      /\ ClcOrder[17] = 14 /\ ClcOrder[18] = 1 /\ ClcOrder[19] = 15
  BY DEF ClcOrder
<1>2. ASSUME NEW k \in 1 .. 19
      PROVE  ClcOrder[k] = ClcSym(k) /\ ClcSym(k) \in 0 .. 18
  BY <1>1 DEF ClcSym
<1>3. \A s \in 0 .. 18 : \E k \in 1 .. 19 : ClcOrder[k] = s
  BY <1>1
<1>4. \A j, k \in 1 .. 19 : ClcOrder[j] = ClcOrder[k] => j = k
  BY <1>1
<1>. QED
  BY <1>2, <1>3, <1>4

\* The code of an encoder is one the decoder builds.
LEMMA BuildOk ==
  ASSUME NEW lens, IsCode(lens)
  PROVE  HuffBuild(lens).ok
<1>1. lens \in CodeLens
  BY DEF IsCode, CodeLens
<1>2. \A i \in DOMAIN lens : lens[i] <= MaxBits
  <2>1. lens \in Seq(0 .. MaxBits)
    BY DEF IsCode
  <2>2. DOMAIN lens = 1 .. Len(lens)
    BY ONLY <2>1
  <2>3. \A i \in 1 .. Len(lens) : lens[i] \in 0 .. MaxBits
    BY ONLY <2>1, ElementOfSeq
  <2>. QED
    BY <2>2, <2>3 DEF MaxBits
<1>3. ASSUME NEW l \in 1 .. MaxBits PROVE Count(lens, l) <= Two[l]
  <2>1. CodeStart(lens, l) + Count(lens, l) <= Two[l]
    BY DEF IsCode
  <2>2. CodeStart(lens, l) \in Nat
    <3>1. HuffBuild(lens).counts \in [1 .. MaxBits -> Nat]
      BY <1>1, BuildIs
    <3>2. l - 1 \in 0 .. MaxBits
      BY DEF MaxBits
    <3>3. \A k \in 0 .. MaxBits : FirstCodes(HuffBuild(lens).counts)[k] \in Nat
      BY ONLY <3>1, FirstCodesType
    <3>. QED
      BY <1>1, <3>2, <3>3, FirstIsStart
  <2>3. l \in 0 .. 16 /\ l \in Nat
    BY DEF MaxBits
  <2>4. Two[l] \in Nat
    BY ONLY <2>3, TwoType
  <2>5. Count(lens, l) \in Nat
    BY <1>1, <2>3, CountType
  <2>. QED
    BY ONLY <2>1, <2>2, <2>4, <2>5
<1>. QED
  BY <1>2, <1>3 DEF HuffBuild

\* A match copied byte by byte repeats with the period of its distance.
LEMMA CopiedIs ==
  ASSUME NEW out \in Seq(Bytes), NEW d \in Nat, d > 0, d <= Len(out), NEW n \in Nat
  PROVE  /\ Copied(out, d, n) = [j \in 1 .. n |-> out[Len(out) - d + 1 + ((j - 1) % d)]]
         /\ Copied(out, d, n) \in Seq(Bytes) /\ Len(Copied(out, d, n)) = n
<1>. DEFINE at(j) == Len(out) - d + 1 + ((j - 1) % d)
            meant == [j \in 1 .. n |-> out[at(j)]]
            Is(f) == f = [j \in 1 .. n |-> IF j <= d THEN out[Len(out) - d + j] ELSE f[j - d]]
            byte == CHOOSE f : Is(f)
<1>1. Len(out) \in Nat
  OBVIOUS
<1>2. ASSUME NEW j \in 1 .. n PROVE at(j) \in 1 .. Len(out) /\ (j <= d => at(j) = Len(out) - d + j)
  <2>1. (j - 1) % d \in Nat /\ (j - 1) % d < d
    <3>1. j - 1 \in Nat
      OBVIOUS
    <3>. QED
      BY <3>1, Division
  <2>2. ASSUME j <= d PROVE (j - 1) % d = j - 1
    BY <2>2, Z3
  <2>. QED
    BY <1>1, <2>1, <2>2
<1>3. ASSUME NEW j \in 1 .. n, j > d PROVE at(j) = at(j - d) /\ j - d \in 1 .. n /\ j - d < j
  <2>1. (j - 1) % d = ((j - d) - 1) % d
    <3>. DEFINE a == (j - d) - 1
    <3>1. a \in Nat /\ j - 1 = a + d
      BY <1>3
    <3>2. a \div d \in Nat /\ a % d \in Nat /\ a % d < d /\ a = d * (a \div d) + (a % d)
      BY ONLY <3>1, d \in Nat, d > 0, Division
    <3>. DEFINE q == a \div d
                r == a % d
    <3>. HIDE DEF a, q, r
    <3>3. j - 1 = d * (q + 1) + r
      <4>1. d * (q + 1) = d * q + d
        BY <3>2 DEF q
      <4>. QED
        BY <3>1, <3>2, <4>1 DEF q, r
    <3>4. (d * (q + 1) + r) % d = r
      <4>1. d \in Nat \ {0} /\ q + 1 \in Nat /\ r \in 0 .. d - 1
        <5>1. q \in Nat /\ r \in Nat /\ r < d
          BY <3>2 DEF q, r
        <5>. QED
          BY ONLY <5>1, d \in Nat, d > 0
      <4>. QED
        BY ONLY <4>1, Places
    <3>. QED
      BY <3>3, <3>4 DEF r, a
  <2>. QED
    BY <1>3, <2>1
<1>4. Is(meant)
  <2>1. ASSUME NEW j \in 1 .. n
        PROVE  meant[j] = IF j <= d THEN out[Len(out) - d + j] ELSE meant[j - d]
    <3>1. meant[j] = out[at(j)]
      OBVIOUS
    <3>2. CASE j <= d
      BY <1>2, <3>1, <3>2
    <3>3. CASE ~(j <= d)
      <4>1. j > d
        BY <3>3
      <4>2. at(j) = at(j - d) /\ j - d \in 1 .. n
        BY <1>3, <4>1
      <4>3. meant[j - d] = out[at(j - d)]
        BY <4>2
      <4>. QED
        BY <3>1, <3>3, <4>2, <4>3
    <3>. QED
      BY <3>2, <3>3
  <2>. DEFINE rhs == [j \in 1 .. n |-> IF j <= d THEN out[Len(out) - d + j] ELSE meant[j - d]]
  <2>2. \A j \in 1 .. n : meant[j] = rhs[j]
    <3>. HIDE DEF meant
    <3>. QED
      BY <2>1
  <2>3. DOMAIN meant = 1 .. n /\ DOMAIN rhs = 1 .. n /\ meant = [j \in DOMAIN meant |-> meant[j]]
        /\ rhs = [j \in DOMAIN rhs |-> rhs[j]]
    OBVIOUS
  <2>. HIDE DEF meant, rhs
  <2>4. meant = rhs
    BY ONLY <2>2, <2>3
  <2>. QED
    BY <2>4 DEF rhs
<1>5. Is(byte)
  <2>. HIDE DEF Is, meant
  <2>. QED
    BY <1>4
<1>6. Copied(out, d, n) = byte
  BY DEF Copied
<1>. HIDE DEF byte
<1>7. byte = meant
  <2>1. byte = [j \in 1 .. n |-> IF j <= d THEN out[Len(out) - d + j] ELSE byte[j - d]]
    BY <1>5
  <2>. DEFINE S == {j \in 1 .. n : byte[j] # meant[j]}
  <2>2. S = {}
    <3>1. SUFFICES ASSUME S # {} PROVE FALSE
      OBVIOUS
    <3>2. S \in SUBSET Nat
      OBVIOUS
    <3>. HIDE DEF S
    <3>3. PICK m \in S : \A j \in S : m <= j
      BY ONLY <3>1, <3>2, LeastNat
    <3>. USE DEF S
    <3>4. m \in 1 .. n /\ byte[m] # meant[m]
      BY <3>3
    <3>5. CASE m <= d
      <4>1. byte[m] = out[Len(out) - d + m]
        BY ONLY <2>1, <3>4, <3>5
      <4>2. meant[m] = out[Len(out) - d + m]
        BY <1>2, <3>4, <3>5
      <4>. QED
        BY ONLY <3>4, <4>1, <4>2
    <3>6. CASE ~(m <= d)
      <4>1. m > d
        BY <3>4, <3>6
      <4>2. m - d \in 1 .. n /\ m - d < m /\ at(m) = at(m - d)
        BY <1>3, <3>4, <4>1
      <4>3. byte[m - d] = meant[m - d]
        <5>1. m - d \notin S
          <6>. HIDE DEF S
          <6>. QED
            BY <3>2, <3>3, <4>2
        <5>. HIDE DEF meant
        <5>. QED
          BY <4>2, <5>1
      <4>4. byte[m] = byte[m - d]
        BY ONLY <2>1, <3>4, <3>6
      <4>5. meant[m] = meant[m - d]
        BY <3>4, <4>2
      <4>. QED
        BY ONLY <3>4, <4>3, <4>4, <4>5
    <3>. QED
      BY <3>5, <3>6
  <2>3. \A j \in 1 .. n : byte[j] = meant[j]
    <3>. HIDE DEF meant
    <3>. QED
      BY <2>2
  <2>4. DOMAIN byte = 1 .. n /\ DOMAIN meant = 1 .. n /\ byte = [j \in DOMAIN byte |-> byte[j]]
        /\ meant = [j \in DOMAIN meant |-> meant[j]]
    <3>1. byte = [j \in DOMAIN byte |-> byte[j]] /\ DOMAIN byte = 1 .. n
      BY ONLY <2>1
    <3>. QED
      BY <3>1
  <2>. HIDE DEF meant
  <2>. QED
    BY ONLY <2>3, <2>4
<1>8. meant \in Seq(Bytes) /\ Len(meant) = n
  <2>1. \A j \in 1 .. n : out[at(j)] \in Bytes
    <3>1. \A i \in 1 .. Len(out) : out[i] \in Bytes
      BY ONLY out \in Seq(Bytes), ElementOfSeq
    <3>. HIDE DEF at
    <3>. QED
      BY <1>2, <3>1
  <2>. HIDE DEF at
  <2>. QED
    BY <2>1
<1>. QED
  BY <1>6, <1>7, <1>8

\* The symbols of literals and those of matches.
LEMMA ByteSym ==
  ASSUME NEW x \in 0 .. 255
  PROVE  x < 256 /\ ~(x = 256) /\ ~(x \in 257 .. 285)
OBVIOUS

LEMMA MatchSym ==
  ASSUME NEW x \in 257 .. 285
  PROVE  ~(x < 256) /\ ~(x = 256) /\ ~(x \in 0 .. 255)
OBVIOUS

\* What a literal or a match is, of a code and after some bytes.
LEMMA OpTyped ==
  ASSUME NEW b, IsCode(b.lit), IsCode(b.dist), NEW out \in Seq(Bytes), NEW op, IsOp(b, op, out)
  PROVE  /\ OpBits(b.lit, b.dist, op) \in Seq(Bit)
         /\ OpMeant(out, op) \in Seq(Bytes)
         /\ op.sym \in 0 .. 255 \/ op.sym \in 257 .. 285
<1>1. CodeBits(b.lit, op.sym) \in Seq(Bit)
  BY CodeFits DEF IsOp
<1>2. CASE op.sym \in 0 .. 255
  <2>a. op.sym < 256
    BY ONLY <1>2, ByteSym
  <2>1. OpBits(b.lit, b.dist, op) = CodeBits(b.lit, op.sym)
    BY ONLY <2>a DEF OpBits
  <2>2. OpMeant(out, op) = << op.sym >>
    BY ONLY <2>a DEF OpMeant
  <2>3. << op.sym >> \in Seq(Bytes)
    BY <1>2 DEF Bytes
  <2>. QED
    BY <1>1, <1>2, <2>1, <2>2, <2>3
<1>3. CASE ~(op.sym \in 0 .. 255)
  <2>1. /\ op.sym \in 257 .. 285 /\ op.more \in 0 .. Two[ExtraBits(op.sym)] - 1
        /\ op.dist \in 0 .. 29 /\ HasCode(b.dist, op.dist)
        /\ op.far \in 0 .. Two[FarBits(op.dist)] - 1 /\ Distance(op) <= Len(out)
    <3>1. ~(op.sym \in Bytes)
      BY ONLY <1>3 DEF Bytes
    <3>. QED
      BY ONLY <3>1, IsOp(b, op, out) DEF IsOp
  <2>2. ExtraBits(op.sym) \in 0 .. 16 /\ MatchLen(op) \in Nat
    BY <2>1, LengthTables
  <2>3. FarBits(op.dist) \in 0 .. 16 /\ Distance(op) \in Nat /\ Distance(op) > 0
    BY <2>1, DistanceTables
  <2>4. Low(op.more, ExtraBits(op.sym)) \in Seq(Bit)
    <3>1. op.more \in Nat
      <4>1. Two[ExtraBits(op.sym)] \in Nat
        BY <2>2, TwoType
      <4>. QED
        BY <2>1, <4>1
    <3>. QED
      BY <2>2, <3>1, LowSeq
  <2>5. Low(op.far, FarBits(op.dist)) \in Seq(Bit)
    <3>1. op.far \in Nat
      <4>1. Two[FarBits(op.dist)] \in Nat
        BY <2>3, TwoType
      <4>. QED
        BY <2>1, <4>1
    <3>. QED
      BY <2>3, <3>1, LowSeq
  <2>6. CodeBits(b.dist, op.dist) \in Seq(Bit)
    BY <2>1, CodeFits
  <2>a. ~(op.sym < 256)
    <3>1. op.sym \in 257 .. 285
      BY ONLY <2>1, Zenon
    <3>. QED
      BY ONLY <3>1, MatchSym
  <2>7. OpBits(b.lit, b.dist, op) = CodeBits(b.lit, op.sym) \o Low(op.more, ExtraBits(op.sym))
         \o CodeBits(b.dist, op.dist) \o Low(op.far, FarBits(op.dist))
    BY ONLY <2>a DEF OpBits
  <2>8. OpBits(b.lit, b.dist, op) \in Seq(Bit)
    BY ONLY <1>1, <2>4, <2>5, <2>6, <2>7
  <2>9. OpMeant(out, op) = Copied(out, Distance(op), MatchLen(op))
    <3>1. OpMeant(out, op) = [j \in 1 .. MatchLen(op) |->
            out[Len(out) - Distance(op) + 1 + ((j - 1) % Distance(op))]]
      BY ONLY <2>a DEF OpMeant
    <3>. QED
      BY <2>1, <2>2, <2>3, <3>1, CopiedIs
  <2>10. OpMeant(out, op) \in Seq(Bytes)
    BY <2>1, <2>2, <2>3, <2>9, CopiedIs
  <2>. QED
    BY <2>1, <2>8, <2>10
<1>. QED
  BY <1>2, <1>3

\* A turn of the loop over literals and matches reads what was written: the
\* next state if its bits are there and there is room for its bytes.
LEMMA CodesStep ==
  ASSUME NEW b, IsCode(b.lit), IsCode(b.dist), NEW out \in Seq(Bytes), NEW op, IsOp(b, op, out),
         NEW src, Len(src) \in Nat, NEW cap \in Nat, NEW pos \in Nat, NEW last,
         HasBits(src, pos, OpBits(b.lit, b.dist, op))
  PROVE  LET end == pos + Len(OpBits(b.lit, b.dist, op))
             then == out \o OpMeant(out, op)
             At(n, bytes) == AtCodes(n, bytes, last, HuffBuild(b.lit), HuffBuild(b.dist))
         IN CodesTurn(src, cap, At(pos, out)) =
              IF end <= 8 * Len(src) /\ Len(then) <= cap THEN At(end, then) ELSE Ended(Fail)
<1>. DEFINE lit == HuffBuild(b.lit)
            dist == HuffBuild(b.dist)
            At(n, bytes) == AtCodes(n, bytes, last, lit, dist)
            p == At(pos, out)
            s == HuffDec(lit, src, pos)
            ln == b.lit[op.sym + 1]
            code == CodeBits(b.lit, op.sym)
            bits == OpBits(b.lit, b.dist, op)
            end == pos + Len(bits)
            then == out \o OpMeant(out, op)
            N == 8 * Len(src)
<1>1. p.lit = lit /\ p.dist = dist /\ p.pos = pos /\ p.out = out /\ p.last = last
  BY DEF AtCodes
<1>2. HasCode(b.lit, op.sym) /\ (op.sym \in 0 .. 255 \/ op.sym \in 257 .. 285)
  BY DEF IsOp, Bytes
<1>3. code \in Seq(Bit) /\ Len(code) = ln /\ ln \in Nat /\ ln > 0
  <2>1. ln \in 1 .. MaxBits /\ code \in Seq(Bit) /\ Len(code) = ln
    BY ONLY IsCode(b.lit), <1>2, CodeFits
  <2>. HIDE DEF ln, code
  <2>. QED
    BY ONLY <2>1 DEF MaxBits
<1>4. bits \in Seq(Bit)
  BY OpTyped
<1>5. ASSUME HasBits(src, pos, code)
      PROVE  IF pos + ln <= N THEN s.sym = op.sym /\ s.pos = pos + ln ELSE s.sym = -1
  <2>1. IF pos + ln <= N THEN s = [sym |-> op.sym, pos |-> pos + ln] ELSE s.sym = -1
    BY <1>2, <1>5, Decode
  <2>. HIDE DEF s, ln
  <2>. QED
    BY <2>1
<1>6. Len(out) \in Nat /\ N \in Nat
  OBVIOUS
<1>. DEFINE turn == CodesTurn(src, cap, p)
            more == BrBits(src, s.pos, LenExtra[s.sym - 256])
<1>7. turn = CASE s.sym \in 0 .. 255 ->
                    IF Len(out) >= cap THEN Ended(Fail) ELSE At(s.pos, out \o << s.sym >>)
               [] s.sym = 256 -> AfterBlock(s.pos, out, last)
               [] s.sym \in 257 .. 285 -> MatchTurn(src, cap, p, s.sym - 256, s.pos)
               [] OTHER -> Ended(Fail)
  <2>. HIDE DEF p, lit, dist
  <2>1. turn = CASE HuffDec(p.lit, src, p.pos).sym \in 0 .. 255 ->
                    IF Len(p.out) >= cap THEN Ended(Fail)
                    ELSE AtCodes(HuffDec(p.lit, src, p.pos).pos,
                                 p.out \o << HuffDec(p.lit, src, p.pos).sym >>, p.last, p.lit, p.dist)
               [] HuffDec(p.lit, src, p.pos).sym = 256 ->
                    AfterBlock(HuffDec(p.lit, src, p.pos).pos, p.out, p.last)
               [] HuffDec(p.lit, src, p.pos).sym \in 257 .. 285 ->
                    MatchTurn(src, cap, p, HuffDec(p.lit, src, p.pos).sym - 256,
                              HuffDec(p.lit, src, p.pos).pos)
               [] OTHER -> Ended(Fail)
    BY DEF CodesTurn
  <2>. QED
    BY <1>1, <2>1
<1>. HIDE DEF turn
<1>8. ASSUME s.sym = -1 PROVE turn = Ended(Fail)
  <2>. HIDE DEF s, p, At
  <2>1. ~(s.sym \in 0 .. 255) /\ ~(s.sym = 256) /\ ~(s.sym \in 257 .. 285)
    BY <1>8
  <2>. QED
    BY ONLY <1>7, <2>1
<1>9. CASE op.sym \in 0 .. 255
  <2>a. op.sym < 256
    BY ONLY <1>9, ByteSym
  <2>1. bits = code
    BY ONLY <2>a DEF OpBits
  <2>2. OpMeant(out, op) = << op.sym >>
    BY ONLY <2>a DEF OpMeant
  <2>3. Len(then) = Len(out) + 1
    <3>1. << op.sym >> \in Seq(Bytes) /\ Len(<< op.sym >>) = 1
      BY <1>9 DEF Bytes
    <3>. QED
      BY <2>2, <3>1
  <2>4. IF pos + ln <= N THEN s.sym = op.sym /\ s.pos = pos + ln ELSE s.sym = -1
    BY <1>5, <2>1
  <2>. HIDE DEF s, ln, code, p, At, then, bits
  <2>5. CASE pos + ln <= N
    <3>1. turn = IF Len(out) >= cap THEN Ended(Fail) ELSE At(pos + ln, out \o << op.sym >>)
      <4>1. s.sym = op.sym /\ s.pos = pos + ln
        BY ONLY <2>4, <2>5
      <4>2. s.sym \in 0 .. 255 /\ ~(s.sym = 256) /\ ~(s.sym \in 257 .. 285)
        <5>1. s.sym = op.sym
          BY ONLY <4>1
        <5>. DEFINE x == s.sym
        <5>2. x \in 0 .. 255
          BY ONLY <1>9, <5>1
        <5>. HIDE DEF x
        <5>3. ~(x = 256) /\ ~(x \in 257 .. 285)
          BY ONLY <5>2
        <5>. QED
          BY ONLY <5>2, <5>3 DEF x
      <4>3. turn = IF Len(out) >= cap THEN Ended(Fail) ELSE At(s.pos, out \o << s.sym >>)
        BY ONLY <1>7, <4>2
      <4>. QED
        BY ONLY <4>1, <4>3
    <3>2. Len(out) >= cap <=> ~(Len(then) <= cap)
      BY <1>6, <2>3
    <3>3. end <= N /\ end = pos + ln
      BY <1>3, <2>1, <2>5
    <3>4. then = out \o << op.sym >>
      BY <2>2 DEF then
    <3>. QED
      BY <3>1, <3>2, <3>3, <3>4 DEF turn, then, bits, p, At
  <2>6. CASE ~(pos + ln <= N)
    <3>1. turn = Ended(Fail)
      BY <1>8, <2>4, <2>6
    <3>2. ~(end <= N)
      BY <1>3, <2>1, <2>6
    <3>. QED
      BY <3>1, <3>2 DEF turn, bits, p, At
  <2>. QED
    BY <2>5, <2>6
<1>10. CASE op.sym \in 257 .. 285
  <2>. DEFINE ex == ExtraBits(op.sym)
              fx == FarBits(op.dist)
              lm == Low(op.more, ex)
              lf == Low(op.far, fx)
              dcode == CodeBits(b.dist, op.dist)
              dl == b.dist[op.dist + 1]
              p1 == pos + ln
              p2 == p1 + ex
              p3 == p2 + dl
              d == HuffDec(dist, src, p2)
              len == MatchLen(op)
              far == Distance(op)
  <2>1. /\ op.sym \in 257 .. 285 /\ op.more \in 0 .. Two[ex] - 1
        /\ op.dist \in 0 .. 29 /\ HasCode(b.dist, op.dist)
        /\ op.far \in 0 .. Two[fx] - 1 /\ far <= Len(out)
    <3>1. ~(op.sym \in Bytes)
      <4>. DEFINE x == op.sym
      <4>1. x \in 257 .. 285
        BY ONLY <1>10
      <4>. HIDE DEF x
      <4>2. ~(x \in 0 .. 255)
        BY ONLY <4>1
      <4>. QED
        BY ONLY <4>2 DEF x, Bytes
    <3>. QED
      BY ONLY <3>1, IsOp(b, op, out) DEF IsOp
  <2>2. ex \in 0 .. 16 /\ LenExtra[op.sym - 256] = ex /\ len = LenBase[op.sym - 256] + op.more
        /\ len \in Nat
    BY <2>1, LengthTables
  <2>3. fx \in 0 .. 16 /\ DistExtra[op.dist + 1] = fx /\ far = DistBase[op.dist + 1] + op.far
        /\ far \in Nat /\ far > 0
    BY <2>1, DistanceTables
  <2>4. op.more \in Nat /\ op.far \in Nat
    <3>1. Two[ex] \in Nat /\ Two[fx] \in Nat
      BY <2>2, <2>3, TwoType
    <3>. QED
      BY <2>1, <3>1
  <2>5. lm \in Seq(Bit) /\ Len(lm) = ex
    <3>. HIDE DEF ex
    <3>1. ex \in 0 .. 16 /\ op.more \in Nat
      BY ONLY <2>2, <2>4
    <3>. QED
      BY ONLY <3>1, LowSeq
  <2>6. lf \in Seq(Bit) /\ Len(lf) = fx
    <3>. HIDE DEF fx
    <3>1. fx \in 0 .. 16 /\ op.far \in Nat
      BY ONLY <2>3, <2>4
    <3>. QED
      BY ONLY <3>1, LowSeq
  <2>7. dcode \in Seq(Bit) /\ Len(dcode) = dl /\ dl \in Nat /\ dl > 0
    <3>1. dl \in 1 .. MaxBits /\ dcode \in Seq(Bit) /\ Len(dcode) = dl
      BY ONLY IsCode(b.dist), <2>1, CodeFits
    <3>. HIDE DEF dl, dcode
    <3>. QED
      BY ONLY <3>1 DEF MaxBits
  <2>a. ~(op.sym < 256)
    BY ONLY <1>10, MatchSym
  <2>8. bits = code \o lm \o dcode \o lf
    BY ONLY <2>a DEF OpBits
  <2>9. OpMeant(out, op) = Copied(out, far, len) /\ OpMeant(out, op) \in Seq(Bytes)
        /\ Len(OpMeant(out, op)) = len
    <3>1. OpMeant(out, op) = [j \in 1 .. len |-> out[Len(out) - far + 1 + ((j - 1) % far)]]
      BY ONLY <2>a DEF OpMeant
    <3>. HIDE DEF far, len
    <3>2. /\ Copied(out, far, len) = [j \in 1 .. len |-> out[Len(out) - far + 1 + ((j - 1) % far)]]
          /\ Copied(out, far, len) \in Seq(Bytes) /\ Len(Copied(out, far, len)) = len
      <4>1. far \in Nat /\ far > 0 /\ far <= Len(out) /\ len \in Nat
        BY ONLY <2>1, <2>2, <2>3
      <4>. QED
        BY ONLY <4>1, out \in Seq(Bytes), CopiedIs
    <3>. QED
      BY ONLY <3>1, <3>2
  <2>. HIDE DEF ex, fx, lm, lf, dcode, dl, len, far, code, s, p, then, ln, lit, dist
  <2>10. /\ HasBits(src, pos, code) /\ HasBits(src, p1, lm) /\ HasBits(src, p2, dcode)
         /\ HasBits(src, p3, lf)
    <3>1. HasBits(src, pos, ((code \o lm) \o dcode) \o lf)
      BY <2>8 DEF bits
    <3>a. code \o lm \in Seq(Bit) /\ Len(code \o lm) = ln + ex
      BY ONLY <1>3, <2>5, ConcatBits
    <3>b. (code \o lm) \o dcode \in Seq(Bit) /\ Len((code \o lm) \o dcode) = (ln + ex) + dl
      BY ONLY <2>7, <3>a, ConcatBits
    <3>2. code \o lm \in Seq(Bit) /\ Len(code \o lm) = ln + ex
          /\ (code \o lm) \o dcode \in Seq(Bit) /\ Len((code \o lm) \o dcode) = (ln + ex) + dl
      BY ONLY <3>a, <3>b
    <3>3. HasBits(src, pos, (code \o lm) \o dcode)
          /\ HasBits(src, pos + Len((code \o lm) \o dcode), lf)
      BY ONLY <2>6, <3>1, <3>2, pos \in Nat, HasConcat
    <3>4. HasBits(src, pos, code \o lm) /\ HasBits(src, pos + Len(code \o lm), dcode)
      BY ONLY <2>7, <3>2, <3>3, pos \in Nat, HasConcat
    <3>5. HasBits(src, pos, code) /\ HasBits(src, pos + Len(code), lm)
      BY ONLY <1>3, <2>5, <3>4, pos \in Nat, HasConcat
    <3>6. pos + Len(code) = p1 /\ pos + Len(code \o lm) = p2 /\ pos + Len((code \o lm) \o dcode) = p3
      BY <1>3, <2>2, <2>7, <3>2
    <3>. HIDE DEF p1, p2, p3
    <3>. QED
      BY <3>3, <3>4, <3>5, <3>6
  <2>11. Len(bits) = ln + ex + dl + fx /\ end = p3 + fx /\ p1 \in Nat /\ p2 \in Nat /\ p3 \in Nat
         /\ p1 <= p2 /\ p2 <= p3 /\ p3 <= end
    <3>a. code \o lm \in Seq(Bit) /\ Len(code \o lm) = ln + ex
      BY ONLY <1>3, <2>5, ConcatBits
    <3>b. (code \o lm) \o dcode \in Seq(Bit) /\ Len((code \o lm) \o dcode) = (ln + ex) + dl
      BY ONLY <2>7, <3>a, ConcatBits
    <3>c. Len(((code \o lm) \o dcode) \o lf) = ((ln + ex) + dl) + fx
      <4>. DEFINE x == (code \o lm) \o dcode
      <4>1. x \in Seq(Bit) /\ Len(x) = (ln + ex) + dl
        BY ONLY <3>b
      <4>. HIDE DEF x
      <4>2. Len(x \o lf) = ((ln + ex) + dl) + fx
        BY ONLY <2>6, <4>1
      <4>. QED
        BY <4>2 DEF x
    <3>1. Len(bits) = ln + ex + dl + fx
      BY ONLY <2>8, <3>c
    <3>. HIDE DEF bits
    <3>. QED
      BY <1>3, <2>2, <2>3, <2>7, <3>1
  <2>. HIDE DEF bits
  <2>12. IF p1 <= N THEN s.sym = op.sym /\ s.pos = p1 ELSE s.sym = -1
    BY <1>5, <2>10
  <2>13. BrBits(src, p1, ex) = IF p2 <= N THEN op.more ELSE -1
    <3>1. CASE p2 <= N
      <4>1. /\ p1 \in Nat /\ ex \in 0 .. 16 /\ op.more \in 0 .. Two[ex] - 1
            /\ HasBits(src, p1, Low(op.more, ex))
        BY ONLY <2>1, <2>2, <2>10, <2>11 DEF lm
      <4>2. p1 + ex <= 8 * Len(src)
        BY <3>1
      <4>3. BrBits(src, p1, ex) = op.more
        BY ONLY <4>1, <4>2, Len(src) \in Nat, BrRight
      <4>. QED
        BY ONLY <3>1, <4>3
    <3>2. CASE ~(p2 <= N)
      BY <2>11, <3>2 DEF BrBits
    <3>. QED
      BY <3>1, <3>2
  <2>14. IF p3 <= N THEN d.sym = op.dist /\ d.pos = p3 ELSE d.sym = -1
    <3>1. HasBits(src, p2, CodeBits(b.dist, op.dist))
      BY <2>10 DEF dcode
    <3>2. IF p2 + dl <= N THEN HuffDec(HuffBuild(b.dist), src, p2) = [sym |-> op.dist, pos |-> p2 + dl]
          ELSE HuffDec(HuffBuild(b.dist), src, p2).sym = -1
      BY <2>1, <2>11, <3>1, Decode DEF dl
    <3>. HIDE DEF p2
    <3>. QED
      BY <3>2 DEF dist
  <2>15. BrBits(src, p3, fx) = IF end <= N THEN op.far ELSE -1
    <3>1. CASE end <= N
      BY <2>1, <2>3, <2>10, <2>11, <3>1, BrRight DEF lf
    <3>2. CASE ~(end <= N)
      BY <2>11, <3>2 DEF BrBits
    <3>. QED
      BY <3>1, <3>2
  <2>. DEFINE match == MatchTurn(src, cap, p, op.sym - 256, p1)
              back == BrBits(src, d.pos, DistExtra[d.sym + 1])
              distance == DistBase[d.sym + 1] + back
              got == BrBits(src, p1, LenExtra[op.sym - 256])
              long == LenBase[op.sym - 256] + got
  <2>16. match = IF got = -1 \/ d.sym \notin 0 .. 29 THEN Ended(Fail)
                 ELSE IF back = -1 \/ distance > Len(out) \/ Len(out) + long > cap THEN Ended(Fail)
                 ELSE AtCodes(d.pos + DistExtra[d.sym + 1], out \o Copied(out, distance, long),
                              last, lit, dist)
    <3>. DEFINE dd == HuffDec(p.dist, src, p1 + LenExtra[op.sym - 256])
                bb == BrBits(src, dd.pos, DistExtra[dd.sym + 1])
    <3>1. match = IF got = -1 \/ dd.sym \notin 0 .. 29 THEN Ended(Fail)
                 ELSE IF bb = -1 \/ DistBase[dd.sym + 1] + bb > Len(p.out) \/ Len(p.out) + long > cap
                 THEN Ended(Fail)
                 ELSE AtCodes(dd.pos + DistExtra[dd.sym + 1],
                              p.out \o Copied(p.out, DistBase[dd.sym + 1] + bb, long),
                              p.last, p.lit, p.dist)
      <4>. HIDE DEF p1
      <4>. QED
        BY DEF MatchTurn
    <3>2. dd = d
      BY <1>1, <2>2 DEF p
    <3>. HIDE DEF match, d, dd, got, long
    <3>. QED
      BY <1>1, <3>1, <3>2
  <2>17. CASE p1 <= N
    <3>1. turn = match
      <4>1. s.sym = op.sym /\ s.pos = p1
        BY <2>12, <2>17
      <4>2. ~(s.sym \in 0 .. 255) /\ ~(s.sym = 256) /\ s.sym \in 257 .. 285
        <5>1. s.sym = op.sym
          BY ONLY <4>1
        <5>. DEFINE x == s.sym
        <5>2. x \in 257 .. 285
          BY ONLY <1>10, <5>1
        <5>. HIDE DEF x
        <5>3. ~(x = 256) /\ ~(x \in 0 .. 255)
          BY ONLY <5>2
        <5>. QED
          BY ONLY <5>2, <5>3 DEF x
      <4>. HIDE DEF At, p1, match
      <4>3. turn = MatchTurn(src, cap, p, s.sym - 256, s.pos)
        BY ONLY <1>7, <4>2
      <4>. QED
        BY ONLY <4>1, <4>3 DEF match
    <3>2. CASE end <= N
      <4>1. got = op.more /\ d.sym = op.dist /\ d.pos = p3 /\ p3 <= N
        <5>1. p2 <= N /\ p3 <= N
          BY <2>11, <3>2
        <5>. HIDE DEF p2, p3, d
        <5>. QED
          BY <2>2, <2>13, <2>14, <5>1
      <4>. HIDE DEF d, p3
      <4>2. back = op.far /\ distance = far
        BY <2>3, <2>15, <3>2, <4>1
      <4>3. long = len
        BY <2>2, <4>1
      <4>4. op.more # -1 /\ op.far # -1 /\ op.dist \in 0 .. 29
        BY <2>1, <2>4
      <4>. HIDE DEF got, back, distance, long, match
      <4>5. match = IF Len(out) + len > cap THEN Ended(Fail)
                    ELSE AtCodes(p3 + fx, out \o Copied(out, far, len), last, lit, dist)
        <5>1. ~(got = -1 \/ d.sym \notin 0 .. 29) /\ ~(back = -1) /\ ~(far > Len(out))
          BY <1>6, <2>1, <2>3, <4>1, <4>2, <4>4
        <5>. QED
          BY ONLY <2>3, <2>16, <4>1, <4>2, <4>3, <5>1
      <4>6. Len(then) = Len(out) + len /\ then = out \o Copied(out, far, len)
        BY <2>9 DEF then
      <4>7. Len(out) + len > cap <=> ~(Len(then) <= cap)
        BY <1>6, <2>2, <4>6
      <4>8. turn = IF Len(then) <= cap THEN At(end, then) ELSE Ended(Fail)
        BY <2>11, <3>1, <4>5, <4>6, <4>7
      <4>. QED
        BY <3>2, <4>8 DEF turn, bits, p, At, lit, dist, then
    <3>3. CASE ~(end <= N)
      <4>1. turn = Ended(Fail)
        <5>1. CASE ~(p2 <= N)
          <6>1. got = -1
            BY <2>2, <2>13, <5>1
          <6>. HIDE DEF got, match
          <6>. QED
            BY ONLY <2>16, <3>1, <6>1
        <5>2. CASE ~(p3 <= N)
          <6>1. d.sym = -1 /\ ~(-1 \in 0 .. 29)
            BY <2>14, <5>2
          <6>. HIDE DEF d, match, got
          <6>. QED
            BY ONLY <2>16, <3>1, <6>1
        <5>3. CASE p3 <= N
          <6>1. d.sym = op.dist /\ d.pos = p3
            BY <2>14, <5>3
          <6>. HIDE DEF d, p3
          <6>2. back = -1
            BY <2>3, <2>15, <3>3, <6>1
          <6>. HIDE DEF back, match, got, distance, long
          <6>. QED
            BY ONLY <2>16, <3>1, <6>2
        <5>. QED
          BY <5>2, <5>3
      <4>. QED
        BY <3>3, <4>1 DEF turn, bits, p, At, lit, dist, then
    <3>. QED
      BY <3>2, <3>3
  <2>18. CASE ~(p1 <= N)
    <3>1. turn = Ended(Fail)
      BY <1>8, <2>12, <2>18
    <3>2. ~(end <= N)
      BY <2>11, <2>18
    <3>. QED
      BY <3>1, <3>2 DEF turn, bits, p, At, lit, dist, then
  <2>. QED
    BY <2>17, <2>18
<1>. QED
  BY <1>2, <1>9, <1>10

\* The end of a block: its last symbol.
LEMMA CodesEnd ==
  ASSUME NEW b, IsCode(b.lit), HasCode(b.lit, 256), NEW out, NEW src, Len(src) \in Nat,
         NEW cap, NEW pos \in Nat, NEW last, HasBits(src, pos, CodeBits(b.lit, 256))
  PROVE  LET end == pos + Len(CodeBits(b.lit, 256))
         IN CodesTurn(src, cap, AtCodes(pos, out, last, HuffBuild(b.lit), HuffBuild(b.dist))) =
              IF end <= 8 * Len(src) THEN AfterBlock(end, out, last) ELSE Ended(Fail)
<1>. DEFINE lit == HuffBuild(b.lit)
            p == AtCodes(pos, out, last, lit, HuffBuild(b.dist))
            s == HuffDec(lit, src, pos)
            ln == b.lit[256 + 1]
            turn == CodesTurn(src, cap, p)
            y == s.sym
<1>1. p.lit = lit /\ p.pos = pos /\ p.out = out /\ p.last = last
  BY DEF AtCodes
<1>2. Len(CodeBits(b.lit, 256)) = ln
  BY CodeFits
<1>3. IF pos + ln <= 8 * Len(src) THEN s = [sym |-> 256, pos |-> pos + ln] ELSE s.sym = -1
  BY Decode
<1>4. turn = CASE y \in 0 .. 255 ->
                    IF Len(out) >= cap THEN Ended(Fail)
                    ELSE AtCodes(s.pos, out \o << s.sym >>, last, lit, p.dist)
               [] y = 256 -> AfterBlock(s.pos, out, last)
               [] y \in 257 .. 285 -> MatchTurn(src, cap, p, s.sym - 256, s.pos)
               [] OTHER -> Ended(Fail)
  <2>. HIDE DEF p, lit
  <2>1. turn = CASE HuffDec(p.lit, src, p.pos).sym \in 0 .. 255 ->
                    IF Len(p.out) >= cap THEN Ended(Fail)
                    ELSE AtCodes(HuffDec(p.lit, src, p.pos).pos,
                                 p.out \o << HuffDec(p.lit, src, p.pos).sym >>, p.last, p.lit, p.dist)
               [] HuffDec(p.lit, src, p.pos).sym = 256 ->
                    AfterBlock(HuffDec(p.lit, src, p.pos).pos, p.out, p.last)
               [] HuffDec(p.lit, src, p.pos).sym \in 257 .. 285 ->
                    MatchTurn(src, cap, p, HuffDec(p.lit, src, p.pos).sym - 256,
                              HuffDec(p.lit, src, p.pos).pos)
               [] OTHER -> Ended(Fail)
    BY DEF CodesTurn
  <2>. QED
    BY <1>1, <2>1
<1>5. CASE pos + ln <= 8 * Len(src)
  <2>1. y = 256 /\ s.pos = pos + ln
    <3>. HIDE DEF s, ln
    <3>. QED
      BY ONLY <1>3, <1>5 DEF y
  <2>. HIDE DEF y, s, turn, p, ln
  <2>2. ~(y \in 0 .. 255)
    BY ONLY <2>1
  <2>3. turn = AfterBlock(pos + ln, out, last)
    BY ONLY <1>4, <2>1, <2>2
  <2>. QED
    BY <1>2, <1>5, <2>3 DEF turn, p
<1>6. CASE ~(pos + ln <= 8 * Len(src))
  <2>1. y = -1
    <3>. HIDE DEF s, ln
    <3>. QED
      BY ONLY <1>3, <1>6 DEF y
  <2>. HIDE DEF y, s, turn, p, ln
  <2>2. ~(y \in 0 .. 255) /\ ~(y = 256) /\ ~(y \in 257 .. 285)
    BY ONLY <2>1
  <2>3. turn = Ended(Fail)
    BY ONLY <1>4, <2>2
  <2>. QED
    BY <1>2, <1>6, <2>3 DEF turn, p
<1>. QED
  BY <1>5, <1>6

-----------------------------------------------------------------------------
(* Code lengths, repeats and runs of zeros.                                 *)

\* What a code length, a repeat or a run of zeros is.
LEMMA ItemTyped ==
  ASSUME NEW b, IsCode(b.clc), NEW lens \in Seq(0 .. MaxBits), NEW item, IsItem(b, item, lens)
  PROVE  /\ item.sym \in 0 .. 18 /\ HasCode(b.clc, item.sym) /\ item.more \in Nat
         /\ item.more \in 0 .. Two[ItemExtra(item)] - 1
         /\ ItemExtra(item) = CASE item.sym < 16 -> 0 [] item.sym = 16 -> 2
                                [] item.sym = 17 -> 3 [] OTHER -> 7
         /\ ItemExtra(item) \in 0 .. 16
         /\ ItemRun(item) = IF item.sym < 16 THEN 1 ELSE IF item.sym < 18 THEN 3 + item.more
                            ELSE 11 + item.more
         /\ ItemRun(item) \in Nat /\ ItemRun(item) > 0
         /\ ItemMeant(lens, item) =
              [i \in 1 .. ItemRun(item) |->
                 IF item.sym < 16 THEN item.sym ELSE IF item.sym = 16 THEN lens[Len(lens)] ELSE 0]
         /\ ItemMeant(lens, item) \in Seq(0 .. MaxBits)
         /\ Len(ItemMeant(lens, item)) = ItemRun(item)
         /\ ItemBits(b, item) \in Seq(Bit)
         /\ Len(ItemBits(b, item)) = b.clc[item.sym + 1] + ItemExtra(item)
         /\ item.sym = 16 => lens # << >>
<1>. DEFINE y == item.sym
            ex == ItemExtra(item)
            more == item.more
            run == ItemRun(item)
            value == IF y < 16 THEN y ELSE IF y = 16 THEN lens[Len(lens)] ELSE 0
<1>1. /\ y \in 0 .. 18 /\ HasCode(b.clc, y) /\ more \in 0 .. Two[ex] - 1
      /\ y = 16 => lens # << >>
  BY ONLY IsItem(b, item, lens) DEF IsItem
<1>2. /\ ex = CASE y < 16 -> 0 [] y = 16 -> 2 [] y = 17 -> 3 [] y = 18 -> 7
      /\ run = CASE y < 16 -> 1 [] y = 18 -> 11 + more [] OTHER -> 3 + more
      /\ ItemMeant(lens, item) = [i \in 1 .. run |-> CASE y < 16 -> y
                                   [] y = 16 -> lens[Len(lens)] [] OTHER -> 0]
      /\ ItemBits(b, item) = CodeBits(b.clc, y) \o Low(more, ex)
  BY DEF ItemExtra, ItemRun, ItemMeant, ItemBits
<1>. HIDE DEF y, ex, more, run
<1>3. ex = CASE y < 16 -> 0 [] y = 16 -> 2 [] y = 17 -> 3 [] OTHER -> 7
  BY ONLY <1>1, <1>2
<1>4. ex \in 0 .. 16
  BY ONLY <1>1, <1>3
<1>5. more \in Nat
  <2>1. Two[ex] \in Nat
    BY ONLY <1>4, TwoType
  <2>. QED
    BY ONLY <1>1, <2>1
<1>6. run = IF y < 16 THEN 1 ELSE IF y < 18 THEN 3 + more ELSE 11 + more
  BY ONLY <1>1, <1>2
<1>7. run \in Nat /\ run > 0
  BY ONLY <1>5, <1>6
<1>8. ItemMeant(lens, item) = [i \in 1 .. run |-> value]
  <2>1. CASE y < 16
    BY ONLY <1>2, <2>1
  <2>2. CASE y = 16
    <3>1. ~(y < 16)
      BY ONLY <2>2
    <3>. QED
      BY ONLY <1>2, <2>2, <3>1
  <2>3. CASE ~(y < 16) /\ ~(y = 16)
    BY ONLY <1>2, <2>3
  <2>. QED
    BY ONLY <2>1, <2>2, <2>3
<1>9. value \in 0 .. MaxBits
  <2>1. CASE y < 16
    BY ONLY <1>1, <2>1 DEF MaxBits
  <2>2. CASE y = 16
    <3>1. Len(lens) \in 1 .. Len(lens)
      <4>1. lens # << >>
        BY ONLY <1>1, <2>2
      <4>. QED
        BY ONLY <4>1, lens \in Seq(0 .. MaxBits)
    <3>2. lens[Len(lens)] \in 0 .. MaxBits
      BY ONLY <3>1, lens \in Seq(0 .. MaxBits), ElementOfSeq
    <3>3. ~(y < 16)
      BY ONLY <2>2
    <3>. QED
      BY ONLY <2>2, <3>2, <3>3
  <2>3. CASE ~(y < 16) /\ ~(y = 16)
    BY ONLY <2>3 DEF MaxBits
  <2>. QED
    BY ONLY <2>1, <2>2, <2>3
<1>10. ItemMeant(lens, item) \in Seq(0 .. MaxBits) /\ Len(ItemMeant(lens, item)) = run
  <2>. HIDE DEF value
  <2>. QED
    BY ONLY <1>7, <1>8, <1>9
<1>11. Low(more, ex) \in Seq(Bit) /\ Len(Low(more, ex)) = ex
  BY ONLY <1>4, <1>5, LowSeq
<1>12. CodeBits(b.clc, y) \in Seq(Bit) /\ Len(CodeBits(b.clc, y)) = b.clc[y + 1]
  BY ONLY IsCode(b.clc), <1>1, CodeFits
<1>13. ItemBits(b, item) \in Seq(Bit) /\ Len(ItemBits(b, item)) = b.clc[y + 1] + ex
  <2>. DEFINE cb == CodeBits(b.clc, y)
              lb == Low(more, ex)
  <2>1. ItemBits(b, item) = cb \o lb
    BY <1>2
  <2>2. cb \in Seq(Bit) /\ Len(cb) = b.clc[y + 1] /\ lb \in Seq(Bit) /\ Len(lb) = ex
    BY <1>11, <1>12
  <2>. HIDE DEF cb, lb
  <2>3. cb \o lb \in Seq(Bit) /\ Len(cb \o lb) = Len(cb) + Len(lb)
    BY ONLY <2>2, ConcatBits
  <2>. QED
    BY ONLY <2>1, <2>2, <2>3
<1>. QED
  BY ONLY <1>1, <1>3, <1>4, <1>5, <1>6, <1>7, <1>8, <1>10, <1>13 DEF y, ex, more, run

\* A turn of the loop over the code lengths.
LEMMA LensStep ==
  ASSUME NEW b, IsCode(b.clc), NEW lens \in Seq(0 .. MaxBits), NEW item, IsItem(b, item, lens),
         NEW src, Len(src) \in Nat, NEW pos \in Nat, NEW out, NEW last, NEW nlit, NEW total \in Nat,
         HasBits(src, pos, ItemBits(b, item)), Len(lens) + ItemRun(item) <= total,
         LET end == pos + Len(ItemBits(b, item))
         IN 8 * Len(src) \notin end - ItemExtra(item) .. end - 1
  PROVE  LET end == pos + Len(ItemBits(b, item))
             At(n, l) == AtLens(n, out, last, HuffBuild(b.clc), nlit, total, l)
         IN LensTurn(src, At(pos, lens)) =
              IF end <= 8 * Len(src) THEN At(end, lens \o ItemMeant(lens, item)) ELSE Ended(Fail)
<1>. DEFINE clc == HuffBuild(b.clc)
            At(n, l) == AtLens(n, out, last, clc, nlit, total, l)
            p == At(pos, lens)
            s == HuffDec(clc, src, pos)
            z == s.sym
            y == item.sym
            ex == ItemExtra(item)
            more == item.more
            run == ItemRun(item)
            ln == b.clc[y + 1]
            code == CodeBits(b.clc, y)
            low == Low(more, ex)
            bits == ItemBits(b, item)
            end == pos + Len(bits)
            N == 8 * Len(src)
            p1 == pos + ln
            turn == LensTurn(src, p)
            extra == CASE z = 16 -> 2 [] z = 17 -> 3 [] z = 18 -> 7 [] OTHER -> 0
            got == BrBits(src, s.pos, extra)
            n == IF z < 16 THEN 1 ELSE IF z < 18 THEN 3 + got ELSE 11 + got
            value == IF z < 16 THEN z ELSE IF z = 16 THEN lens[Len(lens)] ELSE 0
            meant == ItemMeant(lens, item)
<1>1. /\ y \in 0 .. 18 /\ HasCode(b.clc, y) /\ more \in Nat
      /\ more \in 0 .. Two[ex] - 1
      /\ ex = CASE y < 16 -> 0 [] y = 16 -> 2 [] y = 17 -> 3 [] OTHER -> 7
      /\ ex \in 0 .. 16
      /\ run = IF y < 16 THEN 1 ELSE IF y < 18 THEN 3 + more ELSE 11 + more
      /\ run \in Nat /\ run > 0
      /\ meant = [i \in 1 .. run |-> IF y < 16 THEN y ELSE IF y = 16 THEN lens[Len(lens)] ELSE 0]
      /\ Len(bits) = ln + ex /\ (y = 16 => lens # << >>)
  BY ONLY IsCode(b.clc), lens \in Seq(0 .. MaxBits), IsItem(b, item, lens), ItemTyped
<1>2. code \in Seq(Bit) /\ Len(code) = ln /\ ln \in Nat /\ ln > 0
  <2>1. ln \in 1 .. MaxBits /\ code \in Seq(Bit) /\ Len(code) = ln
    BY ONLY IsCode(b.clc), <1>1, CodeFits
  <2>. HIDE DEF ln, code
  <2>. QED
    BY ONLY <2>1 DEF MaxBits
<1>3. low \in Seq(Bit) /\ Len(low) = ex
  <2>1. more \in Nat /\ ex \in 0 .. 16
    BY <1>1
  <2>. HIDE DEF more, ex
  <2>. QED
    BY ONLY <2>1, LowSeq
<1>4. bits = code \o low
  BY DEF ItemBits
<1>5. N \in Nat /\ Len(lens) \in Nat
  OBVIOUS
<1>6. p.clc = clc /\ p.pos = pos /\ p.out = out /\ p.last = last /\ p.nlit = nlit /\ p.total = total
      /\ p.lens = lens
  BY DEF AtLens
<1>7. ~(Len(lens) >= total) /\ Len(lens) + run <= total /\ N \notin end - ex .. end - 1
  <2>1. Len(lens) + run <= total /\ N \notin end - ex .. end - 1
    OBVIOUS
  <2>. HIDE DEF run, N, end, ex
  <2>. QED
    BY <1>1, <1>5, <2>1
<1>8. turn = IF z = -1 \/ (z = 16 /\ lens = << >>) \/ Len(lens) + n > total THEN Ended(Fail)
             ELSE At(BrPos(src, s.pos, extra), lens \o [i \in 1 .. n |-> value])
  <2>. HIDE DEF p, clc
  <2>. DEFINE lit == HuffBuild(SubSeq(p.lens, 1, p.nlit))
              dist == HuffBuild(SubSeq(p.lens, p.nlit + 1, p.total))
              s2 == HuffDec(p.clc, src, p.pos)
              extra2 == CASE s2.sym = 16 -> 2 [] s2.sym = 17 -> 3 [] s2.sym = 18 -> 7 [] OTHER -> 0
              more2 == BrBits(src, s2.pos, extra2)
              n2 == IF s2.sym < 16 THEN 1 ELSE IF s2.sym < 18 THEN 3 + more2 ELSE 11 + more2
              value2 == IF s2.sym < 16 THEN s2.sym ELSE IF s2.sym = 16 THEN p.lens[Len(p.lens)] ELSE 0
  <2>1. turn = IF Len(p.lens) >= p.total
               THEN IF lit.ok /\ dist.ok THEN AtCodes(p.pos, p.out, p.last, lit, dist) ELSE Ended(Fail)
               ELSE IF s2.sym = -1 \/ (s2.sym = 16 /\ p.lens = << >>) \/ Len(p.lens) + n2 > p.total
               THEN Ended(Fail)
               ELSE AtLens(BrPos(src, s2.pos, extra2), p.out, p.last, p.clc, p.nlit, p.total,
                           p.lens \o [i \in 1 .. n2 |-> value2])
    BY DEF LensTurn
  <2>. HIDE DEF turn, lit, dist
  <2>2. s2 = s
    BY <1>6
  <2>. HIDE DEF s, s2
  <2>3. extra2 = extra /\ more2 = got /\ n2 = n /\ value2 = value
    <3>1. extra2 = extra
      BY ONLY <2>2 DEF extra, extra2, z
    <3>. HIDE DEF extra, extra2
    <3>2. more2 = got
      BY ONLY <2>2, <3>1
    <3>. HIDE DEF more2, got
    <3>3. n2 = n
      BY ONLY <2>2, <3>2
    <3>4. value2 = value
      BY ONLY <1>6, <2>2
    <3>. QED
      BY <3>1, <3>2, <3>3, <3>4
  <2>4. s2.sym = z
    BY <2>2
  <2>. HIDE DEF extra, extra2, more2, got, n2, n, value2, value, z
  <2>. QED
    BY ONLY <1>6, <1>7, <2>1, <2>2, <2>3, <2>4
<1>. HIDE DEF turn, y, ex, more, run, ln, code, low, bits, clc, N, p1, z, s, p, At, meant
<1>9. HasBits(src, pos, code) /\ HasBits(src, p1, low)
  <2>1. HasBits(src, pos, code \o low)
    BY <1>4 DEF bits
  <2>2. HasBits(src, pos, code) /\ HasBits(src, pos + Len(code), low)
    BY ONLY <1>2, <1>3, <2>1, pos \in Nat, HasConcat
  <2>. QED
    BY <1>2, <2>2 DEF p1
<1>10. IF p1 <= N THEN z = y /\ s.pos = p1 ELSE z = -1
  <2>1. HasBits(src, pos, CodeBits(b.clc, y))
    BY <1>9 DEF code
  <2>2. IF pos + ln <= N THEN s = [sym |-> y, pos |-> pos + ln] ELSE s.sym = -1
    BY ONLY IsCode(b.clc), <1>1, <2>1, Len(src) \in Nat, pos \in Nat, Decode DEF s, clc, N, ln
  <2>. QED
    BY ONLY <2>2 DEF p1, z
<1>11. p1 \in Nat /\ end = p1 + ex /\ end \in Nat
  <2>1. Len(bits) = ln + ex /\ ex \in Nat /\ ln \in Nat
    BY ONLY <1>1, <1>2
  <2>2. end = pos + (ln + ex)
    BY ONLY <2>1
  <2>. HIDE DEF end
  <2>. QED
    BY ONLY <2>1, <2>2, pos \in Nat DEF p1
<1>12. CASE p1 <= N
  <2>1. end <= N
    <3>1. N \notin end - ex .. end - 1 /\ ex \in Nat /\ N \in Nat
      BY ONLY <1>1, <1>5, <1>7
    <3>. HIDE DEF end
    <3>. QED
      BY ONLY <1>11, <1>12, <3>1
  <2>2. z = y /\ s.pos = p1
    BY ONLY <1>10, <1>12
  <2>3. extra = ex
    <3>1. y \in 0 .. 18 /\ ex = CASE y < 16 -> 0 [] y = 16 -> 2 [] y = 17 -> 3 [] OTHER -> 7
      BY ONLY <1>1
    <3>2. z \in 0 .. 18 /\ ex = CASE z < 16 -> 0 [] z = 16 -> 2 [] z = 17 -> 3 [] OTHER -> 7
      BY ONLY <2>2, <3>1
    <3>3. CASE z < 16
      BY ONLY <3>2, <3>3
    <3>4. CASE ~(z < 16)
      <4>1. z = 16 \/ z = 17 \/ z = 18
        BY ONLY <3>2, <3>4
      <4>. QED
        BY ONLY <3>2, <4>1
    <3>. QED
      BY ONLY <3>3, <3>4
  <2>. HIDE DEF extra
  <2>4. got = more
    <3>1. BrBits(src, p1, ex) = more
      BY ONLY <1>1, <1>9, <1>11, <2>1, Len(src) \in Nat, BrRight DEF low, N
    <3>. QED
      BY ONLY <2>2, <2>3, <3>1
  <2>. HIDE DEF got
  <2>5. n = run
    BY ONLY <1>1, <2>2, <2>4
  <2>. HIDE DEF n
  <2>6. [i \in 1 .. n |-> value] = meant
    BY ONLY <1>1, <2>2, <2>5
  <2>7. BrPos(src, s.pos, extra) = end
    <3>1. ~(p1 + ex > 8 * Len(src))
      BY ONLY <1>5, <1>11, <2>1 DEF N
    <3>2. BrPos(src, p1, ex) = p1 + ex
      BY ONLY <3>1 DEF BrPos
    <3>. QED
      BY ONLY <1>11, <2>2, <2>3, <3>2
  <2>8. ~(z = -1) /\ ~(z = 16 /\ lens = << >>) /\ ~(Len(lens) + n > total)
    <3>1. ~(z = -1) /\ ~(z = 16 /\ lens = << >>)
      <4>1. z \in 0 .. 18 /\ (z = 16 => lens # << >>)
        BY ONLY <1>1, <2>2
      <4>. HIDE DEF z
      <4>. QED
        BY ONLY <4>1
    <3>2. ~(Len(lens) + n > total)
      BY ONLY <1>1, <1>5, <1>7, <2>5, total \in Nat
    <3>. QED
      BY ONLY <3>1, <3>2
  <2>. DEFINE ran == [i \in 1 .. n |-> value]
              at == BrPos(src, s.pos, extra)
  <2>9. turn = At(at, lens \o ran)
    BY ONLY <1>8, <2>8
  <2>10. ran = meant /\ at = end
    BY <2>6, <2>7
  <2>. HIDE DEF ran, at
  <2>11. turn = At(end, lens \o meant)
    BY ONLY <2>9, <2>10
  <2>. QED
    BY ONLY <2>1, <2>11 DEF turn, At, p, meant, N, bits, clc
<1>13. CASE ~(p1 <= N)
  <2>1. z = -1
    BY ONLY <1>10, <1>13
  <2>2. ~(end <= N)
    BY ONLY <1>1, <1>5, <1>11, <1>13
  <2>3. turn = Ended(Fail)
    BY ONLY <1>8, <2>1
  <2>. QED
    BY ONLY <2>2, <2>3 DEF turn, At, p, meant, N, bits, clc
<1>. QED
  BY <1>12, <1>13

\* A sequence cut where another was appended to it.
LEMMA TwoParts ==
  ASSUME NEW T, NEW a \in Seq(T), NEW c \in Seq(T)
  PROVE  /\ SubSeq(a \o c, 1, Len(a)) = a
         /\ SubSeq(a \o c, Len(a) + 1, Len(a) + Len(c)) = c
<1>. DEFINE ac == a \o c
            m == Len(a)
            n == Len(c)
<1>1. m \in Nat /\ n \in Nat
  OBVIOUS
<1>2. ac \in Seq(T) /\ Len(ac) = m + n /\ (\A i \in 1 .. m : ac[i] = a[i])
      /\ \A i \in 1 .. n : ac[m + i] = c[i]
  OBVIOUS
<1>. HIDE DEF ac
<1>3. SubSeq(ac, 1, m) \in Seq(T) /\ Len(SubSeq(ac, 1, m)) = m
      /\ \A i \in 1 .. m : SubSeq(ac, 1, m)[i] = ac[i]
  BY <1>1, <1>2
<1>4. SubSeq(ac, 1, m) = a
  BY <1>2, <1>3
<1>5. SubSeq(ac, m + 1, m + n) \in Seq(T) /\ Len(SubSeq(ac, m + 1, m + n)) = n
      /\ \A i \in 1 .. n : SubSeq(ac, m + 1, m + n)[i] = ac[m + i]
  BY <1>1, <1>2
<1>6. SubSeq(ac, m + 1, m + n) = c
  <2>1. \A i \in 1 .. n : SubSeq(ac, m + 1, m + n)[i] = c[i]
    BY ONLY <1>2, <1>5
  <2>. DEFINE cut == SubSeq(ac, m + 1, m + n)
  <2>2. cut \in Seq(T) /\ Len(cut) = Len(c) /\ \A i \in 1 .. Len(c) : cut[i] = c[i]
    BY ONLY <1>5, <2>1
  <2>. HIDE DEF cut
  <2>3. cut = c
    BY ONLY <2>2, c \in Seq(T)
  <2>. QED
    BY <2>3 DEF cut
<1>. QED
  BY <1>4, <1>6 DEF ac

\* The code lengths are all there: the codes of the block.
LEMMA LensEnd ==
  ASSUME NEW lit, IsCode(lit), NEW dist, IsCode(dist), NEW src, NEW pos, NEW out, NEW last, NEW clc
  PROVE  LensTurn(src, AtLens(pos, out, last, clc, Len(lit), Len(lit) + Len(dist), lit \o dist)) =
           AtCodes(pos, out, last, HuffBuild(lit), HuffBuild(dist))
<1>. DEFINE lens == lit \o dist
            nlit == Len(lit)
            total == Len(lit) + Len(dist)
            p == AtLens(pos, out, last, clc, nlit, total, lens)
<1>1. p.pos = pos /\ p.out = out /\ p.last = last /\ p.nlit = nlit /\ p.total = total
      /\ p.lens = lens
  BY DEF AtLens
<1>2. lit \in Seq(0 .. MaxBits) /\ dist \in Seq(0 .. MaxBits)
  BY DEF IsCode
<1>3. SubSeq(lens, 1, nlit) = lit /\ SubSeq(lens, nlit + 1, total) = dist
  BY ONLY <1>2, TwoParts
<1>4. Len(lens) >= total
  BY ONLY <1>2
<1>5. HuffBuild(lit).ok /\ HuffBuild(dist).ok
  BY BuildOk
<1>. HIDE DEF p, lens, nlit, total
<1>6. LensTurn(src, p) = AtCodes(p.pos, p.out, p.last, HuffBuild(SubSeq(p.lens, 1, p.nlit)),
                                 HuffBuild(SubSeq(p.lens, p.nlit + 1, p.total)))
  <2>1. /\ Len(p.lens) >= p.total /\ HuffBuild(SubSeq(p.lens, 1, p.nlit)).ok
        /\ HuffBuild(SubSeq(p.lens, p.nlit + 1, p.total)).ok
    BY ONLY <1>1, <1>3, <1>4, <1>5
  <2>. QED
    BY ONLY <2>1 DEF LensTurn
<1>. QED
  BY <1>1, <1>3, <1>6 DEF p, nlit, total, lens

\* The codes of huff_fixed are those of the definition.
LEMMA FixedIs == FixedLit = HuffBuild(LitLens) /\ FixedDist = HuffBuild(DistLens)
<1>. DEFINE f == [i \in 1 .. 288 |-> IF i <= 144 THEN 8 ELSE IF i <= 256 THEN 9
                                     ELSE IF i <= 280 THEN 7 ELSE 8]
<1>1. ASSUME NEW i \in 1 .. 288 PROVE f[i] = LitLens[i]
  <2>1. LitLens[i] = CASE i - 1 \in 0 .. 143 \cup 280 .. 287 -> 8
                       [] i - 1 \in 144 .. 255 -> 9 [] OTHER -> 7
    BY DEF LitLens
  <2>2. CASE i <= 144
    <3>1. i - 1 \in 0 .. 143 \cup 280 .. 287 /\ ~(i - 1 \in 144 .. 255)
      BY <2>2
    <3>. QED
      BY <2>1, <2>2, <3>1
  <2>3. CASE i > 144 /\ i <= 256
    <3>1. ~(i - 1 \in 0 .. 143 \cup 280 .. 287) /\ i - 1 \in 144 .. 255 /\ ~(i <= 144)
      BY <2>3
    <3>. QED
      BY <2>1, <2>3, <3>1
  <2>4. CASE i > 256 /\ i <= 280
    <3>1. ~(i - 1 \in 0 .. 143 \cup 280 .. 287) /\ ~(i - 1 \in 144 .. 255) /\ ~(i <= 144) /\ ~(i <= 256)
      BY <2>4
    <3>. QED
      BY <2>1, <2>4, <3>1
  <2>5. CASE i > 280
    <3>1. i - 1 \in 0 .. 143 \cup 280 .. 287 /\ ~(i - 1 \in 144 .. 255) /\ ~(i <= 144) /\ ~(i <= 256)
          /\ ~(i <= 280)
      BY <2>5
    <3>. QED
      BY <2>1, <3>1
  <2>. QED
    BY <2>2, <2>3, <2>4, <2>5
<1>2. f = LitLens
  <2>. DEFINE g == LitLens
  <2>1. f = [i \in 1 .. 288 |-> f[i]] /\ g = [i \in 1 .. 288 |-> g[i]]
    BY DEF LitLens
  <2>2. \A i \in 1 .. 288 : f[i] = g[i]
    BY <1>1
  <2>. HIDE DEF f, g
  <2>. QED
    BY ONLY <2>1, <2>2 DEF g
<1>. QED
  BY <1>2 DEF FixedLit, FixedDist, DistLens

-----------------------------------------------------------------------------
(* Heads of blocks: stored, with fixed codes and with codes of their own.   *)

\* The three bits a block begins with.
LEMMA BlockHead ==
  ASSUME NEW src, Len(src) \in Nat, NEW cap, NEW pos \in Nat, NEW out,
         NEW last \in Bit, NEW type \in 0 .. 2, NEW rest \in Seq(Bit),
         HasBits(src, pos, (<< last >> \o Low(type, 2)) \o rest)
  PROVE  /\ HasBits(src, pos + 3, rest)
         /\ BlockTurn(src, cap, AtBlock(pos, out)) =
              IF pos + 3 <= 8 * Len(src)
              THEN IF type = 0 THEN Stored(src, cap, pos + 3, out, last)
                   ELSE IF type = 1 THEN AtCodes(pos + 3, out, last, FixedLit, FixedDist)
                   ELSE Dynamic(src, pos + 3, out, last)
              ELSE Ended(Fail)
<1>. DEFINE one == << last >>
            low == Low(type, 2)
            p == AtBlock(pos, out)
            N == 8 * Len(src)
            got == BrBits(src, pos + 1, 2)
            final == BrBits(src, pos, 1)
            turn == BlockTurn(src, cap, p)
<1>1. one \in Seq(Bit) /\ Len(one) = 1
  OBVIOUS
<1>2. low \in Seq(Bit) /\ Len(low) = 2
  <2>1. type \in Nat /\ 2 \in 0 .. 16
    OBVIOUS
  <2>. QED
    BY ONLY <2>1, LowSeq
<1>3. one = Low(last, 1)
  <2>1. Low(last, 1) = [i \in 1 .. 1 |-> (last \div Two[i - 1]) % 2]
    BY DEF Low
  <2>2. (last \div Two[0]) % 2 = last
    <3>1. last = 0 \/ last = 1
      BY DEF Bit
    <3>2. (0 \div 1) % 2 = 0 /\ (1 \div 1) % 2 = 1
      OBVIOUS
    <3>. QED
      <4>1. Two[0] = 1
        BY TwoIs
      <4>2. CASE last = 0
        BY ONLY <3>2, <4>1, <4>2
      <4>3. CASE last = 1
        BY ONLY <3>2, <4>1, <4>3
      <4>. QED
        BY ONLY <3>1, <4>2, <4>3
  <2>3. Low(last, 1) \in Seq(Bit) /\ Len(Low(last, 1)) = 1
    <3>1. last \in Nat /\ 1 \in 0 .. 16
      BY DEF Bit
    <3>. QED
      BY ONLY <3>1, LowSeq
  <2>4. Low(last, 1)[1] = last
    <3>1. 1 \in 1 .. 1 /\ 1 - 1 = 0
      OBVIOUS
    <3>2. Low(last, 1)[1] = (last \div Two[1 - 1]) % 2
      BY ONLY <2>1, <3>1
    <3>. QED
      BY ONLY <2>2, <3>1, <3>2
  <2>. QED
    BY ONLY <2>3, <2>4
<1>. HIDE DEF one, low
<1>4. HasBits(src, pos, one \o low) /\ HasBits(src, pos + 3, rest)
  <2>1. one \o low \in Seq(Bit) /\ Len(one \o low) = 3
    <3>1. one \o low \in Seq(Bit) /\ Len(one \o low) = Len(one) + Len(low)
      <4>1. one \in Seq(Bit) /\ low \in Seq(Bit)
        BY ONLY <1>1, <1>2
      <4>. QED
        BY ONLY <4>1
    <3>. QED
      <4>1. Len(one) = 1 /\ Len(low) = 2
        BY ONLY <1>1, <1>2
      <4>2. Len(one) + Len(low) = 3
        BY ONLY <4>1
      <4>. QED
        BY ONLY <3>1, <4>2
  <2>2. HasBits(src, pos, (one \o low) \o rest)
    BY DEF one, low
  <2>3. HasBits(src, pos, one \o low) /\ HasBits(src, pos + Len(one \o low), rest)
    BY ONLY <2>1, <2>2, rest \in Seq(Bit), pos \in Nat, HasConcat
  <2>. QED
    BY ONLY <2>1, <2>3
<1>5. HasBits(src, pos, one) /\ HasBits(src, pos + 1, low)
  BY ONLY <1>1, <1>2, <1>4, pos \in Nat, HasConcat
<1>6. p.pos = pos /\ p.out = out
  BY DEF AtBlock
<1>7. turn = CASE got = 0 -> Stored(src, cap, pos + 3, out, final)
               [] got = 1 -> AtCodes(pos + 3, out, final, FixedLit, FixedDist)
               [] got = 2 -> Dynamic(src, pos + 3, out, final)
               [] OTHER -> Ended(Fail)
  <2>. HIDE DEF p
  <2>. QED
    BY <1>6 DEF BlockTurn
<1>8. N \in Nat
  OBVIOUS
<1>9. CASE pos + 3 <= N
  <2>1. final = last
    <3>1. pos + 1 <= N
      BY <1>9
    <3>2. last \in 0 .. Two[1] - 1 /\ 1 \in 0 .. 16
      BY TwoIs DEF Bit
    <3>3. HasBits(src, pos, Low(last, 1))
      BY <1>3, <1>5
    <3>. QED
      BY ONLY <3>1, <3>2, <3>3, pos \in Nat, Len(src) \in Nat, BrRight
  <2>2. got = type
    <3>1. (pos + 1) + 2 <= N /\ pos + 1 \in Nat
      BY <1>9
    <3>2. type \in 0 .. Two[2] - 1 /\ 2 \in 0 .. 16
      BY TwoIs
    <3>3. HasBits(src, pos + 1, Low(type, 2))
      BY <1>5 DEF low
    <3>. QED
      BY ONLY <3>1, <3>2, <3>3, Len(src) \in Nat, BrRight
  <2>. HIDE DEF got, final, turn, N
  <2>3. turn = IF type = 0 THEN Stored(src, cap, pos + 3, out, last)
               ELSE IF type = 1 THEN AtCodes(pos + 3, out, last, FixedLit, FixedDist)
               ELSE Dynamic(src, pos + 3, out, last)
    BY ONLY <1>7, <2>1, <2>2, type \in 0 .. 2
  <2>. QED
    BY ONLY <1>4, <1>9, <2>3 DEF turn, p, N
<1>10. CASE ~(pos + 3 <= N)
  <2>1. got = -1
    <3>1. (pos + 1) + 2 > N
      BY <1>8, <1>10
    <3>. QED
      BY <3>1 DEF BrBits
  <2>. HIDE DEF got, final, turn, N
  <2>2. turn = Ended(Fail)
    BY ONLY <1>7, <2>1
  <2>. QED
    BY ONLY <1>4, <1>10, <2>2 DEF turn, p, N
<1>. QED
  BY <1>9, <1>10

\* The length of a stored block in two bytes.
LEMMA HalfIs ==
  ASSUME NEW n \in Nat, n <= 65535
  PROVE  Half(n) \in Seq(Bytes) /\ Len(Half(n)) = 2 /\ Half(n)[1] + 256 * Half(n)[2] = n
<1>1. n \div 256 \in Nat /\ n % 256 \in Nat /\ n % 256 < 256 /\ n = 256 * (n \div 256) + (n % 256)
  BY Division
<1>2. n \div 256 < 256
  BY <1>1
<1>3. Half(n) = << n % 256, n \div 256 >>
  BY DEF Half
<1>. QED
  BY <1>1, <1>2, <1>3 DEF Bytes

\* The bits up to a whole byte.
LEMMA PaddingIs ==
  ASSUME NEW n \in Nat
  PROVE  /\ Padding(n) \in Seq(Bit) /\ (n + 7) \div 8 \in Nat
         /\ n + Len(Padding(n)) = 8 * ((n + 7) \div 8)
<1>. DEFINE at == (n + 7) \div 8
            m == 8 * at - n
<1>1. at \in Nat /\ 8 * at >= n /\ 8 * at <= n + 7
  OBVIOUS
<1>2. Padding(n) = [i \in 1 .. m |-> 0]
  BY DEF Padding
<1>. HIDE DEF at
<1>3. m \in Nat /\ n + m = 8 * at
  BY <1>1
<1>. HIDE DEF m
<1>4. Padding(n) \in Seq(Bit) /\ Len(Padding(n)) = m
  BY <1>2, <1>3 DEF Bit
<1>. QED
  BY <1>1, <1>3, <1>4 DEF at

\* What a stored block is after its header.
StoredValue(bytes) == (Half(Len(bytes)) \o Half(65535 - Len(bytes))) \o bytes
StoredBits(bytes, q) == Padding(q) \o Each(StoredValue(bytes), 8)

\* Its bytes: the length, its complement and the block's own.
LEMMA StoredValueIs ==
  ASSUME NEW bytes \in Seq(Bytes), Len(bytes) < Two[16]
  PROVE  /\ StoredValue(bytes) \in Seq(Bytes) /\ Len(StoredValue(bytes)) = 4 + Len(bytes)
         /\ StoredValue(bytes)[1] + 256 * StoredValue(bytes)[2] = Len(bytes)
         /\ StoredValue(bytes)[3] + 256 * StoredValue(bytes)[4] = 65535 - Len(bytes)
         /\ \A i \in 1 .. Len(bytes) : StoredValue(bytes)[4 + i] = bytes[i]
<1>. DEFINE n == Len(bytes)
            ha == Half(n)
            hb == Half(65535 - n)
            v == (ha \o hb) \o bytes
<1>1. n \in Nat /\ n <= 65535
  <2>1. Two[16] = 65536
    BY TwoIs
  <2>. QED
    BY <2>1
<1>2. ha \in Seq(Bytes) /\ Len(ha) = 2 /\ ha[1] + 256 * ha[2] = n
  <2>. HIDE DEF n
  <2>1. n \in Nat /\ n <= 65535
    BY ONLY <1>1
  <2>. QED
    BY ONLY <2>1, HalfIs
<1>3. hb \in Seq(Bytes) /\ Len(hb) = 2 /\ hb[1] + 256 * hb[2] = 65535 - n
  <2>. HIDE DEF n
  <2>. DEFINE m == 65535 - n
  <2>1. m \in Nat /\ m <= 65535
    BY ONLY <1>1
  <2>. HIDE DEF m
  <2>2. Half(m) \in Seq(Bytes) /\ Len(Half(m)) = 2 /\ Half(m)[1] + 256 * Half(m)[2] = m
    BY ONLY <2>1, HalfIs
  <2>. QED
    BY ONLY <2>2 DEF m
<1>. HIDE DEF ha, hb
<1>4. v \in Seq(Bytes) /\ Len(v) = 4 + n /\ v[1] = ha[1] /\ v[2] = ha[2] /\ v[3] = hb[1] /\ v[4] = hb[2]
      /\ \A i \in 1 .. n : v[4 + i] = bytes[i]
  <2>. DEFINE w == ha \o hb
  <2>a. ha \in Seq(Bytes) /\ hb \in Seq(Bytes)
    BY ONLY <1>2, <1>3
  <2>b. Len(ha) = 2 /\ Len(hb) = 2
    BY ONLY <1>2, <1>3
  <2>c. w \in Seq(Bytes) /\ Len(w) = Len(ha) + Len(hb) /\ (\A i \in 1 .. Len(ha) : w[i] = ha[i])
        /\ \A i \in 1 .. Len(hb) : w[Len(ha) + i] = hb[i]
    BY ONLY <2>a
  <2>. HIDE DEF w
  <2>1. w \in Seq(Bytes) /\ Len(w) = 4 /\ w[1] = ha[1] /\ w[2] = ha[2] /\ w[3] = hb[1] /\ w[4] = hb[2]
    <3>1. 1 \in 1 .. 2 /\ 2 \in 1 .. 2 /\ 2 + 1 = 3 /\ 2 + 2 = 4
      OBVIOUS
    <3>. QED
      BY ONLY <2>b, <2>c, <3>1
  <2>2. w \o bytes \in Seq(Bytes) /\ Len(w \o bytes) = Len(w) + Len(bytes)
        /\ (\A i \in 1 .. Len(w) : (w \o bytes)[i] = w[i])
        /\ \A i \in 1 .. Len(bytes) : (w \o bytes)[Len(w) + i] = bytes[i]
    BY ONLY <2>c, bytes \in Seq(Bytes)
  <2>3. v = w \o bytes
    BY DEF w
  <2>. HIDE DEF v
  <2>4. 1 \in 1 .. 4 /\ 2 \in 1 .. 4 /\ 3 \in 1 .. 4 /\ 4 \in 1 .. 4
    OBVIOUS
  <2>. QED
    BY ONLY <2>1, <2>2, <2>3, <2>4
<1>5. StoredValue(bytes) = v
  BY DEF StoredValue, v, n, ha, hb
<1>. HIDE DEF v
<1>6. v[1] + 256 * v[2] = n /\ v[3] + 256 * v[4] = 65535 - n
  BY ONLY <1>2, <1>3, <1>4
<1>. QED
  BY ONLY <1>4, <1>5, <1>6 DEF n

\* Its bits end at a byte of the source.
LEMMA StoredLen ==
  ASSUME NEW bytes \in Seq(Bytes), Len(bytes) < Two[16], NEW q \in Nat
  PROVE  /\ Padding(q) \in Seq(Bit) /\ (q + 7) \div 8 \in Nat
         /\ q + Len(Padding(q)) = 8 * ((q + 7) \div 8)
         /\ Each(StoredValue(bytes), 8) \in Seq(Bit) /\ StoredBits(bytes, q) \in Seq(Bit)
         /\ q + Len(StoredBits(bytes, q)) = 8 * ((q + 7) \div 8 + 4 + Len(bytes))
<1>. DEFINE n == Len(bytes)
            v == StoredValue(bytes)
            pad == Padding(q)
            each == Each(v, 8)
            bits == pad \o each
            end == q + Len(bits)
            at == (q + 7) \div 8
<1>1. n \in Nat
  OBVIOUS
<1>4. v \in Seq(Bytes) /\ Len(v) = 4 + n
  BY ONLY bytes \in Seq(Bytes), Len(bytes) < Two[16], StoredValueIs
<1>5. pad \in Seq(Bit) /\ at \in Nat /\ q + Len(pad) = 8 * at
  BY PaddingIs
<1>. HIDE DEF v, pad, at, n
<1>6. v \in Seq(Nat)
  BY ONLY <1>4, BytesAreNat
<1>7. each \in Seq(Bit) /\ Len(each) = 8 * (4 + n)
  <2>1. 8 \in 1 .. 16
    OBVIOUS
  <2>2. each \in Seq(Bit) /\ Len(each) = 8 * Len(v)
    BY ONLY <1>6, <2>1, EachSeq
  <2>. QED
    BY ONLY <1>4, <2>2
<1>. HIDE DEF each
<1>10. bits \in Seq(Bit) /\ end = 8 * (at + 4 + n)
  <2>1. bits \in Seq(Bit) /\ Len(bits) = Len(pad) + Len(each)
    <3>1. pad \in Seq(Bit) /\ each \in Seq(Bit)
      BY ONLY <1>5, <1>7
    <3>. QED
      BY ONLY <3>1
  <2>. HIDE DEF bits
  <2>2. Len(bits) \in Int /\ Len(pad) \in Int /\ Len(each) = 8 * (4 + n)
    BY ONLY <1>5, <1>7, <2>1
  <2>3. q + Len(bits) = (q + Len(pad)) + Len(each)
    BY ONLY <1>1, <2>1, <2>2, q \in Nat
  <2>. QED
    <3>1. q + Len(pad) = 8 * at /\ at \in Nat /\ n \in Nat
      BY ONLY <1>1, <1>5
    <3>2. end = 8 * (at + 4 + n)
      <4>. DEFINE a == Len(pad)
                  e == Len(each)
                  t == Len(bits)
      <4>1. t \in Int /\ a \in Int /\ e = 8 * (4 + n) /\ q + t = (q + a) + e /\ q + a = 8 * at
        BY ONLY <2>2, <2>3, <3>1
      <4>. HIDE DEF a, e, t
      <4>2. q + t = 8 * (at + 4 + n)
        BY ONLY <3>1, <4>1, q \in Nat
      <4>. QED
        BY ONLY <4>2 DEF t
    <3>. QED
      BY ONLY <2>1, <3>2
<1>11. StoredBits(bytes, q) = bits
  BY DEF StoredBits, bits, pad, each, v
<1>. HIDE DEF bits, end
<1>12. StoredBits(bytes, q) \in Seq(Bit) /\ q + Len(StoredBits(bytes, q)) = 8 * (at + 4 + n)
  BY ONLY <1>10, <1>11 DEF end
<1>13. each \in Seq(Bit)
  BY ONLY <1>7
<1>. QED
  BY ONLY <1>5, <1>12, <1>13 DEF at, n, pad, each, v

\* A block of bytes: they are kept, if all are there and there is room.
LEMMA StoredStep ==
  ASSUME NEW bytes \in Seq(Bytes), Len(bytes) < Two[16], NEW src \in Seq(Bytes), NEW cap \in Nat,
         NEW q \in Nat, NEW out \in Seq(Bytes), NEW last,
         HasBits(src, q, StoredBits(bytes, q))
  PROVE  LET end == q + Len(StoredBits(bytes, q))
         IN Stored(src, cap, q, out, last) =
              IF end <= 8 * Len(src) /\ Len(out \o bytes) <= cap
              THEN AfterBlock(end, out \o bytes, last) ELSE Ended(Fail)
<1>. DEFINE n == Len(bytes)
            v == StoredValue(bytes)
            pad == Padding(q)
            each == Each(v, 8)
            bits == pad \o each
            end == q + Len(bits)
            at == (q + 7) \div 8
            N == Len(src)
            two == src[at + 1] + 256 * src[at + 2]
            four == src[at + 3] + 256 * src[at + 4]
            turn == Stored(src, cap, q, out, last)
<1>1. n \in Nat /\ N \in Nat /\ Len(out) \in Nat
  OBVIOUS
<1>4. /\ v \in Seq(Bytes) /\ Len(v) = 4 + n
      /\ v[1] + 256 * v[2] = n /\ v[3] + 256 * v[4] = 65535 - n
      /\ \A i \in 1 .. n : v[4 + i] = bytes[i]
      /\ pad \in Seq(Bit) /\ at \in Nat /\ q + Len(pad) = 8 * at
      /\ each \in Seq(Bit) /\ bits \in Seq(Bit) /\ end = 8 * (at + 4 + n)
  <2>1. StoredBits(bytes, q) = bits
    BY DEF StoredBits
  <2>2. /\ v \in Seq(Bytes) /\ Len(v) = 4 + n
        /\ v[1] + 256 * v[2] = n /\ v[3] + 256 * v[4] = 65535 - n
        /\ \A i \in 1 .. n : v[4 + i] = bytes[i]
    BY ONLY bytes \in Seq(Bytes), Len(bytes) < Two[16], StoredValueIs
  <2>4. /\ pad \in Seq(Bit) /\ at \in Nat /\ q + Len(pad) = 8 * at
        /\ each \in Seq(Bit) /\ StoredBits(bytes, q) \in Seq(Bit)
        /\ q + Len(StoredBits(bytes, q)) = 8 * (at + 4 + n)
    BY ONLY bytes \in Seq(Bytes), Len(bytes) < Two[16], q \in Nat, StoredLen
  <2>. HIDE DEF bits
  <2>3. bits \in Seq(Bit) /\ end = 8 * (at + 4 + n)
    BY ONLY <2>1, <2>4
  <2>. QED
    BY ONLY <2>2, <2>3, <2>4
<1>5. at \in Nat /\ q + Len(pad) = 8 * at
  BY ONLY <1>4
<1>. HIDE DEF v, pad, at, n
<1>8. HasBits(src, q, bits)
  BY DEF n, v, pad, StoredBits
<1>. HIDE DEF each
<1>9. HasBits(src, 8 * at, each)
  <2>1. HasBits(src, q + Len(pad), each)
    BY ONLY <1>4, <1>8, q \in Nat, HasConcat
  <2>. QED
    BY ONLY <1>5, <2>1
<1>10. bits \in Seq(Bit) /\ end = 8 * (at + 4 + n)
  BY ONLY <1>4
<1>11. \A k \in 1 .. 4 + n : at + k <= N => src[at + k] = v[k]
  <2>1. /\ v \in Seq(Bytes) /\ Len(v) = 4 + n /\ at \in Nat /\ N = Len(src)
        /\ HasBits(src, 8 * at, Each(v, 8))
    BY ONLY <1>4, <1>9 DEF each, N
  <2>. HIDE DEF N
  <2>2. ASSUME NEW k \in 1 .. 4 + n, at + k <= N
        PROVE  src[at + k] = v[k]
    <3>1. k \in 1 .. Len(v) /\ at + k <= Len(src)
      BY ONLY <2>1, <2>2
    <3>. QED
      BY ONLY <2>1, <3>1, src \in Seq(Bytes), BytesAt
  <2>. QED
    BY ONLY <2>2
<1>12. turn = IF \/ at + 4 > N \/ two + four # 65535 \/ at + 4 + two > N \/ Len(out) + two > cap
              THEN Ended(Fail)
              ELSE AfterBlock(8 * (at + 4 + two), out \o SubSeq(src, at + 5, at + 4 + two), last)
  <2>1. turn = IF \/ at + 4 > N \/ (src[at + 1] + 256 * src[at + 1 + 1]) + (src[at + 3] + 256 * src[at + 3 + 1]) # 65535
                  \/ at + 4 + (src[at + 1] + 256 * src[at + 1 + 1]) > N
                  \/ Len(out) + (src[at + 1] + 256 * src[at + 1 + 1]) > cap
               THEN Ended(Fail)
               ELSE AfterBlock(8 * (at + 4 + (src[at + 1] + 256 * src[at + 1 + 1])),
                               out \o SubSeq(src, at + 5, at + 4 + (src[at + 1] + 256 * src[at + 1 + 1])), last)
    BY DEF Stored, at
  <2>2. at + 1 + 1 = at + 2 /\ at + 3 + 1 = at + 4
    BY ONLY <1>5
  <2>. HIDE DEF turn
  <2>. QED
    BY ONLY <2>1, <2>2
<1>. HIDE DEF turn, bits, end, N
<1>13. Len(out \o bytes) = Len(out) + n
  BY DEF n
<1>14. CASE at + 4 > N
  <2>1. turn = Ended(Fail)
    BY ONLY <1>12, <1>14
  <2>2. ~(end <= 8 * N)
    BY ONLY <1>1, <1>5, <1>10, <1>14
  <2>. QED
    BY <1>10, <2>1, <2>2 DEF turn, bits, end, N, n, v, pad, each, StoredBits
<1>15. CASE ~(at + 4 > N)
  <2>1. src[at + 1] = v[1] /\ src[at + 2] = v[2] /\ src[at + 3] = v[3] /\ src[at + 4] = v[4]
    <3>1. /\ 1 \in 1 .. 4 + n /\ 2 \in 1 .. 4 + n /\ 3 \in 1 .. 4 + n /\ 4 \in 1 .. 4 + n
          /\ at + 1 <= N /\ at + 2 <= N /\ at + 3 <= N /\ at + 4 <= N
      BY ONLY <1>1, <1>5, <1>15
    <3>. QED
      BY ONLY <1>11, <3>1
  <2>2. two = n /\ four = 65535 - n
    BY ONLY <1>4, <2>1
  <2>. HIDE DEF two, four
  <2>3. two + four = 65535
    BY ONLY <1>1, <2>2
  <2>4. turn = IF at + 4 + n > N \/ Len(out) + n > cap THEN Ended(Fail)
               ELSE AfterBlock(8 * (at + 4 + n), out \o SubSeq(src, at + 5, at + 4 + n), last)
    BY ONLY <1>12, <1>15, <2>2, <2>3
  <2>5. ASSUME ~(at + 4 + n > N) PROVE SubSeq(src, at + 5, at + 4 + n) = bytes
    <3>. DEFINE cut == SubSeq(src, at + 5, at + 4 + n)
    <3>1. at + 5 \in Nat /\ at + 5 >= 1 /\ at + 4 + n <= N /\ at + 4 + n \in Nat
          /\ (at + 4 + n) + 1 - (at + 5) = n
      BY ONLY <1>1, <1>5, <2>5
    <3>2. cut \in Seq(Bytes) /\ Len(cut) = n /\ \A i \in 1 .. n : cut[i] = src[(at + 4) + i]
      BY <1>1, <1>5, <3>1 DEF N
    <3>3. ASSUME NEW i \in 1 .. n PROVE src[(at + 4) + i] = bytes[i]
      <4>1. 4 + i \in 1 .. 4 + n /\ at + (4 + i) <= N /\ at + (4 + i) = (at + 4) + i
        BY ONLY <1>1, <1>5, <3>1, i \in 1 .. n
      <4>2. src[at + (4 + i)] = v[4 + i]
        BY ONLY <1>11, <4>1
      <4>. QED
        BY ONLY <1>4, <4>1, <4>2, i \in 1 .. n
    <3>4. \A i \in 1 .. Len(bytes) : cut[i] = bytes[i]
      <4>. HIDE DEF cut
      <4>. QED
        BY ONLY <3>2, <3>3 DEF n
    <3>5. cut \in Seq(Bytes) /\ Len(cut) = Len(bytes)
      BY ONLY <3>2 DEF n
    <3>. HIDE DEF cut
    <3>6. cut = bytes
      BY ONLY <3>4, <3>5, bytes \in Seq(Bytes)
    <3>. QED
      BY <3>6 DEF cut
  <2>6. at + 4 + n > N <=> ~(end <= 8 * N)
    BY ONLY <1>1, <1>5, <1>10
  <2>7. Len(out) + n > cap <=> ~(Len(out \o bytes) <= cap)
    BY ONLY <1>1, <1>13, cap \in Nat
  <2>8. turn = IF end <= 8 * N /\ Len(out \o bytes) <= cap THEN AfterBlock(end, out \o bytes, last)
               ELSE Ended(Fail)
    BY ONLY <1>10, <2>4, <2>5, <2>6, <2>7
  <2>. QED
    BY <1>10, <2>8 DEF turn, bits, end, N, n, v, pad, each, StoredBits
<1>. QED
  BY <1>14, <1>15

\* The lengths of the code lengths' codes as an encoder orders them, and what
\* the decoder makes of them.
ClcSent(lens, n) == [k \in 1 .. n |-> lens[ClcSym(k) + 1]]
ClcGot(src, pos, n) ==
  LET Place(s) == {k \in 1 .. n : ClcOrder[k] = s}
  IN [i \in 1 .. 19 |-> IF Place(i - 1) = {} THEN 0
        ELSE BrBits(src, pos + 3 * ((CHOOSE k \in Place(i - 1) : TRUE) - 1), 3)]

\* What is read is what was sent: zeros for those left out.
LEMMA ClcRead ==
  ASSUME NEW lens \in Seq(0 .. MaxBits), Len(lens) = 19, \A i \in 1 .. 19 : lens[i] < 8,
         NEW n \in 4 .. 19, \A k \in n + 1 .. 19 : lens[ClcSym(k) + 1] = 0,
         NEW src, Len(src) \in Nat, NEW pos \in Nat, pos + 3 * n <= 8 * Len(src),
         HasBits(src, pos, Each(ClcSent(lens, n), 3))
  PROVE  ClcGot(src, pos, n) = lens
<1>. DEFINE Place(s) == {k \in 1 .. n : ClcOrder[k] = s}
            At(s) == CHOOSE k \in Place(s) : TRUE
            got(i) == IF Place(i - 1) = {} THEN 0 ELSE BrBits(src, pos + 3 * (At(i - 1) - 1), 3)
            v == [k \in 1 .. n |-> lens[ClcSym(k) + 1]]
            f == [i \in 1 .. 19 |-> got(i)]
<1>1. \A i \in 1 .. 19 : lens[i] \in Nat /\ lens[i] < 8
  <2>1. \A i \in 1 .. 19 : lens[i] \in 0 .. MaxBits
    BY ElementOfSeq
  <2>2. ASSUME NEW i \in 1 .. 19 PROVE lens[i] \in Nat
    <3>1. lens[i] \in 0 .. MaxBits
      BY ONLY <2>1, i \in 1 .. 19
    <3>. QED
      BY ONLY <3>1 DEF MaxBits
  <2>. QED
    BY <2>2
<1>2. \A k \in 1 .. 19 : ClcOrder[k] = ClcSym(k) /\ ClcSym(k) + 1 \in 1 .. 19
  <2>1. ASSUME NEW k \in 1 .. 19 PROVE ClcOrder[k] = ClcSym(k) /\ ClcSym(k) + 1 \in 1 .. 19
    <3>. DEFINE c == ClcSym(k)
    <3>1. ClcOrder[k] = c /\ c \in 0 .. 18
      BY ONLY ClcTable, k \in 1 .. 19
    <3>. HIDE DEF c
    <3>2. c + 1 \in 1 .. 19
      BY ONLY <3>1
    <3>. QED
      BY ONLY <3>1, <3>2 DEF c
  <2>. QED
    BY <2>1
<1>3. v \in Seq(Nat) /\ Len(v) = n /\ \A k \in 1 .. n : v[k] = lens[ClcSym(k) + 1] /\ v[k] < 8
  <2>1. \A k \in 1 .. n : k \in 1 .. 19
    BY ONLY n \in 4 .. 19
  <2>2. \A k \in 1 .. n : lens[ClcSym(k) + 1] \in Nat /\ lens[ClcSym(k) + 1] < 8
    BY ONLY <1>1, <1>2, <2>1
  <2>3. n \in Nat
    OBVIOUS
  <2>. QED
    BY ONLY <2>2, <2>3
<1>4. ASSUME NEW k \in 1 .. n PROVE BrBits(src, pos + 3 * (k - 1), 3) = v[k]
  <2>. DEFINE p == pos + 3 * (k - 1)
  <2>1. HasBits(src, p, Low(v[k], 3))
    <3>1. 3 \in 1 .. 16 /\ k \in 1 .. Len(v)
      BY <1>3
    <3>2. HasBits(src, pos, Each(v, 3))
      BY DEF ClcSent
    <3>. HIDE DEF v
    <3>. QED
      BY ONLY <1>3, <3>1, <3>2, pos \in Nat, EachHas
  <2>2. v[k] \in 0 .. Two[3] - 1 /\ 3 \in 0 .. 16
    <3>1. v[k] \in Nat /\ v[k] < 8
      <4>. HIDE DEF v
      <4>. QED
        BY ONLY <1>3, k \in 1 .. n
    <3>. DEFINE c == v[k]
    <3>a. Two[3] = 8
      BY TwoIs
    <3>2. c \in Nat /\ c < 8 /\ Two[3] = 8
      BY ONLY <3>1, <3>a
    <3>. HIDE DEF c
    <3>3. c \in 0 .. Two[3] - 1
      BY ONLY <3>2
    <3>. QED
      BY ONLY <3>3 DEF c
  <2>3. p \in Nat /\ p + 3 <= 8 * Len(src)
    <3>1. k - 1 \in Nat /\ k <= n /\ n \in Nat
      BY ONLY n \in 4 .. 19, k \in 1 .. n
    <3>. QED
      BY ONLY <3>1, pos \in Nat, Len(src) \in Nat, pos + 3 * n <= 8 * Len(src)
  <2>. HIDE DEF p, v
  <2>4. BrBits(src, p, 3) = v[k]
    BY ONLY <2>1, <2>2, <2>3, Len(src) \in Nat, BrRight
  <2>. QED
    BY ONLY <2>4 DEF p
<1>. HIDE DEF v
<1>5. ASSUME NEW i \in 1 .. 19 PROVE got(i) = lens[i]
  <2>1. i - 1 \in 0 .. 18 /\ (i - 1) + 1 = i
    OBVIOUS
  <2>2. PICK j \in 1 .. 19 : ClcOrder[j] = i - 1
    BY ONLY <2>1, ClcTable
  <2>3. ClcSym(j) + 1 = i
    BY ONLY <1>2, <2>1, <2>2
  <2>4. CASE Place(i - 1) = {}
    <3>1. j \notin 1 .. n
      BY ONLY <2>2, <2>4
    <3>2. j \in n + 1 .. 19
      BY ONLY <3>1, n \in 4 .. 19, j \in 1 .. 19
    <3>3. lens[ClcSym(j) + 1] = 0
      BY <3>2
    <3>. QED
      BY ONLY <2>3, <2>4, <3>3
  <2>5. CASE Place(i - 1) # {}
    <3>. DEFINE k == At(i - 1)
    <3>1. k \in Place(i - 1)
      <4>. HIDE DEF Place
      <4>. QED
        BY ONLY <2>5
    <3>2. k \in 1 .. n /\ ClcOrder[k] = i - 1
      <4>. HIDE DEF k
      <4>. QED
        BY ONLY <3>1
    <3>. HIDE DEF k
    <3>3. k \in 1 .. 19
      BY ONLY <3>2, n \in 4 .. 19
    <3>4. ClcSym(k) + 1 = i
      BY ONLY <1>2, <2>1, <3>2, <3>3
    <3>5. v[k] = lens[i]
      BY ONLY <1>3, <3>2, <3>4
    <3>6. BrBits(src, pos + 3 * (k - 1), 3) = v[k]
      BY ONLY <1>4, <3>2
    <3>. QED
      BY ONLY <2>5, <3>5, <3>6 DEF k
  <2>. QED
    BY ONLY <2>4, <2>5
<1>6. f = lens
  <2>1. lens = [i \in 1 .. 19 |-> lens[i]]
    OBVIOUS
  <2>2. f = [i \in 1 .. 19 |-> got(i)]
    OBVIOUS
  <2>. HIDE DEF got, f
  <2>3. [i \in 1 .. 19 |-> got(i)] = [i \in 1 .. 19 |-> lens[i]]
    BY ONLY <1>5
  <2>. QED
    BY ONLY <2>1, <2>2, <2>3
<1>. QED
  BY <1>6 DEF ClcGot

\* What a block with its own codes is between its header and the lengths.
LensRest(b) ==
  ((Low(Len(b.lit) - 257, 5) \o Low(Len(b.dist) - 1, 5)) \o Low(b.nclc - 4, 4))
    \o Each([k \in 1 .. b.nclc |-> b.clc[ClcSym(k) + 1]], 3)

HasLengths(b) ==
  /\ IsCode(b.clc) /\ Len(b.clc) = 19 /\ \A i \in 1 .. 19 : b.clc[i] < 8
  /\ b.nclc \in 4 .. 19 /\ \A k \in b.nclc + 1 .. 19 : b.clc[ClcSym(k) + 1] = 0
  /\ Len(b.lit) \in 257 .. 288 /\ Len(b.dist) \in 1 .. 32

\* The head of a block with its own codes.
LEMMA RestStep ==
  ASSUME NEW b, HasLengths(b), NEW src, Len(src) \in Nat, NEW q \in Nat, NEW out, NEW last,
         HasBits(src, q, LensRest(b))
  PROVE  /\ LensRest(b) \in Seq(Bit)
         /\ Dynamic(src, q, out, last) =
              IF q + Len(LensRest(b)) <= 8 * Len(src)
              THEN AtLens(q + Len(LensRest(b)), out, last, HuffBuild(b.clc), Len(b.lit),
                          Len(b.lit) + Len(b.dist), << >>)
              ELSE Ended(Fail)
<1>. DEFINE x == Len(b.lit) - 257
            y == Len(b.dist) - 1
            n == b.nclc
            z == n - 4
            lx == Low(x, 5)
            ly == Low(y, 5)
            lz == Low(z, 4)
            v == [k \in 1 .. n |-> b.clc[ClcSym(k) + 1]]
            each == Each(v, 3)
            bits == ((lx \o ly) \o lz) \o each
            end == q + Len(bits)
            N == 8 * Len(src)
            nlit == 257 + BrBits(src, q, 5)
            ndist == 1 + BrBits(src, q + 5, 5)
            hclen == BrBits(src, q + 10, 4)
            fin == q + 14 + 3 * (4 + hclen)
            Place(s) == {k \in 1 .. 4 + hclen : ClcOrder[k] = s}
            read == [i \in 1 .. 19 |->
               IF Place(i - 1) = {} THEN 0
               ELSE BrBits(src, q + 14 + 3 * ((CHOOSE k \in Place(i - 1) : TRUE) - 1), 3)]
            clc == HuffBuild(read)
            turn == Dynamic(src, q, out, last)
<1>a. /\ IsCode(b.clc) /\ Len(b.clc) = 19 /\ (\A i \in 1 .. 19 : b.clc[i] < 8)
      /\ b.nclc \in 4 .. 19 /\ (\A k \in b.nclc + 1 .. 19 : b.clc[ClcSym(k) + 1] = 0)
      /\ Len(b.lit) \in 257 .. 288 /\ Len(b.dist) \in 1 .. 32
  BY DEF HasLengths
<1>b. LensRest(b) = bits
  BY DEF LensRest
<1>1. x \in 0 .. 31 /\ y \in 0 .. 31 /\ z \in 0 .. 15 /\ n \in 4 .. 19 /\ Len(b.lit) = 257 + x
      /\ Len(b.dist) = 1 + y /\ n = 4 + z
  <2>. DEFINE l == Len(b.lit)
              d == Len(b.dist)
  <2>1. l \in 257 .. 288 /\ d \in 1 .. 32 /\ n \in 4 .. 19
    BY ONLY <1>a
  <2>. HIDE DEF l, d, n
  <2>2. /\ l - 257 \in 0 .. 31 /\ d - 1 \in 0 .. 31 /\ z \in 0 .. 15 /\ l = 257 + (l - 257)
        /\ d = 1 + (d - 1) /\ n = 4 + z
    BY ONLY <2>1
  <2>. QED
    BY ONLY <2>1, <2>2 DEF l, d
<1>2. turn = IF hclen = -1 \/ nlit > 288 \/ fin > N \/ ~clc.ok THEN Ended(Fail)
             ELSE AtLens(fin, out, last, clc, nlit, nlit + ndist, << >>)
  BY DEF Dynamic
<1>3. b.clc \in Seq(0 .. MaxBits)
  BY ONLY <1>a DEF IsCode
<1>4. v \in Seq(Nat) /\ Len(v) = n
  <2>1. ASSUME NEW k \in 1 .. n PROVE b.clc[ClcSym(k) + 1] \in Nat
    <3>. DEFINE c == ClcSym(k)
    <3>1. k \in 1 .. 19
      BY ONLY <1>1, k \in 1 .. n
    <3>2. c \in 0 .. 18
      BY ONLY <3>1, ClcTable
    <3>. HIDE DEF c
    <3>3. c + 1 \in 1 .. 19
      BY ONLY <3>2
    <3>4. b.clc[c + 1] \in 0 .. MaxBits
      BY ONLY <1>3, <1>a, <3>3, ElementOfSeq
    <3>5. b.clc[c + 1] \in Nat
      BY ONLY <3>4 DEF MaxBits
    <3>. QED
      BY ONLY <3>5 DEF c
  <2>2. n \in Nat
    BY ONLY <1>1
  <2>. HIDE DEF n
  <2>. QED
    BY ONLY <2>1, <2>2
<1>. HIDE DEF x, y, z, n, v
<1>5. /\ lx \in Seq(Bit) /\ Len(lx) = 5 /\ ly \in Seq(Bit) /\ Len(ly) = 5
      /\ lz \in Seq(Bit) /\ Len(lz) = 4
  <2>1. x \in Nat /\ y \in Nat /\ z \in Nat /\ 5 \in 0 .. 16 /\ 4 \in 0 .. 16
    BY ONLY <1>1
  <2>. QED
    BY ONLY <2>1, LowSeq
<1>6. each \in Seq(Bit) /\ Len(each) = 3 * n
  <2>1. 3 \in 1 .. 16
    OBVIOUS
  <2>2. each \in Seq(Bit) /\ Len(each) = 3 * Len(v)
    BY ONLY <1>4, <2>1, EachSeq
  <2>. QED
    BY ONLY <1>4, <2>2
<1>7. HasBits(src, q, bits)
  BY ONLY HasBits(src, q, LensRest(b)), <1>b DEF x, y, z, n, v
<1>. HIDE DEF lx, ly, lz, each
<1>8. /\ lx \o ly \in Seq(Bit) /\ Len(lx \o ly) = 10
      /\ (lx \o ly) \o lz \in Seq(Bit) /\ Len((lx \o ly) \o lz) = 14
      /\ bits \in Seq(Bit) /\ Len(bits) = 14 + 3 * n
  <2>. DEFINE a == lx \o ly
              c == a \o lz
              l == Len(each)
  <2>1. lx \in Seq(Bit) /\ ly \in Seq(Bit) /\ lz \in Seq(Bit) /\ each \in Seq(Bit)
    BY ONLY <1>5, <1>6
  <2>2. a \in Seq(Bit) /\ Len(a) = Len(lx) + Len(ly)
    BY ONLY <2>1
  <2>3. Len(a) = 10
    BY ONLY <1>5, <2>2
  <2>. HIDE DEF a
  <2>4. c \in Seq(Bit) /\ Len(c) = Len(a) + Len(lz)
    BY ONLY <2>1, <2>2, ConcatBits
  <2>5. Len(c) = 14
    <3>1. Len(lz) = 4
      BY ONLY <1>5
    <3>. HIDE DEF c
    <3>. QED
      BY ONLY <2>3, <2>4, <3>1
  <2>. HIDE DEF c
  <2>6. c \o each \in Seq(Bit) /\ Len(c \o each) = Len(c) + l
    BY ONLY <2>1, <2>4, ConcatBits
  <2>7. l = 3 * n /\ n \in Int
    BY ONLY <1>1, <1>6
  <2>. HIDE DEF l
  <2>8. Len(c \o each) = 14 + 3 * n
    BY ONLY <2>5, <2>6, <2>7
  <2>. QED
    BY ONLY <2>2, <2>3, <2>4, <2>5, <2>6, <2>8 DEF a, c
<1>9. /\ HasBits(src, q, lx) /\ HasBits(src, q + 5, ly) /\ HasBits(src, q + 10, lz)
      /\ HasBits(src, q + 14, each)
  <2>1. HasBits(src, q, (lx \o ly) \o lz) /\ HasBits(src, q + Len((lx \o ly) \o lz), each)
    BY ONLY <1>6, <1>7, <1>8, q \in Nat, HasConcat
  <2>2. HasBits(src, q, lx \o ly) /\ HasBits(src, q + Len(lx \o ly), lz)
    BY ONLY <1>5, <1>8, <2>1, q \in Nat, HasConcat
  <2>3. HasBits(src, q, lx) /\ HasBits(src, q + Len(lx), ly)
    BY ONLY <1>5, <2>2, q \in Nat, HasConcat
  <2>4. Len(lx) = 5 /\ Len(lx \o ly) = 10 /\ Len((lx \o ly) \o lz) = 14
    BY ONLY <1>5, <1>8
  <2>. QED
    BY ONLY <2>1, <2>2, <2>3, <2>4
<1>10. end = q + 14 + 3 * n /\ N \in Nat /\ n \in 4 .. 19
  <2>1. Len(bits) = 14 + 3 * n
    BY ONLY <1>8
  <2>2. n \in 4 .. 19
    BY ONLY <1>1
  <2>. HIDE DEF bits
  <2>3. end = q + 14 + 3 * n
    BY ONLY <2>1, <2>2, q \in Nat
  <2>. QED
    BY ONLY <2>2, <2>3, Len(src) \in Nat
<1>c. LensRest(b) = bits
  BY <1>b DEF bits, lx, ly, lz, each, x, y, z, n, v
<1>. HIDE DEF bits, end
<1>11. CASE q + 14 > N
  <2>1. hclen = -1
    <3>1. (q + 10) + 4 > 8 * Len(src)
      BY ONLY <1>11, q \in Nat
    <3>. QED
      BY ONLY <3>1 DEF BrBits
  <2>2. ~(end <= N)
    BY ONLY <1>10, <1>11, q \in Nat
  <2>. HIDE DEF hclen, nlit, fin, clc, turn
  <2>3. turn = Ended(Fail)
    BY ONLY <1>2, <2>1
  <2>. QED
    BY ONLY <1>8, <1>c, <2>2, <2>3 DEF turn, end, N
<1>12. CASE ~(q + 14 > N)
  <2>1. hclen = z
    <3>1. (q + 10) + 4 <= 8 * Len(src) /\ q + 10 \in Nat
      BY ONLY <1>10, <1>12, q \in Nat
    <3>2. z \in 0 .. Two[4] - 1 /\ 4 \in 0 .. 16
      BY ONLY <1>1, TwoIs
    <3>3. HasBits(src, q + 10, Low(z, 4))
      BY <1>9 DEF lz
    <3>. QED
      BY ONLY <3>1, <3>2, <3>3, Len(src) \in Nat, BrRight
  <2>2. BrBits(src, q, 5) = x
    <3>1. q + 5 <= 8 * Len(src)
      BY ONLY <1>10, <1>12, q \in Nat
    <3>2. x \in 0 .. Two[5] - 1 /\ 5 \in 0 .. 16
      BY ONLY <1>1, TwoIs
    <3>3. HasBits(src, q, Low(x, 5))
      BY <1>9 DEF lx
    <3>. QED
      BY ONLY <3>1, <3>2, <3>3, q \in Nat, Len(src) \in Nat, BrRight
  <2>3. BrBits(src, q + 5, 5) = y
    <3>1. (q + 5) + 5 <= 8 * Len(src) /\ q + 5 \in Nat
      BY ONLY <1>10, <1>12, q \in Nat
    <3>2. y \in 0 .. Two[5] - 1 /\ 5 \in 0 .. 16
      BY ONLY <1>1, TwoIs
    <3>3. HasBits(src, q + 5, Low(y, 5))
      BY <1>9 DEF ly
    <3>. QED
      BY ONLY <3>1, <3>2, <3>3, Len(src) \in Nat, BrRight
  <2>4. nlit = 257 + x /\ ndist = 1 + y /\ ~(nlit > 288)
    BY ONLY <1>1, <2>2, <2>3
  <2>5. 4 + hclen = n /\ ~(hclen = -1) /\ fin = end
    <3>1. z \in 0 .. 15 /\ n = 4 + z /\ end = q + 14 + 3 * n
      BY ONLY <1>1, <1>10
    <3>. HIDE DEF hclen
    <3>2. 4 + hclen = n /\ ~(hclen = -1)
      BY ONLY <2>1, <3>1
    <3>. QED
      BY ONLY <3>1, <3>2
  <2>6. turn = IF end > N \/ ~clc.ok THEN Ended(Fail)
               ELSE AtLens(end, out, last, clc, 257 + x, (257 + x) + (1 + y), << >>)
    <3>. HIDE DEF hclen, nlit, ndist, fin, clc, turn, N
    <3>. QED
      BY ONLY <1>2, <2>4, <2>5
  <2>7. CASE end > N
    <3>1. turn = Ended(Fail) /\ ~(end <= N)
      BY ONLY <1>10, <2>6, <2>7, q \in Nat
    <3>. QED
      BY ONLY <1>8, <1>c, <3>1 DEF turn, end, N
  <2>8. CASE ~(end > N)
    <3>1. end <= N
      BY ONLY <1>10, <2>8, q \in Nat
    <3>2. read = b.clc
      <4>. DEFINE p == q + 14
                  lens == b.clc
      <4>1. p \in Nat /\ p + 3 * n <= 8 * Len(src)
        BY ONLY <1>10, <3>1, q \in Nat
      <4>2. HasBits(src, p, Each(ClcSent(lens, n), 3))
        BY <1>9 DEF each, v, ClcSent
      <4>3. /\ lens \in Seq(0 .. MaxBits) /\ Len(lens) = 19 /\ (\A i \in 1 .. 19 : lens[i] < 8)
            /\ n \in 4 .. 19 /\ \A k \in n + 1 .. 19 : lens[ClcSym(k) + 1] = 0
        BY <1>1, <1>3, <1>a DEF n
      <4>. HIDE DEF lens, p
      <4>4. ClcGot(src, p, n) = lens
        BY ONLY <4>1, <4>2, <4>3, Len(src) \in Nat, ClcRead
      <4>. DEFINE m == 4 + hclen
      <4>5. read = ClcGot(src, p, m)
        BY DEF ClcGot, p
      <4>6. m = n
        BY ONLY <2>5
      <4>. HIDE DEF m, read
      <4>. QED
        BY ONLY <4>4, <4>5, <4>6 DEF lens
    <3>3. clc.ok /\ clc = HuffBuild(b.clc)
      <4>1. HuffBuild(b.clc).ok
        BY ONLY <1>a, BuildOk
      <4>. HIDE DEF read
      <4>. QED
        BY ONLY <3>2, <4>1
    <3>. HIDE DEF clc, turn
    <3>4. turn = AtLens(end, out, last, HuffBuild(b.clc), Len(b.lit), Len(b.lit) + Len(b.dist), << >>)
      BY ONLY <1>1, <2>6, <2>8, <3>3
    <3>. QED
      BY ONLY <1>8, <1>c, <3>1, <3>4 DEF turn, end, N
  <2>. QED
    BY ONLY <2>7, <2>8
<1>. QED
  BY ONLY <1>11, <1>12

-----------------------------------------------------------------------------
(* Where the pieces of a block are in the bits written.                     *)

\* Sequences each at least as long as the one before.
LEMMA Grows ==
  ASSUME NEW T, NEW N \in Nat, NEW f, f[0] \in Seq(T),
         \A j \in 1 .. N : f[j - 1] \in Seq(T) => f[j] \in Seq(T) /\ Len(f[j - 1]) <= Len(f[j])
  PROVE  \A j \in 0 .. N : f[j] \in Seq(T) /\ Len(f[j]) <= Len(f[N])
<1>. DEFINE A == {j \in 0 .. N : f[j] \in Seq(T)}
            B == {i \in 0 .. N : Len(f[N - i]) <= Len(f[N])}
<1>1. \A j \in 0 .. N : j \in A
  <2>1. 0 \in A
    OBVIOUS
  <2>2. ASSUME NEW j \in 1 .. N, j - 1 \in A PROVE j \in A
    BY <2>2
  <2>. HIDE DEF A
  <2>. QED
    BY ONLY N \in Nat, <2>1, <2>2, UpTo
<1>2. \A j \in 0 .. N : f[j] \in Seq(T)
  BY <1>1
<1>3. \A j \in 0 .. N : Len(f[j]) \in Nat
  BY <1>2
<1>4. \A i \in 0 .. N : i \in B
  <2>1. 0 \in B
    <3>1. N - 0 = N /\ N \in 0 .. N
      OBVIOUS
    <3>. QED
      BY <1>3, <3>1
  <2>2. ASSUME NEW i \in 1 .. N, i - 1 \in B PROVE i \in B
    <3>1. N - i \in 0 .. N /\ N - (i - 1) \in 1 .. N /\ (N - (i - 1)) - 1 = N - i /\ N - (i - 1) \in 0 .. N
          /\ N \in 0 .. N /\ i \in 0 .. N
      OBVIOUS
    <3>2. Len(f[N - (i - 1)]) <= Len(f[N])
      BY <2>2
    <3>3. Len(f[N - i]) <= Len(f[N - (i - 1)])
      BY <1>2, <3>1
    <3>4. Len(f[N - i]) <= Len(f[N])
      BY ONLY <1>3, <3>1, <3>2, <3>3
    <3>. QED
      BY <3>1, <3>4
  <2>. HIDE DEF B
  <2>. QED
    BY ONLY N \in Nat, <2>1, <2>2, UpTo
<1>5. ASSUME NEW j \in 0 .. N PROVE Len(f[j]) <= Len(f[N])
  <2>1. N - j \in 0 .. N /\ N - (N - j) = j
    OBVIOUS
  <2>2. N - j \in B
    BY ONLY <1>4, <2>1
  <2>3. Len(f[N - (N - j)]) <= Len(f[N])
    BY <2>2
  <2>. QED
    BY ONLY <2>1, <2>3
<1>. QED
  BY <1>2, <1>5

\* Bits written piece by piece: where each piece is.
Pieces(N, f, g) ==
  /\ f[0] = << >>
  /\ \A j \in 1 .. N : f[j] = f[j - 1] \o g[j] /\ (f[j - 1] \in Seq(Bit) => g[j] \in Seq(Bit))

\* Each is there, and begins where the one before ends.
LEMMA Chain ==
  ASSUME NEW N \in Nat, NEW f, NEW g, Pieces(N, f, g),
         NEW src, NEW pos \in Nat, HasBits(src, pos, f[N])
  PROVE  /\ \A j \in 0 .. N : f[j] \in Seq(Bit) /\ Len(f[j]) <= Len(f[N])
         /\ \A j \in 1 .. N : /\ g[j] \in Seq(Bit) /\ HasBits(src, pos + Len(f[j - 1]), g[j])
                              /\ Len(f[j]) = Len(f[j - 1]) + Len(g[j])
<1>. DEFINE B == {i \in 0 .. N : HasBits(src, pos, f[N - i])}
<1>a. /\ f[0] = << >>
      /\ \A j \in 1 .. N : f[j] = f[j - 1] \o g[j] /\ (f[j - 1] \in Seq(Bit) => g[j] \in Seq(Bit))
  BY DEF Pieces
<1>1. ASSUME NEW j \in 1 .. N, f[j - 1] \in Seq(Bit)
      PROVE  f[j] \in Seq(Bit) /\ g[j] \in Seq(Bit) /\ Len(f[j]) = Len(f[j - 1]) + Len(g[j])
             /\ Len(f[j - 1]) <= Len(f[j])
  <2>1. g[j] \in Seq(Bit) /\ f[j] = f[j - 1] \o g[j]
    BY <1>1, <1>a
  <2>2. f[j - 1] \o g[j] \in Seq(Bit) /\ Len(f[j - 1] \o g[j]) = Len(f[j - 1]) + Len(g[j])
        /\ Len(f[j - 1]) \in Nat /\ Len(g[j]) \in Nat
    BY ONLY <1>1, <2>1, ConcatBits
  <2>. DEFINE x == f[j - 1]
              y == g[j]
              z == f[j]
  <2>3. z = x \o y
    BY ONLY <2>1
  <2>4. z \in Seq(Bit) /\ Len(z) = Len(x) + Len(y)
    BY ONLY <2>2, <2>3
  <2>5. Len(x) <= Len(x) + Len(y)
    <3>1. Len(x) \in Nat /\ Len(y) \in Nat
      BY ONLY <2>2
    <3>. HIDE DEF x, y
    <3>. QED
      BY ONLY <3>1
  <2>. QED
    BY ONLY <2>1, <2>4, <2>5
<1>2. f[0] \in Seq(Bit)
  BY <1>a
<1>3. \A j \in 0 .. N : f[j] \in Seq(Bit) /\ Len(f[j]) <= Len(f[N])
  BY ONLY <1>1, <1>2, N \in Nat, Grows
<1>4. ASSUME NEW j \in 1 .. N
      PROVE  j - 1 \in 0 .. N /\ f[j - 1] \in Seq(Bit) /\ f[j] = f[j - 1] \o g[j] /\ g[j] \in Seq(Bit)
             /\ Len(f[j]) = Len(f[j - 1]) + Len(g[j])
  <2>1. j - 1 \in 0 .. N
    OBVIOUS
  <2>. QED
    BY <1>1, <1>3, <1>a, <2>1
<1>5. \A i \in 0 .. N : i \in B
  <2>1. 0 \in B
    <3>1. N - 0 = N
      OBVIOUS
    <3>. QED
      BY <3>1
  <2>2. ASSUME NEW i \in 1 .. N, i - 1 \in B PROVE i \in B
    <3>. DEFINE j == N - (i - 1)
    <3>1. j \in 1 .. N /\ j - 1 = N - i /\ i \in 0 .. N
      OBVIOUS
    <3>2. HasBits(src, pos, f[j])
      BY <2>2
    <3>. HIDE DEF j
    <3>3. f[j - 1] \in Seq(Bit) /\ f[j] = f[j - 1] \o g[j] /\ g[j] \in Seq(Bit)
      BY ONLY <1>4, <3>1
    <3>4. HasBits(src, pos, f[j - 1] \o g[j])
      BY ONLY <3>2, <3>3
    <3>5. HasBits(src, pos, f[j - 1])
      BY ONLY <3>3, <3>4, pos \in Nat, HasConcat
    <3>. QED
      BY <3>1, <3>5
  <2>. HIDE DEF B
  <2>. QED
    BY ONLY N \in Nat, <2>1, <2>2, UpTo
<1>6. ASSUME NEW j \in 1 .. N PROVE HasBits(src, pos + Len(f[j - 1]), g[j])
  <2>1. N - j \in 0 .. N /\ N - (N - j) = j
    OBVIOUS
  <2>2. N - j \in B
    BY ONLY <1>5, <2>1
  <2>3. HasBits(src, pos, f[N - (N - j)])
    BY <2>2
  <2>4. f[j - 1] \in Seq(Bit) /\ f[j] = f[j - 1] \o g[j] /\ g[j] \in Seq(Bit)
    BY <1>4
  <2>5. HasBits(src, pos, f[j - 1] \o g[j])
    BY ONLY <2>1, <2>3, <2>4
  <2>. QED
    BY ONLY <2>4, <2>5, pos \in Nat, HasConcat
<1>. QED
  BY ONLY <1>3, <1>4, <1>6

\* The operations of a block: their bits, and the bytes after each.
LEMMA OpsTyped ==
  ASSUME NEW b, IsCode(b.lit), IsCode(b.dist), Len(b.ops) \in Nat, NEW out \in Seq(Bytes),
         \A j \in 1 .. Len(b.ops) : IsOp(b, b.ops[j], OpsMeant(b, out)[j - 1])
  PROVE  LET N == Len(b.ops)
             meant == OpsMeant(b, out)
             bits == OpsBits(b)
         IN /\ meant[0] = out /\ bits[0] = << >>
            /\ \A j \in 1 .. N :
                 /\ meant[j] = meant[j - 1] \o OpMeant(meant[j - 1], b.ops[j])
                 /\ bits[j] = bits[j - 1] \o OpBits(b.lit, b.dist, b.ops[j])
                 /\ OpBits(b.lit, b.dist, b.ops[j]) \in Seq(Bit)
            /\ \A j \in 0 .. N : meant[j] \in Seq(Bytes) /\ Len(meant[j]) <= Len(meant[N])
<1>. DEFINE N == Len(b.ops)
            meant == OpsMeant(b, out)
            bits == OpsBits(b)
<1>1. meant = [k \in 0 .. N |-> IF k = 0 THEN out ELSE
              meant[k - 1] \o OpMeant(meant[k - 1], b.ops[k])]
  BY ONLY Len(b.ops) \in Nat, OpsMeantIs
<1>2. bits = [k \in 0 .. N |-> IF k = 0 THEN << >> ELSE
              bits[k - 1] \o OpBits(b.lit, b.dist, b.ops[k])]
  BY ONLY Len(b.ops) \in Nat, OpsBitsIs
<1>3. \A j \in 1 .. N : IsOp(b, b.ops[j], meant[j - 1])
  OBVIOUS
<1>a. N \in Nat
  OBVIOUS
<1>. HIDE DEF N, meant, bits
<1>4. \A j \in 1 .. N : j \in 0 .. N /\ j # 0 /\ j - 1 \in 0 .. N
  BY ONLY <1>a
<1>b. 0 \in 0 .. N
  BY ONLY <1>a
<1>5. meant[0] = out /\ bits[0] = << >>
  BY ONLY <1>1, <1>2, <1>b
<1>6. \A j \in 1 .. N : /\ meant[j] = meant[j - 1] \o OpMeant(meant[j - 1], b.ops[j])
                        /\ bits[j] = bits[j - 1] \o OpBits(b.lit, b.dist, b.ops[j])
  BY ONLY <1>1, <1>2, <1>4
<1>7. ASSUME NEW j \in 1 .. N, meant[j - 1] \in Seq(Bytes)
      PROVE  meant[j] \in Seq(Bytes) /\ Len(meant[j - 1]) <= Len(meant[j])
             /\ OpBits(b.lit, b.dist, b.ops[j]) \in Seq(Bit)
  <2>. DEFINE x == meant[j - 1]
              y == OpMeant(x, b.ops[j])
  <2>1. IsOp(b, b.ops[j], x)
    BY ONLY <1>3, j \in 1 .. N
  <2>2. x \in Seq(Bytes)
    BY ONLY <1>7
  <2>3. y \in Seq(Bytes) /\ OpBits(b.lit, b.dist, b.ops[j]) \in Seq(Bit)
    <3>. HIDE DEF x
    <3>. QED
      BY ONLY IsCode(b.lit), IsCode(b.dist), <2>1, <2>2, OpTyped
  <2>4. meant[j] = x \o y
    BY ONLY <1>6, j \in 1 .. N
  <2>5. x \o y \in Seq(Bytes) /\ Len(x) <= Len(x \o y)
    <3>. HIDE DEF x, y
    <3>. QED
      BY ONLY <2>2, <2>3
  <2>. QED
    BY ONLY <2>3, <2>4, <2>5
<1>8. \A j \in 0 .. N : meant[j] \in Seq(Bytes) /\ Len(meant[j]) <= Len(meant[N])
  <2>1. meant[0] \in Seq(Bytes)
    BY <1>5
  <2>. QED
    BY ONLY <1>7, <1>a, <2>1, Grows
<1>9. \A j \in 1 .. N : OpBits(b.lit, b.dist, b.ops[j]) \in Seq(Bit)
  BY ONLY <1>4, <1>7, <1>8
<1>. QED
  BY ONLY <1>5, <1>6, <1>8, <1>9 DEF N, meant, bits

\* The items of a block: their bits, and the code lengths after each.
LEMMA ItemsTyped ==
  ASSUME NEW b, IsCode(b.clc), Len(b.items) \in Nat,
         \A j \in 1 .. Len(b.items) : IsItem(b, b.items[j], ItemsMeant(b)[j - 1])
  PROVE  LET N == Len(b.items)
             meant == ItemsMeant(b)
             bits == ItemsBits(b)
         IN /\ meant[0] = << >> /\ bits[0] = << >>
            /\ \A j \in 1 .. N :
                 /\ meant[j] = meant[j - 1] \o ItemMeant(meant[j - 1], b.items[j])
                 /\ Len(meant[j]) = Len(meant[j - 1]) + ItemRun(b.items[j])
                 /\ bits[j] = bits[j - 1] \o ItemBits(b, b.items[j])
                 /\ ItemBits(b, b.items[j]) \in Seq(Bit)
            /\ \A j \in 0 .. N : meant[j] \in Seq(0 .. MaxBits) /\ Len(meant[j]) <= Len(meant[N])
<1>. DEFINE N == Len(b.items)
            meant == ItemsMeant(b)
            bits == ItemsBits(b)
            T == 0 .. MaxBits
<1>1. meant = [k \in 0 .. N |-> IF k = 0 THEN << >> ELSE
              meant[k - 1] \o ItemMeant(meant[k - 1], b.items[k])]
  BY ONLY Len(b.items) \in Nat, ItemsMeantIs
<1>2. bits = [k \in 0 .. N |-> IF k = 0 THEN << >> ELSE bits[k - 1] \o ItemBits(b, b.items[k])]
  BY ONLY Len(b.items) \in Nat, ItemsBitsIs
<1>3. \A j \in 1 .. N : IsItem(b, b.items[j], meant[j - 1])
  OBVIOUS
<1>a. N \in Nat
  OBVIOUS
<1>. HIDE DEF N, meant, bits
<1>4. \A j \in 1 .. N : j \in 0 .. N /\ j # 0 /\ j - 1 \in 0 .. N
  BY ONLY <1>a
<1>b. 0 \in 0 .. N
  BY ONLY <1>a
<1>5. meant[0] = << >> /\ bits[0] = << >>
  BY ONLY <1>1, <1>2, <1>b
<1>6. \A j \in 1 .. N : /\ meant[j] = meant[j - 1] \o ItemMeant(meant[j - 1], b.items[j])
                        /\ bits[j] = bits[j - 1] \o ItemBits(b, b.items[j])
  BY ONLY <1>1, <1>2, <1>4
<1>7. ASSUME NEW j \in 1 .. N, meant[j - 1] \in Seq(T)
      PROVE  meant[j] \in Seq(T) /\ Len(meant[j - 1]) <= Len(meant[j])
             /\ Len(meant[j]) = Len(meant[j - 1]) + ItemRun(b.items[j])
             /\ ItemBits(b, b.items[j]) \in Seq(Bit)
  <2>. DEFINE x == meant[j - 1]
              y == ItemMeant(x, b.items[j])
              r == ItemRun(b.items[j])
  <2>1. IsItem(b, b.items[j], x)
    BY ONLY <1>3, j \in 1 .. N
  <2>2. x \in Seq(0 .. MaxBits)
    BY ONLY <1>7
  <2>3. y \in Seq(T) /\ ItemBits(b, b.items[j]) \in Seq(Bit) /\ Len(y) = r
    <3>. HIDE DEF x
    <3>. QED
      BY ONLY IsCode(b.clc), <2>1, <2>2, ItemTyped
  <2>4. meant[j] = x \o y
    BY ONLY <1>6, j \in 1 .. N
  <2>5. x \o y \in Seq(T) /\ Len(x \o y) = Len(x) + r /\ Len(x) <= Len(x \o y)
    <3>. HIDE DEF x, y, r, T
    <3>1. x \o y \in Seq(T) /\ Len(x \o y) = Len(x) + Len(y) /\ Len(x) <= Len(x \o y)
      BY ONLY <2>2, <2>3 DEF T
    <3>. QED
      BY ONLY <2>3, <3>1
  <2>. QED
    BY ONLY <2>3, <2>4, <2>5
<1>8. \A j \in 0 .. N : meant[j] \in Seq(T) /\ Len(meant[j]) <= Len(meant[N])
  <2>1. meant[0] \in Seq(T)
    BY <1>5
  <2>. HIDE DEF T
  <2>. QED
    BY ONLY <1>7, <1>a, <2>1, Grows
<1>9. \A j \in 1 .. N : /\ ItemBits(b, b.items[j]) \in Seq(Bit)
                        /\ Len(meant[j]) = Len(meant[j - 1]) + ItemRun(b.items[j])
  <2>. HIDE DEF T
  <2>. QED
    BY ONLY <1>4, <1>7, <1>8
<1>. QED
  BY ONLY <1>5, <1>6, <1>8, <1>9 DEF N, meant, bits, T

\* The two fields every block begins with.
LEMMA HeaderSeq ==
  ASSUME NEW last \in Bit, NEW type \in Nat
  PROVE  Header(last, type) \in Seq(Bit) /\ Len(Header(last, type)) = 3
<1>1. 2 \in 0 .. 16
  OBVIOUS
<1>2. Low(type, 2) \in Seq(Bit) /\ Len(Low(type, 2)) = 2
  BY ONLY <1>1, type \in Nat, LowSeq
<1>3. << last >> \in Seq(Bit) /\ Len(<< last >>) = 1
  OBVIOUS
<1>4. << last >> \o Low(type, 2) \in Seq(Bit)
      /\ Len(<< last >> \o Low(type, 2)) = Len(<< last >>) + Len(Low(type, 2))
  BY ONLY <1>2, <1>3, ConcatBits
<1>5. Header(last, type) = << last >> \o Low(type, 2)
  BY DEF Header
<1>. DEFINE h == Header(last, type)
            a == Len(<< last >>)
            c == Len(Low(type, 2))
<1>6. h \in Seq(Bit) /\ Len(h) = a + c /\ a = 1 /\ c = 2
  BY ONLY <1>2, <1>3, <1>4, <1>5
<1>. HIDE DEF a, c, h
<1>7. Len(h) = 3
  BY ONLY <1>6
<1>. QED
  BY ONLY <1>6, <1>7 DEF h

\* These are bits.
LEMMA RestSeq ==
  ASSUME NEW b, HasLengths(b)
  PROVE  LensRest(b) \in Seq(Bit)
<1>1. Len(<< >>) = 0 /\ 0 \in Nat
  OBVIOUS
<1>2. HasBits(<< >>, 0, LensRest(b))
  BY DEF HasBits
<1>. QED
  BY ONLY <1>1, <1>2, HasLengths(b), RestStep

\* No bits are anywhere.
LEMMA NothingHas ==
  ASSUME NEW bits
  PROVE  HasBits(<< >>, 0, bits)
BY DEF HasBits

\* What each kind of block is.
LEMMA StoredIs ==
  ASSUME NEW b, NEW out, IsBlock(b, out), b.kind = "stored"
  PROVE  b.bytes \in Seq(Bytes) /\ Len(b.bytes) < Two[16]
BY DEF IsBlock

LEMMA CodedIs ==
  ASSUME NEW b, NEW out, IsBlock(b, out), b.kind # "stored"
  PROVE  /\ (b.kind = "fixed" /\ b.lit = LitLens /\ b.dist = DistLens) \/ b.kind = "dynamic"
         /\ IsCode(b.lit) /\ IsCode(b.dist) /\ HasCode(b.lit, 256) /\ Len(b.ops) \in Nat
         /\ \A j \in 1 .. Len(b.ops) : IsOp(b, b.ops[j], OpsMeant(b, out)[j - 1])
BY DEF IsBlock

LEMMA DynamicIs ==
  ASSUME NEW b, NEW out, IsBlock(b, out), b.kind = "dynamic"
  PROVE  /\ HasLengths(b) /\ IsCode(b.clc) /\ Len(b.items) \in Nat
         /\ \A j \in 1 .. Len(b.items) : IsItem(b, b.items[j], ItemsMeant(b)[j - 1])
         /\ ItemsMeant(b)[Len(b.items)] = b.lit \o b.dist
BY DEF IsBlock, HasLengths

\* Where a block is in its code lengths, and in its operations.
LensPos(last, b, start, j) == start + Len(LensHead(last, b)) + Len(ItemsBits(b)[j])
OpsPos(last, b, start, j) == start + Len(OpsHead(last, b)) + Len(OpsBits(b)[j])

\* The head of a block with its own codes, its code lengths and its operations:
\* where each is when the source holds the block.
LEMMA LensHeadIs ==
  ASSUME NEW b, HasLengths(b), NEW last \in Bit
  PROVE  /\ LensHead(last, b) = Header(last, 2) \o LensRest(b)
         /\ LensHead(last, b) \in Seq(Bit) /\ Len(LensHead(last, b)) = 3 + Len(LensRest(b))
<1>1. LensHead(last, b) = Header(last, 2) \o LensRest(b)
  BY DEF LensHead, LensRest
<1>2. Header(last, 2) \in Seq(Bit) /\ Len(Header(last, 2)) = 3
  BY HeaderSeq
<1>3. LensRest(b) \in Seq(Bit)
  BY RestSeq
<1>4. Header(last, 2) \o LensRest(b) \in Seq(Bit)
      /\ Len(Header(last, 2) \o LensRest(b)) = Len(Header(last, 2)) + Len(LensRest(b))
  BY ONLY <1>2, <1>3, ConcatBits
<1>. QED
  BY ONLY <1>1, <1>2, <1>4

LEMMA ItemsSeq ==
  ASSUME NEW b, IsCode(b.clc), Len(b.items) \in Nat,
         \A j \in 1 .. Len(b.items) : IsItem(b, b.items[j], ItemsMeant(b)[j - 1]),
         NEW src, NEW pos \in Nat, HasBits(src, pos, ItemsBits(b)[Len(b.items)])
  PROVE  /\ ItemsBits(b)[0] = << >>
         /\ \A j \in 0 .. Len(b.items) : ItemsBits(b)[j] \in Seq(Bit)
                                         /\ Len(ItemsBits(b)[j]) <= Len(ItemsBits(b)[Len(b.items)])
         /\ \A j \in 1 .. Len(b.items) :
              /\ ItemBits(b, b.items[j]) \in Seq(Bit)
              /\ HasBits(src, pos + Len(ItemsBits(b)[j - 1]), ItemBits(b, b.items[j]))
              /\ Len(ItemsBits(b)[j]) = Len(ItemsBits(b)[j - 1]) + Len(ItemBits(b, b.items[j]))
<1>. DEFINE N == Len(b.items)
            f == ItemsBits(b)
            g == [j \in 1 .. N |-> ItemBits(b, b.items[j])]
<1>1. /\ f[0] = << >>
      /\ \A j \in 1 .. N : f[j] = f[j - 1] \o ItemBits(b, b.items[j]) /\ ItemBits(b, b.items[j]) \in Seq(Bit)
  BY ItemsTyped
<1>2. \A j \in 1 .. N : g[j] = ItemBits(b, b.items[j])
  OBVIOUS
<1>3. N \in Nat /\ HasBits(src, pos, f[N])
  OBVIOUS
<1>. HIDE DEF N, f, g
<1>4. \A j \in 1 .. N : f[j] = f[j - 1] \o g[j] /\ (f[j - 1] \in Seq(Bit) => g[j] \in Seq(Bit))
  BY ONLY <1>1, <1>2
<1>5. f[0] = << >>
  BY ONLY <1>1
<1>9. Pieces(N, f, g)
  BY ONLY <1>4, <1>5 DEF Pieces
<1>6. /\ \A j \in 0 .. N : f[j] \in Seq(Bit) /\ Len(f[j]) <= Len(f[N])
      /\ \A j \in 1 .. N : /\ g[j] \in Seq(Bit) /\ HasBits(src, pos + Len(f[j - 1]), g[j])
                           /\ Len(f[j]) = Len(f[j - 1]) + Len(g[j])
  <2>1. \A j \in 0 .. N : f[j] \in Seq(Bit) /\ Len(f[j]) <= Len(f[N])
    BY ONLY <1>3, <1>9, pos \in Nat, Chain
  <2>2. \A j \in 1 .. N : HasBits(src, pos + Len(f[j - 1]), g[j])
    BY ONLY <1>3, <1>9, pos \in Nat, Chain
  <2>3. \A j \in 1 .. N : g[j] \in Seq(Bit)
    BY ONLY <1>3, <1>9, pos \in Nat, Chain
  <2>4. ASSUME NEW j \in 1 .. N PROVE Len(f[j]) = Len(f[j - 1]) + Len(g[j])
    <3>1. j - 1 \in 0 .. N
      BY ONLY <1>3, j \in 1 .. N
    <3>2. f[j - 1] \in Seq(Bit) /\ g[j] \in Seq(Bit) /\ f[j] = f[j - 1] \o g[j]
      BY ONLY <1>4, <2>1, <2>3, <3>1, j \in 1 .. N
    <3>. QED
      BY ONLY <3>2, ConcatBits
  <2>. QED
    BY ONLY <2>1, <2>2, <2>3, <2>4
<1>7. \A j \in 1 .. N : /\ ItemBits(b, b.items[j]) \in Seq(Bit)
                        /\ HasBits(src, pos + Len(f[j - 1]), ItemBits(b, b.items[j]))
                        /\ Len(f[j]) = Len(f[j - 1]) + Len(ItemBits(b, b.items[j]))
  BY ONLY <1>2, <1>6
<1>8. \A j \in 0 .. N : f[j] \in Seq(Bit) /\ Len(f[j]) <= Len(f[N])
  BY ONLY <1>6
<1>. QED
  BY ONLY <1>5, <1>7, <1>8 DEF N, f

LEMMA OpsSeq ==
  ASSUME NEW b, IsCode(b.lit), IsCode(b.dist), Len(b.ops) \in Nat, NEW out \in Seq(Bytes),
         \A j \in 1 .. Len(b.ops) : IsOp(b, b.ops[j], OpsMeant(b, out)[j - 1]),
         NEW src, NEW pos \in Nat, HasBits(src, pos, OpsBits(b)[Len(b.ops)])
  PROVE  /\ OpsBits(b)[0] = << >>
         /\ \A j \in 0 .. Len(b.ops) : OpsBits(b)[j] \in Seq(Bit)
                                       /\ Len(OpsBits(b)[j]) <= Len(OpsBits(b)[Len(b.ops)])
         /\ \A j \in 1 .. Len(b.ops) :
              /\ OpBits(b.lit, b.dist, b.ops[j]) \in Seq(Bit)
              /\ HasBits(src, pos + Len(OpsBits(b)[j - 1]), OpBits(b.lit, b.dist, b.ops[j]))
              /\ Len(OpsBits(b)[j]) = Len(OpsBits(b)[j - 1]) + Len(OpBits(b.lit, b.dist, b.ops[j]))
<1>. DEFINE N == Len(b.ops)
            f == OpsBits(b)
            Op(j) == OpBits(b.lit, b.dist, b.ops[j])
            g == [j \in 1 .. N |-> Op(j)]
<1>1. /\ f[0] = << >>
      /\ \A j \in 1 .. N : f[j] = f[j - 1] \o Op(j) /\ Op(j) \in Seq(Bit)
  BY OpsTyped
<1>2. \A j \in 1 .. N : g[j] = Op(j)
  OBVIOUS
<1>3. N \in Nat /\ HasBits(src, pos, f[N])
  OBVIOUS
<1>. HIDE DEF N, f, g, Op
<1>4. \A j \in 1 .. N : f[j] = f[j - 1] \o g[j] /\ (f[j - 1] \in Seq(Bit) => g[j] \in Seq(Bit))
  BY ONLY <1>1, <1>2
<1>5. f[0] = << >>
  BY ONLY <1>1
<1>9. Pieces(N, f, g)
  BY ONLY <1>4, <1>5 DEF Pieces
<1>6. /\ \A j \in 0 .. N : f[j] \in Seq(Bit) /\ Len(f[j]) <= Len(f[N])
      /\ \A j \in 1 .. N : /\ g[j] \in Seq(Bit) /\ HasBits(src, pos + Len(f[j - 1]), g[j])
                           /\ Len(f[j]) = Len(f[j - 1]) + Len(g[j])
  <2>1. \A j \in 0 .. N : f[j] \in Seq(Bit) /\ Len(f[j]) <= Len(f[N])
    BY ONLY <1>3, <1>9, pos \in Nat, Chain
  <2>2. \A j \in 1 .. N : HasBits(src, pos + Len(f[j - 1]), g[j])
    BY ONLY <1>3, <1>9, pos \in Nat, Chain
  <2>3. \A j \in 1 .. N : g[j] \in Seq(Bit)
    BY ONLY <1>3, <1>9, pos \in Nat, Chain
  <2>4. ASSUME NEW j \in 1 .. N PROVE Len(f[j]) = Len(f[j - 1]) + Len(g[j])
    <3>1. j - 1 \in 0 .. N
      BY ONLY <1>3, j \in 1 .. N
    <3>2. f[j - 1] \in Seq(Bit) /\ g[j] \in Seq(Bit) /\ f[j] = f[j - 1] \o g[j]
      BY ONLY <1>4, <2>1, <2>3, <3>1, j \in 1 .. N
    <3>. QED
      BY ONLY <3>2, ConcatBits
  <2>. QED
    BY ONLY <2>1, <2>2, <2>3, <2>4
<1>7. \A j \in 1 .. N : /\ Op(j) \in Seq(Bit) /\ HasBits(src, pos + Len(f[j - 1]), Op(j))
                        /\ Len(f[j]) = Len(f[j - 1]) + Len(Op(j))
  BY ONLY <1>2, <1>6
<1>8. \A j \in 0 .. N : f[j] \in Seq(Bit) /\ Len(f[j]) <= Len(f[N])
  BY ONLY <1>6
<1>. QED
  BY ONLY <1>5, <1>7, <1>8 DEF N, f, Op

\* A block with codes, where its parts are: its head, its operations one by
\* one and the code that ends it.
OpsLaid(b, src, last, start) ==
  /\ OpsHead(last, b) \in Seq(Bit) /\ HasBits(src, start, OpsHead(last, b))
  /\ OpsPos(last, b, start, 0) = start + Len(OpsHead(last, b))
  /\ \A j \in 0 .. Len(b.ops) :
       /\ OpsPos(last, b, start, j) \in Nat
       /\ OpsPos(last, b, start, j) <= OpsPos(last, b, start, Len(b.ops))
  /\ \A j \in 1 .. Len(b.ops) :
       /\ HasBits(src, OpsPos(last, b, start, j - 1), OpBits(b.lit, b.dist, b.ops[j]))
       /\ OpsPos(last, b, start, j) =
            OpsPos(last, b, start, j - 1) + Len(OpBits(b.lit, b.dist, b.ops[j]))
  /\ HasBits(src, OpsPos(last, b, start, Len(b.ops)), CodeBits(b.lit, 256))
  /\ BlockBits(last, b, start) \in Seq(Bit) /\ Len(CodeBits(b.lit, 256)) \in Nat
  /\ start + Len(BlockBits(last, b, start)) =
       OpsPos(last, b, start, Len(b.ops)) + Len(CodeBits(b.lit, 256))

\* The same of its code lengths.
LensLaid(b, src, last, start) ==
  /\ HasBits(src, start, Header(last, 2) \o LensRest(b))
  /\ LensPos(last, b, start, 0) = start + 3 + Len(LensRest(b))
  /\ LensPos(last, b, start, Len(b.items)) = OpsPos(last, b, start, 0)
  /\ \A j \in 0 .. Len(b.items) :
       /\ LensPos(last, b, start, j) \in Nat
       /\ LensPos(last, b, start, j) <= LensPos(last, b, start, Len(b.items))
  /\ \A j \in 1 .. Len(b.items) :
       /\ HasBits(src, LensPos(last, b, start, j - 1), ItemBits(b, b.items[j]))
       /\ LensPos(last, b, start, j) = LensPos(last, b, start, j - 1) + Len(ItemBits(b, b.items[j]))

\* What comes before the operations, and the bits of the whole block.
LEMMA HeadSeq ==
  ASSUME NEW b, NEW out, IsBlock(b, out), b.kind # "stored", NEW last \in Bit
  PROVE  /\ OpsHead(last, b) \in Seq(Bit)
         /\ b.kind = "fixed" => OpsHead(last, b) = Header(last, 1)
         /\ b.kind = "dynamic" =>
              /\ OpsHead(last, b) = LensHead(last, b) \o ItemsBits(b)[Len(b.items)]
              /\ LensHead(last, b) \in Seq(Bit) /\ ItemsBits(b)[Len(b.items)] \in Seq(Bit)
<1>1. b.kind = "fixed" \/ b.kind = "dynamic"
  BY CodedIs
<1>2. b.kind = "fixed" => OpsHead(last, b) = Header(last, 1)
  BY DEF OpsHead
<1>3. Header(last, 1) \in Seq(Bit)
  BY HeaderSeq
<1>4. ASSUME b.kind = "dynamic"
      PROVE  /\ OpsHead(last, b) = LensHead(last, b) \o ItemsBits(b)[Len(b.items)]
             /\ LensHead(last, b) \in Seq(Bit) /\ ItemsBits(b)[Len(b.items)] \in Seq(Bit)
  <2>1. OpsHead(last, b) = LensHead(last, b) \o ItemsBits(b)[Len(b.items)]
    BY <1>4 DEF OpsHead
  <2>2. /\ HasLengths(b) /\ IsCode(b.clc) /\ Len(b.items) \in Nat
        /\ \A j \in 1 .. Len(b.items) : IsItem(b, b.items[j], ItemsMeant(b)[j - 1])
    BY <1>4, DynamicIs
  <2>3. LensHead(last, b) \in Seq(Bit)
    BY <2>2, LensHeadIs
  <2>4. \A j \in 0 .. Len(b.items) : ItemsBits(b)[j] \in Seq(Bit)
    <3>1. HasBits(<< >>, 0, ItemsBits(b)[Len(b.items)]) /\ 0 \in Nat
      BY NothingHas
    <3>. QED
      BY ONLY <2>2, <3>1, ItemsSeq
  <2>5. Len(b.items) \in 0 .. Len(b.items)
    BY <2>2
  <2>. QED
    BY ONLY <2>1, <2>3, <2>4, <2>5
<1>5. ASSUME b.kind = "dynamic" PROVE OpsHead(last, b) \in Seq(Bit)
  <2>1. OpsHead(last, b) = LensHead(last, b) \o ItemsBits(b)[Len(b.items)]
    BY <1>4, <1>5
  <2>2. LensHead(last, b) \in Seq(Bit) /\ ItemsBits(b)[Len(b.items)] \in Seq(Bit)
    BY <1>4, <1>5
  <2>. QED
    BY ONLY <2>1, <2>2, ConcatBits
<1>. QED
  BY ONLY <1>1, <1>2, <1>3, <1>4, <1>5

LEMMA CodedTyped ==
  ASSUME NEW b, NEW out \in Seq(Bytes), IsBlock(b, out), b.kind # "stored", NEW last \in Bit, NEW start
  PROVE  /\ BlockBits(last, b, start) = (OpsHead(last, b) \o OpsBits(b)[Len(b.ops)]) \o CodeBits(b.lit, 256)
         /\ OpsHead(last, b) \in Seq(Bit) /\ OpsBits(b)[Len(b.ops)] \in Seq(Bit)
         /\ CodeBits(b.lit, 256) \in Seq(Bit) /\ BlockBits(last, b, start) \in Seq(Bit)
<1>. DEFINE head == OpsHead(last, b)
            ops == OpsBits(b)[Len(b.ops)]
            code == CodeBits(b.lit, 256)
<1>1. BlockBits(last, b, start) = (head \o ops) \o code
  <2>. DEFINE bytes == Header(last, 0)
                         \o (Padding(start + 3)
                               \o Each(Half(Len(b.bytes)) \o Half(65535 - Len(b.bytes)) \o b.bytes, 8))
  <2>1. BlockBits(last, b, start) = IF b.kind = "stored" THEN bytes ELSE (head \o ops) \o code
    BY DEF BlockBits
  <2>. HIDE DEF bytes, head, ops, code
  <2>. QED
    BY ONLY <2>1, b.kind # "stored"
<1>2. head \in Seq(Bit)
  BY HeadSeq
<1>3. /\ IsCode(b.lit) /\ IsCode(b.dist) /\ HasCode(b.lit, 256) /\ Len(b.ops) \in Nat
      /\ \A j \in 1 .. Len(b.ops) : IsOp(b, b.ops[j], OpsMeant(b, out)[j - 1])
  BY CodedIs
<1>4. ops \in Seq(Bit)
  <2>1. HasBits(<< >>, 0, OpsBits(b)[Len(b.ops)]) /\ 0 \in Nat
    BY NothingHas
  <2>2. \A j \in 0 .. Len(b.ops) : OpsBits(b)[j] \in Seq(Bit)
    BY ONLY <1>3, <2>1, out \in Seq(Bytes), OpsSeq
  <2>3. Len(b.ops) \in 0 .. Len(b.ops)
    BY <1>3
  <2>. QED
    BY ONLY <2>2, <2>3
<1>5. code \in Seq(Bit)
  BY ONLY <1>3, CodeFits
<1>. HIDE DEF head, ops, code
<1>6. head \o ops \in Seq(Bit)
  BY ONLY <1>2, <1>4, ConcatBits
<1>7. (head \o ops) \o code \in Seq(Bit)
  BY ONLY <1>5, <1>6, ConcatBits
<1>. QED
  BY ONLY <1>1, <1>2, <1>4, <1>5, <1>7 DEF head, ops, code

\* A block the source holds is laid out so.
LEMMA CodedLaid ==
  ASSUME NEW b, NEW out \in Seq(Bytes), IsBlock(b, out), b.kind # "stored", NEW last \in Bit,
         NEW start \in Nat, NEW src, HasBits(src, start, BlockBits(last, b, start))
  PROVE  OpsLaid(b, src, last, start)
<1>. DEFINE head == OpsHead(last, b)
            N == Len(b.ops)
            f == OpsBits(b)
            Op(j) == OpBits(b.lit, b.dist, b.ops[j])
            ops == f[N]
            code == CodeBits(b.lit, 256)
            bits == BlockBits(last, b, start)
            Pos(j) == OpsPos(last, b, start, j)
            base == start + Len(head)
<1>1. /\ bits = (head \o ops) \o code
      /\ head \in Seq(Bit) /\ ops \in Seq(Bit) /\ code \in Seq(Bit)
      /\ head \o ops \in Seq(Bit) /\ Len(head \o ops) = Len(head) + Len(ops)
      /\ (head \o ops) \o code \in Seq(Bit)
      /\ Len((head \o ops) \o code) = (Len(head) + Len(ops)) + Len(code)
  <2>a. bits = (head \o ops) \o code
    BY ONLY out \in Seq(Bytes), IsBlock(b, out), b.kind # "stored", last \in Bit, CodedTyped
  <2>b. head \in Seq(Bit) /\ ops \in Seq(Bit)
    BY ONLY out \in Seq(Bytes), IsBlock(b, out), b.kind # "stored", last \in Bit, CodedTyped
  <2>c. code \in Seq(Bit)
    BY ONLY out \in Seq(Bytes), IsBlock(b, out), b.kind # "stored", last \in Bit, CodedTyped
  <2>1. /\ bits = (head \o ops) \o code
        /\ head \in Seq(Bit) /\ ops \in Seq(Bit) /\ code \in Seq(Bit)
    BY ONLY <2>a, <2>b, <2>c
  <2>. HIDE DEF bits, head, ops, code
  <2>2. head \o ops \in Seq(Bit) /\ Len(head \o ops) = Len(head) + Len(ops)
    BY ONLY <2>1, ConcatBits
  <2>3. (head \o ops) \o code \in Seq(Bit) /\ Len((head \o ops) \o code) = Len(head \o ops) + Len(code)
    BY ONLY <2>1, <2>2, ConcatBits
  <2>. QED
    BY ONLY <2>1, <2>2, <2>3
<1>2. /\ IsCode(b.lit) /\ IsCode(b.dist) /\ Len(b.ops) \in Nat
      /\ \A j \in 1 .. Len(b.ops) : IsOp(b, b.ops[j], OpsMeant(b, out)[j - 1])
  BY CodedIs
<1>3. N \in Nat /\ HasBits(src, start, bits)
  BY <1>2
<1>4. \A j : Pos(j) = base + Len(f[j])
  BY DEF OpsPos
<1>5. HasBits(src, start, head) /\ HasBits(src, base, ops)
      /\ HasBits(src, start + Len(head \o ops), code)
  <2>. HIDE DEF head, ops, code, bits
  <2>1. HasBits(src, start, (head \o ops) \o code)
    BY ONLY <1>1, <1>3
  <2>2. HasBits(src, start, head \o ops) /\ HasBits(src, start + Len(head \o ops), code)
    BY ONLY <1>1, <2>1, start \in Nat, HasConcat
  <2>3. HasBits(src, start, head) /\ HasBits(src, start + Len(head), ops)
    BY ONLY <1>1, <2>2, start \in Nat, HasConcat
  <2>. QED
    BY ONLY <2>2, <2>3
<1>6. base \in Nat
  <2>1. Len(head) \in Nat
    <3>. HIDE DEF head
    <3>. QED
      BY ONLY <1>1
  <2>. HIDE DEF head
  <2>. QED
    BY ONLY <2>1, start \in Nat
<1>7. /\ f[0] = << >>
      /\ \A j \in 0 .. N : f[j] \in Seq(Bit) /\ Len(f[j]) <= Len(f[N])
      /\ \A j \in 1 .. N : /\ Op(j) \in Seq(Bit) /\ HasBits(src, base + Len(f[j - 1]), Op(j))
                           /\ Len(f[j]) = Len(f[j - 1]) + Len(Op(j))
  <2>. HIDE DEF base
  <2>1. HasBits(src, base, OpsBits(b)[Len(b.ops)])
    BY ONLY <1>5
  <2>2. OpsBits(b)[0] = << >>
    BY ONLY <1>2, <1>6, <2>1, out \in Seq(Bytes), OpsSeq
  <2>3. \A j \in 0 .. Len(b.ops) : OpsBits(b)[j] \in Seq(Bit)
                                   /\ Len(OpsBits(b)[j]) <= Len(OpsBits(b)[Len(b.ops)])
    BY ONLY <1>2, <1>6, <2>1, out \in Seq(Bytes), OpsSeq
  <2>4. \A j \in 1 .. Len(b.ops) :
          /\ OpBits(b.lit, b.dist, b.ops[j]) \in Seq(Bit)
          /\ HasBits(src, base + Len(OpsBits(b)[j - 1]), OpBits(b.lit, b.dist, b.ops[j]))
          /\ Len(OpsBits(b)[j]) = Len(OpsBits(b)[j - 1]) + Len(OpBits(b.lit, b.dist, b.ops[j]))
    BY ONLY <1>2, <1>6, <2>1, out \in Seq(Bytes), OpsSeq
  <2>. QED
    BY ONLY <2>2, <2>3, <2>4
<1>8. \A j \in 0 .. N : Len(f[j]) \in Nat
  <2>. HIDE DEF N, f
  <2>. QED
    BY ONLY <1>7
<1>9. Len(f[0]) = 0
  BY <1>7
<1>10. Len(code) \in Nat /\ Len(head) \in Nat
  <2>. HIDE DEF code, head
  <2>. QED
    BY ONLY <1>1
<1>11. start + Len(bits) = (base + Len(f[N])) + Len(code)
  <2>. DEFINE l == Len(bits)
              x == Len(head)
              y == Len(f[N])
              z == Len(code)
  <2>1. l = (x + y) + z /\ x \in Nat /\ z \in Nat
    BY ONLY <1>1, <1>10
  <2>2. y \in Nat
    BY ONLY <1>3, <1>8
  <2>3. base = start + x
    OBVIOUS
  <2>. HIDE DEF l, x, y, z, base
  <2>4. start + l = (base + y) + z
    BY ONLY <2>1, <2>2, <2>3, start \in Nat
  <2>. QED
    BY ONLY <2>4 DEF l, y, z
<1>. HIDE DEF head, N, f, Op, code, bits, Pos, base
<1>12. \A j \in 1 .. N : j - 1 \in 0 .. N /\ j \in 0 .. N
  BY ONLY <1>3
<1>13. HasBits(src, Pos(N), code)
  <2>1. start + Len(head \o ops) = base + Len(f[N])
    <3>1. Len(head \o ops) = Len(head) + Len(f[N])
      BY ONLY <1>1
    <3>2. Len(f[N]) \in Nat
      BY ONLY <1>3, <1>8
    <3>. DEFINE x == Len(head)
                y == Len(f[N])
    <3>3. x \in Nat /\ y \in Nat
      BY ONLY <1>10, <3>2
    <3>4. Len(head \o ops) = x + y /\ base = start + x
      BY ONLY <3>1 DEF base
    <3>. HIDE DEF x, y
    <3>5. start + (x + y) = (start + x) + y
      BY ONLY <3>3, start \in Nat
    <3>. QED
      BY ONLY <3>4, <3>5 DEF y
  <2>. QED
    BY ONLY <1>4, <1>5, <2>1
<1>14. Pos(0) = base
  BY ONLY <1>4, <1>6, <1>9
<1>15. \A j \in 0 .. N : Pos(j) \in Nat /\ Pos(j) <= Pos(N)
  <2>1. ASSUME NEW j \in 0 .. N PROVE Pos(j) \in Nat /\ Pos(j) <= Pos(N)
    <3>. DEFINE x == Len(f[j])
                y == Len(f[N])
    <3>1. x \in Nat /\ y \in Nat /\ x <= y /\ Pos(j) = base + x /\ Pos(N) = base + y
      BY ONLY <1>3, <1>4, <1>7, <1>8, j \in 0 .. N
    <3>. HIDE DEF x, y
    <3>. QED
      BY ONLY <1>6, <3>1
  <2>. QED
    BY ONLY <2>1
<1>16. \A j \in 1 .. N : HasBits(src, Pos(j - 1), Op(j)) /\ Pos(j) = Pos(j - 1) + Len(Op(j))
  <2>1. ASSUME NEW j \in 1 .. N
        PROVE  HasBits(src, Pos(j - 1), Op(j)) /\ Pos(j) = Pos(j - 1) + Len(Op(j))
    <3>1. j - 1 \in 0 .. N
      BY ONLY <1>12, j \in 1 .. N
    <3>2. Op(j) \in Seq(Bit) /\ HasBits(src, base + Len(f[j - 1]), Op(j))
          /\ Len(f[j]) = Len(f[j - 1]) + Len(Op(j))
      BY ONLY <1>7, j \in 1 .. N
    <3>3. Pos(j - 1) = base + Len(f[j - 1]) /\ Pos(j) = base + Len(f[j])
      BY ONLY <1>4
    <3>. DEFINE x == Len(f[j - 1])
                y == Len(Op(j))
                z == Len(f[j])
    <3>4. x \in Nat /\ y \in Nat
      BY ONLY <1>8, <3>1, <3>2
    <3>5. z = x + y /\ Pos(j - 1) = base + x /\ Pos(j) = base + z
      BY ONLY <3>2, <3>3
    <3>6. HasBits(src, Pos(j - 1), Op(j))
      BY ONLY <3>2, <3>3
    <3>. HIDE DEF x, y, z
    <3>7. Pos(j) = Pos(j - 1) + y
      BY ONLY <1>6, <3>4, <3>5
    <3>. QED
      BY ONLY <3>6, <3>7 DEF y
  <2>. QED
    BY ONLY <2>1
<1>17. start + Len(bits) = Pos(N) + Len(code)
  BY ONLY <1>4, <1>11
<1>18. bits \in Seq(Bit)
  BY ONLY <1>1
<1>19. Pos(0) = start + Len(head)
  BY ONLY <1>14 DEF base
<1>20. head \in Seq(Bit) /\ HasBits(src, start, head)
  BY ONLY <1>1, <1>5
<1>. QED
  BY ONLY <1>10, <1>13, <1>15, <1>16, <1>17, <1>18, <1>19, <1>20, Zenon
     DEF OpsLaid, head, N, Op, code, bits, Pos

LEMMA DynamicLaid ==
  ASSUME NEW b, NEW out, IsBlock(b, out), b.kind = "dynamic", NEW last \in Bit,
         NEW start \in Nat, NEW src, HasBits(src, start, OpsHead(last, b)),
         OpsPos(last, b, start, 0) = start + Len(OpsHead(last, b))
  PROVE  LensLaid(b, src, last, start)
<1>. DEFINE head == LensHead(last, b)
            N == Len(b.items)
            f == ItemsBits(b)
            It(j) == ItemBits(b, b.items[j])
            items == f[N]
            all == OpsHead(last, b)
            Pos(j) == LensPos(last, b, start, j)
            base == start + Len(head)
<1>1. /\ all = head \o items /\ head \in Seq(Bit) /\ items \in Seq(Bit)
      /\ head \o items \in Seq(Bit) /\ Len(head \o items) = Len(head) + Len(items)
  <2>1. b.kind # "stored"
    OBVIOUS
  <2>2. all = head \o items /\ head \in Seq(Bit) /\ items \in Seq(Bit)
    BY ONLY IsBlock(b, out), b.kind = "dynamic", <2>1, last \in Bit, HeadSeq
  <2>. HIDE DEF all, head, items
  <2>3. head \o items \in Seq(Bit) /\ Len(head \o items) = Len(head) + Len(items)
    BY ONLY <2>2, ConcatBits
  <2>. QED
    BY ONLY <2>2, <2>3
<1>2. /\ HasLengths(b) /\ IsCode(b.clc) /\ Len(b.items) \in Nat
      /\ \A j \in 1 .. Len(b.items) : IsItem(b, b.items[j], ItemsMeant(b)[j - 1])
  BY DynamicIs
<1>3. N \in Nat /\ HasBits(src, start, all)
  BY <1>2
<1>4. \A j : Pos(j) = base + Len(f[j])
  BY DEF LensPos
<1>5. HasBits(src, start, head) /\ HasBits(src, base, items)
  <2>. HIDE DEF head, items, all
  <2>1. HasBits(src, start, head \o items)
    BY ONLY <1>1, <1>3
  <2>. QED
    BY ONLY <1>1, <2>1, start \in Nat, HasConcat
<1>6. head = Header(last, 2) \o LensRest(b) /\ Len(head) = 3 + Len(LensRest(b))
  BY ONLY <1>2, last \in Bit, LensHeadIs
<1>7. Len(head) \in Nat /\ base \in Nat
  <2>1. Len(head) \in Nat
    <3>. HIDE DEF head
    <3>. QED
      BY ONLY <1>1
  <2>. HIDE DEF head
  <2>. QED
    BY ONLY <2>1, start \in Nat
<1>8. /\ f[0] = << >>
      /\ \A j \in 0 .. N : f[j] \in Seq(Bit) /\ Len(f[j]) <= Len(f[N])
      /\ \A j \in 1 .. N : /\ It(j) \in Seq(Bit) /\ HasBits(src, base + Len(f[j - 1]), It(j))
                           /\ Len(f[j]) = Len(f[j - 1]) + Len(It(j))
  <2>. HIDE DEF base
  <2>1. HasBits(src, base, ItemsBits(b)[Len(b.items)])
    BY ONLY <1>5
  <2>2. ItemsBits(b)[0] = << >>
    BY ONLY <1>2, <1>7, <2>1, ItemsSeq
  <2>3. \A j \in 0 .. Len(b.items) : ItemsBits(b)[j] \in Seq(Bit)
                                     /\ Len(ItemsBits(b)[j]) <= Len(ItemsBits(b)[Len(b.items)])
    BY ONLY <1>2, <1>7, <2>1, ItemsSeq
  <2>4. \A j \in 1 .. Len(b.items) :
          /\ ItemBits(b, b.items[j]) \in Seq(Bit)
          /\ HasBits(src, base + Len(ItemsBits(b)[j - 1]), ItemBits(b, b.items[j]))
          /\ Len(ItemsBits(b)[j]) = Len(ItemsBits(b)[j - 1]) + Len(ItemBits(b, b.items[j]))
    BY ONLY <1>2, <1>7, <2>1, ItemsSeq
  <2>. QED
    BY ONLY <2>2, <2>3, <2>4
<1>9. \A j \in 0 .. N : Len(f[j]) \in Nat
  <2>. HIDE DEF N, f
  <2>. QED
    BY ONLY <1>8
<1>10. Len(f[0]) = 0
  BY <1>8
<1>11. start + Len(all) = base + Len(f[N])
  <2>. DEFINE l == Len(all)
              x == Len(head)
              y == Len(f[N])
  <2>1. l = x + y /\ x \in Nat
    BY ONLY <1>1, <1>7
  <2>2. y \in Nat
    BY ONLY <1>3, <1>9
  <2>3. base = start + x
    OBVIOUS
  <2>. HIDE DEF l, x, y, base
  <2>4. start + l = base + y
    BY ONLY <2>1, <2>2, <2>3, start \in Nat
  <2>. QED
    BY ONLY <2>4 DEF l, y
<1>12. base = start + 3 + Len(LensRest(b))
  <2>. DEFINE r == Len(LensRest(b))
              h == Len(head)
  <2>1. r \in Nat
    <3>1. LensRest(b) \in Seq(Bit)
      BY ONLY <1>2, RestSeq
    <3>. QED
      BY ONLY <3>1
  <2>2. h = 3 + r /\ base = start + h
    BY ONLY <1>6
  <2>. HIDE DEF r, h, base
  <2>3. base = start + 3 + r
    BY ONLY <2>1, <2>2, start \in Nat
  <2>. QED
    BY ONLY <2>3 DEF r
<1>. DEFINE ends == OpsPos(last, b, start, 0)
<1>13. ends = start + Len(all)
  OBVIOUS
<1>14. HasBits(src, start, Header(last, 2) \o LensRest(b))
  BY ONLY <1>5, <1>6
<1>. HIDE DEF head, N, f, It, all, Pos, base, ends
<1>15. Pos(0) = start + 3 + Len(LensRest(b))
  <2>1. Pos(0) = base + Len(f[0])
    BY ONLY <1>4
  <2>2. Pos(0) = base
    BY ONLY <1>7, <1>10, <2>1
  <2>. QED
    BY ONLY <1>12, <2>2
<1>16. Pos(N) = ends
  BY ONLY <1>4, <1>11, <1>13
<1>17. \A j \in 0 .. N : Pos(j) \in Nat /\ Pos(j) <= Pos(N)
  <2>1. ASSUME NEW j \in 0 .. N PROVE Pos(j) \in Nat /\ Pos(j) <= Pos(N)
    <3>. DEFINE x == Len(f[j])
                y == Len(f[N])
    <3>1. x \in Nat /\ y \in Nat /\ x <= y /\ Pos(j) = base + x /\ Pos(N) = base + y
      BY ONLY <1>3, <1>4, <1>8, <1>9, j \in 0 .. N
    <3>. HIDE DEF x, y
    <3>. QED
      BY ONLY <1>7, <3>1
  <2>. QED
    BY ONLY <2>1
<1>18. \A j \in 1 .. N : HasBits(src, Pos(j - 1), It(j)) /\ Pos(j) = Pos(j - 1) + Len(It(j))
  <2>1. ASSUME NEW j \in 1 .. N
        PROVE  HasBits(src, Pos(j - 1), It(j)) /\ Pos(j) = Pos(j - 1) + Len(It(j))
    <3>1. j - 1 \in 0 .. N
      BY ONLY <1>3, j \in 1 .. N
    <3>2. It(j) \in Seq(Bit) /\ HasBits(src, base + Len(f[j - 1]), It(j))
          /\ Len(f[j]) = Len(f[j - 1]) + Len(It(j))
      BY ONLY <1>8, j \in 1 .. N
    <3>3. Pos(j - 1) = base + Len(f[j - 1]) /\ Pos(j) = base + Len(f[j])
      BY ONLY <1>4
    <3>. DEFINE x == Len(f[j - 1])
                y == Len(It(j))
                z == Len(f[j])
    <3>4. x \in Nat /\ y \in Nat
      BY ONLY <1>9, <3>1, <3>2
    <3>5. z = x + y /\ Pos(j - 1) = base + x /\ Pos(j) = base + z
      BY ONLY <3>2, <3>3
    <3>6. HasBits(src, Pos(j - 1), It(j))
      BY ONLY <3>2, <3>3
    <3>. HIDE DEF x, y, z
    <3>7. Pos(j) = Pos(j - 1) + y
      BY ONLY <1>7, <3>4, <3>5
    <3>. QED
      BY ONLY <3>6, <3>7 DEF y
  <2>. QED
    BY ONLY <2>1
<1>. QED
  BY ONLY <1>14, <1>15, <1>16, <1>17, <1>18, Zenon DEF LensLaid, N, It, Pos, ends

-----------------------------------------------------------------------------
(* The turns of a block, in whichever of the loops the decoder is.          *)

\* The decoder among the code lengths and among the operations of a block.
ItemAt(b, last, start, out, j) ==
  AtLens(LensPos(last, b, start, j), out, last, HuffBuild(b.clc), Len(b.lit),
         Len(b.lit) + Len(b.dist), ItemsMeant(b)[j])
OpAt(b, last, start, out, j) ==
  AtCodes(OpsPos(last, b, start, j), OpsMeant(b, out)[j], last, HuffBuild(b.lit), HuffBuild(b.dist))

\* No code length's count is cut in its middle.
CutsNo(b, src, last, start) ==
  \A j \in 1 .. Len(b.items) :
    8 * Len(src) \notin LensPos(last, b, start, j) - ItemExtra(b.items[j])
                        .. LensPos(last, b, start, j) - 1

\* A turn at code length j reads it, if its bits are there, and the last one
\* leaves the decoder at the operations.
LEMMA ItemTurn ==
  ASSUME NEW b, NEW out \in Seq(Bytes), IsBlock(b, out), b.kind = "dynamic", NEW last, NEW start,
         NEW src, Len(src) \in Nat, LensLaid(b, src, last, start), CutsNo(b, src, last, start),
         NEW j \in 0 .. Len(b.items), j # Len(b.items)
  PROVE  LensTurn(src, ItemAt(b, last, start, out, j)) =
           IF LensPos(last, b, start, j + 1) <= 8 * Len(src)
           THEN ItemAt(b, last, start, out, j + 1) ELSE Ended(Fail)
<1>. DEFINE M == Len(b.items)
            item == b.items[j + 1]
            meant == ItemsMeant(b)
            lens == meant[j]
            nlit == Len(b.lit)
            total == Len(b.lit) + Len(b.dist)
            pos == LensPos(last, b, start, j)
            end == LensPos(last, b, start, j + 1)
            clc == HuffBuild(b.clc)
            At(n, l) == AtLens(n, out, last, clc, nlit, total, l)
<1>1. /\ HasLengths(b) /\ IsCode(b.clc) /\ Len(b.items) \in Nat
      /\ \A i \in 1 .. Len(b.items) : IsItem(b, b.items[i], ItemsMeant(b)[i - 1])
      /\ ItemsMeant(b)[Len(b.items)] = b.lit \o b.dist
  BY DynamicIs
<1>2. j + 1 \in 1 .. M /\ (j + 1) - 1 = j /\ j + 1 \in 0 .. M /\ j \in 0 .. M /\ M \in 0 .. M
  BY <1>1
<1>3. /\ \A i \in 1 .. M : /\ meant[i] = meant[i - 1] \o ItemMeant(meant[i - 1], b.items[i])
                           /\ Len(meant[i]) = Len(meant[i - 1]) + ItemRun(b.items[i])
      /\ \A i \in 0 .. M : meant[i] \in Seq(0 .. MaxBits) /\ Len(meant[i]) <= Len(meant[M])
  BY <1>1, ItemsTyped
<1>4. Len(meant[M]) = total /\ total \in Nat
  <2>1. b.lit \in Seq(0 .. MaxBits) /\ b.dist \in Seq(0 .. MaxBits)
    <3>1. IsCode(b.lit) /\ IsCode(b.dist)
      BY CodedIs
    <3>. QED
      BY ONLY <3>1 DEF IsCode
  <2>. DEFINE x == b.lit
              y == b.dist
  <2>2. total = Len(x) + Len(y) /\ meant[M] = x \o y
    BY ONLY <1>1
  <2>. HIDE DEF x, y, total
  <2>3. Len(x \o y) = Len(x) + Len(y)
    BY ONLY <2>1 DEF x, y
  <2>4. Len(x) \in Nat /\ Len(y) \in Nat
    BY ONLY <2>1 DEF x, y
  <2>. QED
    BY ONLY <2>2, <2>3, <2>4
<1>5. /\ HasBits(src, pos, ItemBits(b, item)) /\ end = pos + Len(ItemBits(b, item)) /\ pos \in Nat
  BY <1>2 DEF LensLaid
<1>6. 8 * Len(src) \notin end - ItemExtra(item) .. end - 1
  BY <1>2 DEF CutsNo
<1>7. IsItem(b, item, lens)
  BY ONLY <1>1, <1>2
<1>. HIDE DEF M, item, meant, pos, end, total
<1>8. lens \in Seq(0 .. MaxBits)
  BY ONLY <1>2, <1>3
<1>9. meant[j + 1] = lens \o ItemMeant(lens, item) /\ Len(lens) + ItemRun(item) <= total
  <2>1. meant[j + 1] = meant[(j + 1) - 1] \o ItemMeant(meant[(j + 1) - 1], b.items[j + 1])
        /\ Len(meant[j + 1]) = Len(meant[(j + 1) - 1]) + ItemRun(b.items[j + 1])
        /\ Len(meant[j + 1]) <= Len(meant[M])
    BY ONLY <1>2, <1>3
  <2>. QED
    BY ONLY <1>2, <1>4, <2>1 DEF item
<1>10. LensTurn(src, At(pos, lens)) =
         IF end <= 8 * Len(src) THEN At(end, lens \o ItemMeant(lens, item)) ELSE Ended(Fail)
  <2>1. 8 * Len(src) \notin (pos + Len(ItemBits(b, item))) - ItemExtra(item)
                            .. (pos + Len(ItemBits(b, item))) - 1
    BY ONLY <1>5, <1>6
  <2>2. /\ IsCode(b.clc) /\ HasBits(src, pos, ItemBits(b, item)) /\ pos \in Nat
    BY ONLY <1>1, <1>5
  <2>. HIDE DEF lens, clc, nlit
  <2>3. LensTurn(src, AtLens(pos, out, last, HuffBuild(b.clc), nlit, total, lens)) =
          IF pos + Len(ItemBits(b, item)) <= 8 * Len(src)
          THEN AtLens(pos + Len(ItemBits(b, item)), out, last, HuffBuild(b.clc), nlit, total,
                      lens \o ItemMeant(lens, item))
          ELSE Ended(Fail)
    <3>1. Len(lens) + ItemRun(item) <= total /\ total \in Nat
      BY ONLY <1>4, <1>9
    <3>. QED
      BY ONLY <1>7, <1>8, <2>1, <2>2, <3>1, Len(src) \in Nat, LensStep
  <2>. QED
    BY ONLY <1>5, <2>3 DEF clc
<1>11. ItemAt(b, last, start, out, j) = At(pos, lens) /\ ItemAt(b, last, start, out, j + 1) = At(end, meant[j + 1])
  BY DEF ItemAt, pos, end, meant, total
<1>. HIDE DEF lens, At
<1>12. LensTurn(src, ItemAt(b, last, start, out, j)) =
         IF end <= 8 * Len(src) THEN ItemAt(b, last, start, out, j + 1) ELSE Ended(Fail)
  BY ONLY <1>9, <1>10, <1>11
<1>. QED
  BY ONLY <1>12 DEF end

LEMMA ItemsDone ==
  ASSUME NEW b, NEW out \in Seq(Bytes), IsBlock(b, out), b.kind = "dynamic", NEW last, NEW start,
         NEW src, LensLaid(b, src, last, start)
  PROVE  LensTurn(src, ItemAt(b, last, start, out, Len(b.items))) = OpAt(b, last, start, out, 0)
<1>1. ItemsMeant(b)[Len(b.items)] = b.lit \o b.dist
  BY DynamicIs
<1>2. IsCode(b.lit) /\ IsCode(b.dist) /\ Len(b.ops) \in Nat
      /\ \A j \in 1 .. Len(b.ops) : IsOp(b, b.ops[j], OpsMeant(b, out)[j - 1])
  BY CodedIs
<1>3. OpsMeant(b, out)[0] = out
  BY <1>2, OpsTyped
<1>4. LensPos(last, b, start, Len(b.items)) = OpsPos(last, b, start, 0)
  BY DEF LensLaid
<1>. DEFINE pos == OpsPos(last, b, start, 0)
<1>5. LensTurn(src, AtLens(pos, out, last, HuffBuild(b.clc), Len(b.lit), Len(b.lit) + Len(b.dist),
                           b.lit \o b.dist)) =
        AtCodes(pos, out, last, HuffBuild(b.lit), HuffBuild(b.dist))
  <2>. HIDE DEF pos
  <2>. QED
    BY ONLY <1>2, LensEnd
<1>6. ItemAt(b, last, start, out, Len(b.items)) =
        AtLens(pos, out, last, HuffBuild(b.clc), Len(b.lit), Len(b.lit) + Len(b.dist), b.lit \o b.dist)
  BY ONLY <1>1, <1>4 DEF ItemAt
<1>7. OpAt(b, last, start, out, 0) = AtCodes(pos, out, last, HuffBuild(b.lit), HuffBuild(b.dist))
  BY ONLY <1>3 DEF OpAt
<1>. QED
  BY ONLY <1>5, <1>6, <1>7

\* A turn at operation j does it, if its bits are there and there is room, and
\* the last one ends the block.
LEMMA OpTurn ==
  ASSUME NEW b, NEW out \in Seq(Bytes), IsBlock(b, out), b.kind # "stored", NEW last, NEW start,
         NEW src, Len(src) \in Nat, NEW cap \in Nat, OpsLaid(b, src, last, start),
         NEW j \in 0 .. Len(b.ops), j # Len(b.ops)
  PROVE  CodesTurn(src, cap, OpAt(b, last, start, out, j)) =
           IF OpsPos(last, b, start, j + 1) <= 8 * Len(src) /\ Len(OpsMeant(b, out)[j + 1]) <= cap
           THEN OpAt(b, last, start, out, j + 1) ELSE Ended(Fail)
<1>. DEFINE N == Len(b.ops)
            op == b.ops[j + 1]
            meant == OpsMeant(b, out)
            bytes == meant[j]
            pos == OpsPos(last, b, start, j)
            end == OpsPos(last, b, start, j + 1)
            At(n, l) == AtCodes(n, l, last, HuffBuild(b.lit), HuffBuild(b.dist))
<1>1. /\ IsCode(b.lit) /\ IsCode(b.dist) /\ Len(b.ops) \in Nat
      /\ \A i \in 1 .. Len(b.ops) : IsOp(b, b.ops[i], OpsMeant(b, out)[i - 1])
  BY CodedIs
<1>2. j + 1 \in 1 .. N /\ (j + 1) - 1 = j /\ j \in 0 .. N
  BY <1>1
<1>3. /\ \A i \in 1 .. N : meant[i] = meant[i - 1] \o OpMeant(meant[i - 1], b.ops[i])
      /\ \A i \in 0 .. N : meant[i] \in Seq(Bytes)
  BY <1>1, OpsTyped
<1>5. /\ HasBits(src, pos, OpBits(b.lit, b.dist, op)) /\ end = pos + Len(OpBits(b.lit, b.dist, op))
      /\ pos \in Nat
  BY <1>2 DEF OpsLaid
<1>7. IsOp(b, op, bytes)
  BY ONLY <1>1, <1>2
<1>. HIDE DEF N, op, meant, pos, end
<1>8. bytes \in Seq(Bytes)
  BY ONLY <1>2, <1>3
<1>9. meant[j + 1] = bytes \o OpMeant(bytes, op)
  <2>1. meant[j + 1] = meant[(j + 1) - 1] \o OpMeant(meant[(j + 1) - 1], b.ops[j + 1])
    BY ONLY <1>2, <1>3
  <2>. QED
    BY ONLY <1>2, <2>1 DEF op
<1>10. CodesTurn(src, cap, At(pos, bytes)) =
         IF end <= 8 * Len(src) /\ Len(bytes \o OpMeant(bytes, op)) <= cap
         THEN At(end, bytes \o OpMeant(bytes, op)) ELSE Ended(Fail)
  <2>2. HasBits(src, pos, OpBits(b.lit, b.dist, op)) /\ pos \in Nat
    BY ONLY <1>5
  <2>4. IsCode(b.lit) /\ IsCode(b.dist)
    BY ONLY <1>1
  <2>. HIDE DEF bytes
  <2>. DEFINE fin == pos + Len(OpBits(b.lit, b.dist, op))
              then == bytes \o OpMeant(bytes, op)
  <2>3. CodesTurn(src, cap, AtCodes(pos, bytes, last, HuffBuild(b.lit), HuffBuild(b.dist))) =
          IF fin <= 8 * Len(src) /\ Len(then) <= cap
          THEN AtCodes(fin, then, last, HuffBuild(b.lit), HuffBuild(b.dist)) ELSE Ended(Fail)
    BY ONLY <1>7, <1>8, <2>2, <2>4, Len(src) \in Nat, cap \in Nat, CodesStep
  <2>5. fin = end
    BY ONLY <1>5
  <2>. HIDE DEF fin, then
  <2>6. CodesTurn(src, cap, AtCodes(pos, bytes, last, HuffBuild(b.lit), HuffBuild(b.dist))) =
          IF end <= 8 * Len(src) /\ Len(then) <= cap
          THEN AtCodes(end, then, last, HuffBuild(b.lit), HuffBuild(b.dist)) ELSE Ended(Fail)
    BY ONLY <2>3, <2>5
  <2>. QED
    BY ONLY <2>6 DEF then
<1>11. OpAt(b, last, start, out, j) = At(pos, bytes) /\ OpAt(b, last, start, out, j + 1) = At(end, meant[j + 1])
  BY DEF OpAt, pos, end, meant
<1>. HIDE DEF bytes, At
<1>12. CodesTurn(src, cap, OpAt(b, last, start, out, j)) =
         IF end <= 8 * Len(src) /\ Len(meant[j + 1]) <= cap
         THEN OpAt(b, last, start, out, j + 1) ELSE Ended(Fail)
  BY ONLY <1>9, <1>10, <1>11
<1>. QED
  BY ONLY <1>12 DEF end, meant

LEMMA OpsDone ==
  ASSUME NEW b, NEW out \in Seq(Bytes), IsBlock(b, out), b.kind # "stored", NEW last, NEW start,
         NEW src, Len(src) \in Nat, NEW cap \in Nat, OpsLaid(b, src, last, start)
  PROVE  CodesTurn(src, cap, OpAt(b, last, start, out, Len(b.ops))) =
           IF start + Len(BlockBits(last, b, start)) <= 8 * Len(src)
           THEN AfterBlock(start + Len(BlockBits(last, b, start)), BlockMeant(b, out), last)
           ELSE Ended(Fail)
<1>1. IsCode(b.lit) /\ HasCode(b.lit, 256) /\ Len(b.ops) \in Nat
  BY CodedIs
<1>. DEFINE N == Len(b.ops)
            pos == OpsPos(last, b, start, N)
            meant == OpsMeant(b, out)[N]
            end == start + Len(BlockBits(last, b, start))
<1>2. /\ pos \in Nat /\ HasBits(src, pos, CodeBits(b.lit, 256)) /\ end = pos + Len(CodeBits(b.lit, 256))
  <2>1. N \in 0 .. N
    BY <1>1
  <2>. QED
    BY <2>1 DEF OpsLaid
<1>3. BlockMeant(b, out) = meant
  BY DEF BlockMeant
<1>4. OpAt(b, last, start, out, N) = AtCodes(pos, meant, last, HuffBuild(b.lit), HuffBuild(b.dist))
  BY DEF OpAt
<1>. HIDE DEF N, pos, meant, end
<1>. DEFINE fin == pos + Len(CodeBits(b.lit, 256))
<1>5. CodesTurn(src, cap, AtCodes(pos, meant, last, HuffBuild(b.lit), HuffBuild(b.dist))) =
        IF fin <= 8 * Len(src) THEN AfterBlock(fin, meant, last) ELSE Ended(Fail)
  BY ONLY <1>1, <1>2, Len(src) \in Nat, CodesEnd
<1>6. fin = end
  BY ONLY <1>2
<1>. HIDE DEF fin
<1>7. CodesTurn(src, cap, OpAt(b, last, start, out, N)) =
        IF end <= 8 * Len(src) THEN AfterBlock(end, BlockMeant(b, out), last) ELSE Ended(Fail)
  BY ONLY <1>3, <1>4, <1>5, <1>6
<1>. QED
  BY ONLY <1>7 DEF N, end

\* After a block: its bytes, if it is all there and there is room.
BlockEnds(b, last, start, out, src, cap) ==
  IF start + Len(BlockBits(last, b, start)) <= 8 * Len(src) /\ Len(BlockMeant(b, out)) <= cap
  THEN AfterBlock(start + Len(BlockBits(last, b, start)), BlockMeant(b, out), last)
  ELSE Ended(Fail)

\* The decoder within a block: all read so far was there, and fitted.
InBlock(p, b, last, start, out, src, cap) ==
  \/ /\ b.kind = "dynamic" /\ Len(out) <= cap
     /\ \E j \in 0 .. Len(b.items) :
          LensPos(last, b, start, j) <= 8 * Len(src) /\ p = ItemAt(b, last, start, out, j)
  \/ /\ b.kind # "stored"
     /\ \E j \in 0 .. Len(b.ops) :
          /\ OpsPos(last, b, start, j) <= 8 * Len(src) /\ Len(OpsMeant(b, out)[j]) <= cap
          /\ p = OpAt(b, last, start, out, j)

\* The turn at the head of a block, of each kind.
LEMMA StoredSplit ==
  ASSUME NEW b, b.kind = "stored", NEW last, NEW start
  PROVE  BlockBits(last, b, start) = Header(last, 0) \o StoredBits(b.bytes, start + 3)
<1>. DEFINE bytes == Header(last, 0)
                       \o (Padding(start + 3)
                             \o Each(Half(Len(b.bytes)) \o Half(65535 - Len(b.bytes)) \o b.bytes, 8))
            coded == (OpsHead(last, b) \o OpsBits(b)[Len(b.ops)]) \o CodeBits(b.lit, 256)
<1>1. BlockBits(last, b, start) = IF b.kind = "stored" THEN bytes ELSE coded
  BY DEF BlockBits
<1>2. bytes = Header(last, 0) \o StoredBits(b.bytes, start + 3)
  BY DEF StoredBits, StoredValue
<1>. HIDE DEF bytes, coded
<1>. QED
  BY ONLY <1>1, <1>2, b.kind = "stored"

LEMMA StoredTurn ==
  ASSUME NEW b, NEW out \in Seq(Bytes), IsBlock(b, out), b.kind = "stored", NEW last \in Bit,
         NEW start \in Nat, NEW src \in Seq(Bytes), NEW cap \in Nat,
         HasBits(src, start, BlockBits(last, b, start))
  PROVE  BlockTurn(src, cap, AtBlock(start, out)) = BlockEnds(b, last, start, out, src, cap)
<1>. DEFINE q == start + 3
            rest == StoredBits(b.bytes, q)
            bits == BlockBits(last, b, start)
            turn == BlockTurn(src, cap, AtBlock(start, out))
            bytes == b.bytes
<1>1. bytes \in Seq(Bytes) /\ Len(bytes) < Two[16] /\ q \in Nat
  BY StoredIs
<1>2. bits = Header(last, 0) \o rest
  BY ONLY b.kind = "stored", StoredSplit
<1>3. rest \in Seq(Bit)
  <2>. HIDE DEF q, bytes
  <2>. QED
    BY ONLY <1>1, StoredLen DEF bytes
<1>4. Header(last, 0) \in Seq(Bit) /\ Len(Header(last, 0)) = 3
  BY HeaderSeq
<1>5. Len(bits) = 3 + Len(rest)
  <2>. HIDE DEF rest, bits
  <2>1. Len(Header(last, 0) \o rest) = Len(Header(last, 0)) + Len(rest)
    BY ONLY <1>3, <1>4, ConcatBits
  <2>. QED
    BY ONLY <1>2, <1>4, <2>1
<1>6. Len(rest) \in Nat
  <2>. HIDE DEF rest
  <2>. QED
    BY ONLY <1>3
<1>7. HasBits(src, start, (<< last >> \o Low(0, 2)) \o rest)
  BY ONLY <1>2, HasBits(src, start, bits) DEF Header
<1>8. Len(src) \in Nat /\ 0 \in 0 .. 2
  OBVIOUS
<1>. HIDE DEF rest, turn, bits, bytes
<1>9. /\ HasBits(src, start + 3, rest)
      /\ turn = IF start + 3 <= 8 * Len(src) THEN Stored(src, cap, start + 3, out, last) ELSE Ended(Fail)
  <2>1. HasBits(src, start + 3, rest)
    BY ONLY <1>3, <1>7, <1>8, start \in Nat, last \in Bit, BlockHead
  <2>2. BlockTurn(src, cap, AtBlock(start, out)) =
          IF start + 3 <= 8 * Len(src)
          THEN IF 0 = 0 THEN Stored(src, cap, start + 3, out, last)
               ELSE IF 0 = 1 THEN AtCodes(start + 3, out, last, FixedLit, FixedDist)
               ELSE Dynamic(src, start + 3, out, last)
          ELSE Ended(Fail)
    BY ONLY <1>3, <1>7, <1>8, start \in Nat, last \in Bit, BlockHead
  <2>. QED
    BY ONLY <2>1, <2>2 DEF turn
<1>. DEFINE end == q + Len(rest)
<1>10. Stored(src, cap, q, out, last) =
         IF end <= 8 * Len(src) /\ Len(out \o bytes) <= cap
         THEN AfterBlock(end, out \o bytes, last) ELSE Ended(Fail)
  <2>1. HasBits(src, q, StoredBits(bytes, q))
    BY ONLY <1>9 DEF rest, bytes
  <2>2. rest = StoredBits(bytes, q)
    BY DEF rest, bytes
  <2>. HIDE DEF q
  <2>3. Stored(src, cap, q, out, last) =
          IF q + Len(StoredBits(bytes, q)) <= 8 * Len(src) /\ Len(out \o bytes) <= cap
          THEN AfterBlock(q + Len(StoredBits(bytes, q)), out \o bytes, last) ELSE Ended(Fail)
    BY ONLY <1>1, <2>1, src \in Seq(Bytes), cap \in Nat, out \in Seq(Bytes), StoredStep
  <2>. QED
    BY ONLY <2>2, <2>3
<1>11. BlockMeant(b, out) = out \o bytes
  BY DEF BlockMeant, bytes
<1>12. end = start + Len(bits) /\ (end <= 8 * Len(src) => start + 3 <= 8 * Len(src))
  <2>. DEFINE l == Len(rest)
              t == Len(bits)
  <2>1. t = 3 + l /\ l \in Nat /\ end = (start + 3) + l
    BY ONLY <1>5, <1>6
  <2>. HIDE DEF l, t, end
  <2>2. end = start + t /\ (end <= 8 * Len(src) => start + 3 <= 8 * Len(src))
    BY ONLY <1>8, <2>1, start \in Nat
  <2>. QED
    BY ONLY <2>2 DEF t
<1>. HIDE DEF end
<1>13. turn = IF end <= 8 * Len(src) /\ Len(out \o bytes) <= cap
              THEN AfterBlock(end, out \o bytes, last) ELSE Ended(Fail)
  BY ONLY <1>9, <1>10, <1>12
<1>. QED
  BY ONLY <1>11, <1>12, <1>13 DEF BlockEnds, turn, bits

LEMMA FixedTurn ==
  ASSUME NEW b, NEW out \in Seq(Bytes), IsBlock(b, out), b.kind = "fixed", NEW last \in Bit,
         NEW start \in Nat, NEW src, Len(src) \in Nat, NEW cap, OpsLaid(b, src, last, start)
  PROVE  BlockTurn(src, cap, AtBlock(start, out)) =
           IF OpsPos(last, b, start, 0) <= 8 * Len(src) THEN OpAt(b, last, start, out, 0) ELSE Ended(Fail)
<1>1. b.kind # "stored" /\ b.kind # "dynamic"
  OBVIOUS
<1>2. b.lit = LitLens /\ b.dist = DistLens /\ Len(b.ops) \in Nat /\ IsCode(b.lit) /\ IsCode(b.dist)
      /\ \A j \in 1 .. Len(b.ops) : IsOp(b, b.ops[j], OpsMeant(b, out)[j - 1])
  BY <1>1, CodedIs
<1>3. OpsHead(last, b) = Header(last, 1)
  BY ONLY <1>1, IsBlock(b, out), b.kind = "fixed", last \in Bit, HeadSeq
<1>4. Header(last, 1) \in Seq(Bit) /\ Len(Header(last, 1)) = 3
  BY HeaderSeq
<1>5. OpsMeant(b, out)[0] = out
  BY <1>2, OpsTyped
<1>6. OpsPos(last, b, start, 0) = start + 3 /\ HasBits(src, start, Header(last, 1))
  BY <1>3, <1>4 DEF OpsLaid
<1>. DEFINE head == << last >> \o Low(1, 2)
<1>7. head = Header(last, 1)
  BY DEF Header
<1>8. head \o << >> = head /\ << >> \in Seq(Bit)
  <2>1. head \in Seq(Bit)
    BY ONLY <1>4, <1>7
  <2>. HIDE DEF head
  <2>. QED
    BY ONLY <2>1
<1>9. HasBits(src, start, head \o << >>)
  <2>. HIDE DEF head
  <2>. QED
    BY ONLY <1>6, <1>7, <1>8
<1>10. 1 \in 0 .. 2
  OBVIOUS
<1>11. BlockTurn(src, cap, AtBlock(start, out)) =
         IF start + 3 <= 8 * Len(src)
         THEN IF 1 = 0 THEN Stored(src, cap, start + 3, out, last)
              ELSE IF 1 = 1 THEN AtCodes(start + 3, out, last, FixedLit, FixedDist)
              ELSE Dynamic(src, start + 3, out, last)
         ELSE Ended(Fail)
  BY ONLY <1>8, <1>9, <1>10, Len(src) \in Nat, start \in Nat, last \in Bit, BlockHead
<1>12. BlockTurn(src, cap, AtBlock(start, out)) =
         IF start + 3 <= 8 * Len(src) THEN AtCodes(start + 3, out, last, FixedLit, FixedDist)
         ELSE Ended(Fail)
  BY ONLY <1>11
<1>13. FixedLit = HuffBuild(b.lit) /\ FixedDist = HuffBuild(b.dist)
  BY ONLY <1>2, FixedIs
<1>14. OpAt(b, last, start, out, 0) = AtCodes(start + 3, out, last, FixedLit, FixedDist)
  BY ONLY <1>5, <1>6, <1>13 DEF OpAt
<1>. QED
  BY ONLY <1>6, <1>12, <1>14

LEMMA DynamicTurn ==
  ASSUME NEW b, NEW out \in Seq(Bytes), IsBlock(b, out), b.kind = "dynamic", NEW last \in Bit,
         NEW start \in Nat, NEW src, Len(src) \in Nat, NEW cap, LensLaid(b, src, last, start)
  PROVE  BlockTurn(src, cap, AtBlock(start, out)) =
           IF LensPos(last, b, start, 0) <= 8 * Len(src) THEN ItemAt(b, last, start, out, 0)
           ELSE Ended(Fail)
<1>1. /\ HasLengths(b) /\ IsCode(b.clc) /\ Len(b.items) \in Nat
      /\ \A i \in 1 .. Len(b.items) : IsItem(b, b.items[i], ItemsMeant(b)[i - 1])
  BY DynamicIs
<1>2. ItemsMeant(b)[0] = << >>
  BY <1>1, ItemsTyped
<1>. DEFINE rest == LensRest(b)
            q == start + 3
            end == LensPos(last, b, start, 0)
            turn == BlockTurn(src, cap, AtBlock(start, out))
<1>3. rest \in Seq(Bit)
  BY ONLY <1>1, RestSeq
<1>4. HasBits(src, start, (<< last >> \o Low(2, 2)) \o rest)
  BY DEF LensLaid, Header
<1>5. end = q + Len(rest)
  BY DEF LensLaid
<1>6. Len(rest) \in Nat /\ q \in Nat
  <2>. HIDE DEF rest
  <2>. QED
    BY ONLY <1>3, start \in Nat
<1>7. 2 \in 0 .. 2
  OBVIOUS
<1>. HIDE DEF rest, end
<1>8. HasBits(src, start + 3, rest)
  BY ONLY <1>3, <1>4, <1>7, Len(src) \in Nat, start \in Nat, last \in Bit, BlockHead
<1>9. BlockTurn(src, cap, AtBlock(start, out)) =
        IF start + 3 <= 8 * Len(src)
        THEN IF 2 = 0 THEN Stored(src, cap, start + 3, out, last)
             ELSE IF 2 = 1 THEN AtCodes(start + 3, out, last, FixedLit, FixedDist)
             ELSE Dynamic(src, start + 3, out, last)
        ELSE Ended(Fail)
  BY ONLY <1>3, <1>4, <1>7, Len(src) \in Nat, start \in Nat, last \in Bit, BlockHead
<1>10. turn = IF q <= 8 * Len(src) THEN Dynamic(src, q, out, last) ELSE Ended(Fail)
  BY ONLY <1>9
<1>. HIDE DEF turn
<1>11. Dynamic(src, q, out, last) =
         IF q + Len(LensRest(b)) <= 8 * Len(src)
         THEN AtLens(q + Len(LensRest(b)), out, last, HuffBuild(b.clc), Len(b.lit),
                     Len(b.lit) + Len(b.dist), << >>)
         ELSE Ended(Fail)
  <2>1. HasBits(src, q, LensRest(b))
    BY ONLY <1>8 DEF rest
  <2>. HIDE DEF q
  <2>. QED
    BY ONLY <1>1, <1>6, <2>1, Len(src) \in Nat, RestStep
<1>12. ItemAt(b, last, start, out, 0) =
         AtLens(end, out, last, HuffBuild(b.clc), Len(b.lit), Len(b.lit) + Len(b.dist), << >>)
  BY ONLY <1>2 DEF ItemAt, end
<1>13. Dynamic(src, q, out, last) =
         IF end <= 8 * Len(src) THEN ItemAt(b, last, start, out, 0) ELSE Ended(Fail)
  BY ONLY <1>5, <1>11, <1>12 DEF rest
<1>14. end <= 8 * Len(src) => q <= 8 * Len(src)
  BY ONLY <1>5, <1>6, Len(src) \in Nat
<1>15. turn = IF end <= 8 * Len(src) THEN ItemAt(b, last, start, out, 0) ELSE Ended(Fail)
  BY ONLY <1>10, <1>13, <1>14
<1>. QED
  BY ONLY <1>15 DEF turn, end

\* The bits of a block, and the bytes it leaves.
LEMMA BlockTyped ==
  ASSUME NEW b, NEW out \in Seq(Bytes), IsBlock(b, out), NEW last \in Bit, NEW start \in Nat
  PROVE  /\ BlockBits(last, b, start) \in Seq(Bit) /\ BlockMeant(b, out) \in Seq(Bytes)
         /\ Len(out) <= Len(BlockMeant(b, out))
<1>1. CASE b.kind = "stored"
  <2>1. b.bytes \in Seq(Bytes) /\ Len(b.bytes) < Two[16] /\ start + 3 \in Nat
    BY <1>1, StoredIs
  <2>2. BlockMeant(b, out) = out \o b.bytes
    BY <1>1 DEF BlockMeant
  <2>3. out \o b.bytes \in Seq(Bytes) /\ Len(out) <= Len(out \o b.bytes)
    BY ONLY <2>1, out \in Seq(Bytes)
  <2>4. BlockBits(last, b, start) = Header(last, 0) \o StoredBits(b.bytes, start + 3)
    BY ONLY <1>1, StoredSplit
  <2>5. Header(last, 0) \in Seq(Bit)
    BY HeaderSeq
  <2>6. StoredBits(b.bytes, start + 3) \in Seq(Bit)
    <3>. DEFINE q == start + 3
    <3>1. q \in Nat
      BY ONLY <2>1
    <3>. HIDE DEF q
    <3>2. StoredBits(b.bytes, q) \in Seq(Bit)
      BY ONLY <2>1, <3>1, StoredLen
    <3>. QED
      BY ONLY <3>2 DEF q
  <2>7. BlockBits(last, b, start) \in Seq(Bit)
    BY ONLY <2>4, <2>5, <2>6, ConcatBits
  <2>. QED
    BY ONLY <2>2, <2>3, <2>7
<1>2. CASE b.kind # "stored"
  <2>1. BlockBits(last, b, start) \in Seq(Bit)
    BY ONLY <1>2, out \in Seq(Bytes), IsBlock(b, out), last \in Bit, CodedTyped
  <2>2. /\ IsCode(b.lit) /\ IsCode(b.dist) /\ Len(b.ops) \in Nat
        /\ \A j \in 1 .. Len(b.ops) : IsOp(b, b.ops[j], OpsMeant(b, out)[j - 1])
    BY <1>2, CodedIs
  <2>3. BlockMeant(b, out) = OpsMeant(b, out)[Len(b.ops)]
    BY <1>2 DEF BlockMeant
  <2>. DEFINE meant == OpsMeant(b, out)
              N == Len(b.ops)
  <2>4. meant[0] = out /\ \A j \in 0 .. N : meant[j] \in Seq(Bytes) /\ Len(meant[j]) <= Len(meant[N])
    BY <2>2, OpsTyped
  <2>5. 0 \in 0 .. N /\ N \in 0 .. N
    BY <2>2
  <2>. HIDE DEF meant, N
  <2>6. Len(out) <= Len(meant[N]) /\ meant[N] \in Seq(Bytes)
    BY ONLY <2>4, <2>5
  <2>. QED
    BY ONLY <2>1, <2>3, <2>6 DEF meant, N
<1>. QED
  BY <1>1, <1>2

\* What a turn within a block comes to.
Reached(p, b, last, start, out, src, cap) ==
  InBlock(p, b, last, start, out, src, cap) \/ p = BlockEnds(b, last, start, out, src, cap)

\* A failure is right when the block is cut or its bytes do not fit.
LEMMA Short ==
  ASSUME NEW b, NEW last, NEW start, NEW out, NEW src, NEW cap,
         ~(start + Len(BlockBits(last, b, start)) <= 8 * Len(src) /\ Len(BlockMeant(b, out)) <= cap)
  PROVE  Reached(Ended(Fail), b, last, start, out, src, cap)
BY DEF Reached, BlockEnds

\* The positions of a block's operations are before its end.
LEMMA OpsBefore ==
  ASSUME NEW b, NEW out, IsBlock(b, out), b.kind # "stored", NEW last, NEW start, NEW src,
         OpsLaid(b, src, last, start), NEW j \in 0 .. Len(b.ops)
  PROVE  /\ OpsPos(last, b, start, j) \in Nat
         /\ OpsPos(last, b, start, j) <= start + Len(BlockBits(last, b, start))
<1>. DEFINE N == Len(b.ops)
            Pos(i) == OpsPos(last, b, start, i)
            z == Len(CodeBits(b.lit, 256))
            end == start + Len(BlockBits(last, b, start))
<1>1. N \in 0 .. N
  BY CodedIs
<1>2. Pos(j) \in Nat /\ Pos(j) <= Pos(N) /\ Pos(N) \in Nat /\ z \in Nat /\ end = Pos(N) + z
  BY <1>1 DEF OpsLaid
<1>. HIDE DEF N, Pos, z, end
<1>3. Pos(j) <= end
  BY ONLY <1>2
<1>. QED
  BY ONLY <1>2, <1>3 DEF Pos, end

\* So are those of its code lengths.
LEMMA LensBefore ==
  ASSUME NEW b, NEW out, IsBlock(b, out), b.kind = "dynamic", NEW last, NEW start, NEW src,
         OpsLaid(b, src, last, start), LensLaid(b, src, last, start), NEW j \in 0 .. Len(b.items)
  PROVE  /\ LensPos(last, b, start, j) \in Nat
         /\ LensPos(last, b, start, j) <= start + Len(BlockBits(last, b, start))
<1>. DEFINE M == Len(b.items)
            Pos(i) == LensPos(last, b, start, i)
            first == OpsPos(last, b, start, 0)
            end == start + Len(BlockBits(last, b, start))
            l == Len(BlockBits(last, b, start))
<1>1. b.kind # "stored" /\ 0 \in 0 .. Len(b.ops)
  BY CodedIs
<1>2. first \in Nat /\ first <= end
  BY ONLY <1>1, IsBlock(b, out), OpsLaid(b, src, last, start), OpsBefore
<1>3. Pos(j) \in Nat /\ Pos(j) <= Pos(M) /\ Pos(M) = first
  BY DEF LensLaid
<1>4. end \in Int
  <2>1. end = OpsPos(last, b, start, Len(b.ops)) + Len(CodeBits(b.lit, 256))
        /\ Len(CodeBits(b.lit, 256)) \in Nat /\ Len(b.ops) \in 0 .. Len(b.ops)
    BY <1>1, CodedIs DEF OpsLaid
  <2>2. OpsPos(last, b, start, Len(b.ops)) \in Nat
    BY ONLY <2>1, OpsLaid(b, src, last, start) DEF OpsLaid
  <2>. HIDE DEF end
  <2>. QED
    BY ONLY <2>1, <2>2
<1>. HIDE DEF Pos, first, end
<1>5. Pos(j) <= end
  BY ONLY <1>2, <1>3, <1>4
<1>. QED
  BY ONLY <1>3, <1>5 DEF Pos, end

\* Every turn in a block goes on in it, ends it as it should, or fails as it
\* should.
LEMMA OpsGo ==
  ASSUME NEW b, NEW out \in Seq(Bytes), IsBlock(b, out), b.kind # "stored", NEW last, NEW start,
         NEW src, Len(src) \in Nat, NEW cap \in Nat, OpsLaid(b, src, last, start),
         NEW j \in 0 .. Len(b.ops), Len(OpsMeant(b, out)[j]) <= cap
  PROVE  Reached(CodesTurn(src, cap, OpAt(b, last, start, out, j)), b, last, start, out, src, cap)
<1>. DEFINE turn == CodesTurn(src, cap, OpAt(b, last, start, out, j))
            N == Len(b.ops)
            end == start + Len(BlockBits(last, b, start))
            meant == OpsMeant(b, out)
<1>1. BlockMeant(b, out) = meant[N]
  BY DEF BlockMeant
<1>2. CASE j = N
  <2>1. turn = IF end <= 8 * Len(src) THEN AfterBlock(end, BlockMeant(b, out), last) ELSE Ended(Fail)
    BY <1>2, OpsDone
  <2>2. Len(BlockMeant(b, out)) <= cap
    BY ONLY <1>1, <1>2, Len(OpsMeant(b, out)[j]) <= cap
  <2>. HIDE DEF turn
  <2>3. turn = BlockEnds(b, last, start, out, src, cap)
    BY ONLY <2>1, <2>2 DEF BlockEnds
  <2>. QED
    BY ONLY <2>3 DEF Reached, turn
<1>3. CASE j # N
  <2>. DEFINE pos == OpsPos(last, b, start, j + 1)
  <2>1. turn = IF pos <= 8 * Len(src) /\ Len(meant[j + 1]) <= cap
               THEN OpAt(b, last, start, out, j + 1) ELSE Ended(Fail)
    BY ONLY <1>3, out \in Seq(Bytes), IsBlock(b, out), b.kind # "stored", Len(src) \in Nat,
            cap \in Nat, OpsLaid(b, src, last, start), j \in 0 .. Len(b.ops), OpTurn
  <2>2. j + 1 \in 0 .. N
    <3>1. N \in Nat /\ j \in 0 .. N
      BY CodedIs
    <3>. HIDE DEF N
    <3>. QED
      BY ONLY <1>3, <3>1
  <2>3. pos \in Nat /\ pos <= end
    <3>. DEFINE i == j + 1
    <3>1. i \in 0 .. Len(b.ops)
      BY ONLY <2>2
    <3>. HIDE DEF i
    <3>2. OpsPos(last, b, start, i) \in Nat /\ OpsPos(last, b, start, i) <= end
      BY ONLY <3>1, IsBlock(b, out), b.kind # "stored", OpsLaid(b, src, last, start), OpsBefore
    <3>. QED
      BY ONLY <3>2 DEF i
  <2>4. Len(meant[j + 1]) \in Nat /\ Len(meant[j + 1]) <= Len(meant[N]) /\ Len(meant[N]) \in Nat
    <3>1. /\ IsCode(b.lit) /\ IsCode(b.dist) /\ Len(b.ops) \in Nat
          /\ \A i \in 1 .. Len(b.ops) : IsOp(b, b.ops[i], OpsMeant(b, out)[i - 1])
      BY CodedIs
    <3>2. \A i \in 0 .. N : meant[i] \in Seq(Bytes) /\ Len(meant[i]) <= Len(meant[N])
      BY <3>1, OpsTyped
    <3>3. N \in 0 .. N
      BY ONLY <3>1
    <3>. HIDE DEF meant, N
    <3>. QED
      BY ONLY <2>2, <3>2, <3>3
  <2>5. CASE pos <= 8 * Len(src) /\ Len(meant[j + 1]) <= cap
    <3>1. turn = OpAt(b, last, start, out, j + 1)
      BY ONLY <2>1, <2>5
    <3>. HIDE DEF turn
    <3>2. InBlock(turn, b, last, start, out, src, cap)
      BY ONLY <2>2, <2>5, <3>1, b.kind # "stored" DEF InBlock
    <3>. QED
      BY ONLY <3>2 DEF Reached, turn
  <2>6. CASE ~(pos <= 8 * Len(src) /\ Len(meant[j + 1]) <= cap)
    <3>1. turn = Ended(Fail)
      BY ONLY <2>1, <2>6
    <3>2. end \in Int
      <4>1. Len(b.ops) \in 0 .. Len(b.ops)
        BY CodedIs
      <4>2. /\ end = OpsPos(last, b, start, Len(b.ops)) + Len(CodeBits(b.lit, 256))
            /\ Len(CodeBits(b.lit, 256)) \in Nat /\ OpsPos(last, b, start, Len(b.ops)) \in Nat
        BY <4>1 DEF OpsLaid
      <4>. HIDE DEF end
      <4>. QED
        BY ONLY <4>2
    <3>. DEFINE x == Len(meant[j + 1])
                y == Len(meant[N])
    <3>3. /\ x \in Nat /\ y \in Nat /\ x <= y /\ pos \in Nat /\ pos <= end
          /\ ~(pos <= 8 * Len(src) /\ x <= cap) /\ Len(BlockMeant(b, out)) = y
      BY ONLY <1>1, <2>3, <2>4, <2>6
    <3>. HIDE DEF x, y, pos, end, turn
    <3>4. ~(end <= 8 * Len(src) /\ y <= cap)
      BY ONLY <3>2, <3>3, Len(src) \in Nat, cap \in Nat
    <3>5. ~(end <= 8 * Len(src) /\ Len(BlockMeant(b, out)) <= cap)
      BY ONLY <3>3, <3>4
    <3>6. Reached(Ended(Fail), b, last, start, out, src, cap)
      BY ONLY <3>5, Short DEF end
    <3>. QED
      BY ONLY <3>1, <3>6 DEF turn
  <2>. QED
    BY ONLY <2>5, <2>6
<1>. QED
  BY ONLY <1>2, <1>3

LEMMA ItemsGo ==
  ASSUME NEW b, NEW out \in Seq(Bytes), IsBlock(b, out), b.kind = "dynamic", NEW last, NEW start,
         NEW src, Len(src) \in Nat, NEW cap \in Nat, Len(out) <= cap,
         OpsLaid(b, src, last, start), LensLaid(b, src, last, start), CutsNo(b, src, last, start),
         NEW j \in 0 .. Len(b.items), LensPos(last, b, start, j) <= 8 * Len(src)
  PROVE  Reached(LensTurn(src, ItemAt(b, last, start, out, j)), b, last, start, out, src, cap)
<1>. DEFINE turn == LensTurn(src, ItemAt(b, last, start, out, j))
            M == Len(b.items)
            end == start + Len(BlockBits(last, b, start))
<1>1. M \in Nat /\ j \in 0 .. M
  BY DynamicIs
<1>2. CASE j = M
  <2>1. turn = OpAt(b, last, start, out, 0)
    BY ONLY <1>2, out \in Seq(Bytes), IsBlock(b, out), b.kind = "dynamic",
            LensLaid(b, src, last, start), ItemsDone
  <2>2. OpsPos(last, b, start, 0) <= 8 * Len(src)
    BY ONLY <1>2, LensPos(last, b, start, j) <= 8 * Len(src), LensLaid(b, src, last, start) DEF LensLaid
  <2>3. Len(OpsMeant(b, out)[0]) <= cap /\ 0 \in 0 .. Len(b.ops) /\ b.kind # "stored"
    <3>1. /\ IsCode(b.lit) /\ IsCode(b.dist) /\ Len(b.ops) \in Nat
          /\ \A i \in 1 .. Len(b.ops) : IsOp(b, b.ops[i], OpsMeant(b, out)[i - 1])
      BY CodedIs
    <3>2. OpsMeant(b, out)[0] = out
      BY <3>1, OpsTyped
    <3>. QED
      BY <3>1, <3>2
  <2>. HIDE DEF turn
  <2>4. InBlock(turn, b, last, start, out, src, cap)
    BY ONLY <2>1, <2>2, <2>3 DEF InBlock
  <2>. QED
    BY ONLY <2>4 DEF Reached, turn
<1>3. CASE j # M
  <2>. DEFINE pos == LensPos(last, b, start, j + 1)
  <2>1. turn = IF pos <= 8 * Len(src) THEN ItemAt(b, last, start, out, j + 1) ELSE Ended(Fail)
    BY ONLY <1>3, out \in Seq(Bytes), IsBlock(b, out), b.kind = "dynamic", Len(src) \in Nat,
            LensLaid(b, src, last, start), CutsNo(b, src, last, start), j \in 0 .. Len(b.items), ItemTurn
  <2>2. j + 1 \in 0 .. M
    <3>. HIDE DEF M
    <3>. QED
      BY ONLY <1>1, <1>3
  <2>3. pos \in Nat /\ pos <= end
    <3>. DEFINE i == j + 1
    <3>1. i \in 0 .. Len(b.items)
      BY ONLY <2>2
    <3>. HIDE DEF i
    <3>2. LensPos(last, b, start, i) \in Nat /\ LensPos(last, b, start, i) <= end
      BY ONLY <3>1, IsBlock(b, out), b.kind = "dynamic", OpsLaid(b, src, last, start),
              LensLaid(b, src, last, start), LensBefore
    <3>. QED
      BY ONLY <3>2 DEF i
  <2>5. CASE pos <= 8 * Len(src)
    <3>1. turn = ItemAt(b, last, start, out, j + 1)
      BY ONLY <2>1, <2>5
    <3>. HIDE DEF turn
    <3>2. InBlock(turn, b, last, start, out, src, cap)
      BY ONLY <2>2, <2>5, <3>1, b.kind = "dynamic", Len(out) <= cap DEF InBlock
    <3>. QED
      BY ONLY <3>2 DEF Reached, turn
  <2>6. CASE ~(pos <= 8 * Len(src))
    <3>1. turn = Ended(Fail)
      BY ONLY <2>1, <2>6
    <3>2. end \in Int
      <4>1. Len(b.ops) \in 0 .. Len(b.ops)
        BY CodedIs
      <4>2. /\ end = OpsPos(last, b, start, Len(b.ops)) + Len(CodeBits(b.lit, 256))
            /\ Len(CodeBits(b.lit, 256)) \in Nat /\ OpsPos(last, b, start, Len(b.ops)) \in Nat
        BY <4>1 DEF OpsLaid
      <4>. HIDE DEF end
      <4>. QED
        BY ONLY <4>2
    <3>. HIDE DEF pos, end, turn
    <3>4. ~(end <= 8 * Len(src))
      BY ONLY <2>3, <2>6, <3>2, Len(src) \in Nat
    <3>5. ~(end <= 8 * Len(src) /\ Len(BlockMeant(b, out)) <= cap)
      BY ONLY <3>4
    <3>6. Reached(Ended(Fail), b, last, start, out, src, cap)
      BY ONLY <3>5, Short DEF end
    <3>. QED
      BY ONLY <3>1, <3>6 DEF turn
  <2>. QED
    BY ONLY <2>5, <2>6
<1>. QED
  BY ONLY <1>2, <1>3

\* A block begun, and gone on with.
LEMMA BlockBegins ==
  ASSUME NEW b, NEW out \in Seq(Bytes), IsBlock(b, out), NEW last \in Bit, NEW start \in Nat,
         NEW src \in Seq(Bytes), NEW cap \in Nat, Len(out) <= cap,
         HasBits(src, start, BlockBits(last, b, start))
  PROVE  Reached(BlockTurn(src, cap, AtBlock(start, out)), b, last, start, out, src, cap)
<1>. DEFINE turn == BlockTurn(src, cap, AtBlock(start, out))
            end == start + Len(BlockBits(last, b, start))
<1>1. Len(src) \in Nat
  OBVIOUS
<1>2. CASE b.kind = "stored"
  <2>1. turn = BlockEnds(b, last, start, out, src, cap)
    BY <1>2, StoredTurn
  <2>. HIDE DEF turn
  <2>. QED
    BY ONLY <2>1 DEF Reached, turn
<1>3. CASE b.kind # "stored"
  <2>1. OpsLaid(b, src, last, start)
    BY ONLY <1>3, out \in Seq(Bytes), IsBlock(b, out), last \in Bit, start \in Nat,
            HasBits(src, start, BlockBits(last, b, start)), CodedLaid
  <2>2. b.kind = "fixed" \/ b.kind = "dynamic"
    BY <1>3, CodedIs
  <2>3. ASSUME NEW pos \in Nat, pos <= end, ~(pos <= 8 * Len(src)), turn = Ended(Fail)
        PROVE  Reached(turn, b, last, start, out, src, cap)
    <3>1. end \in Int
      <4>1. Len(b.ops) \in 0 .. Len(b.ops)
        BY <1>3, CodedIs
      <4>2. /\ end = OpsPos(last, b, start, Len(b.ops)) + Len(CodeBits(b.lit, 256))
            /\ Len(CodeBits(b.lit, 256)) \in Nat /\ OpsPos(last, b, start, Len(b.ops)) \in Nat
        BY <2>1, <4>1 DEF OpsLaid
      <4>. HIDE DEF end
      <4>. QED
        BY ONLY <4>2
    <3>. HIDE DEF end, turn
    <3>2. ~(end <= 8 * Len(src))
      BY ONLY <1>1, <2>3, <3>1
    <3>3. ~(end <= 8 * Len(src) /\ Len(BlockMeant(b, out)) <= cap)
      BY ONLY <3>2
    <3>4. Reached(Ended(Fail), b, last, start, out, src, cap)
      BY ONLY <3>3, Short DEF end
    <3>. QED
      BY ONLY <2>3, <3>4
  <2>4. CASE b.kind = "fixed"
    <3>. DEFINE pos == OpsPos(last, b, start, 0)
    <3>1. turn = IF pos <= 8 * Len(src) THEN OpAt(b, last, start, out, 0) ELSE Ended(Fail)
      BY ONLY <1>1, <2>1, <2>4, out \in Seq(Bytes), IsBlock(b, out), last \in Bit, start \in Nat,
              cap \in Nat, FixedTurn
    <3>2. Len(OpsMeant(b, out)[0]) <= cap /\ 0 \in 0 .. Len(b.ops)
      <4>1. /\ IsCode(b.lit) /\ IsCode(b.dist) /\ Len(b.ops) \in Nat
            /\ \A i \in 1 .. Len(b.ops) : IsOp(b, b.ops[i], OpsMeant(b, out)[i - 1])
        BY <1>3, CodedIs
      <4>2. OpsMeant(b, out)[0] = out
        BY <4>1, OpsTyped
      <4>. QED
        BY <4>1, <4>2
    <3>3. pos \in Nat /\ pos <= end
      BY ONLY <1>3, <2>1, <3>2, IsBlock(b, out), OpsBefore
    <3>4. CASE pos <= 8 * Len(src)
      <4>1. turn = OpAt(b, last, start, out, 0)
        BY ONLY <3>1, <3>4
      <4>. HIDE DEF turn
      <4>2. InBlock(turn, b, last, start, out, src, cap)
        BY ONLY <1>3, <3>2, <3>4, <4>1 DEF InBlock
      <4>. QED
        BY ONLY <4>2 DEF Reached, turn
    <3>5. CASE ~(pos <= 8 * Len(src))
      <4>1. turn = Ended(Fail)
        BY ONLY <3>1, <3>5
      <4>. HIDE DEF turn, pos, end
      <4>2. Reached(turn, b, last, start, out, src, cap)
        BY ONLY <2>3, <3>3, <3>5, <4>1
      <4>. QED
        BY ONLY <4>2 DEF turn
    <3>. QED
      BY ONLY <3>4, <3>5
  <2>5. CASE b.kind = "dynamic"
    <3>. DEFINE pos == LensPos(last, b, start, 0)
    <3>1. LensLaid(b, src, last, start)
      <4>1. HasBits(src, start, OpsHead(last, b)) /\ OpsPos(last, b, start, 0) = start + Len(OpsHead(last, b))
        BY ONLY <2>1 DEF OpsLaid
      <4>. QED
        BY ONLY <2>5, <4>1, IsBlock(b, out), last \in Bit, start \in Nat, DynamicLaid
    <3>2. turn = IF pos <= 8 * Len(src) THEN ItemAt(b, last, start, out, 0) ELSE Ended(Fail)
      BY ONLY <1>1, <2>5, <3>1, out \in Seq(Bytes), IsBlock(b, out), last \in Bit, start \in Nat,
              cap \in Nat, DynamicTurn
    <3>3. 0 \in 0 .. Len(b.items)
      BY <2>5, DynamicIs
    <3>4. pos \in Nat /\ pos <= end
      BY ONLY <2>1, <2>5, <3>1, <3>3, IsBlock(b, out), LensBefore
    <3>5. CASE pos <= 8 * Len(src)
      <4>1. turn = ItemAt(b, last, start, out, 0)
        BY ONLY <3>2, <3>5
      <4>. HIDE DEF turn
      <4>2. InBlock(turn, b, last, start, out, src, cap)
        BY ONLY <2>5, <3>3, <3>5, <4>1, Len(out) <= cap DEF InBlock
      <4>. QED
        BY ONLY <4>2 DEF Reached, turn
    <3>6. CASE ~(pos <= 8 * Len(src))
      <4>1. turn = Ended(Fail)
        BY ONLY <3>2, <3>6
      <4>. HIDE DEF turn, pos, end
      <4>2. Reached(turn, b, last, start, out, src, cap)
        BY ONLY <2>3, <3>4, <3>6, <4>1
      <4>. QED
        BY ONLY <4>2 DEF turn
    <3>. QED
      BY ONLY <3>5, <3>6
  <2>. QED
    BY ONLY <2>2, <2>4, <2>5
<1>. QED
  BY ONLY <1>2, <1>3

LEMMA BlockGoes ==
  ASSUME NEW b, NEW out \in Seq(Bytes), IsBlock(b, out), NEW last \in Bit, NEW start \in Nat,
         NEW src \in Seq(Bytes), NEW cap \in Nat,
         HasBits(src, start, BlockBits(last, b, start)),
         b.kind = "dynamic" => CutsNo(b, src, last, start),
         NEW p, InBlock(p, b, last, start, out, src, cap)
  PROVE  \/ p.at = "lens" /\ Reached(LensTurn(src, p), b, last, start, out, src, cap)
         \/ p.at = "codes" /\ Reached(CodesTurn(src, cap, p), b, last, start, out, src, cap)
<1>1. Len(src) \in Nat
  OBVIOUS
<1>2. ASSUME b.kind # "stored" PROVE OpsLaid(b, src, last, start)
  BY ONLY <1>2, out \in Seq(Bytes), IsBlock(b, out), last \in Bit, start \in Nat,
          HasBits(src, start, BlockBits(last, b, start)), CodedLaid
<1>3. ASSUME b.kind = "dynamic", Len(out) <= cap, NEW j \in 0 .. Len(b.items),
             LensPos(last, b, start, j) <= 8 * Len(src), p = ItemAt(b, last, start, out, j)
      PROVE  p.at = "lens" /\ Reached(LensTurn(src, p), b, last, start, out, src, cap)
  <2>1. OpsLaid(b, src, last, start)
    BY <1>2, <1>3
  <2>2. LensLaid(b, src, last, start)
    <3>1. HasBits(src, start, OpsHead(last, b)) /\ OpsPos(last, b, start, 0) = start + Len(OpsHead(last, b))
      BY ONLY <2>1 DEF OpsLaid
    <3>. QED
      BY ONLY <1>3, <3>1, IsBlock(b, out), last \in Bit, start \in Nat, DynamicLaid
  <2>3. CutsNo(b, src, last, start)
    BY <1>3
  <2>4. Reached(LensTurn(src, ItemAt(b, last, start, out, j)), b, last, start, out, src, cap)
    BY ONLY <1>1, <1>3, <2>1, <2>2, <2>3, out \in Seq(Bytes), IsBlock(b, out), cap \in Nat, ItemsGo
  <2>5. p.at = "lens"
    BY ONLY <1>3 DEF ItemAt, AtLens
  <2>. QED
    BY ONLY <1>3, <2>4, <2>5
<1>4. ASSUME b.kind # "stored", NEW j \in 0 .. Len(b.ops), Len(OpsMeant(b, out)[j]) <= cap,
             p = OpAt(b, last, start, out, j)
      PROVE  p.at = "codes" /\ Reached(CodesTurn(src, cap, p), b, last, start, out, src, cap)
  <2>1. OpsLaid(b, src, last, start)
    BY <1>2, <1>4
  <2>2. Reached(CodesTurn(src, cap, OpAt(b, last, start, out, j)), b, last, start, out, src, cap)
    BY ONLY <1>1, <1>4, <2>1, out \in Seq(Bytes), IsBlock(b, out), cap \in Nat, OpsGo
  <2>3. p.at = "codes"
    BY ONLY <1>4 DEF OpAt, AtCodes
  <2>. QED
    BY ONLY <1>4, <2>2, <2>3
<1>. QED
  BY ONLY <1>3, <1>4, InBlock(p, b, last, start, out, src, cap) DEF InBlock

-----------------------------------------------------------------------------
(* Streams: one block after another.                                        *)

\* Which block is the last, the bits of block k.
LastBit(blocks, k) == IF k = Len(blocks) THEN 1 ELSE 0
PartBits(blocks, k) == BlockBits(LastBit(blocks, k), blocks[k], Len(Written(blocks)[k - 1]))

\* The blocks of a stream: the bits of the first ones, and their bytes.
LEMMA StreamTyped ==
  ASSUME NEW blocks, IsStream(blocks)
  PROVE  /\ Len(blocks) \in Nat /\ Len(blocks) > 0
         /\ Written(blocks)[0] = << >> /\ Meant(blocks)[0] = << >>
         /\ \A k \in 0 .. Len(blocks) :
              /\ Meant(blocks)[k] \in Seq(Bytes)
              /\ Len(Meant(blocks)[k]) <= Len(Meant(blocks)[Len(blocks)])
         /\ \A k \in 1 .. Len(blocks) :
              /\ IsBlock(blocks[k], Meant(blocks)[k - 1])
              /\ Meant(blocks)[k] = BlockMeant(blocks[k], Meant(blocks)[k - 1])
         /\ Pieces(Len(blocks), Written(blocks), [k \in 1 .. Len(blocks) |-> PartBits(blocks, k)])
<1>. DEFINE N == Len(blocks)
            f == Written(blocks)
            h == Meant(blocks)
            Part(k) == PartBits(blocks, k)
            g == [k \in 1 .. N |-> Part(k)]
<1>1. N \in Nat /\ N > 0 /\ \A k \in 1 .. N : IsBlock(blocks[k], h[k - 1])
  BY DEF IsStream
<1>2. f = [k \in 0 .. N |-> IF k = 0 THEN << >> ELSE
             f[k - 1] \o BlockBits(IF k = N THEN 1 ELSE 0, blocks[k], Len(f[k - 1]))]
  BY ONLY <1>1, WrittenIs
<1>3. h = [k \in 0 .. N |-> IF k = 0 THEN << >> ELSE BlockMeant(blocks[k], h[k - 1])]
  BY ONLY <1>1, MeantIs
<1>4. \A k \in 1 .. N : Part(k) = BlockBits(IF k = N THEN 1 ELSE 0, blocks[k], Len(f[k - 1]))
  BY DEF PartBits, LastBit
<1>5. \A k \in 1 .. N : k \in 0 .. N /\ k # 0 /\ k - 1 \in 0 .. N
  BY <1>1
<1>6. 0 \in 0 .. N
  BY <1>1
<1>7. \A k \in 1 .. N : g[k] = Part(k)
  OBVIOUS
<1>. HIDE DEF N, f, h, Part, g
<1>8. f[0] = << >> /\ h[0] = << >>
  BY ONLY <1>2, <1>3, <1>6
<1>9. \A k \in 1 .. N : h[k] = BlockMeant(blocks[k], h[k - 1])
  BY ONLY <1>3, <1>5
<1>10. \A k \in 1 .. N : f[k] = f[k - 1] \o Part(k)
  BY ONLY <1>2, <1>4, <1>5
<1>11. ASSUME NEW k \in 1 .. N, h[k - 1] \in Seq(Bytes)
       PROVE  h[k] \in Seq(Bytes) /\ Len(h[k - 1]) <= Len(h[k])
  <2>1. IsBlock(blocks[k], h[k - 1]) /\ h[k] = BlockMeant(blocks[k], h[k - 1])
    BY ONLY <1>1, <1>9, k \in 1 .. N
  <2>. DEFINE out == h[k - 1]
  <2>2. out \in Seq(Bytes) /\ IsBlock(blocks[k], out) /\ 0 \in Bit /\ 0 \in Nat
    BY ONLY <1>11, <2>1 DEF Bit
  <2>. HIDE DEF out
  <2>3. BlockMeant(blocks[k], out) \in Seq(Bytes) /\ Len(out) <= Len(BlockMeant(blocks[k], out))
    BY ONLY <2>2, BlockTyped
  <2>. QED
    BY ONLY <2>1, <2>3 DEF out
<1>12. \A k \in 0 .. N : h[k] \in Seq(Bytes) /\ Len(h[k]) <= Len(h[N])
  <2>1. h[0] \in Seq(Bytes)
    BY <1>8
  <2>. QED
    BY ONLY <1>1, <1>11, <2>1, Grows
<1>13. ASSUME NEW k \in 1 .. N, f[k - 1] \in Seq(Bit) PROVE Part(k) \in Seq(Bit)
  <2>. DEFINE out == h[k - 1]
              start == Len(f[k - 1])
              last == IF k = N THEN 1 ELSE 0
  <2>1. out \in Seq(Bytes) /\ IsBlock(blocks[k], out)
    BY ONLY <1>1, <1>5, <1>12, k \in 1 .. N
  <2>2. start \in Nat
    BY ONLY <1>13
  <2>3. last \in Bit
    BY DEF Bit
  <2>. HIDE DEF out, start, last
  <2>4. BlockBits(last, blocks[k], start) \in Seq(Bit)
    BY ONLY <2>1, <2>2, <2>3, BlockTyped
  <2>. QED
    BY ONLY <1>4, <2>4, k \in 1 .. N DEF start, last
<1>14. Pieces(N, f, g)
  <2>1. \A k \in 1 .. N : f[k] = f[k - 1] \o g[k] /\ (f[k - 1] \in Seq(Bit) => g[k] \in Seq(Bit))
    BY ONLY <1>7, <1>10, <1>13
  <2>. QED
    BY ONLY <1>8, <2>1 DEF Pieces
<1>15. g = [k \in 1 .. N |-> Part(k)]
  BY DEF g
<1>16. \A k \in 1 .. N : IsBlock(blocks[k], h[k - 1]) /\ h[k] = BlockMeant(blocks[k], h[k - 1])
  BY ONLY <1>1, <1>9
<1>17. Pieces(N, f, [k \in 1 .. N |-> Part(k)])
  BY ONLY <1>14, <1>15
<1>. QED
  BY ONLY <1>1, <1>8, <1>12, <1>16, <1>17 DEF N, f, h, Part

\* Where they are in the bytes read.
LEMMA StreamLaid ==
  ASSUME NEW blocks, IsStream(blocks), NEW src, HasBits(src, 0, Stream(blocks))
  PROVE  /\ \A k \in 0 .. Len(blocks) :
              /\ Written(blocks)[k] \in Seq(Bit)
              /\ Len(Written(blocks)[k]) <= Len(Written(blocks)[Len(blocks)])
         /\ \A k \in 1 .. Len(blocks) :
              /\ PartBits(blocks, k) \in Seq(Bit)
              /\ HasBits(src, Len(Written(blocks)[k - 1]), PartBits(blocks, k))
              /\ Len(Written(blocks)[k]) = Len(Written(blocks)[k - 1]) + Len(PartBits(blocks, k))
<1>. DEFINE N == Len(blocks)
            f == Written(blocks)
            Part(k) == PartBits(blocks, k)
            g == [k \in 1 .. N |-> Part(k)]
<1>1. N \in Nat /\ Pieces(N, f, g)
  BY ONLY IsStream(blocks), StreamTyped
<1>2. HasBits(src, 0, f[N]) /\ 0 \in Nat
  BY DEF Stream
<1>3. \A k \in 1 .. N : g[k] = Part(k)
  OBVIOUS
<1>. HIDE DEF N, f, Part, g
<1>4. \A k \in 0 .. N : f[k] \in Seq(Bit) /\ Len(f[k]) <= Len(f[N])
  BY ONLY <1>1, <1>2, Chain
<1>5. \A k \in 1 .. N : HasBits(src, 0 + Len(f[k - 1]), g[k])
  BY ONLY <1>1, <1>2, Chain
<1>6. \A k \in 1 .. N : g[k] \in Seq(Bit)
  BY ONLY <1>1, <1>2, Chain
<1>7. ASSUME NEW k \in 1 .. N
      PROVE  /\ Part(k) \in Seq(Bit) /\ HasBits(src, Len(f[k - 1]), Part(k))
             /\ Len(f[k]) = Len(f[k - 1]) + Len(Part(k))
  <2>1. k - 1 \in 0 .. N
    BY ONLY <1>1, k \in 1 .. N
  <2>2. f[k - 1] \in Seq(Bit) /\ g[k] \in Seq(Bit) /\ g[k] = Part(k)
    BY ONLY <1>3, <1>4, <1>6, <2>1, k \in 1 .. N
  <2>3. f[k] = f[k - 1] \o g[k]
    BY ONLY <1>1, k \in 1 .. N DEF Pieces
  <2>4. Len(f[k - 1] \o g[k]) = Len(f[k - 1]) + Len(g[k])
    BY ONLY <2>2, ConcatBits
  <2>5. Len(f[k - 1]) \in Nat
    BY ONLY <2>2
  <2>6. 0 + Len(f[k - 1]) = Len(f[k - 1])
    BY ONLY <2>5
  <2>7. HasBits(src, 0 + Len(f[k - 1]), g[k])
    BY ONLY <1>5, k \in 1 .. N
  <2>. QED
    BY ONLY <2>2, <2>3, <2>4, <2>6, <2>7
<1>. QED
  BY ONLY <1>4, <1>7 DEF N, f, Part

\* What a stream should come to: all its bytes, or a refusal.
Outcome(blocks, src, cap) ==
  IF Len(Written(blocks)[Len(blocks)]) <= 8 * Len(src)
     /\ Len(Meant(blocks)[Len(blocks)]) <= cap
  THEN Good(Meant(blocks)[Len(blocks)]) ELSE Fail

\* The decoder of a stream: at a block, in it, or at the end.
AtPart(p, blocks, src, cap, k) ==
  LET start == Len(Written(blocks)[k - 1])
      out == Meant(blocks)[k - 1]
  IN \/ p = AtBlock(start, out) /\ Len(out) <= cap
     \/ InBlock(p, blocks[k], LastBit(blocks, k), start, out, src, cap)

StreamState(p, blocks, src, cap) ==
  \/ \E k \in 1 .. Len(blocks) : AtPart(p, blocks, src, cap, k)
  \/ p = Ended(Outcome(blocks, src, cap))

\* The end of a block is the next one's start or the end of the stream.
LEMMA PartEnds ==
  ASSUME NEW blocks, IsStream(blocks), NEW src, Len(src) \in Nat, HasBits(src, 0, Stream(blocks)),
         NEW cap \in Nat, NEW k \in 1 .. Len(blocks), NEW p,
         Reached(p, blocks[k], LastBit(blocks, k), Len(Written(blocks)[k - 1]), Meant(blocks)[k - 1],
                 src, cap)
  PROVE  StreamState(p, blocks, src, cap)
<1>. DEFINE N == Len(blocks)
            f == Written(blocks)
            h == Meant(blocks)
            b == blocks[k]
            last == LastBit(blocks, k)
            start == Len(f[k - 1])
            out == h[k - 1]
            x == Len(f[k])
            y == Len(h[k])
            z == Len(f[N])
            w == Len(h[N])
            room == 8 * Len(src)
<1>1. CASE InBlock(p, b, last, start, out, src, cap)
  <2>1. AtPart(p, blocks, src, cap, k)
    BY ONLY <1>1 DEF AtPart
  <2>. QED
    BY ONLY <2>1, k \in 1 .. Len(blocks) DEF StreamState
<1>2. CASE p = BlockEnds(b, last, start, out, src, cap)
  <2>1. N \in Nat /\ k \in 0 .. N /\ N \in 0 .. N
    BY StreamTyped
  <2>2. /\ h[k] = BlockMeant(b, out) /\ h[k] \in Seq(Bytes) /\ h[N] \in Seq(Bytes) /\ y <= w
    <3>1. /\ \A i \in 0 .. N : h[i] \in Seq(Bytes) /\ Len(h[i]) <= Len(h[N])
          /\ \A i \in 1 .. N : h[i] = BlockMeant(blocks[i], h[i - 1])
      BY ONLY IsStream(blocks), StreamTyped
    <3>. HIDE DEF h
    <3>. QED
      BY ONLY <2>1, <3>1, k \in 1 .. Len(blocks)
  <2>3. /\ f[k] \in Seq(Bit) /\ f[N] \in Seq(Bit) /\ x <= z
        /\ PartBits(blocks, k) \in Seq(Bit) /\ x = start + Len(PartBits(blocks, k))
    <3>1. \A i \in 0 .. N : f[i] \in Seq(Bit) /\ Len(f[i]) <= Len(f[N])
      BY ONLY IsStream(blocks), HasBits(src, 0, Stream(blocks)), StreamLaid
    <3>2. \A i \in 1 .. N : PartBits(blocks, i) \in Seq(Bit)
      BY ONLY IsStream(blocks), HasBits(src, 0, Stream(blocks)), StreamLaid
    <3>3. \A i \in 1 .. N : Len(f[i]) = Len(f[i - 1]) + Len(PartBits(blocks, i))
      BY ONLY IsStream(blocks), HasBits(src, 0, Stream(blocks)), StreamLaid
    <3>. HIDE DEF f
    <3>. QED
      BY ONLY <2>1, <3>1, <3>2, <3>3, k \in 1 .. Len(blocks)
  <2>4. x \in Nat /\ z \in Nat
    <3>. HIDE DEF f
    <3>. QED
      BY ONLY <2>3
  <2>5. y \in Nat /\ w \in Nat
    <3>. HIDE DEF h
    <3>. QED
      BY ONLY <2>2
  <2>6. start + Len(BlockBits(last, b, start)) = x
    BY ONLY <2>3 DEF PartBits
  <2>7. p = IF x <= room /\ y <= cap THEN AfterBlock(x, h[k], last) ELSE Ended(Fail)
    <3>1. p = IF start + Len(BlockBits(last, b, start)) <= room /\ Len(BlockMeant(b, out)) <= cap
              THEN AfterBlock(start + Len(BlockBits(last, b, start)), BlockMeant(b, out), last)
              ELSE Ended(Fail)
      BY ONLY <1>2 DEF BlockEnds
    <3>. DEFINE e == start + Len(BlockBits(last, b, start))
                t == BlockMeant(b, out)
    <3>2. e = x /\ t = h[k] /\ Len(t) = y
      BY ONLY <2>2, <2>6
    <3>3. p = IF e <= room /\ Len(t) <= cap THEN AfterBlock(e, t, last) ELSE Ended(Fail)
      BY ONLY <3>1
    <3>. HIDE DEF e, t, x, y, h, room, last
    <3>. QED
      BY ONLY <3>2, <3>3, Zenon
  <2>8. CASE ~(x <= room /\ y <= cap)
    <3>1. ~(z <= room /\ w <= cap)
      <4>1. x <= z /\ y <= w /\ room \in Nat
        BY ONLY <2>2, <2>3, Len(src) \in Nat
      <4>. HIDE DEF x, y, z, w, room
      <4>. QED
        BY ONLY <2>4, <2>5, <2>8, <4>1, cap \in Nat
    <3>2. p = Ended(Fail)
      BY ONLY <2>7, <2>8
    <3>3. p = Ended(Outcome(blocks, src, cap))
      BY ONLY <3>1, <3>2 DEF Outcome
    <3>. QED
      BY ONLY <3>3 DEF StreamState
  <2>9. CASE x <= room /\ y <= cap
    <3>1. p = AfterBlock(x, h[k], last)
      BY ONLY <2>7, <2>9
    <3>2. CASE k = N
      <4>1. last = 1 /\ x = z /\ h[k] = h[N] /\ y = w
        BY ONLY <3>2 DEF LastBit
      <4>2. p = Ended(Good(h[N]))
        BY ONLY <3>1, <4>1 DEF AfterBlock
      <4>3. Outcome(blocks, src, cap) = Good(h[N])
        BY ONLY <2>9, <4>1 DEF Outcome
      <4>. QED
        BY ONLY <4>2, <4>3 DEF StreamState
    <3>3. CASE k # N
      <4>1. last # 1
        BY ONLY <3>3 DEF LastBit
      <4>2. p = AtBlock(x, h[k])
        BY ONLY <3>1, <4>1 DEF AfterBlock
      <4>3. k + 1 \in 1 .. N /\ (k + 1) - 1 = k
        <5>. HIDE DEF N
        <5>. QED
          BY ONLY <2>1, <3>3
      <4>4. AtPart(p, blocks, src, cap, k + 1)
        BY ONLY <2>9, <4>2, <4>3 DEF AtPart
      <4>. QED
        BY ONLY <4>3, <4>4 DEF StreamState
    <3>. QED
      BY ONLY <3>2, <3>3
  <2>. QED
    BY ONLY <2>8, <2>9
<1>. QED
  BY ONLY <1>1, <1>2,
     Reached(p, blocks[k], LastBit(blocks, k), Len(Written(blocks)[k - 1]), Meant(blocks)[k - 1], src, cap)
     DEF Reached

\* A turn of inflate, in whichever of its loops.
LEMMA StreamGoes ==
  ASSUME NEW blocks, IsStream(blocks), NEW src \in Seq(Bytes), HasBits(src, 0, Stream(blocks)),
         NEW cap \in Nat, CutWell(blocks, Len(src)), NEW p, StreamState(p, blocks, src, cap)
  PROVE  /\ p.at = "block" => StreamState(BlockTurn(src, cap, p), blocks, src, cap)
         /\ p.at = "lens" => StreamState(LensTurn(src, p), blocks, src, cap)
         /\ p.at = "codes" => StreamState(CodesTurn(src, cap, p), blocks, src, cap)
         /\ p.at = "ended" => p.result = Outcome(blocks, src, cap)
<1>. DEFINE Goal == /\ p.at = "block" => StreamState(BlockTurn(src, cap, p), blocks, src, cap)
                    /\ p.at = "lens" => StreamState(LensTurn(src, p), blocks, src, cap)
                    /\ p.at = "codes" => StreamState(CodesTurn(src, cap, p), blocks, src, cap)
                    /\ p.at = "ended" => p.result = Outcome(blocks, src, cap)
<1>1. ASSUME p = Ended(Outcome(blocks, src, cap)) PROVE Goal
  <2>1. p.at = "ended" /\ p.result = Outcome(blocks, src, cap)
    BY <1>1 DEF Ended
  <2>. QED
    BY <2>1
<1>2. ASSUME NEW k \in 1 .. Len(blocks), AtPart(p, blocks, src, cap, k) PROVE Goal
  <2>. DEFINE start == Len(Written(blocks)[k - 1])
              out == Meant(blocks)[k - 1]
              b == blocks[k]
              last == LastBit(blocks, k)
  <2>1. Len(src) \in Nat /\ Len(blocks) \in Nat /\ k - 1 \in 0 .. Len(blocks)
    BY StreamTyped
  <2>2. out \in Seq(Bytes) /\ IsBlock(b, out)
    <3>1. /\ \A i \in 0 .. Len(blocks) : Meant(blocks)[i] \in Seq(Bytes)
          /\ \A i \in 1 .. Len(blocks) : IsBlock(blocks[i], Meant(blocks)[i - 1])
      BY ONLY IsStream(blocks), StreamTyped
    <3>. QED
      BY ONLY <2>1, <3>1, k \in 1 .. Len(blocks)
  <2>3. last \in Bit
    BY DEF LastBit, Bit
  <2>4. start \in Nat
    <3>1. \A i \in 0 .. Len(blocks) : Written(blocks)[i] \in Seq(Bit)
      BY ONLY IsStream(blocks), HasBits(src, 0, Stream(blocks)), StreamLaid
    <3>2. Written(blocks)[k - 1] \in Seq(Bit)
      BY ONLY <2>1, <3>1
    <3>. QED
      BY ONLY <3>2
  <2>5. HasBits(src, start, BlockBits(last, b, start))
    <3>1. \A i \in 1 .. Len(blocks) : HasBits(src, Len(Written(blocks)[i - 1]), PartBits(blocks, i))
      BY ONLY IsStream(blocks), HasBits(src, 0, Stream(blocks)), StreamLaid
    <3>2. HasBits(src, start, PartBits(blocks, k))
      BY ONLY <3>1, k \in 1 .. Len(blocks)
    <3>. QED
      BY ONLY <3>2 DEF PartBits
  <2>6. ASSUME b.kind = "dynamic" PROVE CutsNo(b, src, last, start)
    <3>1. \A j \in 1 .. Len(b.items) :
            8 * Len(src) \notin (start + Len(LensHead(0, b)) + Len(ItemsBits(b)[j])) - ItemExtra(b.items[j])
                                .. (start + Len(LensHead(0, b)) + Len(ItemsBits(b)[j])) - 1
      BY <2>6 DEF CutWell
    <3>2. Len(LensHead(0, b)) = Len(LensHead(last, b))
      <4>1. HasLengths(b) /\ 0 \in Bit
        BY <2>2, <2>6, DynamicIs DEF Bit
      <4>2. Len(LensHead(0, b)) = 3 + Len(LensRest(b))
        BY ONLY <4>1, LensHeadIs
      <4>3. Len(LensHead(last, b)) = 3 + Len(LensRest(b))
        <5>. HIDE DEF last
        <5>. QED
          BY ONLY <2>3, <4>1, LensHeadIs
      <4>. QED
        BY ONLY <4>2, <4>3
    <3>. QED
      BY ONLY <3>1, <3>2 DEF CutsNo, LensPos
  <2>7. ASSUME NEW q, Reached(q, b, last, start, out, src, cap) PROVE StreamState(q, blocks, src, cap)
    BY ONLY <2>1, <2>7, IsStream(blocks), HasBits(src, 0, Stream(blocks)), cap \in Nat,
            k \in 1 .. Len(blocks), PartEnds
  <2>8. CASE p = AtBlock(start, out) /\ Len(out) <= cap
    <3>1. p.at = "block"
      BY ONLY <2>8 DEF AtBlock
    <3>2. Reached(BlockTurn(src, cap, p), b, last, start, out, src, cap)
      <4>. HIDE DEF b, last, start, out
      <4>1. Reached(BlockTurn(src, cap, AtBlock(start, out)), b, last, start, out, src, cap)
        BY ONLY <2>2, <2>3, <2>4, <2>5, <2>8, src \in Seq(Bytes), cap \in Nat, BlockBegins
      <4>. QED
        BY ONLY <2>8, <4>1
    <3>3. StreamState(BlockTurn(src, cap, p), blocks, src, cap)
      BY ONLY <2>7, <3>2
    <3>. QED
      BY ONLY <3>1, <3>3
  <2>9. CASE InBlock(p, b, last, start, out, src, cap)
    <3>1. \/ p.at = "lens" /\ Reached(LensTurn(src, p), b, last, start, out, src, cap)
          \/ p.at = "codes" /\ Reached(CodesTurn(src, cap, p), b, last, start, out, src, cap)
      <4>. HIDE DEF b, last, start, out
      <4>. QED
        BY ONLY <2>2, <2>3, <2>4, <2>5, <2>6, <2>9, src \in Seq(Bytes), cap \in Nat, BlockGoes
    <3>. HIDE DEF b, last, start, out
    <3>2. \/ p.at = "lens" /\ StreamState(LensTurn(src, p), blocks, src, cap)
          \/ p.at = "codes" /\ StreamState(CodesTurn(src, cap, p), blocks, src, cap)
      BY ONLY <2>7, <3>1
    <3>. QED
      BY ONLY <3>2
  <2>. QED
    BY ONLY <1>2, <2>8, <2>9 DEF AtPart
<1>. QED
  BY ONLY <1>1, <1>2, StreamState(p, blocks, src, cap) DEF StreamState

\* The header's bits: last, then the two of the type.
LEMMA HeaderBits ==
  ASSUME NEW last \in Bit
  PROVE  Header(last, 1)[2] = 1 /\ Header(last, 2)[3] = 1
<1>1. 2 \in 0 .. 16 /\ 1 \in 1 .. 2 /\ 2 \in 1 .. 2 /\ 1 \in Nat /\ 2 \in Nat
  OBVIOUS
<1>2. Low(1, 2) \in Seq(Bit) /\ Len(Low(1, 2)) = 2 /\ Low(1, 2)[1] = (1 \div Two[1 - 1]) % 2
  BY ONLY <1>1, LowSeq
<1>3. Low(2, 2) \in Seq(Bit) /\ Len(Low(2, 2)) = 2 /\ Low(2, 2)[2] = (2 \div Two[2 - 1]) % 2
  BY ONLY <1>1, LowSeq
<1>4. 1 - 1 = 0 /\ 2 - 1 = 1 /\ Two[0] = 1 /\ Two[1] = 2
  BY TwoIs
<1>5. Low(1, 2)[1] = 1
  <2>1. Low(1, 2)[1] = (1 \div 1) % 2
    BY ONLY <1>2, <1>4
  <2>. QED
    BY ONLY <2>1
<1>6. Low(2, 2)[2] = 1
  <2>1. Low(2, 2)[2] = (2 \div 2) % 2
    BY ONLY <1>3, <1>4
  <2>. QED
    BY ONLY <2>1
<1>7. ASSUME NEW a \in Seq(Bit), Len(a) = 2
      PROVE  (<< last >> \o a)[2] = a[1] /\ (<< last >> \o a)[3] = a[2]
  BY ONLY <1>7, last \in Bit
<1>8. (<< last >> \o Low(1, 2))[2] = 1 /\ (<< last >> \o Low(2, 2))[3] = 1
  BY ONLY <1>2, <1>3, <1>5, <1>6, <1>7
<1>. QED
  BY ONLY <1>8 DEF Header

\* A bare stream is not taken for one with a header: what follows the type of
\* a block of bytes are zeros.
LEMMA BareStream ==
  ASSUME NEW blocks, IsStream(blocks), NEW s \in Seq(Bytes), HasBits(s, 0, Stream(blocks)), Len(s) >= 1
  PROVE  s[1] % 16 # 8
<1>. DEFINE b == blocks[1]
            out == Meant(blocks)[0]
            last == LastBit(blocks, 1)
            bits == BlockBits(last, b, 0)
            x == s[1]
<1>1. Len(blocks) \in Nat /\ 1 \in 1 .. Len(blocks) /\ 0 \in 0 .. Len(blocks) /\ 1 - 1 = 0
  <2>1. Len(blocks) \in Nat /\ Len(blocks) > 0
    BY ONLY IsStream(blocks), StreamTyped
  <2>. QED
    BY ONLY <2>1
<1>2. out \in Seq(Bytes) /\ IsBlock(b, out)
  <2>1. /\ \A i \in 0 .. Len(blocks) : Meant(blocks)[i] \in Seq(Bytes)
        /\ \A i \in 1 .. Len(blocks) : IsBlock(blocks[i], Meant(blocks)[i - 1])
    BY ONLY IsStream(blocks), StreamTyped
  <2>. QED
    BY ONLY <1>1, <2>1
<1>3. last \in Bit /\ 0 \in Nat
  BY DEF LastBit, Bit
<1>4. HasBits(s, 0, bits)
  <2>1. Written(blocks)[0] = << >>
    BY ONLY IsStream(blocks), StreamTyped
  <2>2. \A i \in 1 .. Len(blocks) : HasBits(s, Len(Written(blocks)[i - 1]), PartBits(blocks, i))
    BY ONLY IsStream(blocks), HasBits(s, 0, Stream(blocks)), StreamLaid
  <2>3. HasBits(s, Len(Written(blocks)[0]), PartBits(blocks, 1))
    BY ONLY <1>1, <2>2
  <2>4. Len(<< >>) = 0
    OBVIOUS
  <2>5. Len(Written(blocks)[0]) = 0
    BY ONLY <2>1, <2>4
  <2>6. PartBits(blocks, 1) = bits
    BY ONLY <1>1, <2>5 DEF PartBits
  <2>. QED
    BY ONLY <2>3, <2>5, <2>6
<1>5. x \in Nat /\ x < 256 /\ Len(s) \in Nat
  <2>1. 1 \in 1 .. Len(s)
    OBVIOUS
  <2>2. x \in Bytes
    BY ONLY <2>1, s \in Seq(Bytes), ElementOfSeq
  <2>3. Len(s) \in Nat
    OBVIOUS
  <2>. HIDE DEF x
  <2>. QED
    BY ONLY <2>2, <2>3 DEF Bytes
<1>6. /\ BitAt(s, 1) = (x \div 2) % 2 /\ BitAt(s, 2) = (x \div 4) % 2 /\ BitAt(s, 3) = (x \div 8) % 2
  <2>1. Two[1] = 2 /\ Two[2] = 4 /\ Two[3] = 8
    BY TwoIs
  <2>2. /\ 1 \div 8 + 1 = 1 /\ 1 % 8 = 1 /\ 2 \div 8 + 1 = 1 /\ 2 % 8 = 2
        /\ 3 \div 8 + 1 = 1 /\ 3 % 8 = 3
    OBVIOUS
  <2>. QED
    BY ONLY <2>1, <2>2 DEF BitAt
<1>. HIDE DEF x
<1>7. SUFFICES ASSUME x % 16 = 8 PROVE FALSE
  BY DEF x
<1>8. (x \div 2) % 2 = 0 /\ (x \div 4) % 2 = 0 /\ (x \div 8) % 2 = 1
  BY ONLY <1>5, <1>7
<1>. HIDE DEF last, out, b, bits
<1>9. ASSUME NEW type \in {1, 2}, HasBits(s, 0, Header(last, type)) PROVE FALSE
  <2>1. Len(Header(last, type)) = 3
    BY ONLY <1>3, type \in {1, 2}, HeaderSeq
  <2>2. /\ 2 \in 1 .. 3 /\ 3 \in 1 .. 3 /\ 0 + 2 <= 8 * Len(s) /\ 0 + 3 <= 8 * Len(s)
        /\ 0 + 2 - 1 = 1 /\ 0 + 3 - 1 = 2
    BY ONLY <1>5, Len(s) >= 1
  <2>3. BitAt(s, 1) = Header(last, type)[2] /\ BitAt(s, 2) = Header(last, type)[3]
    BY ONLY <1>9, <2>1, <2>2 DEF HasBits
  <2>4. Header(last, 1)[2] = 1 /\ Header(last, 2)[3] = 1
    BY ONLY <1>3, HeaderBits
  <2>. QED
    BY ONLY <1>6, <1>8, <2>3, <2>4, type \in {1, 2}
<1>10. CASE b.kind = "stored"
  <2>. DEFINE rest == StoredBits(b.bytes, 0 + 3)
  <2>1. b.bytes \in Seq(Bytes) /\ Len(b.bytes) < Two[16] /\ 0 + 3 = 3 /\ 3 \in Nat
    BY ONLY <1>2, <1>10, StoredIs
  <2>2. bits = Header(last, 0) \o rest
    BY ONLY <1>10, StoredSplit DEF bits
  <2>3. Header(last, 0) \in Seq(Bit) /\ Len(Header(last, 0)) = 3
    BY ONLY <1>3, HeaderSeq
  <2>4. /\ Padding(3) \in Seq(Bit) /\ Each(StoredValue(b.bytes), 8) \in Seq(Bit)
        /\ StoredBits(b.bytes, 3) \in Seq(Bit)
    BY ONLY <2>1, StoredLen
  <2>5. rest = StoredBits(b.bytes, 3)
    BY ONLY <2>1
  <2>. HIDE DEF rest
  <2>6. HasBits(s, 0 + Len(Header(last, 0)), rest)
    BY ONLY <1>3, <1>4, <2>2, <2>3, <2>4, <2>5, HasConcat
  <2>7. HasBits(s, 3, Padding(3) \o Each(StoredValue(b.bytes), 8))
    BY ONLY <2>1, <2>3, <2>5, <2>6 DEF StoredBits
  <2>8. HasBits(s, 3, Padding(3))
    BY ONLY <2>1, <2>4, <2>7, HasConcat
  <2>9. Padding(3) = [i \in 1 .. 5 |-> 0]
    <3>1. 8 * ((3 + 7) \div 8) - 3 = 5
      OBVIOUS
    <3>. QED
      BY <3>1 DEF Padding
  <2>10. Padding(3)[1] = 0 /\ Len(Padding(3)) = 5
    BY <2>9
  <2>11. 1 \in 1 .. 5 /\ 3 + 1 <= 8 * Len(s) /\ 3 + 1 - 1 = 3
    BY ONLY <1>5, Len(s) >= 1
  <2>12. BitAt(s, 3) = 0
    BY ONLY <2>8, <2>10, <2>11 DEF HasBits
  <2>. QED
    BY ONLY <1>6, <1>8, <2>12
<1>11. CASE b.kind # "stored"
  <2>1. OpsLaid(b, s, last, 0)
    BY ONLY <1>2, <1>3, <1>4, <1>11, CodedLaid DEF bits
  <2>2. HasBits(s, 0, OpsHead(last, b)) /\ OpsPos(last, b, 0, 0) = 0 + Len(OpsHead(last, b))
    BY ONLY <2>1 DEF OpsLaid
  <2>3. b.kind = "fixed" \/ b.kind = "dynamic"
    BY ONLY <1>2, <1>11, CodedIs
  <2>4. CASE b.kind = "fixed"
    <3>1. OpsHead(last, b) = Header(last, 1)
      BY ONLY <1>2, <1>3, <1>11, <2>4, HeadSeq
    <3>. QED
      BY ONLY <1>9, <2>2, <3>1
  <2>5. CASE b.kind = "dynamic"
    <3>1. LensLaid(b, s, last, 0)
      BY ONLY <1>2, <1>3, <2>2, <2>5, DynamicLaid
    <3>2. HasBits(s, 0, Header(last, 2) \o LensRest(b))
      BY ONLY <3>1 DEF LensLaid
    <3>3. Header(last, 2) \in Seq(Bit) /\ LensRest(b) \in Seq(Bit)
      <4>1. HasLengths(b)
        BY ONLY <1>2, <2>5, DynamicIs
      <4>2. LensRest(b) \in Seq(Bit)
        BY ONLY <4>1, RestSeq
      <4>3. Header(last, 2) \in Seq(Bit)
        BY <1>3, HeaderSeq
      <4>. QED
        BY ONLY <4>2, <4>3
    <3>4. HasBits(s, 0, Header(last, 2))
      BY ONLY <1>3, <3>2, <3>3, HasConcat
    <3>. QED
      BY ONLY <1>9, <3>4
  <2>. QED
    BY ONLY <2>3, <2>4, <2>5
<1>. QED
  BY ONLY <1>10, <1>11


\* What a call of inflate is: its bytes without a header are bytes of the
\* stream, from the first on.
LEMMA InflateCallIs ==
  ASSUME NEW c \in InflateCalls
  PROVE  /\ c.f = "inflate" /\ c.cap \in Nat /\ IsStream(c.blocks)
         /\ Body(c.src) \in Seq(Bytes) /\ Len(Body(c.src)) = c.kept
         /\ HasBits(Body(c.src), 0, Stream(c.blocks)) /\ CutWell(c.blocks, Len(Body(c.src)))
         /\ Inflated(c) = Outcome(c.blocks, Body(c.src), c.cap)
<1>1. PICK blocks \in Streams, cut \in Cuts, zlib \in BOOLEAN, room \in Rooms :
        c = InflateCall(blocks, cut, zlib, room)
  BY DEF InflateCalls
<1>. DEFINE bits == Stream(blocks)
            bytes == Pack(bits)
            kept == Len(bytes) - cut
            s == SubSeq(bytes, 1, kept)
            head == IF zlib THEN ZlibHeader ELSE << >>
<1>2. /\ c.f = "inflate" /\ c.blocks = blocks /\ c.kept = kept /\ c.src = head \o s
  BY <1>1 DEF InflateCall
<1>3. c.cap \in Nat /\ CutWell(blocks, kept)
  BY <1>2 DEF InflateCalls
<1>4. IsStream(blocks) /\ cut \in Nat
  BY ImageAssumption
<1>5. bits \in Seq(Bit)
  <2>1. HasBits(<< >>, 0, Stream(blocks)) /\ Len(blocks) \in 0 .. Len(blocks)
    <3>1. Len(blocks) \in Nat
      BY ONLY <1>4, StreamTyped
    <3>. QED
      BY <3>1, NothingHas
  <2>2. \A k \in 0 .. Len(blocks) : Written(blocks)[k] \in Seq(Bit)
    BY ONLY <1>4, <2>1, StreamLaid
  <2>. QED
    BY ONLY <2>1, <2>2 DEF Stream
<1>. DEFINE l == Len(bits)
            total == (l + 7) \div 8
<1>6. l \in Nat
  <2>. HIDE DEF bits
  <2>. QED
    BY ONLY <1>5
<1>7. total \in Nat /\ 8 * total >= l /\ 8 * total <= l + 7
  <2>. HIDE DEF l
  <2>. QED
    BY ONLY <1>6
<1>8. Len(bytes) = total
  <2>1. 0 \in 0 .. (Len(bits) + 7) \div 8
    <3>. HIDE DEF bits
    <3>. QED
      BY ONLY <1>7
  <2>. HIDE DEF bits
  <2>2. Len(Pack(bits)) = (Len(bits) + 7) \div 8
    BY ONLY <1>5, <2>1, PackHas
  <2>. QED
    BY ONLY <2>2
<1>9. kept \in 0 .. total /\ kept \in Nat
  <2>1. kept >= 0
    BY ONLY <1>3 DEF CutWell
  <2>. HIDE DEF total, bytes
  <2>. QED
    BY ONLY <1>4, <1>7, <1>8, <2>1
<1>10. s \in Seq(Bytes) /\ Len(s) = kept /\ HasBits(s, 0, bits)
  <2>. DEFINE k == kept
  <2>1. k \in 0 .. (Len(bits) + 7) \div 8
    BY ONLY <1>9
  <2>. HIDE DEF bits, k
  <2>2. SubSeq(Pack(bits), 1, k) \in Seq(Bytes)
    BY ONLY <1>5, <2>1, PackHas
  <2>3. Len(SubSeq(Pack(bits), 1, k)) = k
    BY ONLY <1>5, <2>1, PackHas
  <2>4. HasBits(SubSeq(Pack(bits), 1, k), 0, bits)
    BY ONLY <1>5, <2>1, PackHas
  <2>. QED
    BY ONLY <2>2, <2>3, <2>4 DEF k
<1>. HIDE DEF s, kept, total, l, bytes
<1>11. Body(c.src) = s
  <2>1. CASE zlib
    <3>. DEFINE z == ZlibHeader
                all == z \o s
    <3>1. c.src = all
      BY ONLY <1>2, <2>1
    <3>2. z = << 120, 1 >> /\ z \in Seq(Bytes) /\ Len(z) = 2 /\ z[1] = 120 /\ z[2] = 1
      BY DEF ZlibHeader, Bytes
    <3>. HIDE DEF z
    <3>3. Len(all) = Len(z) + Len(s) /\ Len(s) \in Nat /\ all[1] = z[1] /\ all[2] = z[2]
      BY ONLY <1>10, <3>2
    <3>4. SubSeq(all, Len(z) + 1, Len(z) + Len(s)) = s
      BY ONLY <1>10, <3>2, TwoParts
    <3>. HIDE DEF all
    <3>5. Len(all) >= 2 /\ all[1] = 120 /\ all[2] = 1 /\ SubSeq(all, 3, Len(all)) = s
      <4>1. Len(z) + 1 = 3
        BY ONLY <3>2
      <4>2. SubSeq(all, 3, Len(all)) = s
        BY ONLY <3>3, <3>4, <4>1
      <4>3. all[1] = 120 /\ all[2] = 1 /\ Len(all) >= 2
        BY ONLY <3>2, <3>3
      <4>. QED
        BY ONLY <4>2, <4>3
    <3>6. 120 % 16 = 8 /\ 120 \div 16 <= 7 /\ (1 \div 32) % 2 = 0 /\ (256 * 120 + 1) % 31 = 0
      OBVIOUS
    <3>. QED
      BY ONLY <3>1, <3>5, <3>6 DEF Body
  <2>2. CASE ~zlib
    <3>1. c.src = << >> \o s
      BY ONLY <1>2, <2>2
    <3>2. << >> \o s = s
      BY ONLY <1>10
    <3>3. Len(s) \in Nat
      BY ONLY <1>10
    <3>4. Len(s) >= 2 => s[1] % 16 # 8
      <4>1. ASSUME Len(s) >= 1 PROVE s[1] % 16 # 8
        BY ONLY <1>4, <1>10, <4>1, BareStream
      <4>. QED
        BY ONLY <3>3, <4>1
    <3>5. Body(s) = s
      BY ONLY <3>4 DEF Body
    <3>. QED
      BY ONLY <3>1, <3>2, <3>5
  <2>. QED
    BY ONLY <2>1, <2>2
<1>12. Inflated(c) = Outcome(blocks, s, c.cap)
  <2>. DEFINE m == Meant(blocks)[Len(blocks)]
  <2>1. Inflated(c) = IF kept = total /\ c.cap >= Len(m) THEN Good(m) ELSE Fail
    BY ONLY <1>2, <1>8 DEF Inflated, Message, bytes
  <2>2. Outcome(blocks, s, c.cap) = IF l <= 8 * kept /\ Len(m) <= c.cap THEN Good(m) ELSE Fail
    BY ONLY <1>10 DEF Outcome, l, Stream
  <2>3. kept = total <=> l <= 8 * kept
    BY ONLY <1>6, <1>7, <1>9
  <2>4. Len(m) \in Nat
    <3>1. Len(blocks) \in 0 .. Len(blocks) /\ \A k \in 0 .. Len(blocks) : Meant(blocks)[k] \in Seq(Bytes)
      <4>1. Len(blocks) \in Nat
        BY ONLY <1>4, StreamTyped
      <4>2. \A k \in 0 .. Len(blocks) : Meant(blocks)[k] \in Seq(Bytes)
        BY ONLY <1>4, StreamTyped
      <4>. QED
        BY ONLY <4>1, <4>2
    <3>. QED
      BY ONLY <3>1
  <2>5. c.cap >= Len(m) <=> Len(m) <= c.cap
    BY ONLY <1>3, <2>4
  <2>. HIDE DEF m
  <2>. QED
    BY ONLY <2>1, <2>2, <2>3, <2>5
<1>. QED
  BY ONLY <1>2, <1>3, <1>4, <1>10, <1>11, <1>12 DEF bits

-----------------------------------------------------------------------------
(* Rows: what a filter takes from a byte is put back.                       *)

\* The distance between two numbers.
Off(p, v) == IF p > v THEN p - v ELSE v - p

\* The nearest neighbour, chosen by comparisons in turn.
LEMMA NearestIs ==
  ASSUME NEW a \in Nat, NEW b \in Nat, NEW c \in Nat
  PROVE  Nearest(a, b, c) = Paeth(a, b, c)
<1>. DEFINE v == << a, b, c >>
            Far(k) == IF a + b - c > v[k] THEN a + b - c - v[k] ELSE v[k] - (a + b - c)
            Ahead(k) == \A j \in 1 .. 3 : Far(k) < Far(j) \/ (Far(k) = Far(j) /\ k <= j)
            m == IF Far(1) <= Far(2) /\ Far(1) <= Far(3) THEN 1 ELSE IF Far(2) <= Far(3) THEN 2 ELSE 3
<1>1. v[1] = a /\ v[2] = b /\ v[3] = c
  OBVIOUS
<1>2. Far(1) \in Int /\ Far(2) \in Int /\ Far(3) \in Int
  <2>. HIDE DEF v
  <2>. QED
    BY <1>1
<1>3. Paeth(a, b, c) = v[m]
  <2>. HIDE DEF v
  <2>. QED
    BY <1>1 DEF Paeth
<1>. HIDE DEF Far
<1>4. m \in 1 .. 3 /\ Ahead(m)
  BY <1>2
<1>5. ASSUME NEW k \in 1 .. 3, Ahead(k) PROVE k = m
  BY <1>2, <1>5
<1>. HIDE DEF m
<1>6. (CHOOSE k \in 1 .. 3 : Ahead(k)) = m
  <2>1. \E k \in 1 .. 3 : Ahead(k)
    BY <1>4
  <2>. HIDE DEF Ahead
  <2>. QED
    BY <1>5, <2>1
<1>7. Nearest(a, b, c) = v[CHOOSE k \in 1 .. 3 : Ahead(k)]
  BY DEF Nearest, Far
<1>. HIDE DEF Ahead
<1>. QED
  BY <1>3, <1>6, <1>7

\* The bytes expected are bytes, and those the filter takes.
LEMMA ExpectedIs ==
  ASSUME NEW a \in Bytes, NEW b \in Bytes, NEW c \in Bytes, NEW ft \in 0 .. 4
  PROVE  /\ Expected(ft, a, b, c) \in Nat
         /\ << 0, a, b, (a + b) \div 2, Nearest(a, b, c) >>[ft + 1] = Expected(ft, a, b, c)
<1>1. a \in Nat /\ b \in Nat /\ c \in Nat
  BY DEF Bytes
<1>2. Nearest(a, b, c) = Paeth(a, b, c)
  BY <1>1, NearestIs
<1>3. Paeth(a, b, c) \in {a, b, c}
  BY DEF Paeth
<1>4. Paeth(a, b, c) \in Nat /\ (a + b) \div 2 \in Nat
  BY ONLY <1>1, <1>3
<1>. DEFINE h == (a + b) \div 2
            n == Paeth(a, b, c)
            v == << 0, a, b, h, n >>
<1>5. v[1] = 0 /\ v[2] = a /\ v[3] = b /\ v[4] = h /\ v[5] = n
  <2>. HIDE DEF h, n
  <2>. QED
    OBVIOUS
<1>6. Expected(ft, a, b, c) = CASE ft = 0 -> 0 [] ft = 1 -> a [] ft = 2 -> b [] ft = 3 -> h [] ft = 4 -> n
  BY DEF Expected
<1>7. << 0, a, b, (a + b) \div 2, Nearest(a, b, c) >> = v
  BY ONLY <1>2
<1>. HIDE DEF h, n, v
<1>8. h \in Nat /\ n \in Nat
  BY ONLY <1>4 DEF h, n
<1>9. ft = 0 \/ ft = 1 \/ ft = 2 \/ ft = 3 \/ ft = 4
  OBVIOUS
<1>10. v[ft + 1] = Expected(ft, a, b, c) /\ Expected(ft, a, b, c) \in Nat
  BY ONLY <1>1, <1>5, <1>6, <1>8, <1>9
<1>. QED
  BY ONLY <1>7, <1>10

\* What is taken off modulo 256 is put back.
LEMMA PutBack ==
  ASSUME NEW x \in Bytes, NEW e \in Nat
  PROVE  (((x - e) % 256) + e) % 256 = x
<1>1. x \in Nat /\ x < 256
  BY DEF Bytes
<1>. QED
  BY ONLY <1>1, Z3

\* A row restored from left to right is the row filtered.
LEMMA UnfilterIs ==
  ASSUME NEW w \in Nat, NEW row \in [1 .. w -> Bytes], NEW prev, prev = << >> \/ prev \in [1 .. w -> Bytes],
         NEW channels \in Nat \ {0}, NEW ft \in 0 .. 4
  PROVE  Unfilter(ft, Filtered(ft, row, prev, channels), prev, channels) = row
<1>. DEFINE cur == Filtered(ft, row, prev, channels)
            Left(f, i) == IF i > channels THEN f[i - channels] ELSE 0
            Up(i) == IF prev = << >> THEN 0 ELSE prev[i]
            UpLeft(i) == IF i > channels /\ prev # << >> THEN prev[i - channels] ELSE 0
            Put(f, i) == (cur[i] + Expected(ft, Left(f, i), Up(i), UpLeft(i))) % 256
            Is(f) == f = [i \in 1 .. w |-> Put(f, i)]
            whole == CHOOSE f : Is(f)
<1>1. ASSUME NEW i \in 1 .. w
      PROVE  /\ row[i] \in Bytes /\ Up(i) \in Bytes /\ UpLeft(i) \in Bytes
             /\ i > channels => i - channels \in 1 .. w /\ i - channels < i
  <2>1. i > channels => i - channels \in 1 .. w /\ i - channels < i
    OBVIOUS
  <2>2. 0 \in Bytes
    BY DEF Bytes
  <2>. QED
    BY <2>1, <2>2
<1>2. ASSUME NEW i \in 1 .. w PROVE Left(row, i) \in Bytes
  <2>1. 0 \in Bytes
    BY DEF Bytes
  <2>. QED
    BY <1>1, <2>1
<1>3. ASSUME NEW i \in 1 .. w PROVE Put(row, i) = row[i]
  <2>. DEFINE a == Left(row, i)
              b == Up(i)
              c == UpLeft(i)
              e == Expected(ft, a, b, c)
              t == << 0, a, b, (a + b) \div 2, Nearest(a, b, c) >>[ft + 1]
  <2>1. DOMAIN row = 1 .. w
    OBVIOUS
  <2>2. cur[i] = (row[i] - t) % 256
    BY <2>1 DEF Filtered
  <2>3. a \in Bytes /\ b \in Bytes /\ c \in Bytes
    BY <1>1, <1>2
  <2>. HIDE DEF a, b, c
  <2>4. e \in Nat /\ t = e
    BY ONLY <2>3, ft \in 0 .. 4, ExpectedIs
  <2>5. row[i] \in Bytes
    BY <1>1
  <2>. HIDE DEF t, e
  <2>6. (((row[i] - e) % 256) + e) % 256 = row[i]
    BY ONLY <2>4, <2>5, PutBack
  <2>7. Put(row, i) = (cur[i] + e) % 256
    BY DEF e, a, b, c
  <2>. HIDE DEF cur, Put
  <2>. QED
    BY ONLY <2>2, <2>4, <2>6, <2>7
<1>4. DOMAIN cur = 1 .. w
  BY DEF Filtered
<1>5. Unfilter(ft, cur, prev, channels) = whole
  <2>. HIDE DEF cur
  <2>. QED
    BY <1>4, Zenon DEF Unfilter
<1>6. \A f : Is(f) <=> f = [i \in 1 .. w |-> Put(f, i)]
  OBVIOUS
<1>7. ASSUME NEW f, NEW g, NEW i \in 1 .. w, i > channels => f[i - channels] = g[i - channels]
      PROVE  Put(f, i) = Put(g, i)
  <2>1. Left(f, i) = Left(g, i)
    BY <1>7
  <2>. HIDE DEF Left, cur, Up, UpLeft
  <2>. QED
    BY <2>1
<1>. HIDE DEF Put, cur
<1>8. Is(row)
  <2>1. row = [i \in 1 .. w |-> row[i]]
    OBVIOUS
  <2>. QED
    BY ONLY <1>3, <1>6, <2>1
<1>9. ASSUME NEW f, Is(f) PROVE f = row
  <2>1. f = [i \in 1 .. w |-> Put(f, i)]
    BY <1>9
  <2>. DEFINE S == {i \in 1 .. w : f[i] # row[i]}
  <2>2. S = {}
    <3>1. SUFFICES ASSUME S # {} PROVE FALSE
      OBVIOUS
    <3>2. S \subseteq Nat
      OBVIOUS
    <3>. HIDE DEF S
    <3>3. PICK i \in S : \A k \in S : i <= k
      BY ONLY <3>1, <3>2, LeastNat
    <3>4. i \in 1 .. w /\ f[i] # row[i] /\ \A k \in 1 .. w : k < i => f[k] = row[k]
      BY <3>3 DEF S
    <3>5. i > channels => f[i - channels] = row[i - channels]
      BY <1>1, <3>4
    <3>6. Put(f, i) = Put(row, i)
      BY <1>7, <3>4, <3>5
    <3>7. f[i] = Put(f, i)
      BY <2>1, <3>4
    <3>. QED
      BY <1>3, <3>4, <3>6, <3>7
  <2>3. \A i \in 1 .. w : f[i] = row[i]
    BY <2>2
  <2>4. row = [i \in 1 .. w |-> row[i]]
    OBVIOUS
  <2>. QED
    BY <2>1, <2>3, <2>4
<1>. HIDE DEF Is
<1>10. whole = row
  BY <1>8, <1>9
<1>. QED
  BY <1>5, <1>10 DEF cur

\* The first rows of a picture, restored, and the filters they have.
RowsBefore(c, k) == [y \in 1 .. k |-> c.rows[y]]
AllowedUpTo(c, k) == \A y \in 1 .. k : c.fts[y] <= 4 /\ (y = 1 => c.fts[y] # 2)
RowState(p, c) ==
  \/ \E k \in 0 .. Len(c.rows) : p = AtRows(RowsBefore(c, k)) /\ AllowedUpTo(c, k)
  \/ p = Ended(Decoded(c))

\* What a picture passed to the decoder is.
LEMMA RowCallIs ==
  ASSUME NEW c \in RowCalls
  PROVE  /\ c.f = "png_decode" /\ c.channels \in Nat \ {0} /\ Len(c.rows) \in Nat \ {0}
         /\ Len(c.rows[1]) \in Nat /\ c.rows \in [1 .. Len(c.rows) -> [1 .. Len(c.rows[1]) -> Bytes]]
         /\ c.fts \in Seq(Nat) /\ Len(c.fts) = Len(c.rows)
<1>1. PICK pic \in Pictures, fts \in Filters :
        c = [f |-> "png_decode", channels |-> pic.channels, rows |-> pic.rows, fts |-> fts]
  BY DEF RowCalls
<1>2. c.f = "png_decode" /\ c.channels = pic.channels /\ c.rows = pic.rows /\ c.fts = fts
  BY <1>1
<1>3. /\ pic.channels \in Nat \ {0} /\ Len(pic.rows) \in Nat \ {0} /\ Len(pic.rows[1]) \in Nat
      /\ pic.rows \in [1 .. Len(pic.rows) -> [1 .. Len(pic.rows[1]) -> Bytes]]
  BY ImageAssumption
<1>4. fts \in Seq(Nat) /\ Len(fts) = Len(pic.rows)
  BY ImageAssumption
<1>. QED
  BY ONLY <1>2, <1>3, <1>4

\* A turn restores a row, refuses its filter, or ends with the rows.
LEMMA RowGoes ==
  ASSUME NEW c \in RowCalls, NEW p, RowState(p, c)
  PROVE  /\ p.at = "rows" => RowState(RowTurn(FilteredRows(c), c.channels, p), c)
         /\ p.at = "ended" => p.result = Decoded(c)
<1>1. ASSUME p = Ended(Decoded(c)) PROVE p.at = "ended" /\ p.result = Decoded(c)
  BY <1>1 DEF Ended
<1>2. ASSUME NEW k \in 0 .. Len(c.rows), p = AtRows(RowsBefore(c, k)), AllowedUpTo(c, k)
      PROVE  p.at = "rows" /\ RowState(RowTurn(FilteredRows(c), c.channels, p), c)
  <2>. DEFINE n == Len(c.rows)
              w == Len(c.rows[1])
              rows == c.rows
              before == RowsBefore(c, k)
              y == k + 1
              filtered == FilteredRows(c)
              prev == IF y = 1 THEN << >> ELSE rows[y - 1]
              q == RowTurn(filtered, c.channels, p)
  <2>1. /\ c.channels \in Nat \ {0} /\ n \in Nat \ {0} /\ w \in Nat /\ rows \in [1 .. n -> [1 .. w -> Bytes]]
        /\ c.fts \in Seq(Nat) /\ Len(c.fts) = n
    BY RowCallIs
  <2>2. p.at = "rows" /\ p.rows = before
    BY <1>2 DEF AtRows
  <2>. HIDE DEF n, w, rows
  <2>3. k \in 0 .. n
    BY DEF n
  <2>4. before = [x \in 1 .. k |-> rows[x]] /\ Len(before) = k /\ k \in Nat
    BY <2>3 DEF RowsBefore, rows
  <2>5. Len(filtered) = n
    <3>1. filtered = [i \in 1 .. n |-> filtered[i]]
      BY DEF FilteredRows, n
    <3>. HIDE DEF filtered
    <3>. QED
      BY <2>1, <3>1
  <2>6. q = LET ft == filtered[y].ft
                last == IF y = 1 THEN << >> ELSE before[y - 1]
            IN IF y > n THEN Ended(Good(before))
               ELSE IF ft > 4 \/ (ft = 2 /\ y = 1) THEN Ended(Fail)
               ELSE AtRows(Append(before, Unfilter(ft, filtered[y].data, last, c.channels)))
    BY ONLY <2>2, <2>4, <2>5 DEF RowTurn, q
  <2>7. y = 1 \/ (y # 1 /\ y - 1 \in 1 .. k)
    BY <2>3, <2>1
  <2>8. (IF y = 1 THEN << >> ELSE before[y - 1]) = prev
    <3>. HIDE DEF before
    <3>. QED
      BY <2>4, <2>7
  <2>9. CASE y > n
    <3>1. k = n
      BY <2>1, <2>3, <2>9
    <3>2. before = rows
      BY <2>1, <2>4, <3>1
    <3>3. ~(c.fts[1] = 2 \/ \E x \in 1 .. n : c.fts[x] > 4)
      <4>1. /\ \A x \in 1 .. n : c.fts[x] <= 4 /\ (x = 1 => c.fts[x] # 2)
            /\ 1 \in 1 .. n
        BY <1>2, <2>1, <3>1 DEF AllowedUpTo
      <4>2. \A x \in 1 .. n : c.fts[x] \in Nat
        BY <2>1
      <4>. QED
        BY <4>1, <4>2
    <3>4. Decoded(c) = Good(rows)
      BY <3>3 DEF Decoded, n, rows
    <3>5. q = Ended(Good(before))
      BY <2>6, <2>9
    <3>. QED
      BY <2>2, <3>2, <3>4, <3>5 DEF RowState
  <2>10. CASE ~(y > n)
    <3>1. y \in 1 .. n /\ y \in 0 .. n /\ y \in Nat
      BY <2>1, <2>3, <2>10
    <3>2. c.fts[y] \in Nat
      BY <2>1, <3>1
    <3>. DEFINE ft == c.fts[y]
    <3>3. filtered[y] = [ft |-> c.fts[y],
                         data |-> IF c.fts[y] > 4 THEN rows[y]
                                  ELSE Filtered(c.fts[y], rows[y], prev, c.channels)]
      BY <3>1 DEF FilteredRows, n, rows
    <3>4. filtered[y].ft = ft /\ (~(ft > 4) => filtered[y].data = Filtered(ft, rows[y], prev, c.channels))
      <4>. HIDE DEF filtered, ft, prev
      <4>. QED
        BY <3>3 DEF ft
    <3>. HIDE DEF filtered
    <3>5. CASE ft > 4 \/ (ft = 2 /\ y = 1)
      <4>1. q = Ended(Fail)
        BY <2>6, <2>10, <3>4, <3>5
      <4>2. c.fts[1] = 2 \/ \E x \in 1 .. n : c.fts[x] > 4
        BY <3>1, <3>5
      <4>3. Decoded(c) = Fail
        BY <4>2 DEF Decoded, n
      <4>. HIDE DEF q
      <4>4. RowState(q, c)
        BY ONLY <4>1, <4>3 DEF RowState
      <4>. QED
        BY ONLY <2>2, <4>4 DEF q, filtered
    <3>6. CASE ~(ft > 4 \/ (ft = 2 /\ y = 1))
      <4>1. ft \in 0 .. 4
        BY <3>2, <3>6
      <4>2. rows[y] \in [1 .. w -> Bytes]
        BY <2>1, <3>1
      <4>3. prev = << >> \/ prev \in [1 .. w -> Bytes]
        <5>1. y # 1 => y - 1 \in 1 .. n
          BY <2>3, <2>7, <2>1
        <5>. QED
          BY <2>1, <5>1
      <4>4. Unfilter(ft, Filtered(ft, rows[y], prev, c.channels), prev, c.channels) = rows[y]
        <5>. DEFINE row == rows[y]
                    channels == c.channels
        <5>1. w \in Nat /\ row \in [1 .. w -> Bytes] /\ channels \in Nat \ {0}
          BY ONLY <2>1, <4>2
        <5>. HIDE DEF ft, prev, row, channels
        <5>2. Unfilter(ft, Filtered(ft, row, prev, channels), prev, channels) = row
          BY ONLY <4>1, <4>3, <5>1, UnfilterIs
        <5>. QED
          BY ONLY <5>2 DEF row, channels
      <4>5. q = AtRows(Append(before, Unfilter(ft, filtered[y].data, prev, c.channels)))
        <5>. HIDE DEF before, prev, q, y
        <5>. QED
          BY ONLY <2>6, <2>8, <2>10, <3>4, <3>6
      <4>6. q = AtRows(Append(before, rows[y]))
        <5>. HIDE DEF before, prev, q, y
        <5>. QED
          BY ONLY <3>4, <3>6, <4>4, <4>5
      <4>7. Append(before, rows[y]) = RowsBefore(c, y)
        <5>1. before \in Seq([1 .. w -> Bytes])
          BY <2>1, <2>3, <2>4
        <5>2. RowsBefore(c, y) = [x \in 1 .. y |-> rows[x]]
          BY DEF RowsBefore, rows
        <5>3. /\ Len(Append(before, rows[y])) = y /\ DOMAIN Append(before, rows[y]) = 1 .. y
              /\ \A x \in 1 .. y : Append(before, rows[y])[x] = rows[x]
              /\ Append(before, rows[y]) = [x \in 1 .. y |-> Append(before, rows[y])[x]]
          <6>. HIDE DEF before
          <6>. QED
            BY <2>4, <4>2, <5>1
        <5>. QED
          BY ONLY <5>2, <5>3
      <4>8. AllowedUpTo(c, y)
        <5>1. \A x \in 1 .. y : x \in 1 .. k \/ x = y
          BY <2>4
        <5>2. c.fts[y] <= 4 /\ (y = 1 => c.fts[y] # 2)
          BY <3>6, <4>1
        <5>. HIDE DEF y
        <5>. QED
          BY <1>2, <5>1, <5>2 DEF AllowedUpTo
      <4>9. y \in 0 .. Len(c.rows)
        BY <3>1 DEF n
      <4>. HIDE DEF y, q
      <4>10. RowState(q, c)
        BY ONLY <4>6, <4>7, <4>8, <4>9 DEF RowState
      <4>. QED
        BY ONLY <2>2, <4>10 DEF q, filtered
    <3>. QED
      BY ONLY <3>5, <3>6
  <2>. QED
    BY ONLY <2>9, <2>10
<1>. QED
  <2>1. \/ p = Ended(Decoded(c))
        \/ \E k \in 0 .. Len(c.rows) : p = AtRows(RowsBefore(c, k)) /\ AllowedUpTo(c, k)
    BY DEF RowState
  <2>2. CASE p = Ended(Decoded(c))
    BY <1>1, <2>2
  <2>3. CASE \E k \in 0 .. Len(c.rows) : p = AtRows(RowsBefore(c, k)) /\ AllowedUpTo(c, k)
    <3>1. p.at = "rows" /\ RowState(RowTurn(FilteredRows(c), c.channels, p), c)
      BY <1>2, <2>3
    <3>. QED
      BY ONLY <3>1
  <2>. QED
    BY <2>1, <2>2, <2>3

-----------------------------------------------------------------------------
(* Codes: two symbols, one after another.                                   *)

\* Two symbols of a code, packed one after the other, are read one after the
\* other.
LEMMA TwoDecoded ==
  ASSUME NEW c \in CodeCalls
  PROVE  LET h == HuffBuild(c.lens)
             first == HuffDec(h, TwoCodes(c), 0)
             second == HuffDec(h, TwoCodes(c), first.pos)
         IN h.ok /\ first.sym = c.a /\ second.sym = c.b
<1>. DEFINE lens == c.lens
            a == c.a
            b == c.b
            x == CodeBits(lens, a)
            y == CodeBits(lens, b)
            bits == x \o y
            src == TwoCodes(c)
            h == HuffBuild(lens)
            m == Len(x)
            n == Len(y)
            first == HuffDec(h, src, 0)
            second == HuffDec(h, src, m)
<1>1. IsCode(lens) /\ HasCode(lens, a) /\ HasCode(lens, b)
  <2>1. PICK l \in {k \in Lengths : IsCode(k)} :
          c \in {[f |-> "huff_dec", lens |-> l, a |-> s, b |-> t] :
                   s, t \in {k \in 0 .. Len(l) - 1 : HasCode(l, k)}}
    BY DEF CodeCalls
  <2>2. PICK s \in {k \in 0 .. Len(l) - 1 : HasCode(l, k)}, t \in {k \in 0 .. Len(l) - 1 : HasCode(l, k)} :
          c = [f |-> "huff_dec", lens |-> l, a |-> s, b |-> t]
    BY <2>1
  <2>3. c.lens = l /\ c.a = s /\ c.b = t
    BY <2>2
  <2>. QED
    BY <2>1, <2>2, <2>3
<1>. HIDE DEF lens, a, b
<1>2. /\ x \in Seq(Bit) /\ Len(x) = lens[a + 1] /\ y \in Seq(Bit) /\ Len(y) = lens[b + 1]
  BY ONLY <1>1, CodeFits
<1>3. src = Pack(bits)
  BY DEF TwoCodes, lens, a, b
<1>. HIDE DEF x, y
<1>4. m \in Nat /\ n \in Nat /\ bits \in Seq(Bit) /\ Len(bits) = m + n
  BY ONLY <1>2, ConcatBits
<1>. HIDE DEF m, n, bits
<1>5. /\ src \in Seq(Bytes) /\ Len(src) \in Nat /\ HasBits(src, 0, bits) /\ 8 * Len(src) >= m + n
  <2>. DEFINE k == (Len(bits) + 7) \div 8
              p == SubSeq(Pack(bits), 1, k)
  <2>1. k \in Nat /\ k \in 0 .. (Len(bits) + 7) \div 8 /\ 8 * k >= m + n
    BY ONLY <1>4
  <2>. HIDE DEF k
  <2>2. Len(Pack(bits)) = (Len(bits) + 7) \div 8
    BY ONLY <1>4, <2>1, PackHas
  <2>3. p \in Seq(Bytes) /\ Len(p) = k
    BY ONLY <1>4, <2>1, PackHas
  <2>4. HasBits(p, 0, bits)
    BY ONLY <1>4, <2>1, PackHas
  <2>5. p = Pack(bits)
    <3>1. Pack(bits) = [i \in 1 .. k |-> Pack(bits)[i]]
      BY DEF Pack, k
    <3>2. p = [i \in 1 .. k |-> Pack(bits)[i]]
      BY ONLY <2>1
    <3>. QED
      BY ONLY <3>1, <3>2
  <2>. HIDE DEF p
  <2>. QED
    BY ONLY <1>3, <2>1, <2>3, <2>4, <2>5
<1>. HIDE DEF src, h
<1>6. HasBits(src, 0, x) /\ HasBits(src, m, y)
  <2>1. 0 \in Nat /\ 0 + Len(x) = m /\ HasBits(src, 0, x \o y)
    BY ONLY <1>4, <1>5 DEF m, bits
  <2>2. HasBits(src, 0, x) /\ HasBits(src, 0 + Len(x), y)
    BY ONLY <1>2, <2>1, HasConcat
  <2>. QED
    BY ONLY <2>1, <2>2
<1>7. h.ok
  BY ONLY <1>1, BuildOk DEF h
<1>8. first = [sym |-> a, pos |-> m]
  <2>1. 0 \in Nat /\ HasBits(src, 0, CodeBits(lens, a))
    BY ONLY <1>6 DEF x
  <2>2. first = [sym |-> a, pos |-> 0 + lens[a + 1]]
    <3>1. 0 + lens[a + 1] <= 8 * Len(src)
      BY ONLY <1>2, <1>4, <1>5 DEF m
    <3>2. IF 0 + lens[a + 1] <= 8 * Len(src)
          THEN first = [sym |-> a, pos |-> 0 + lens[a + 1]] ELSE first.sym = -1
      BY ONLY <1>1, <1>5, <2>1, Decode DEF h
    <3>. HIDE DEF first
    <3>. QED
      BY ONLY <3>1, <3>2
  <2>3. 0 + lens[a + 1] = m
    BY ONLY <1>2, <1>4 DEF m
  <2>. QED
    BY ONLY <2>2, <2>3
<1>9. second.sym = b
  <2>1. m \in Nat /\ HasBits(src, m, CodeBits(lens, b))
    BY ONLY <1>4, <1>6 DEF y
  <2>2. m + lens[b + 1] <= 8 * Len(src)
    BY ONLY <1>2, <1>4, <1>5 DEF n
  <2>3. IF m + lens[b + 1] <= 8 * Len(src)
        THEN second = [sym |-> b, pos |-> m + lens[b + 1]] ELSE second.sym = -1
    BY ONLY <1>1, <1>5, <2>1, Decode DEF h
  <2>. HIDE DEF second
  <2>. QED
    BY ONLY <2>2, <2>3
<1>10. first.sym = a /\ first.pos = m
  <2>. HIDE DEF first
  <2>. QED
    BY ONLY <1>8
<1>. QED
  BY ONLY <1>7, <1>9, <1>10 DEF h, src, lens, a, b

-----------------------------------------------------------------------------
(* The decoder of a call: at a turn of the stream or of the picture its     *)
(* encoder wrote, or at its end with what it should answer.                 *)
StreamInv ==
  call.f = "inflate" =>
    call \in InflateCalls /\ StreamState(png, call.blocks, Body(call.src), call.cap)
PictureInv == call.f = "png_decode" => call \in RowCalls /\ RowState(png, call)
PngInv ==
  /\ StreamInv /\ PictureInv
  /\ call.f = "huff_dec" => call \in CodeCalls
  /\ done /\ call.f \in {"inflate", "png_decode"} => png.at = "ended"

\* Before the first block nothing is read and nothing written.
LEMMA StreamStarts ==
  ASSUME NEW c \in InflateCalls
  PROVE  StreamState(AtBlock(0, << >>), c.blocks, Body(c.src), c.cap)
<1>. DEFINE blocks == c.blocks
            src == Body(c.src)
            cap == c.cap
<1>1. IsStream(blocks) /\ cap \in Nat
  BY InflateCallIs
<1>. HIDE DEF blocks, src, cap
<1>2. /\ Len(blocks) \in Nat /\ Len(blocks) > 0
      /\ Written(blocks)[0] = << >> /\ Meant(blocks)[0] = << >>
  BY ONLY <1>1, StreamTyped
<1>3. 1 \in 1 .. Len(blocks) /\ 1 - 1 = 0 /\ Len(<< >>) = 0 /\ 0 <= cap
  BY ONLY <1>1, <1>2
<1>4. AtPart(AtBlock(0, << >>), blocks, src, cap, 1)
  BY ONLY <1>2, <1>3 DEF AtPart
<1>5. StreamState(AtBlock(0, << >>), blocks, src, cap)
  BY ONLY <1>3, <1>4 DEF StreamState
<1>. QED
  BY ONLY <1>5 DEF blocks, src, cap

\* Nor is there a row before the first.
LEMMA RowsStart ==
  ASSUME NEW c \in RowCalls
  PROVE  RowState(AtRows(<< >>), c)
<1>1. 0 \in 0 .. Len(c.rows) /\ 1 .. 0 = {}
  BY RowCallIs
<1>2. RowsBefore(c, 0) = << >>
  BY ONLY <1>1 DEF RowsBefore
<1>3. AllowedUpTo(c, 0)
  BY ONLY <1>1 DEF AllowedUpTo
<1>. QED
  BY ONLY <1>1, <1>2, <1>3 DEF RowState

\* The invariant holds at first and after every step.
LEMMA PngInit == Init => PngInv
<1>. SUFFICES ASSUME Init PROVE PngInv
  OBVIOUS
<1>1. done = FALSE /\ png = Start(call)
  BY DEF Init
<1>2. \/ call.f \in {"paging_map_physical", "rtc_read_ist", "term_feed"}
      \/ call \in CodeCalls \/ call \in InflateCalls \/ call \in RowCalls
  <2>1. \/ \E s \in Spaces, range \in Ranges :
             call = [f |-> "paging_map_physical", space |-> s, range |-> range]
        \/ \E dt \in Dates, mode \in Modes : call = [f |-> "rtc_read_ist", dt |-> dt, mode |-> mode]
        \/ call \in CodeCalls \cup InflateCalls \cup RowCalls
        \/ call = [f |-> "term_feed"]
    BY DEF Init
  <2>. QED
    BY <2>1
<1>3. ASSUME call \in CodeCalls PROVE call.f = "huff_dec"
  BY <1>3 DEF CodeCalls
<1>4. ASSUME call \in InflateCalls
      PROVE  call.f = "inflate" /\ StreamState(png, call.blocks, Body(call.src), call.cap)
  <2>1. call.f = "inflate"
    BY ONLY <1>4, InflateCallIs
  <2>2. png = AtBlock(0, << >>)
    BY ONLY <1>1, <2>1 DEF Start
  <2>3. StreamState(AtBlock(0, << >>), call.blocks, Body(call.src), call.cap)
    BY ONLY <1>4, StreamStarts
  <2>. QED
    BY ONLY <2>1, <2>2, <2>3
<1>5. ASSUME call \in RowCalls PROVE call.f = "png_decode" /\ RowState(png, call)
  <2>1. call.f = "png_decode"
    BY ONLY <1>5, RowCallIs
  <2>2. png = AtRows(<< >>)
    BY ONLY <1>1, <2>1 DEF Start
  <2>3. RowState(AtRows(<< >>), call)
    BY ONLY <1>5, RowsStart
  <2>. QED
    BY ONLY <2>1, <2>2, <2>3
<1>. QED
  BY ONLY <1>1, <1>2, <1>3, <1>4, <1>5 DEF PngInv, StreamInv, PictureInv

\* A turn of the decoder, of a stream or of a picture.
LEMMA PngTurn ==
  ASSUME PngInv
  PROVE  /\ call.f = "inflate" =>
              /\ png.at = "block" => StreamState(BlockTurn(Body(call.src), call.cap, png),
                                                 call.blocks, Body(call.src), call.cap)
              /\ png.at = "lens" => StreamState(LensTurn(Body(call.src), png),
                                                call.blocks, Body(call.src), call.cap)
              /\ png.at = "codes" => StreamState(CodesTurn(Body(call.src), call.cap, png),
                                                 call.blocks, Body(call.src), call.cap)
              /\ png.at = "ended" => png.result = Inflated(call)
         /\ call.f = "png_decode" =>
              /\ png.at = "rows" => RowState(RowTurn(FilteredRows(call), call.channels, png), call)
              /\ png.at = "ended" => png.result = Decoded(call)
<1>1. ASSUME call.f = "inflate"
      PROVE  /\ png.at = "block" => StreamState(BlockTurn(Body(call.src), call.cap, png),
                                                call.blocks, Body(call.src), call.cap)
             /\ png.at = "lens" => StreamState(LensTurn(Body(call.src), png),
                                               call.blocks, Body(call.src), call.cap)
             /\ png.at = "codes" => StreamState(CodesTurn(Body(call.src), call.cap, png),
                                                call.blocks, Body(call.src), call.cap)
             /\ png.at = "ended" => png.result = Inflated(call)
  <2>. DEFINE blocks == call.blocks
              src == Body(call.src)
              cap == call.cap
  <2>1. call \in InflateCalls /\ StreamState(png, blocks, src, cap)
    BY <1>1 DEF PngInv, StreamInv
  <2>2. /\ cap \in Nat /\ IsStream(blocks) /\ src \in Seq(Bytes) /\ HasBits(src, 0, Stream(blocks))
        /\ CutWell(blocks, Len(src)) /\ Inflated(call) = Outcome(blocks, src, cap)
    BY ONLY <2>1, InflateCallIs
  <2>. HIDE DEF blocks, src, cap
  <2>3. /\ png.at = "block" => StreamState(BlockTurn(src, cap, png), blocks, src, cap)
        /\ png.at = "lens" => StreamState(LensTurn(src, png), blocks, src, cap)
        /\ png.at = "codes" => StreamState(CodesTurn(src, cap, png), blocks, src, cap)
        /\ png.at = "ended" => png.result = Outcome(blocks, src, cap)
    BY ONLY <2>1, <2>2, StreamGoes
  <2>. QED
    BY ONLY <2>2, <2>3 DEF blocks, src, cap
<1>2. ASSUME call.f = "png_decode"
      PROVE  /\ png.at = "rows" => RowState(RowTurn(FilteredRows(call), call.channels, png), call)
             /\ png.at = "ended" => png.result = Decoded(call)
  <2>1. call \in RowCalls /\ RowState(png, call)
    BY <1>2 DEF PngInv, PictureInv
  <2>. QED
    BY ONLY <2>1, RowGoes
<1>. QED
  BY ONLY <1>1, <1>2

LEMMA PngNext == PngInv /\ [Next]_vars => PngInv'
<1>. SUFFICES ASSUME PngInv, [Next]_vars PROVE PngInv'
  OBVIOUS
<1>1. ASSUME UNCHANGED <<call, done, png>> PROVE PngInv'
  BY ONLY <1>1, PngInv DEF PngInv, StreamInv, PictureInv
<1>2. ASSUME UNCHANGED <<call, done>>, call.f = "inflate",
             StreamState(png', call.blocks, Body(call.src), call.cap), png.at # "ended"
      PROVE  PngInv'
  <2>1. call \in InflateCalls /\ ~done
    BY <1>2 DEF PngInv, StreamInv
  <2>. QED
    BY ONLY <1>2, <2>1 DEF PngInv, StreamInv, PictureInv
<1>3. CASE InflateBlock
  <2>1. /\ call.f = "inflate" /\ png.at = "block" /\ UNCHANGED <<call, done>>
        /\ png' = BlockTurn(Body(call.src), call.cap, png)
    BY ONLY <1>3 DEF InflateBlock
  <2>2. StreamState(png', call.blocks, Body(call.src), call.cap)
    BY ONLY <2>1, PngInv, PngTurn
  <2>3. png.at # "ended"
    BY ONLY <2>1
  <2>. QED
    BY ONLY <1>2, <2>1, <2>2, <2>3
<1>4. CASE InflateLens
  <2>1. /\ call.f = "inflate" /\ png.at = "lens" /\ UNCHANGED <<call, done>>
        /\ png' = LensTurn(Body(call.src), png)
    BY ONLY <1>4 DEF InflateLens
  <2>2. StreamState(png', call.blocks, Body(call.src), call.cap)
    BY ONLY <2>1, PngInv, PngTurn
  <2>3. png.at # "ended"
    BY ONLY <2>1
  <2>. QED
    BY ONLY <1>2, <2>1, <2>2, <2>3
<1>5. CASE InflateCodes
  <2>1. /\ call.f = "inflate" /\ png.at = "codes" /\ UNCHANGED <<call, done>>
        /\ png' = CodesTurn(Body(call.src), call.cap, png)
    BY ONLY <1>5 DEF InflateCodes
  <2>2. StreamState(png', call.blocks, Body(call.src), call.cap)
    BY ONLY <2>1, PngInv, PngTurn
  <2>3. png.at # "ended"
    BY ONLY <2>1
  <2>. QED
    BY ONLY <1>2, <2>1, <2>2, <2>3
<1>6. CASE DecodeRow
  <2>1. /\ call.f = "png_decode" /\ png.at = "rows" /\ UNCHANGED <<call, done>>
        /\ png' = RowTurn(FilteredRows(call), call.channels, png)
    BY ONLY <1>6 DEF DecodeRow
  <2>2. call \in RowCalls /\ ~done
    BY ONLY <2>1, PngInv DEF PngInv, PictureInv
  <2>3. RowState(png', call)
    BY ONLY <2>1, PngInv, PngTurn
  <2>. QED
    BY ONLY <2>1, <2>2, <2>3 DEF PngInv, StreamInv, PictureInv
<1>7. CASE Return
  <2>1. png.at = "ended" /\ UNCHANGED <<call, png>>
    BY ONLY <1>7 DEF Return
  <2>. QED
    BY ONLY <2>1, PngInv DEF PngInv, StreamInv, PictureInv
<1>8. CASE MapTurn
  BY ONLY <1>1, <1>8 DEF MapTurn
<1>9. CASE Reopen
  BY ONLY <1>1, <1>9 DEF Reopen
<1>10. ASSUME NEW key \in Keys, Key(key) PROVE PngInv'
  BY ONLY <1>1, <1>10 DEF Key
<1>11. CASE UNCHANGED vars
  BY ONLY <1>1, <1>11 DEF vars
<1>. QED
  BY ONLY [Next]_vars, <1>3, <1>4, <1>5, <1>6, <1>7, <1>8, <1>9, <1>10, <1>11 DEF Next

(* What an encoder wrote is what is read, whatever it wrote: the symbols of *)
(* every prefix code; the bytes of every stream, stored or coded, whatever  *)
(* its codes and however its matches run into themselves, and a refusal     *)
(* when it is cut short or the room is; the rows of every picture under any *)
(* filters but those refused (huff_build, huff_dec, inflate, png_decode).   *)
THEOREM PngCorrect == Spec => []PngExact
<1>1. PngInv => PngExact
  <2>. SUFFICES ASSUME PngInv, done PROVE PngExact
    BY DEF PngExact
  <2>1. ASSUME call.f = "huff_dec"
        PROVE  LET h == HuffBuild(call.lens)
                   first == HuffDec(h, TwoCodes(call), 0)
                   second == HuffDec(h, TwoCodes(call), first.pos)
               IN h.ok /\ first.sym = call.a /\ second.sym = call.b
    <3>1. call \in CodeCalls
      BY ONLY <2>1, PngInv DEF PngInv
    <3>. QED
      BY ONLY <3>1, TwoDecoded
  <2>2. ASSUME call.f = "inflate" PROVE png.result = Inflated(call)
    <3>1. png.at = "ended"
      BY ONLY <2>2, PngInv, done DEF PngInv
    <3>. QED
      BY ONLY <2>2, <3>1, PngInv, PngTurn
  <2>3. ASSUME call.f = "png_decode" PROVE png.result = Decoded(call)
    <3>1. png.at = "ended"
      BY ONLY <2>3, PngInv, done DEF PngInv
    <3>. QED
      BY ONLY <2>3, <3>1, PngInv, PngTurn
  <2>. QED
    BY ONLY <2>1, <2>2, <2>3, done DEF PngExact
<1>. QED
  BY <1>1, PngInit, PngNext, PTL DEF Spec
=============================================================================
