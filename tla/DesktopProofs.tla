----------------------------- MODULE DesktopProofs -----------------------------
(***************************************************************************)
(* Proofs about src/kernel/desktop.c, in two parts.                         *)
(*                                                                         *)
(* Desktop, for every screen, every number of windows, every list of icons  *)
(* and any width of integer:                                                *)
(*   - clipping returns the visible part of a rectangle and no sum wraps;   *)
(*   - each operation leaves the desk in order (DeskOK) and repaints what   *)
(*     it changed of the scene (Repaints), both collected in Op;            *)
(*   - presenting stamps the cursor and brings the page in front up to date *)
(*     (IInv), from which the properties of Desktop follow.                 *)
(*                                                                         *)
(* FileApps, the RAM files, the Notepad and the file manager, for any       *)
(* number of windows, slots, names and edits and any buffer sizes: names    *)
(* stay unique, a file goes only when the user says so, an editor with room *)
(* for its file is never clean before its text is stored (Inv and Good),    *)
(* and the array of slots implements a map from names to contents.          *)
(***************************************************************************)
EXTENDS Desktop, FileApps, TLAPS, FiniteSetTheorems, WellFoundedInduction, SequenceTheorems

IntRange == (-IntHalf) .. (IntHalf - 1)
Rects == [x : IntRange, y : IntRange, w : IntRange, h : IntRange]

\* What the active clip and the damage may be: a part of the screen.
InScreen(c) ==
  /\ c \in [x : Nat, y : Nat, w : Nat, h : Nat]
  /\ c.x + c.w <= ScrW /\ c.y + c.h <= ScrH

Points == Int \X Int

\* A sum within the type is itself.
LEMMA WrapFits ==
  ASSUME NEW v \in IntRange
  PROVE  Wrap(v) = v
<1>1. IntHalf \in Nat /\ v \in Int /\ -IntHalf <= v /\ v < IntHalf
  BY ScreenAssumption DEF IntRange
<1>2. v + IntHalf \in Nat /\ v + IntHalf < 2 * IntHalf
  BY <1>1
<1>3. (v + IntHalf) % (2 * IntHalf) = v + IntHalf
  BY <1>1, <1>2
<1>. QED
  BY <1>1, <1>3 DEF Wrap

\* Saturation gives the end of the interval, or the limit before it, for any
\* beginning on this side of the limit: negative ones and huge lengths too.
LEMMA SaturatedExact ==
  ASSUME NEW at \in IntRange, NEW len \in IntRange, NEW lim \in Nat,
         lim < IntHalf, len > 0, at < lim
  PROVE  Saturated(at, len, lim) = Lesser(at + len, lim)
<1>1. IntHalf \in Nat /\ at \in Int /\ len \in Int /\ lim \in Int
  BY ScreenAssumption DEF IntRange
<1>2. CASE at >= 0 /\ len >= lim - at
  BY <1>1, <1>2 DEF Saturated, Lesser
<1>3. CASE at >= 0 /\ ~(len >= lim - at)
  <2>1. at + len \in IntRange /\ at + len < lim
    BY <1>1, <1>3 DEF IntRange
  <2>. QED
    BY <1>1, <1>3, <2>1, WrapFits DEF Saturated, Lesser
<1>4. CASE ~(at >= 0)
  <2>1. at + len \in IntRange
    BY <1>1, <1>4 DEF IntRange
  <2>. QED
    BY <1>1, <1>4, <2>1, WrapFits DEF Saturated, Lesser
<1>. QED
  BY <1>2, <1>3, <1>4

(* bb_clip returns exactly the points of the rectangle that are on the       *)
(* screen and in the active clip, whatever its origin and its size: negative *)
(* origins shrink it, and no sum overflows (desktop.c, bb_clip).             *)
THEOREM ClipCorrect ==
  ASSUME NEW r \in Rects, NEW clip, InScreen(clip), NEW p \in Points
  PROVE  Contains(BbClip(r, clip), p) <=>
           Contains(r, p) /\ Contains(Screen, p) /\ Contains(clip, p)
<1>. DEFINE left == Greater(r.x, 0)
            top == Greater(r.y, 0)
            right == Saturated(r.x, r.w, ScrW)
            bottom == Saturated(r.y, r.h, ScrH)
            x0 == Greater(left, clip.x)
            y0 == Greater(top, clip.y)
            x1 == Lesser(right, clip.x + clip.w)
            y1 == Lesser(bottom, clip.y + clip.h)
            none == \/ r.w <= 0 \/ r.h <= 0 \/ left >= ScrW \/ top >= ScrH
                    \/ right <= left \/ bottom <= top \/ x1 <= x0 \/ y1 <= y0
<1>1. /\ ScrW \in Nat /\ ScrH \in Nat /\ IntHalf \in Nat
      /\ ScrW < IntHalf /\ ScrH < IntHalf
      /\ r.x \in Int /\ r.y \in Int /\ r.w \in Int /\ r.h \in Int
      /\ r.x \in IntRange /\ r.y \in IntRange /\ r.w \in IntRange /\ r.h \in IntRange
      /\ clip.x \in Nat /\ clip.y \in Nat /\ clip.w \in Nat /\ clip.h \in Nat
      /\ clip.x + clip.w <= ScrW /\ clip.y + clip.h <= ScrH
      /\ p[1] \in Int /\ p[2] \in Int
  BY ScreenAssumption DEF Rects, IntRange, InScreen, Points
<1>2. r.w > 0 /\ r.x < ScrW => right = Lesser(r.x + r.w, ScrW)
  BY <1>1, SaturatedExact
<1>3. r.h > 0 /\ r.y < ScrH => bottom = Lesser(r.y + r.h, ScrH)
  BY <1>1, SaturatedExact
<1>4. left \in Nat /\ top \in Nat /\ left >= r.x /\ top >= r.y
      /\ (left = r.x \/ left = 0) /\ (top = r.y \/ top = 0)
  BY <1>1 DEF Greater
<1>5. BbClip(r, clip) = IF none THEN Empty ELSE Rect(x0, y0, x1 - x0, y1 - y0)
  BY DEF BbClip
<1>6. Contains(r, p) <=> r.x <= p[1] /\ p[1] < r.x + r.w /\ r.y <= p[2] /\ p[2] < r.y + r.h
  BY <1>1 DEF Contains
<1>7. Contains(Screen, p) <=> 0 <= p[1] /\ p[1] < ScrW /\ 0 <= p[2] /\ p[2] < ScrH
  BY <1>1 DEF Contains, Screen, Rect
<1>8. Contains(clip, p) <=> /\ clip.x <= p[1] /\ p[1] < clip.x + clip.w
                            /\ clip.y <= p[2] /\ p[2] < clip.y + clip.h
  BY <1>1 DEF Contains
<1>9. CASE r.w <= 0 \/ r.h <= 0 \/ left >= ScrW \/ top >= ScrH
  <2>1. ~Contains(Empty, p)
    BY <1>1 DEF Contains, Empty, Rect
  <2>2. ~(Contains(r, p) /\ Contains(Screen, p))
    BY <1>1, <1>4, <1>6, <1>7, <1>9
  <2>. QED
    BY <1>5, <1>9, <2>1, <2>2
<1>10. CASE ~(r.w <= 0 \/ r.h <= 0 \/ left >= ScrW \/ top >= ScrH)
  <2>1. /\ r.w > 0 /\ r.h > 0 /\ r.x < ScrW /\ r.y < ScrH
        /\ right = Lesser(r.x + r.w, ScrW) /\ bottom = Lesser(r.y + r.h, ScrH)
    BY <1>1, <1>2, <1>3, <1>4, <1>10
  <2>2. /\ right \in Int /\ bottom \in Int
        /\ x0 \in Int /\ y0 \in Int /\ x1 \in Int /\ y1 \in Int
    BY <1>1, <1>4, <2>1 DEF Lesser, Greater
  <2>3. /\ p[1] >= x0 <=> p[1] >= r.x /\ p[1] >= 0 /\ p[1] >= clip.x
        /\ p[2] >= y0 <=> p[2] >= r.y /\ p[2] >= 0 /\ p[2] >= clip.y
    BY <1>1, <1>4 DEF Greater
  <2>4. /\ p[1] < x1 <=> p[1] < r.x + r.w /\ p[1] < ScrW /\ p[1] < clip.x + clip.w
        /\ p[2] < y1 <=> p[2] < r.y + r.h /\ p[2] < ScrH /\ p[2] < clip.y + clip.h
    BY <1>1, <2>1 DEF Lesser
  <2>5. Contains(r, p) /\ Contains(Screen, p) /\ Contains(clip, p)
          <=> p[1] >= x0 /\ p[1] < x1 /\ p[2] >= y0 /\ p[2] < y1
    BY <1>1, <1>6, <1>7, <1>8, <2>3, <2>4
  <2>6. CASE right <= left \/ bottom <= top \/ x1 <= x0 \/ y1 <= y0
    <3>1. x1 <= x0 \/ y1 <= y0
      BY <1>1, <1>4, <2>2, <2>6 DEF Lesser, Greater
    <3>2. ~(p[1] >= x0 /\ p[1] < x1 /\ p[2] >= y0 /\ p[2] < y1)
      BY <1>1, <2>2, <3>1
    <3>3. ~Contains(Empty, p)
      BY <1>1 DEF Contains, Empty, Rect
    <3>. QED
      BY <1>5, <2>5, <2>6, <3>2, <3>3
  <2>7. CASE ~(right <= left \/ bottom <= top \/ x1 <= x0 \/ y1 <= y0)
    <3>1. BbClip(r, clip) = Rect(x0, y0, x1 - x0, y1 - y0)
      BY <1>5, <1>10, <2>7
    <3>2. Contains(Rect(x0, y0, x1 - x0, y1 - y0), p)
            <=> p[1] >= x0 /\ p[1] < x1 /\ p[2] >= y0 /\ p[2] < y1
      <4>. HIDE DEF x0, y0, x1, y1
      <4>. QED
        BY <1>1, <2>2 DEF Contains, Rect
    <3>. QED
      BY <2>5, <3>1, <3>2
  <2>. QED
    BY <2>6, <2>7
<1>. QED
  BY <1>9, <1>10

LEMMA CountUpTo ==
  ASSUME NEW n \in Nat
  PROVE  IsFiniteSet(0 .. (n - 1)) /\ Cardinality(0 .. (n - 1)) = n
<1>1. 0 \in Int /\ n - 1 \in Int
  OBVIOUS
<1>2. Cardinality(0 .. (n - 1)) = IF 0 > n - 1 THEN 0 ELSE (n - 1) - 0 + 1
  BY <1>1, FS_Interval, Zenon
<1>3. IsFiniteSet(0 .. (n - 1))
  BY <1>1, FS_Interval, Zenon
<1>4. (IF 0 > n - 1 THEN 0 ELSE (n - 1) - 0 + 1) = n
  OBVIOUS
<1>. QED
  BY <1>2, <1>3, <1>4

(* Induction on the natural numbers, for a set: a least counterexample.     *)
LEMMA LeastNat ==
  ASSUME NEW T \in SUBSET Nat, T # {}
  PROVE  \E m \in T : \A k \in T : m <= k
<1>. DEFINE Below(n) == 0 .. (n - 1)
            B == {Below(n) : n \in T}
<1>1. \A n \in Nat : IsFiniteSet(Below(n)) /\ Below(n) \in SUBSET Nat
  BY CountUpTo
<1>2. B \subseteq FiniteSubsetsOf(Nat) /\ B # {}
  BY <1>1 DEF FiniteSubsetsOf
<1>3. \E x \in B : \A y \in B : ~(<<y, x>> \in StrictSubsetOrdering(Nat))
  BY <1>2, FS_StrictSubsetOrderingWellFounded, WFMin
<1>4. PICK m \in T : \A k \in T : ~(<<Below(k), Below(m)>> \in StrictSubsetOrdering(Nat))
  BY <1>3
<1>5. ASSUME NEW k \in T, k < m PROVE FALSE
  <2>1. Below(k) \subseteq Below(m) /\ k \in Below(m) /\ k \notin Below(k)
    BY <1>5
  <2>2. Below(k) \in SUBSET Nat /\ Below(m) \in SUBSET Nat
    OBVIOUS
  <2>3. <<Below(k), Below(m)>> \in StrictSubsetOrdering(Nat)
    BY <2>1, <2>2, Zenon DEF StrictSubsetOrdering
  <2>. QED
    BY <2>3, <1>4
<1>. QED
  BY <1>5


LEMMA MinIs ==
  ASSUME NEW S \in SUBSET Nat, S # {}
  PROVE  Min(S) \in S /\ \A k \in S : Min(S) <= k
<1>1. \E m \in S : \A k \in S : m <= k
  BY LeastNat
<1>. QED
  BY <1>1 DEF Min

LEMMA MaxIs ==
  ASSUME NEW N \in Nat, NEW S \in SUBSET (0 .. N), S # {}
  PROVE  Max(S) \in S /\ \A k \in S : Max(S) >= k
<1>. DEFINE T == {N - k : k \in S}
<1>1. T \in SUBSET Nat /\ T # {}
  <2>1. \A k \in S : k \in Int /\ 0 <= k /\ k <= N /\ N - k \in Nat
    OBVIOUS
  <2>. QED
    BY <2>1
<1>2. PICK m \in T : \A k \in T : m <= k
  BY <1>1, LeastNat
<1>3. PICK x \in S : m = N - x
  BY <1>2
<1>4. \A k \in S : x >= k
  <2>. TAKE k \in S
  <2>1. N - x <= N - k /\ x \in Int /\ k \in Int
    BY <1>2, <1>3
  <2>. QED
    BY <2>1
<1>. QED
  BY <1>4 DEF Max

-----------------------------------------------------------------------------
(* Rectangles of the screen.                                                *)
LEMMA ScreenSize ==
  /\ ScrW \in Nat /\ ScrW > 0 /\ ScrH \in Nat /\ ScrH > 0
  /\ IntHalf \in Nat /\ ScrW < IntHalf /\ ScrH < IntHalf
  BY ScreenAssumption

LEMMA SizeFacts ==
  /\ TaskH \in Nat /\ TitleH \in Nat /\ MinW \in Nat /\ MinH \in Nat
  /\ BtnTop \in Nat /\ BtnH \in Nat /\ BtnW \in Nat /\ BtnMargin \in Nat /\ BtnGap \in Nat
  /\ Gutter \in Nat /\ TextX \in Nat /\ TextY \in Nat
  /\ IconX0 \in Nat /\ IconY0 \in Nat /\ IconW \in Nat /\ IconH \in Nat /\ IconStep \in Nat
  /\ LabelH \in Nat /\ MenuX \in Nat /\ MenuW \in Nat /\ MenuPad \in Nat /\ ItemH \in Nat
  /\ ItemGap \in Nat /\ MenuGap \in Nat /\ StartX \in Nat /\ StartW \in Nat /\ BarTop \in Nat
  /\ BarH \in Nat /\ TaskX0 \in Nat /\ TaskW \in Nat /\ TaskGap \in Nat
  /\ ClockW \in Nat /\ ClockR \in Nat /\ ClockTop \in Nat
<1>1. {TaskH, TitleH, MinW, MinH, BtnTop, BtnH, BtnW, BtnMargin, BtnGap, Gutter,
       TextX, TextY, CaretX, CaretY, TermFrame, CharW, CaretH, IconX0, IconY0,
       IconW, IconH, IconStep, LabelH, MenuX, MenuW, MenuPad, ItemH, ItemGap,
       MenuGap, StartX, StartW, BarTop, BarH, TaskX0, TaskW, TaskGap, ClockW,
       ClockR, ClockTop} \subseteq Nat
  BY DesktopAssumption
<1>. QED
  BY ONLY <1>1

LEMMA ScreenFacts ==
  /\ ScrW \in Nat /\ ScrW > 0 /\ ScrH \in Nat /\ ScrH > 0
  /\ IntHalf \in Nat /\ ScrW < IntHalf /\ ScrH < IntHalf
  /\ MaxWindows \in Nat /\ MaxWindows > 0 /\ OpenSteps \in Nat /\ OpenSteps > 0
  /\ TaskH \in Nat /\ TitleH \in Nat /\ MinW \in Nat /\ MinH \in Nat /\ Gutter \in Nat
  /\ TitleH + Gutter < MinH
  /\ WorkH \in Nat /\ WorkH + TaskH = ScrH /\ WorkH > 0
  /\ Len(Icons) \in Nat
<1>1. /\ ScrW \in Nat /\ ScrW > 0 /\ ScrH \in Nat /\ ScrH > 0
      /\ IntHalf \in Nat /\ ScrW < IntHalf /\ ScrH < IntHalf
  BY ScreenSize
<1>2. /\ MaxWindows \in Nat /\ MaxWindows > 0 /\ OpenSteps \in Nat /\ OpenSteps > 0
      /\ Len(Icons) \in Nat
  BY DesktopAssumption
<1>3. TaskH < ScrH /\ TitleH + Gutter < MinH
  BY DesktopAssumption
<1>4. WorkH \in Nat /\ WorkH + TaskH = ScrH /\ WorkH > 0
  BY <1>1, <1>3, SizeFacts DEF WorkH
<1>. QED
  BY <1>1, <1>2, <1>3, <1>4, SizeFacts

\* The smallest rectangle around others on the screen holds their points.
LEMMA AroundHolds ==
  ASSUME NEW S, S # {}, \A r \in S : InScreen(r)
  PROVE  /\ InScreen(Around(S))
         /\ \A r \in S : \A p \in Points : Contains(r, p) => Contains(Around(S), p)
<1>. DEFINE X == {r.x : r \in S}
            Y == {r.y : r \in S}
            V == {r.x + r.w : r \in S}
            U == {r.y + r.h : r \in S}
<1>1. X \in SUBSET Nat /\ Y \in SUBSET Nat /\ X # {} /\ Y # {}
  BY DEF InScreen
<1>2. V \in SUBSET (0 .. ScrW) /\ U \in SUBSET (0 .. ScrH) /\ V # {} /\ U # {}
  BY ScreenSize DEF InScreen
<1>3. /\ \A r \in S : Min(X) <= r.x /\ Min(Y) <= r.y /\ r.x + r.w <= Max(V) /\ r.y + r.h <= Max(U)
      /\ Min(X) \in Nat /\ Min(Y) \in Nat /\ Max(V) \in 0 .. ScrW /\ Max(U) \in 0 .. ScrH
  <2>1. Min(X) \in X /\ Min(Y) \in Y /\ (\A k \in X : Min(X) <= k) /\ (\A k \in Y : Min(Y) <= k)
    BY <1>1, MinIs
  <2>2. Max(V) \in V /\ \A k \in V : Max(V) >= k
    BY <1>2, ScreenSize, MaxIs
  <2>3. Max(U) \in U /\ \A k \in U : Max(U) >= k
    BY <1>2, ScreenSize, MaxIs
  <2>4. \A r \in S : r.x \in X /\ r.y \in Y /\ r.x + r.w \in V /\ r.y + r.h \in U
    OBVIOUS
  <2>5. \A v \in V : v \in Int /\ v <= Max(V)
    BY <1>2, <2>2
  <2>6. \A u \in U : u \in Int /\ u <= Max(U)
    BY <1>2, <2>3
  <2>. HIDE DEF X, Y, U, V
  <2>. QED
    BY <1>1, <1>2, <2>1, <2>2, <2>3, <2>4, <2>5, <2>6
<1>4. Around(S) = Rect(Min(X), Min(Y), Max(V) - Min(X), Max(U) - Min(Y))
  BY DEF Around
<1>. HIDE DEF X, Y, V, U
<1>5. PICK r \in S : InScreen(r)
  OBVIOUS
<1>6. Min(X) <= Max(V) /\ Min(Y) <= Max(U)
  BY <1>3, <1>5, ScreenSize DEF InScreen
<1>7. InScreen(Around(S))
  <2>1. Max(V) - Min(X) \in Nat /\ Max(U) - Min(Y) \in Nat
    BY <1>3, <1>6
  <2>2. /\ Min(X) + (Max(V) - Min(X)) <= ScrW
        /\ Min(Y) + (Max(U) - Min(Y)) <= ScrH
    BY <1>3, <1>6, ScreenFacts
  <2>. QED
    BY <1>3, <1>4, <2>1, <2>2 DEF InScreen, Rect
<1>8. ASSUME NEW q \in S, NEW p \in Points, Contains(q, p)
      PROVE  Contains(Around(S), p)
  <2>1. /\ q.x \in Nat /\ q.y \in Nat /\ q.w \in Nat /\ q.h \in Nat
        /\ Min(X) <= q.x /\ Min(Y) <= q.y /\ q.x + q.w <= Max(V) /\ q.y + q.h <= Max(U)
    BY <1>3 DEF InScreen
  <2>2. p[1] \in Int /\ p[2] \in Int
    BY DEF Points
  <2>3. p[1] >= Min(X) /\ p[1] < Max(V) /\ p[2] >= Min(Y) /\ p[2] < Max(U)
    BY <1>3, <1>8, <2>1, <2>2 DEF Contains
  <2>. QED
    BY <1>3, <1>4, <2>2, <2>3 DEF Contains, Rect
<1>. QED
  BY <1>7, <1>8

\* Clipping to the screen alone keeps the points on it.
LEMMA ClipOnScreen ==
  ASSUME NEW r \in Rects
  PROVE  /\ InScreen(BbClip(r, Screen))
         /\ \A p \in Cells : Contains(BbClip(r, Screen), p) <=> Contains(r, p)
<1>1. InScreen(Screen)
  BY ScreenFacts DEF InScreen, Screen, Rect
<1>2. \A p \in Cells : p \in Points /\ Contains(Screen, p)
  BY ScreenFacts DEF Cells, Points, Contains, Screen, Rect
<1>3. \A p \in Cells : Contains(BbClip(r, Screen), p) <=> Contains(r, p)
  BY <1>1, <1>2, ClipCorrect
<1>. DEFINE left == Greater(r.x, 0)
            top == Greater(r.y, 0)
            right == Saturated(r.x, r.w, ScrW)
            bottom == Saturated(r.y, r.h, ScrH)
            x0 == Greater(left, 0)
            y0 == Greater(top, 0)
            x1 == Lesser(right, ScrW)
            y1 == Lesser(bottom, ScrH)
<1>4. r.x \in IntRange /\ r.y \in IntRange /\ r.w \in IntRange /\ r.h \in IntRange
  BY DEF Rects
<1>5. /\ Screen.x = 0 /\ Screen.y = 0 /\ Screen.x + Screen.w = ScrW /\ Screen.y + Screen.h = ScrH
  BY ScreenFacts DEF Screen, Rect
<1>6. BbClip(r, Screen) = IF \/ r.w <= 0 \/ r.h <= 0 \/ left >= ScrW \/ top >= ScrH
                             \/ right <= left \/ bottom <= top \/ x1 <= x0 \/ y1 <= y0
                          THEN Empty ELSE Rect(x0, y0, x1 - x0, y1 - y0)
  BY <1>5 DEF BbClip
<1>7. left \in Nat /\ top \in Nat /\ x0 = left /\ y0 = top
  BY <1>4, ScreenFacts DEF IntRange, Greater
<1>8. InScreen(Empty)
  BY ScreenFacts DEF InScreen, Empty, Rect
<1>9. right \in Int /\ bottom \in Int
  <2>1. \A v \in Int : Wrap(v) \in Int
    BY ScreenFacts DEF Wrap
  <2>2. \A a, b, c \in Int : Saturated(a, b, c) \in Int
    BY <2>1 DEF Saturated, Lesser
  <2>3. r.x \in Int /\ r.y \in Int /\ r.w \in Int /\ r.h \in Int
    BY <1>4, ScreenFacts DEF IntRange
  <2>4. ScrW \in Int /\ ScrH \in Int
    BY ScreenFacts
  <2>. QED
    BY <2>2, <2>3, <2>4
<1>10. /\ x1 \in Int /\ y1 \in Int /\ x1 <= ScrW /\ y1 <= ScrH
  BY <1>9, ScreenFacts DEF Lesser
<1>. HIDE DEF left, top, right, bottom, x0, y0, x1, y1
<1>11. ~(x1 <= x0 \/ y1 <= y0) => InScreen(Rect(x0, y0, x1 - x0, y1 - y0))
  BY <1>7, <1>10, ScreenFacts DEF InScreen, Rect
<1>. QED
  BY <1>3, <1>6, <1>8, <1>11

\* damage_add grows the damage by the part on the screen of each rectangle.
LEMMA DamageHolds ==
  ASSUME NEW dam, InScreen(dam), NEW S \in SUBSET Rects
  PROVE  /\ InScreen(DamageAdd(dam, S))
         /\ \A p \in Cells : Contains(dam, p) => Contains(DamageAdd(dam, S), p)
         /\ \A p \in Cells : \A r \in S : Contains(r, p) => Contains(DamageAdd(dam, S), p)
<1>. DEFINE all == {dam} \cup {BbClip(r, Screen) : r \in S}
            parts == all \ {Empty}
<1>1. \A r \in all : InScreen(r)
  BY ClipOnScreen
<1>2. \A p \in Cells : p \in Points /\ ~Contains(Empty, p)
  BY ScreenFacts DEF Cells, Points, Contains, Empty, Rect
<1>3. DamageAdd(dam, S) = IF parts = {} THEN Empty ELSE Around(parts)
  BY DEF DamageAdd
<1>4. \A r \in all : \A p \in Cells : Contains(r, p) => Contains(DamageAdd(dam, S), p)
  <2>. TAKE r \in all
  <2>. TAKE p \in Cells
  <2>. HAVE Contains(r, p)
  <2>1. r \in parts
    BY <1>2
  <2>. HIDE DEF all, parts
  <2>2. Contains(Around(parts), p)
    BY <1>1, <1>2, <2>1, AroundHolds DEF parts
  <2>. QED
    BY <1>3, <2>1, <2>2
<1>5. InScreen(DamageAdd(dam, S))
  <2>1. InScreen(Empty)
    BY ScreenFacts DEF InScreen, Empty, Rect
  <2>2. \A r \in parts : InScreen(r)
    BY <1>1
  <2>. HIDE DEF parts
  <2>3. parts # {} => InScreen(Around(parts))
    BY <2>2, AroundHolds
  <2>. QED
    BY <1>3, <2>1, <2>3
<1>. QED
  BY <1>4, <1>5, ClipOnScreen

-----------------------------------------------------------------------------
(* The order of the windows: each slot in use is in it once.                *)
OrderOK(d) ==
  /\ d.z \in Seq(Slots)
  /\ \A m, n \in 1 .. Len(d.z) : d.z[m] = d.z[n] => m = n
  /\ \A i \in Slots : d.win[i].used <=> \E n \in 1 .. Len(d.z) : d.z[n] = i

LEMMA PlaceIs ==
  ASSUME NEW d, OrderOK(d), NEW n \in 1 .. Len(d.z)
  PROVE  Place(d, d.z[n]) = n
  BY DEF OrderOK, Place

LEMMA PlaceOf ==
  ASSUME NEW d, OrderOK(d), NEW i \in Slots, d.win[i].used
  PROVE  Place(d, i) \in 1 .. Len(d.z) /\ d.z[Place(d, i)] = i
<1>1. PICK n \in 1 .. Len(d.z) : d.z[n] = i
  BY DEF OrderOK
<1>. QED
  BY <1>1, PlaceIs

\* Of some windows in use one is in front of the others, and no other is.
LEMMA HighestIs ==
  ASSUME NEW d, OrderOK(d), NEW S \in SUBSET Slots, \A i \in S : d.win[i].used, S # {}
  PROVE  /\ Highest(d, S) \in S
         /\ \A j \in S : Place(d, j) <= Place(d, Highest(d, S))
         /\ \A i \in S : (\A j \in S : Place(d, j) <= Place(d, i)) => i = Highest(d, S)
<1>1. \A i \in S : Place(d, i) \in 1 .. Len(d.z) /\ d.z[Place(d, i)] = i
  BY PlaceOf
<1>. DEFINE P == {Place(d, i) : i \in S}
<1>2. Len(d.z) \in Nat
  BY DEF OrderOK
<1>3. P \in SUBSET (0 .. Len(d.z)) /\ P # {}
  <2>1. \A k \in P : k \in 1 .. Len(d.z)
    BY <1>1
  <2>2. \A k \in 1 .. Len(d.z) : k \in 0 .. Len(d.z)
    BY <1>2
  <2>. QED
    BY <2>1, <2>2
<1>4. Max(P) \in P /\ \A k \in P : Max(P) >= k
  <2>. HIDE DEF P
  <2>. QED
    BY <1>2, <1>3, MaxIs
<1>5. PICK i \in S : Place(d, i) = Max(P)
  BY <1>4
<1>6. \A j \in S : Place(d, j) <= Place(d, i)
  BY <1>4, <1>5
<1>7. Highest(d, S) = CHOOSE h \in S : \A j \in S : Place(d, j) <= Place(d, h)
  BY DEF Highest
<1>8. Highest(d, S) \in S /\ \A j \in S : Place(d, j) <= Place(d, Highest(d, S))
  BY <1>6, <1>7
<1>9. ASSUME NEW h \in S, \A j \in S : Place(d, j) <= Place(d, h)
      PROVE  h = Highest(d, S)
  <2>1. Place(d, h) <= Place(d, Highest(d, S)) /\ Place(d, Highest(d, S)) <= Place(d, h)
    BY <1>8, <1>9
  <2>2. Place(d, h) = Place(d, Highest(d, S))
    BY <1>1, <1>2, <1>8, <2>1
  <2>. QED
    BY <1>1, <1>8, <2>2
<1>. QED
  BY <1>8, <1>9

LEMMA TopmostIs ==
  ASSUME NEW d, OrderOK(d)
  PROVE  /\ Visible(d) # {} =>
              /\ WinTopmostIndex(d) \in Visible(d)
              /\ \A j \in Visible(d) : Place(d, j) <= Place(d, WinTopmostIndex(d))
              /\ \A i \in Visible(d) : (\A j \in Visible(d) : Place(d, j) <= Place(d, i))
                                          => i = WinTopmostIndex(d)
         /\ Visible(d) = {} => WinTopmostIndex(d) = None
<1>1. Visible(d) \in SUBSET Slots /\ \A i \in Visible(d) : d.win[i].used
  BY DEF Visible
<1>2. Visible(d) = {} => WinTopmostIndex(d) = None
  BY DEF WinTopmostIndex, Highest
<1>. QED
  BY <1>1, <1>2, HighestIs DEF WinTopmostIndex

Under(d, p) == {i \in Visible(d) : Contains(d.win[i].rect, p)}

LEMMA TopmostAtIs ==
  ASSUME NEW d, OrderOK(d), NEW p
  PROVE  /\ Under(d, p) # {} =>
              /\ WinTopmostAt(d, p) \in Under(d, p)
              /\ \A j \in Under(d, p) : Place(d, j) <= Place(d, WinTopmostAt(d, p))
              /\ \A i \in Under(d, p) : (\A j \in Under(d, p) : Place(d, j) <= Place(d, i))
                                          => i = WinTopmostAt(d, p)
         /\ Under(d, p) = {} => WinTopmostAt(d, p) = None
         /\ WinTopmostAt(d, p) # None => WinTopmostAt(d, p) \in Under(d, p)
         /\ WinTopmostAt(d, p) \in Visible(d) \cup {None}
<1>1. Under(d, p) \in SUBSET Slots /\ \A i \in Under(d, p) : d.win[i].used
  BY DEF Under, Visible
<1>2. WinTopmostAt(d, p) = Highest(d, Under(d, p))
  BY DEF WinTopmostAt, Under
<1>3. Under(d, p) = {} => WinTopmostAt(d, p) = None
  BY <1>2 DEF Highest
<1>4. Under(d, p) \subseteq Visible(d)
  BY DEF Under
<1>. QED
  BY <1>1, <1>2, <1>3, <1>4, HighestIs

-----------------------------------------------------------------------------
(* Taking a slot out of the order and putting one in front.                 *)
LEMMA RemoveProperties ==
  ASSUME NEW S, NEW s \in Seq(S), NEW k \in 1 .. Len(s)
  PROVE  /\ Seqs!RemoveAt(s, k) \in Seq(S)
         /\ Len(Seqs!RemoveAt(s, k)) = Len(s) - 1
         /\ \A n \in 1 .. (Len(s) - 1) : Seqs!RemoveAt(s, k)[n] = s[IF n < k THEN n ELSE n + 1]
<1>. DEFINE a == SubSeq(s, 1, k - 1)
            b == SubSeq(s, k + 1, Len(s))
<1>0. Len(s) \in Nat /\ k \in Int /\ k >= 1 /\ k <= Len(s)
  OBVIOUS
<1>1. a \in Seq(S) /\ Len(a) = k - 1 /\ \A n \in 1 .. (k - 1) : a[n] = s[n]
  <2>1. \A n \in 1 .. (k - 1) : s[n] \in S
    BY <1>0
  <2>. QED
    BY <1>0, <2>1, SubSeqProperties
<1>2. b \in Seq(S) /\ Len(b) = Len(s) - k /\ \A n \in 1 .. (Len(s) - k) : b[n] = s[k + n]
  <2>1. \A n \in (k + 1) .. Len(s) : s[n] \in S
    BY <1>0
  <2>. QED
    BY <1>0, <2>1, SubSeqProperties
<1>3. Seqs!RemoveAt(s, k) = a \o b
  BY DEF Seqs!RemoveAt
<1>. HIDE DEF a, b
<1>4. /\ a \o b \in Seq(S) /\ Len(a \o b) = Len(s) - 1
      /\ \A n \in 1 .. (Len(s) - 1) : (a \o b)[n] = IF n <= k - 1 THEN a[n] ELSE b[n - (k - 1)]
  <2>1. /\ a \o b \in Seq(S) /\ Len(a \o b) = Len(a) + Len(b)
        /\ \A n \in 1 .. Len(a) + Len(b) : (a \o b)[n] = IF n <= Len(a) THEN a[n] ELSE b[n - Len(a)]
    BY <1>1, <1>2, ConcatProperties, Zenon
  <2>2. Len(a) + Len(b) = Len(s) - 1
    BY <1>0, <1>1, <1>2
  <2>. QED
    BY <1>1, <2>1, <2>2
<1>5. ASSUME NEW n \in 1 .. (Len(s) - 1)
      PROVE  (a \o b)[n] = s[IF n < k THEN n ELSE n + 1]
  <2>1. CASE n < k
    <3>1. n \in 1 .. (k - 1) /\ n <= k - 1
      BY <1>0, <2>1
    <3>. QED
      BY <1>1, <1>4, <2>1, <3>1
  <2>2. CASE ~(n < k)
    <3>1. n - (k - 1) \in 1 .. (Len(s) - k) /\ ~(n <= k - 1) /\ k + (n - (k - 1)) = n + 1
      BY <1>0, <2>2
    <3>. QED
      BY <1>2, <1>4, <2>2, <3>1
  <2>. QED
    BY <2>1, <2>2
<1>. QED
  BY <1>3, <1>4, <1>5

LEMMA WithoutIs ==
  ASSUME NEW d, OrderOK(d), NEW i \in Slots, d.win[i].used
  PROVE  /\ WithoutSlot(d, i) \in Seq(Slots) /\ Len(WithoutSlot(d, i)) = Len(d.z) - 1
         /\ Len(d.z) - 1 \in Nat
         /\ \A n \in 1 .. (Len(d.z) - 1) :
              WithoutSlot(d, i)[n] = d.z[IF n < Place(d, i) THEN n ELSE n + 1]
<1>1. Place(d, i) \in 1 .. Len(d.z) /\ d.z \in Seq(Slots)
  BY PlaceOf DEF OrderOK
<1>2. Len(d.z) \in Nat
  BY <1>1
<1>3. WithoutSlot(d, i) = Seqs!RemoveAt(d.z, Place(d, i))
  BY DEF WithoutSlot
<1>4. /\ Seqs!RemoveAt(d.z, Place(d, i)) \in Seq(Slots)
      /\ Len(Seqs!RemoveAt(d.z, Place(d, i))) = Len(d.z) - 1
      /\ \A n \in 1 .. (Len(d.z) - 1) :
           Seqs!RemoveAt(d.z, Place(d, i))[n] = d.z[IF n < Place(d, i) THEN n ELSE n + 1]
  BY <1>1, RemoveProperties, Zenon
<1>5. Len(d.z) - 1 \in Nat
  BY <1>1, <1>2
<1>. QED
  BY <1>3, <1>4, <1>5

\* Both keep who of the others is in front of whom.
Kept(d, e, S) ==
  \A j, k \in S : Place(d, j) <= Place(d, k) <=> Place(e, j) <= Place(e, k)

LEMMA OrderWithout ==
  ASSUME NEW d, OrderOK(d), NEW i \in Slots, d.win[i].used, NEW e,
         e.z = WithoutSlot(d, i),
         \A j \in Slots : e.win[j].used <=> j # i /\ d.win[j].used
  PROVE  /\ OrderOK(e)
         /\ Kept(d, e, {j \in Slots : e.win[j].used})
<1>. DEFINE k == Place(d, i)
            n == Len(d.z)
            From(m) == IF m < k THEN m ELSE m + 1
            To(m) == IF m < k THEN m ELSE m - 1
<1>1. k \in 1 .. n /\ d.z[k] = i /\ n \in Nat /\ n - 1 \in Nat
  BY PlaceOf, WithoutIs
<1>2. /\ e.z \in Seq(Slots) /\ Len(e.z) = n - 1
      /\ \A m \in 1 .. (n - 1) : e.z[m] = d.z[From(m)]
  BY WithoutIs
<1>3. \A m \in 1 .. (n - 1) : From(m) \in 1 .. n /\ From(m) # k /\ To(From(m)) = m
  BY <1>1
<1>4. \A m \in 1 .. n : m # k => To(m) \in 1 .. (n - 1) /\ From(To(m)) = m
  BY <1>1
<1>5. \A m, l \in 1 .. n : m # k /\ l # k => (m <= l <=> To(m) <= To(l))
  BY <1>1
<1>6. /\ \A m, l \in 1 .. n : d.z[m] = d.z[l] => m = l
      /\ \A j \in Slots : d.win[j].used <=> \E m \in 1 .. n : d.z[m] = j
  BY DEF OrderOK
<1>. HIDE DEF k, n, From, To
<1>7. \A m, l \in 1 .. (n - 1) : e.z[m] = e.z[l] => m = l
  BY <1>2, <1>3, <1>6
<1>8. ASSUME NEW j \in Slots
      PROVE  e.win[j].used <=> \E m \in 1 .. (n - 1) : e.z[m] = j
  <2>1. ASSUME e.win[j].used PROVE \E m \in 1 .. (n - 1) : e.z[m] = j
    <3>1. PICK m \in 1 .. n : d.z[m] = j
      BY <1>6, <2>1
    <3>2. m # k
      BY <1>1, <2>1, <3>1
    <3>. QED
      BY <1>2, <1>4, <3>1, <3>2
  <2>2. ASSUME NEW m \in 1 .. (n - 1), e.z[m] = j PROVE e.win[j].used
    BY <1>1, <1>2, <1>3, <1>6, <2>2
  <2>. QED
    BY <2>1, <2>2
<1>9. OrderOK(e)
  BY <1>2, <1>7, <1>8 DEF OrderOK
<1>10. ASSUME NEW j \in Slots, e.win[j].used
       PROVE  Place(d, j) \in 1 .. n /\ Place(d, j) # k /\ Place(e, j) = To(Place(d, j))
  <2>1. Place(d, j) \in 1 .. n /\ d.z[Place(d, j)] = j
    BY <1>10, PlaceOf DEF n
  <2>2. Place(d, j) # k
    BY <1>1, <1>10, <2>1
  <2>3. To(Place(d, j)) \in 1 .. (n - 1) /\ e.z[To(Place(d, j))] = j
    BY <1>2, <1>4, <2>1, <2>2
  <2>. QED
    BY <1>2, <1>9, <2>1, <2>2, <2>3, PlaceIs
<1>11. Kept(d, e, {j \in Slots : e.win[j].used})
  BY <1>5, <1>10 DEF Kept
<1>. QED
  BY <1>9, <1>11

LEMMA OrderAppend ==
  ASSUME NEW d, OrderOK(d), NEW i \in Slots, ~d.win[i].used, NEW e,
         e.z = Append(d.z, i),
         \A j \in Slots : e.win[j].used <=> j = i \/ d.win[j].used
  PROVE  /\ OrderOK(e)
         /\ Kept(d, e, {j \in Slots : d.win[j].used})
         /\ \A j \in Slots : e.win[j].used => Place(e, j) <= Place(e, i)
<1>. DEFINE n == Len(d.z)
<1>1. /\ d.z \in Seq(Slots) /\ n \in Nat
      /\ \A m, l \in 1 .. n : d.z[m] = d.z[l] => m = l
      /\ \A j \in Slots : d.win[j].used <=> \E m \in 1 .. n : d.z[m] = j
  BY DEF OrderOK
<1>2. /\ e.z \in Seq(Slots) /\ Len(e.z) = n + 1 /\ e.z[n + 1] = i
      /\ \A m \in 1 .. n : e.z[m] = d.z[m]
  BY <1>1
<1>3. \A m \in 1 .. n : d.z[m] # i
  BY <1>1
<1>. HIDE DEF n
<1>4. \A m \in 1 .. (n + 1) : m \in 1 .. n \/ m = n + 1
  BY <1>1
<1>5. \A m \in 1 .. n : m \in 1 .. (n + 1) /\ m <= n + 1
  BY <1>1
<1>6. n + 1 \in 1 .. (n + 1)
  BY <1>1
<1>7. \A m, l \in 1 .. (n + 1) : e.z[m] = e.z[l] => m = l
  BY <1>1, <1>2, <1>3, <1>4
<1>8. \A j \in Slots : e.win[j].used <=> \E m \in 1 .. (n + 1) : e.z[m] = j
  BY <1>1, <1>2, <1>4, <1>5, <1>6
<1>9. OrderOK(e)
  BY <1>2, <1>7, <1>8 DEF OrderOK
<1>10. ASSUME NEW j \in Slots, d.win[j].used
       PROVE  Place(d, j) \in 1 .. n /\ Place(e, j) = Place(d, j)
  <2>1. Place(d, j) \in 1 .. n /\ d.z[Place(d, j)] = j
    BY <1>10, PlaceOf DEF n
  <2>. QED
    BY <1>2, <1>5, <1>9, <2>1, PlaceIs
<1>11. Place(e, i) = n + 1
  BY <1>2, <1>6, <1>9, PlaceIs
<1>12. \A j \in Slots : e.win[j].used => Place(e, j) <= Place(e, i)
  <2>. TAKE j \in Slots
  <2>. HAVE e.win[j].used
  <2>1. CASE j = i
    BY <1>1, <1>11, <2>1
  <2>2. CASE j # i
    BY <1>5, <1>10, <1>11, <2>2
  <2>. QED
    BY <2>1, <2>2
<1>. QED
  BY <1>9, <1>10, <1>12 DEF Kept

LEMMA OrderFront ==
  ASSUME NEW d, OrderOK(d), NEW i \in Slots, d.win[i].used, NEW e,
         e.z = Append(WithoutSlot(d, i), i),
         \A j \in Slots : e.win[j].used <=> d.win[j].used
  PROVE  /\ OrderOK(e)
         /\ Kept(d, e, {j \in Slots : d.win[j].used /\ j # i})
         /\ \A j \in Slots : d.win[j].used => Place(e, j) <= Place(e, i)
<1>. DEFINE m == [z |-> WithoutSlot(d, i),
                  win |-> [j \in Slots |-> [used |-> j # i /\ d.win[j].used]]]
<1>1. m.z = WithoutSlot(d, i) /\ \A j \in Slots : m.win[j].used <=> j # i /\ d.win[j].used
  OBVIOUS
<1>. HIDE DEF m
<1>2. OrderOK(m) /\ Kept(d, m, {j \in Slots : m.win[j].used})
  BY <1>1, OrderWithout
<1>3. /\ ~m.win[i].used /\ e.z = Append(m.z, i)
      /\ \A j \in Slots : e.win[j].used <=> j = i \/ m.win[j].used
  BY <1>1
<1>4. /\ OrderOK(e) /\ Kept(m, e, {j \in Slots : m.win[j].used})
      /\ \A j \in Slots : e.win[j].used => Place(e, j) <= Place(e, i)
  BY <1>2, <1>3, OrderAppend
<1>. QED
  BY <1>1, <1>2, <1>4 DEF Kept

-----------------------------------------------------------------------------
(* What a desk is between the steps of a poll.                              *)
AnyRect == [x : Int, y : Int, w : Int, h : Int]
AnyWindow == [used : BOOLEAN, rect : AnyRect, icon : Int, min : BOOLEAN,
              max : BOOLEAN, rest : AnyRect, col : Int]

InArea(r) ==
  /\ r \in AnyRect /\ r.x >= 0 /\ r.y >= 0 /\ r.w >= MinW /\ r.h >= MinH
  /\ r.x + r.w <= ScrW /\ r.y + r.h <= WorkH

WindowOK(w) ==
  /\ w \in AnyWindow
  /\ w.used => InArea(w.rect) /\ w.icon \in 1 .. Len(Icons)
  /\ w.used /\ w.max => InArea(w.rest)

HoldOK(d) ==
  /\ d.drag # None => d.drag \in Visible(d)
  /\ d.resize # None => d.resize \in Visible(d) /\ ~d.win[d.resize].max
  /\ d.drag = None \/ d.resize = None

Fields ==
  {"win", "z", "drag", "off", "resize", "grab", "menu", "opens", "bb", "damage", "odd", "hit"}

DeskOK(d) ==
  /\ DOMAIN d = Fields
  /\ d.win \in [Slots -> AnyWindow] /\ \A i \in Slots : WindowOK(d.win[i])
  /\ OrderOK(d)
  /\ HoldOK(d)
  /\ d.off \in Int \X Int /\ d.grab \in [at : Int \X Int, w : Int, h : Int]
  /\ d.menu \in BOOLEAN /\ d.opens \in 0 .. (OpenSteps - 1)
  /\ d.bb = [p \in Cells |-> d.bb[p]] /\ InScreen(d.damage)

SameWindows(d, e) ==
  /\ e.win = d.win /\ e.z = d.z /\ e.menu = d.menu /\ e.opens = d.opens
  /\ e.drag = d.drag /\ e.resize = d.resize /\ e.off = d.off /\ e.grab = d.grab

LEMMA AreaFacts ==
  ASSUME NEW r, InArea(r)
  PROVE  /\ InScreen(r) /\ r \in Rects /\ r \in AnyRect
         /\ r.x \in Int /\ r.y \in Int /\ r.w \in Int /\ r.h \in Int
<1>1. /\ r \in AnyRect /\ r.x \in Int /\ r.y \in Int /\ r.w \in Int /\ r.h \in Int
      /\ r.x >= 0 /\ r.y >= 0 /\ r.w >= MinW /\ r.h >= MinH
      /\ r.x + r.w <= ScrW /\ r.y + r.h <= WorkH
  BY DEF InArea, AnyRect
<1>2. /\ r.x \in Nat /\ r.y \in Nat /\ r.w \in Nat /\ r.h \in Nat
      /\ r.y + r.h <= ScrH
  <2>1. /\ MinW \in Nat /\ MinH \in Nat /\ WorkH \in Nat /\ TaskH \in Nat
        /\ WorkH + TaskH = ScrH
    BY ScreenFacts
  <2>. QED
    BY ONLY <1>1, <2>1
<1>3. /\ r.x \in IntRange /\ r.y \in IntRange /\ r.w \in IntRange /\ r.h \in IntRange
  BY <1>1, <1>2, ScreenSize DEF IntRange
<1>. QED
  BY <1>1, <1>2, <1>3 DEF InScreen, Rects, AnyRect

LEMMA OnScreenRect ==
  ASSUME NEW r, InScreen(r)
  PROVE  r \in Rects
<1>1. /\ r.x \in Nat /\ r.y \in Nat /\ r.w \in Nat /\ r.h \in Nat
      /\ r.x + r.w <= ScrW /\ r.y + r.h <= ScrH
  BY DEF InScreen
<1>2. /\ r.x \in IntRange /\ r.y \in IntRange /\ r.w \in IntRange /\ r.h \in IntRange
  BY <1>1, ScreenSize DEF IntRange
<1>. QED
  BY <1>2 DEF InScreen, Rects

\* The taskbar is of the slots in use and the topmost window.
LEMMA TaskbarOf ==
  ASSUME NEW d, NEW e, \A i \in Slots : e.win[i].used = d.win[i].used
  PROVE  /\ \A i \in Slots : TaskBtn(e, i) = TaskBtn(d, i)
         /\ \A p : TaskbarWinAt(e, p) = TaskbarWinAt(d, p)
         /\ WinTopmostIndex(e) = WinTopmostIndex(d)
              => \A p : TaskbarCell(e, p) = TaskbarCell(d, p)
<1>. DEFINE Hit(f, p) == {i \in Slots : f.win[i].used /\ Contains(TaskBtn(f, i), p)}
<1>1. ASSUME NEW i \in Slots PROVE TaskBtn(e, i) = TaskBtn(d, i)
  <2>1. {j \in Slots : j < i /\ e.win[j].used} = {j \in Slots : j < i /\ d.win[j].used}
    OBVIOUS
  <2>. QED
    BY <2>1 DEF TaskBtn, TaskPlace
<1>2. ASSUME NEW p PROVE Hit(e, p) = Hit(d, p)
  <2>1. ASSUME NEW i \in Slots PROVE i \in Hit(e, p) <=> i \in Hit(d, p)
    BY <1>1, Zenon
  <2>. QED
    BY <2>1
<1>3. ASSUME NEW p PROVE TaskbarWinAt(e, p) = TaskbarWinAt(d, p)
  <2>1. /\ TaskbarWinAt(e, p) = IF Hit(e, p) = {} THEN None ELSE Min(Hit(e, p))
        /\ TaskbarWinAt(d, p) = IF Hit(d, p) = {} THEN None ELSE Min(Hit(d, p))
    BY DEF TaskbarWinAt
  <2>. HIDE DEF Hit
  <2>. QED
    BY <1>2, <2>1
<1>4. ASSUME WinTopmostIndex(e) = WinTopmostIndex(d), NEW p
      PROVE  TaskbarCell(e, p) = TaskbarCell(d, p)
  <2>. DEFINE Bar(S, top) ==
         IF Contains(ClockRect, p) THEN Paint("clock", 0, "", FALSE)
         ELSE IF S # {} THEN Paint("task", Max(S), "", Max(S) = top)
         ELSE Paint(IF Contains(StartRect, p) THEN "start" ELSE "taskbar", 0, "", FALSE)
  <2>1. /\ TaskbarCell(e, p) = Bar(Hit(e, p), WinTopmostIndex(e))
        /\ TaskbarCell(d, p) = Bar(Hit(d, p), WinTopmostIndex(d))
    BY Zenon DEF TaskbarCell
  <2>. HIDE DEF Hit, Bar
  <2>. QED
    BY <1>2, <1>4, <2>1
<1>. QED
  BY <1>1, <1>3, <1>4

\* What is below the windows.
BareCell(p) ==
  LET icons == {k \in 1 .. Len(Icons) : Contains(IconRect(k), p)}
  IN IF icons # {} THEN Paint("icon", Max(icons), "", FALSE) ELSE Background

LEMMA SceneParts ==
  ASSUME NEW d, NEW p
  PROVE  LET top == WinTopmostAt(d, p)
         IN SceneCell(d, p) = IF d.menu /\ Contains(MenuRect, p) THEN MenuCell(p)
                              ELSE IF p[2] >= WorkH THEN TaskbarCell(d, p)
                              ELSE IF top # None THEN WinCell(d, top, p) ELSE BareCell(p)
  BY Zenon DEF SceneCell, BareCell

\* The scene is of the windows, their order and the menu alone.
LEMMA SceneOf ==
  ASSUME NEW d, NEW e, OrderOK(d), OrderOK(e), e.win = d.win, e.z = d.z
  PROVE  /\ Visible(e) = Visible(d) /\ WinTopmostIndex(e) = WinTopmostIndex(d)
         /\ \A p : WinTopmostAt(e, p) = WinTopmostAt(d, p)
         /\ \A p : TaskbarWinAt(e, p) = TaskbarWinAt(d, p)
         /\ \A p : e.menu = d.menu \/ ~Contains(MenuRect, p)
                    => SceneCell(e, p) = SceneCell(d, p)
<1>1. Visible(e) = Visible(d) /\ \A i : Place(e, i) = Place(d, i)
  BY DEF Visible, Place
<1>2. WinTopmostIndex(e) = WinTopmostIndex(d)
  BY <1>1, TopmostIs
<1>3. ASSUME NEW p PROVE WinTopmostAt(e, p) = WinTopmostAt(d, p)
  <2>1. Under(e, p) = Under(d, p)
    BY <1>1 DEF Under
  <2>. QED
    BY <1>1, <2>1, TopmostAtIs
<1>4. /\ \A p : TaskbarWinAt(e, p) = TaskbarWinAt(d, p)
      /\ \A p : TaskbarCell(e, p) = TaskbarCell(d, p)
  BY <1>2, TaskbarOf
<1>5. ASSUME NEW p, e.menu = d.menu \/ ~Contains(MenuRect, p)
      PROVE  SceneCell(e, p) = SceneCell(d, p)
  <2>1. \A i : WinCell(e, i, p) = WinCell(d, i, p)
    BY <1>2, Zenon DEF WinCell
  <2>. QED
    BY <1>3, <1>4, <1>5, <2>1, SceneParts
<1>. QED
  BY <1>1, <1>2, <1>3, <1>4, <1>5

-----------------------------------------------------------------------------
(* Painting.  Two cells are alike up to the focus of a title's last row.    *)
Like(a, b) ==
  /\ a[1] = b[1] /\ a[2] = b[2] /\ a[3] = b[3]
  /\ b[3] # "edge" => a[4] = b[4]

\* e is d after repaints that leave no cell behind: what fills a cell is up to
\* date if it was, and the damage has what changed.
Repaints(d, e) ==
  /\ \A p \in Cells : e.bb[p] = d.bb[p] \/ Contains(e.damage, p)
  /\ \A p \in Cells : Contains(d.damage, p) => Contains(e.damage, p)
  /\ \A p \in Cells : \/ Like(e.bb[p].paint, SceneCell(e, p))
                      \/ e.bb[p] = d.bb[p] /\ Like(SceneCell(d, p), SceneCell(e, p))

LEMMA RepaintsAgain ==
  ASSUME NEW d, NEW e, NEW f, Repaints(d, e), Repaints(e, f)
  PROVE  Repaints(d, f)
<1>1. \A p \in Cells : f.bb[p] = d.bb[p] \/ Contains(f.damage, p)
  BY DEF Repaints
<1>2. \A p \in Cells : Contains(d.damage, p) => Contains(f.damage, p)
  BY DEF Repaints
<1>3. ASSUME NEW p \in Cells
      PROVE  \/ Like(f.bb[p].paint, SceneCell(f, p))
             \/ f.bb[p] = d.bb[p] /\ Like(SceneCell(d, p), SceneCell(f, p))
  <2>1. CASE f.bb[p] = e.bb[p] /\ Like(SceneCell(e, p), SceneCell(f, p))
    <3>1. CASE Like(e.bb[p].paint, SceneCell(e, p))
      BY <2>1, <3>1 DEF Like
    <3>2. CASE e.bb[p] = d.bb[p] /\ Like(SceneCell(d, p), SceneCell(e, p))
      BY <2>1, <3>2 DEF Like
    <3>. QED
      BY <3>1, <3>2 DEF Repaints
  <2>. QED
    BY <2>1 DEF Repaints
<1>. QED
  BY <1>1, <1>2, <1>3 DEF Repaints

LEMMA RepaintsNothing ==
  ASSUME NEW d, NEW e, OrderOK(d), OrderOK(e), e.bb = d.bb, e.damage = d.damage,
         e.win = d.win, e.z = d.z, e.menu = d.menu
  PROVE  Repaints(d, e)
<1>1. \A p : SceneCell(e, p) = SceneCell(d, p)
  BY SceneOf
<1>. QED
  BY <1>1 DEF Repaints, Like

\* The rectangles of a list.
LEMMA AmongOne ==
  ASSUME NEW r \in Rects
  PROVE  <<r>> \in Seq(Rects) /\ Among(<<r>>) = {r}
<1>1. <<r>> \in Seq(Rects) /\ Len(<<r>>) = 1 /\ <<r>>[1] = r
  OBVIOUS
<1>. QED
  BY <1>1 DEF Among

LEMMA AmongTwo ==
  ASSUME NEW r \in Rects, NEW s \in Rects
  PROVE  <<r, s>> \in Seq(Rects) /\ Among(<<r, s>>) = {r, s}
<1>1. /\ <<r, s>> \in Seq(Rects) /\ Len(<<r, s>>) = 2
      /\ <<r, s>>[1] = r /\ <<r, s>>[2] = s
  OBVIOUS
<1>2. 1 .. 2 = {1, 2}
  OBVIOUS
<1>. QED
  BY <1>1, <1>2 DEF Among

LEMMA AmongBoth ==
  ASSUME NEW a \in Seq(Rects), NEW b \in Seq(Rects)
  PROVE  a \o b \in Seq(Rects) /\ Among(a \o b) = Among(a) \cup Among(b)
<1>1. /\ a \o b \in Seq(Rects) /\ Len(a \o b) = Len(a) + Len(b)
      /\ \A n \in 1 .. Len(a) + Len(b) : (a \o b)[n] = IF n <= Len(a) THEN a[n] ELSE b[n - Len(a)]
  BY ConcatProperties, Zenon
<1>2. Len(a) \in Nat /\ Len(b) \in Nat
  OBVIOUS
<1>3. \A n \in 1 .. Len(a) : n \in 1 .. Len(a) + Len(b) /\ n <= Len(a)
  BY <1>2
<1>4. \A n \in 1 .. Len(b) : /\ n + Len(a) \in 1 .. Len(a) + Len(b)
                            /\ ~(n + Len(a) <= Len(a)) /\ (n + Len(a)) - Len(a) = n
  BY <1>2
<1>5. \A n \in 1 .. Len(a) + Len(b) : n \in 1 .. Len(a) \/ (n - Len(a) \in 1 .. Len(b) /\ ~(n <= Len(a)))
  BY <1>2
<1>6. ASSUME NEW r, r \in Among(a \o b) PROVE r \in Among(a) \cup Among(b)
  <2>1. PICK n \in 1 .. Len(a) + Len(b) : r = (a \o b)[n]
    BY <1>1, <1>6 DEF Among
  <2>2. CASE n \in 1 .. Len(a)
    BY <1>1, <1>3, <2>1, <2>2 DEF Among
  <2>3. CASE n - Len(a) \in 1 .. Len(b) /\ ~(n <= Len(a))
    BY <1>1, <2>1, <2>3 DEF Among
  <2>. QED
    BY <1>5, <2>2, <2>3
<1>7. ASSUME NEW r, r \in Among(a) PROVE r \in Among(a \o b)
  <2>1. PICK n \in 1 .. Len(a) : r = a[n]
    BY <1>7 DEF Among
  <2>. QED
    BY <1>1, <1>3, <2>1 DEF Among
<1>8. ASSUME NEW r, r \in Among(b) PROVE r \in Among(a \o b)
  <2>1. PICK n \in 1 .. Len(b) : r = b[n]
    BY <1>8 DEF Among
  <2>2. (a \o b)[n + Len(a)] = r /\ n + Len(a) \in 1 .. Len(a \o b)
    BY <1>1, <1>4, <2>1
  <2>. QED
    BY <2>2 DEF Among
<1>. QED
  BY <1>1, <1>6, <1>7, <1>8

\* redraw_rect on each of rs: the cells they reach are filled with the scene.
LEMMA RedrawIs ==
  ASSUME NEW d, DeskOK(d), NEW rs \in Seq(Rects)
  PROVE  /\ DeskOK(Redraw(d, rs)) /\ SameWindows(d, Redraw(d, rs)) /\ Redraw(d, rs).hit = d.hit
         /\ \A p \in Cells : IF \E r \in Among(rs) : Contains(r, p)
                             THEN Redraw(d, rs).bb[p].paint = SceneCell(d, p)
                             ELSE Redraw(d, rs).bb[p] = d.bb[p]
         /\ \A p \in Cells : Contains(d.damage, p) => Contains(Redraw(d, rs).damage, p)
         /\ \A p \in Cells : \A r \in Among(rs) : Contains(r, p) => Contains(Redraw(d, rs).damage, p)
         /\ \A p : SceneCell(Redraw(d, rs), p) = SceneCell(d, p)
<1>. DEFINE S == Among(rs)
            clips == {<<n, BbClip(rs[n], Screen)>> : n \in 1 .. Len(rs)}
            Reach(p) == {c[1] : c \in {b \in clips : Contains(b[2], p)}}
            bb == [p \in Cells |-> IF Reach(p) = {} THEN d.bb[p]
                                   ELSE Cell(d, rs[Max(Reach(p))], p)]
            dam == DamageAdd(d.damage, S)
            e == Redraw(d, rs)
<1>1. e = [d EXCEPT !.bb = bb, !.damage = dam]
  BY DEF Redraw
<1>2. S \in SUBSET Rects
  BY DEF Among
<1>3. ASSUME NEW p \in Cells PROVE Reach(p) # {} <=> \E r \in S : Contains(r, p)
  <2>1. \A n \in 1 .. Len(rs) : rs[n] \in Rects /\ rs[n] \in S
    BY DEF Among
  <2>2. \A n \in 1 .. Len(rs) : Contains(BbClip(rs[n], Screen), p) <=> Contains(rs[n], p)
    BY <2>1, ClipOnScreen
  <2>3. ASSUME NEW n \in 1 .. Len(rs), Contains(rs[n], p) PROVE Reach(p) # {}
    <3>. DEFINE c == <<n, BbClip(rs[n], Screen)>>
    <3>1. c \in clips /\ c[2] = BbClip(rs[n], Screen)
      OBVIOUS
    <3>2. Contains(c[2], p)
      BY <2>2, <2>3, <3>1
    <3>. QED
      BY <3>1, <3>2
  <2>4. ASSUME Reach(p) # {} PROVE \E r \in S : Contains(r, p)
    <3>1. PICK c \in clips : Contains(c[2], p)
      BY <2>4
    <3>2. PICK n \in 1 .. Len(rs) : c = <<n, BbClip(rs[n], Screen)>>
      OBVIOUS
    <3>. QED
      BY <2>1, <2>2, <3>1, <3>2
  <2>5. \A r \in S : \E n \in 1 .. Len(rs) : r = rs[n]
    BY DEF Among
  <2>. HIDE DEF Reach, S
  <2>. QED
    BY <2>3, <2>4, <2>5
<1>4. \A r, p : Cell(d, r, p).paint = SceneCell(d, p)
  BY DEF Cell
<1>5. \A p \in Cells : bb[p] = IF Reach(p) = {} THEN d.bb[p] ELSE Cell(d, rs[Max(Reach(p))], p)
  BY Zenon
<1>6. \A p \in Cells : IF \E r \in S : Contains(r, p) THEN bb[p].paint = SceneCell(d, p)
                       ELSE bb[p] = d.bb[p]
  <2>. HIDE DEF S, Reach, bb
  <2>. QED
    BY <1>3, <1>4, <1>5
<1>7. bb = [p \in Cells |-> bb[p]]
  <2>. HIDE DEF Reach
  <2>. QED
    OBVIOUS
<1>8. /\ InScreen(dam)
      /\ \A p \in Cells : Contains(d.damage, p) => Contains(dam, p)
      /\ \A p \in Cells : \A r \in S : Contains(r, p) => Contains(dam, p)
  BY <1>2, DamageHolds DEF DeskOK
<1>. HIDE DEF clips, Reach, bb, dam, e
<1>9. DOMAIN d = Fields
  BY DEF DeskOK
<1>10. e.bb = bb /\ e.damage = dam /\ SameWindows(d, e) /\ e.hit = d.hit /\ DOMAIN e = Fields
  BY <1>1, <1>9 DEF Fields, SameWindows
<1>11. OrderOK(e) /\ Visible(e) = Visible(d)
  BY <1>10 DEF DeskOK, OrderOK, SameWindows, Visible
<1>12. DeskOK(e)
  BY <1>7, <1>8, <1>10, <1>11 DEF DeskOK, HoldOK, SameWindows
<1>13. \A p : SceneCell(e, p) = SceneCell(d, p)
  BY <1>10, <1>11, SceneOf DEF DeskOK, SameWindows
<1>. QED
  BY <1>6, <1>8, <1>10, <1>12, <1>13 DEF e

\* The repaint of rs is enough when the scene changed nowhere else.
LEMMA RedrawRepaints ==
  ASSUME NEW d, NEW m, DeskOK(m), m.bb = d.bb, m.damage = d.damage, NEW rs \in Seq(Rects),
         \A p \in Cells : (\A r \in Among(rs) : ~Contains(r, p))
                            => Like(SceneCell(d, p), SceneCell(m, p))
  PROVE  Repaints(d, Redraw(m, rs))
<1>. DEFINE e == Redraw(m, rs)
            S == Among(rs)
<1>1. /\ \A p \in Cells : IF \E r \in S : Contains(r, p) THEN e.bb[p].paint = SceneCell(m, p)
                          ELSE e.bb[p] = d.bb[p]
      /\ \A p \in Cells : Contains(d.damage, p) => Contains(e.damage, p)
      /\ \A p \in Cells : \A r \in S : Contains(r, p) => Contains(e.damage, p)
      /\ \A p : SceneCell(e, p) = SceneCell(m, p)
  BY RedrawIs
<1>. HIDE DEF e, S
<1>2. ASSUME NEW p \in Cells
      PROVE  \/ Like(e.bb[p].paint, SceneCell(e, p))
             \/ e.bb[p] = d.bb[p] /\ Like(SceneCell(d, p), SceneCell(e, p))
  BY <1>1 DEF Like, S
<1>3. \A p \in Cells : e.bb[p] = d.bb[p] \/ Contains(e.damage, p)
  BY <1>1
<1>4. Repaints(d, e)
  BY <1>1, <1>2, <1>3 DEF Repaints
<1>. QED
  BY <1>4 DEF e

-----------------------------------------------------------------------------
(* Where the scene stays as it was.                                         *)
LEMMA CellFacts ==
  ASSUME NEW p \in Cells
  PROVE  /\ p[1] \in Nat /\ p[2] \in Nat /\ p[1] < ScrW /\ p[2] < ScrH
         /\ Contains(TaskbarRect, p) <=> p[2] >= WorkH
         /\ Contains(Screen, p)
<1>1. p[1] \in Nat /\ p[2] \in Nat /\ p[1] < ScrW /\ p[2] < ScrH
  BY ScreenFacts DEF Cells
<1>. QED
  BY <1>1, ScreenFacts DEF Contains, TaskbarRect, Screen, Rect

\* Below the title's last row the focus has no colour.
LEMMA FocusAbove ==
  ASSUME NEW d, NEW i, NEW p \in Cells, d.win[i].rect.y \in Int,
         p[2] >= d.win[i].rect.y + TitleH
  PROVE  WinPart(d.win[i], p) \notin Coloured \/ WinPart(d.win[i], p) = "edge"
<1>. DEFINE r == d.win[i].rect
            bar == \E n \in 1 .. 3 : OnButton(r, n, p)
            part == WinPart(d.win[i], p)
<1>1. /\ p[2] \in Nat /\ r.y \in Int /\ TitleH \in Nat /\ BtnTop \in Nat /\ BtnH \in Nat
      /\ BtnTop + BtnH <= TitleH
  BY CellFacts, SizeFacts, DesktopAssumption
<1>2. ~bar
  <2>1. \A n \in 1 .. 3 : ~OnButton(r, n, p)
    BY <1>1 DEF OnButton, Contains, Rect
  <2>. QED
    BY <2>1
<1>3. ~(p[2] < r.y + TitleH)
  BY <1>1
<1>4. part \in {"grip", "text", "border", "edge", "body"}
  <2>1. part = IF bar THEN Buttons[CHOOSE n \in 1 .. 3 : OnButton(r, n, p)]
               ELSE IF OnMark(d.win[i], p) THEN "grip"
               ELSE IF IsInfo(d.win[i]) /\ Contains(TextRect(d.win[i]), p) THEN "text"
               ELSE IF OnBorder(r, p) THEN "border"
               ELSE IF p[2] < r.y + TitleH THEN "title"
               ELSE IF p[2] = r.y + TitleH THEN "edge" ELSE "body"
    BY Zenon DEF WinPart
  <2>. HIDE DEF part, bar
  <2>. QED
    BY <1>2, <1>3, <2>1
<1>. HIDE DEF part
<1>5. part \notin Coloured \/ part = "edge"
  BY <1>4 DEF Coloured
<1>. QED
  BY <1>5 DEF part

LEMMA SceneLike ==
  ASSUME NEW d, NEW e, NEW p \in Cells, OrderOK(d), OrderOK(e),
         e.menu = d.menu \/ ~Contains(MenuRect, p),
         p[2] < WorkH \/ TaskbarCell(e, p) = TaskbarCell(d, p),
         WinTopmostAt(e, p) = WinTopmostAt(d, p),
         \A i \in Under(d, p) :
           /\ WinPart(e.win[i], p) = WinPart(d.win[i], p)
           /\ d.win[i].rect.y \in Int
           /\ \/ p[2] >= d.win[i].rect.y + TitleH
              \/ WinTopmostIndex(e) = WinTopmostIndex(d)
  PROVE  Like(SceneCell(d, p), SceneCell(e, p))
<1>1. ASSUME NEW i \in Under(d, p) PROVE Like(WinCell(d, i, p), WinCell(e, i, p))
  <2>. DEFINE part == WinPart(d.win[i], p)
  <2>1. /\ WinCell(d, i, p) = Paint("win", i, part, part \in Coloured /\ i = WinTopmostIndex(d))
        /\ WinCell(e, i, p) = Paint("win", i, part, part \in Coloured /\ i = WinTopmostIndex(e))
    BY Zenon DEF WinCell
  <2>2. part \notin Coloured \/ part = "edge" \/ WinTopmostIndex(e) = WinTopmostIndex(d)
    BY FocusAbove
  <2>. HIDE DEF part
  <2>. QED
    BY <2>1, <2>2 DEF Like, Paint
<1>2. CASE d.menu /\ Contains(MenuRect, p)
  BY <1>2, SceneParts DEF Like
<1>3. CASE ~(d.menu /\ Contains(MenuRect, p)) /\ p[2] >= WorkH
  <2>1. SceneCell(d, p) = SceneCell(e, p)
    <3>1. TaskbarCell(e, p) = TaskbarCell(d, p)
      <4>1. p[2] \in Nat /\ WorkH \in Nat
        BY CellFacts, ScreenFacts
      <4>. QED
        BY <1>3, <4>1
    <3>2. ~(e.menu /\ Contains(MenuRect, p))
      BY <1>3
    <3>. QED
      BY <1>3, <3>1, <3>2, Zenon DEF SceneCell
  <2>. QED
    BY <2>1 DEF Like
<1>4. CASE ~(d.menu /\ Contains(MenuRect, p)) /\ ~(p[2] >= WorkH)
  <2>1. CASE WinTopmostAt(d, p) = None
    <3>1. SceneCell(d, p) = SceneCell(e, p)
      BY <1>4, <2>1, SceneParts
    <3>. QED
      BY <3>1 DEF Like
  <2>2. CASE WinTopmostAt(d, p) # None
    <3>1. WinTopmostAt(d, p) \in Under(d, p)
      BY <2>2, TopmostAtIs
    <3>2. /\ SceneCell(d, p) = WinCell(d, WinTopmostAt(d, p), p)
          /\ SceneCell(e, p) = WinCell(e, WinTopmostAt(d, p), p)
      BY <1>4, <2>2, SceneParts
    <3>. QED
      BY <1>1, <3>1, <3>2
  <2>. QED
    BY <2>1, <2>2
<1>. QED
  BY <1>2, <1>3, <1>4

LEMMA StripAmong ==
  ASSUME NEW d, NEW i \in Visible(d)
  PROVE  [d.win[i].rect EXCEPT !.h = TitleH] \in Among(TitleStrips(d))
<1>1. i + 1 \in 1 .. MaxWindows /\ (i + 1) - 1 = i
  BY ScreenFacts DEF Visible, Slots
<1>2. /\ DOMAIN TitleStrips(d) = 1 .. MaxWindows
      /\ TitleStrips(d)[i + 1] = [d.win[i].rect EXCEPT !.h = TitleH]
  BY <1>1 DEF TitleStrips
<1>3. Len(TitleStrips(d)) = MaxWindows
  BY <1>2, ScreenFacts, LenProperties DEF TitleStrips
<1>. QED
  BY <1>1, <1>2, <1>3 DEF Among

\* One window changed: the scene did only where it was or is, on the taskbar,
\* and in the titles if another window is the topmost.
LEMMA ChangeOne ==
  ASSUME NEW d, NEW e, DeskOK(d), DeskOK(e), NEW p \in Cells, NEW i \in Slots,
         e.menu = d.menu, \A j \in Slots : j # i => e.win[j] = d.win[j],
         Kept(d, e, {j \in Slots : j # i /\ d.win[j].used}),
         i \notin Under(d, p), i \notin Under(e, p),
         p[2] < WorkH \/ TaskbarCell(e, p) = TaskbarCell(d, p),
         \/ WinTopmostIndex(e) = WinTopmostIndex(d)
         \/ \A r \in Among(TitleStrips(e)) : ~Contains(r, p)
  PROVE  Like(SceneCell(d, p), SceneCell(e, p))
<1>1. OrderOK(d) /\ OrderOK(e)
  BY DEF DeskOK
<1>2. Under(e, p) = Under(d, p)
  BY DEF Under, Visible
<1>3. \A j \in Under(d, p) : j \in Slots /\ j # i /\ d.win[j].used /\ e.win[j] = d.win[j]
  BY DEF Under, Visible
<1>4. WinTopmostAt(e, p) = WinTopmostAt(d, p)
  <2>1. CASE Under(d, p) = {}
    BY <1>1, <1>2, <2>1, TopmostAtIs
  <2>2. CASE Under(d, p) # {}
    <3>. DEFINE h == WinTopmostAt(d, p)
    <3>1. h \in Under(d, p) /\ \A j \in Under(d, p) : Place(d, j) <= Place(d, h)
      BY <1>1, <2>2, TopmostAtIs
    <3>2. \A j \in Under(e, p) : Place(e, j) <= Place(e, h)
      BY <1>2, <1>3, <3>1 DEF Kept
    <3>. QED
      BY <1>1, <1>2, <3>1, <3>2, TopmostAtIs
  <2>. QED
    BY <2>1, <2>2
<1>5. ASSUME NEW j \in Under(d, p)
      PROVE  /\ d.win[j].rect.y \in Int
             /\ \/ p[2] >= d.win[j].rect.y + TitleH
                \/ WinTopmostIndex(e) = WinTopmostIndex(d)
  <2>1. d.win[j].rect \in AnyRect /\ Contains(d.win[j].rect, p) /\ j \in Visible(e)
    BY <1>2 DEF DeskOK, AnyWindow, Under, Visible
  <2>2. d.win[j].rect.y \in Int
    BY <2>1 DEF AnyRect
  <2>3. ASSUME \A r \in Among(TitleStrips(e)) : ~Contains(r, p)
        PROVE  p[2] >= d.win[j].rect.y + TitleH
    <3>. DEFINE r == [d.win[j].rect EXCEPT !.h = TitleH]
    <3>1. r \in Among(TitleStrips(e))
      BY <1>3, <2>1, StripAmong
    <3>2. r.x = d.win[j].rect.x /\ r.y = d.win[j].rect.y /\ r.w = d.win[j].rect.w /\ r.h = TitleH
      BY <2>1 DEF AnyRect
    <3>3. p[2] \in Nat /\ TitleH \in Nat
      BY CellFacts, ScreenFacts
    <3>. HIDE DEF r
    <3>. QED
      BY <2>1, <2>2, <2>3, <3>1, <3>2, <3>3 DEF Contains
  <2>. QED
    BY <2>2, <2>3
<1>6. \A j \in Under(d, p) :
        /\ WinPart(e.win[j], p) = WinPart(d.win[j], p)
        /\ d.win[j].rect.y \in Int
        /\ \/ p[2] >= d.win[j].rect.y + TitleH
           \/ WinTopmostIndex(e) = WinTopmostIndex(d)
  BY <1>3, <1>5
<1>. QED
  BY <1>1, <1>4, <1>6, SceneLike

-----------------------------------------------------------------------------
(* The operations.  Each leaves the desk in order, repaints what it changed *)
(* and at most lets go of what was held.                                    *)
Op(d, e) ==
  /\ DeskOK(e) /\ Repaints(d, e)
  /\ e.drag \in {d.drag, None} /\ e.resize \in {d.resize, None} /\ e.hit = d.hit

LEMMA MenuFacts ==
  /\ MenuH \in Nat /\ MenuRect.x = MenuX /\ MenuRect.y = WorkH - MenuH - MenuGap
  /\ MenuRect.w = MenuW /\ MenuRect.h = MenuH
  /\ MenuRect.y \in Nat /\ MenuRect.y + MenuH <= WorkH
  /\ MenuRect \in Rects
<1>1. \A m, n \in Nat : m * n \in Nat
  OBVIOUS
<1>2. Len(Icons) * ItemH \in Nat
  BY <1>1, ScreenFacts, SizeFacts
<1>3. MenuH \in Nat
  <2>. DEFINE n == Len(Icons) * ItemH
  <2>1. MenuH = 2 * MenuPad + n
    BY DEF MenuH
  <2>. HIDE DEF n
  <2>. QED
    BY <1>2, <2>1, SizeFacts DEF n
<1>4. /\ MenuRect.x = MenuX /\ MenuRect.y = WorkH - MenuH - MenuGap
      /\ MenuRect.w = MenuW /\ MenuRect.h = MenuH
      /\ MenuRect = Rect(MenuX, WorkH - MenuH - MenuGap, MenuW, MenuH)
  BY DEF MenuRect, Rect
<1>5. MenuX + MenuW <= ScrW /\ MenuH + MenuGap <= WorkH
  BY DesktopAssumption
<1>6. MenuRect.y \in Nat /\ MenuRect.y + MenuH <= WorkH
  BY <1>3, <1>4, <1>5, ScreenFacts, SizeFacts
<1>7. /\ MenuX \in IntRange /\ WorkH - MenuH - MenuGap \in IntRange
      /\ MenuW \in IntRange /\ MenuH \in IntRange
  BY <1>3, <1>5, ScreenFacts, SizeFacts DEF IntRange
<1>. QED
  BY <1>3, <1>4, <1>6, <1>7 DEF Rect, Rects

LEMMA RectFacts ==
  /\ TaskbarRect \in Rects /\ MenuRect \in Rects /\ ClockRect \in Rects /\ Screen \in Rects
<1>1. \A x, y, w, h \in IntRange : Rect(x, y, w, h) \in Rects
  BY DEF Rect, Rects
<1>2. \A n \in Nat : n <= ScrW \/ n <= ScrH => n \in IntRange
  BY ScreenFacts DEF IntRange
<1>3. 0 \in IntRange /\ WorkH \in IntRange /\ ScrW \in IntRange /\ ScrH \in IntRange
      /\ TaskH \in IntRange
  BY <1>2, ScreenFacts
<1>4. /\ ScrW - ClockR - ClockW \in IntRange /\ WorkH + ClockTop \in IntRange
      /\ ClockW \in IntRange /\ TaskH - 2 * ClockTop \in IntRange
  <2>1. StartX + StartW <= ScrW - ClockR - ClockW /\ 2 * ClockTop <= TaskH
    BY DesktopAssumption
  <2>2. /\ ScrW - ClockR - ClockW \in Nat /\ ScrW - ClockR - ClockW <= ScrW
        /\ WorkH + ClockTop \in Nat /\ WorkH + ClockTop <= ScrH
        /\ ClockW \in Nat /\ ClockW <= ScrW
        /\ TaskH - 2 * ClockTop \in Nat /\ TaskH - 2 * ClockTop <= ScrH
    BY <2>1, ScreenFacts, SizeFacts
  <2>. QED
    BY <1>2, <2>2
<1>. QED
  BY <1>1, <1>3, <1>4, MenuFacts DEF TaskbarRect, ClockRect, Screen

LEMMA WindowFacts ==
  ASSUME NEW d, DeskOK(d), NEW i \in Slots, d.win[i].used
  PROVE  /\ InArea(d.win[i].rect) /\ d.win[i].icon \in 1 .. Len(Icons)
         /\ d.win[i].max => InArea(d.win[i].rest)
         /\ d.win[i].rect \in Rects /\ InScreen(d.win[i].rect)
<1>1. WindowOK(d.win[i])
  BY DEF DeskOK
<1>. QED
  BY <1>1, AreaFacts DEF WindowOK

LEMMA StripFacts ==
  ASSUME NEW d, DeskOK(d)
  PROVE  TitleStrips(d) \in Seq(Rects)
<1>1. ASSUME NEW i \in Visible(d) PROVE [d.win[i].rect EXCEPT !.h = TitleH] \in Rects
  <2>1. InArea(d.win[i].rect) /\ d.win[i].rect \in Rects
    BY WindowFacts DEF Visible
  <2>2. /\ d.win[i].rect.y \in Int /\ d.win[i].rect.h \in Int
        /\ d.win[i].rect.y >= 0 /\ d.win[i].rect.h >= MinH /\ d.win[i].rect.y + d.win[i].rect.h <= WorkH
    BY <2>1, AreaFacts DEF InArea
  <2>3. TitleH \in IntRange
    <3>1. /\ TitleH \in Nat /\ Gutter \in Nat /\ TitleH + Gutter < MinH /\ MinH \in Nat
          /\ WorkH \in Nat /\ TaskH \in Nat /\ WorkH + TaskH = ScrH /\ ScrH < IntHalf
          /\ IntHalf \in Nat
      BY ScreenFacts
    <3>. QED
      BY ONLY <2>2, <3>1 DEF IntRange
  <2>. QED
    BY <2>1, <2>3 DEF Rects
<1>2. Empty \in Rects
  BY ScreenFacts DEF Empty, Rect, Rects, IntRange
<1>3. ASSUME NEW n \in 1 .. MaxWindows
      PROVE  (IF n - 1 \in Visible(d) THEN [d.win[n - 1].rect EXCEPT !.h = TitleH] ELSE Empty) \in Rects
  BY <1>1, <1>2
<1>4. TitleStrips(d) \in [1 .. MaxWindows -> Rects]
  BY <1>3, Zenon DEF TitleStrips
<1>. QED
  BY <1>4, ScreenFacts

\* A rectangle, the titles and the taskbar.
LEMMA WithTitles ==
  ASSUME NEW d, DeskOK(d), NEW r \in Rects
  PROVE  \E rs \in Seq(Rects) :
           /\ Among(rs) = {r, TaskbarRect} \cup Among(TitleStrips(d))
           /\ RedrawWithTitles(d, r) = Redraw(d, rs)
<1>. DEFINE ts == TitleStrips(d)
            rs == <<r>> \o ts \o <<TaskbarRect>>
<1>1. /\ <<r>> \in Seq(Rects) /\ Among(<<r>>) = {r}
      /\ <<TaskbarRect>> \in Seq(Rects) /\ Among(<<TaskbarRect>>) = {TaskbarRect}
  BY AmongOne, RectFacts
<1>2. ts \in Seq(Rects)
  BY StripFacts
<1>3. RedrawWithTitles(d, r) = Redraw(d, rs)
  BY DEF RedrawWithTitles
<1>. HIDE DEF ts
<1>4. <<r>> \o ts \in Seq(Rects) /\ Among(<<r>> \o ts) = {r} \cup Among(ts)
  <2>. DEFINE one == <<r>>
  <2>. HIDE DEF one
  <2>1. one \in Seq(Rects) /\ Among(one) = {r}
    BY <1>1 DEF one
  <2>2. one \o ts \in Seq(Rects) /\ Among(one \o ts) = {r} \cup Among(ts)
    BY <1>2, <2>1, AmongBoth
  <2>. QED
    BY <2>2 DEF one
<1>5. rs \in Seq(Rects) /\ Among(rs) = {r} \cup Among(ts) \cup {TaskbarRect}
  <2>. DEFINE one == <<r>> \o ts
              last == <<TaskbarRect>>
  <2>. HIDE DEF one, last
  <2>1. one \in Seq(Rects) /\ Among(one) = {r} \cup Among(ts)
    BY <1>4 DEF one
  <2>2. last \in Seq(Rects) /\ Among(last) = {TaskbarRect}
    BY <1>1 DEF last
  <2>3. one \o last \in Seq(Rects) /\ Among(one \o last) = {r} \cup Among(ts) \cup {TaskbarRect}
    BY <2>1, <2>2, AmongBoth
  <2>4. rs = one \o last
    BY DEF one, last
  <2>. QED
    BY <2>3, <2>4
<1>. HIDE DEF rs
<1>. QED
  BY <1>3, <1>5 DEF ts

LEMMA OpRedraw ==
  ASSUME NEW d, NEW m, DeskOK(m), m.bb = d.bb, m.damage = d.damage, m.hit = d.hit,
         m.drag \in {d.drag, None}, m.resize \in {d.resize, None}, NEW rs \in Seq(Rects),
         \A p \in Cells : (\A r \in Among(rs) : ~Contains(r, p))
                            => Like(SceneCell(d, p), SceneCell(m, p))
  PROVE  Op(d, Redraw(m, rs)) /\ SameWindows(m, Redraw(m, rs))
<1>1. Repaints(d, Redraw(m, rs))
  BY RedrawRepaints
<1>2. DeskOK(Redraw(m, rs)) /\ SameWindows(m, Redraw(m, rs)) /\ Redraw(m, rs).hit = m.hit
  BY RedrawIs
<1>. QED
  BY <1>1, <1>2 DEF Op, SameWindows

LEMMA OpTrans ==
  ASSUME NEW d, NEW e, NEW f, Op(d, e), Op(e, f)
  PROVE  Op(d, f)
<1>1. Repaints(d, f)
  BY RepaintsAgain DEF Op
<1>. QED
  BY <1>1 DEF Op

LEMMA OpSame ==
  ASSUME NEW d, DeskOK(d)
  PROVE  Op(d, d)
<1>1. Repaints(d, d)
  BY RepaintsNothing DEF DeskOK
<1>. QED
  BY <1>1 DEF Op

\* A change of one slot that leaves the rest of the desk.
LEMMA OneSlot ==
  ASSUME NEW d, DeskOK(d), NEW i \in Slots, NEW v, WindowOK(v), NEW m, DOMAIN m = Fields,
         m.win = [d.win EXCEPT ![i] = v], OrderOK(m), HoldOK(m), m.off = d.off,
         m.grab = d.grab, m.menu = d.menu, m.opens \in 0 .. (OpenSteps - 1), m.bb = d.bb,
         m.damage = d.damage
  PROVE  DeskOK(m) /\ m.win[i] = v /\ \A j \in Slots : j # i => m.win[j] = d.win[j]
<1>1. m.win[i] = v /\ \A j \in Slots : j # i => m.win[j] = d.win[j]
  BY DEF DeskOK
<1>2. m.win \in [Slots -> AnyWindow]
  BY DEF DeskOK, WindowOK
<1>3. \A j \in Slots : WindowOK(m.win[j])
  BY <1>1 DEF DeskOK
<1>4. m.bb = [p \in Cells |-> m.bb[p]] /\ InScreen(m.damage)
  BY DEF DeskOK
<1>. QED
  BY <1>1, <1>2, <1>3, <1>4 DEF DeskOK

\* The same order and the same windows in use.
LEMMA SameOrder ==
  ASSUME NEW d, OrderOK(d), NEW m, m.z = d.z, \A j \in Slots : m.win[j].used = d.win[j].used
  PROVE  /\ OrderOK(m) /\ \A S : Kept(d, m, S) /\ \A j : Place(m, j) = Place(d, j)
         /\ Visible(m) = Visible(d) => WinTopmostIndex(m) = WinTopmostIndex(d)
<1>1. OrderOK(m)
  BY DEF OrderOK
<1>2. \A j : Place(m, j) = Place(d, j)
  BY DEF Place
<1>3. Visible(m) = Visible(d) => WinTopmostIndex(m) = WinTopmostIndex(d)
  BY <1>1, <1>2, TopmostIs
<1>. QED
  BY <1>1, <1>2, <1>3 DEF Kept

\* A union holds the points of its two rectangles.
LEMMA AroundTwo ==
  ASSUME NEW r, NEW s, InArea(r), InArea(s)
  PROVE  /\ Around({r, s}) \in Rects
         /\ \A p \in Cells : Contains(r, p) \/ Contains(s, p) => Contains(Around({r, s}), p)
<1>1. InScreen(r) /\ InScreen(s)
  BY AreaFacts
<1>2. /\ InScreen(Around({r, s}))
      /\ \A q \in {r, s} : \A p \in Points : Contains(q, p) => Contains(Around({r, s}), p)
  BY <1>1, AroundHolds
<1>3. \A p \in Cells : p \in Points
  BY ScreenFacts DEF Cells, Points
<1>. QED
  BY <1>2, <1>3, OnScreenRect

\* Uncovered by the window's repaint and the taskbar's.
LEMMA Uncovered ==
  ASSUME NEW d, NEW m, DeskOK(d), DeskOK(m), m.bb = d.bb, m.damage = d.damage, m.hit = d.hit,
         m.drag \in {d.drag, None}, m.resize \in {d.resize, None}, m.menu = d.menu,
         NEW i \in Slots, \A j \in Slots : j # i => m.win[j] = d.win[j],
         Kept(d, m, {j \in Slots : j # i /\ d.win[j].used}),
         NEW A \in Rects,
         \A p \in Cells : i \in Under(d, p) \/ i \in Under(m, p) => Contains(A, p)
  PROVE  /\ Op(d, RedrawWithTitles(m, A))
         /\ SameWindows(m, RedrawWithTitles(m, A))
         /\ WinTopmostIndex(m) = WinTopmostIndex(d)
              => /\ Op(d, Redraw(m, <<A, TaskbarRect>>))
                 /\ SameWindows(m, Redraw(m, <<A, TaskbarRect>>))
<1>1. ASSUME NEW p \in Cells, ~Contains(A, p), ~Contains(TaskbarRect, p),
             \/ WinTopmostIndex(m) = WinTopmostIndex(d)
             \/ \A r \in Among(TitleStrips(m)) : ~Contains(r, p)
      PROVE  Like(SceneCell(d, p), SceneCell(m, p))
  <2>1. i \notin Under(d, p) /\ i \notin Under(m, p)
    BY <1>1
  <2>2. p[2] < WorkH
    BY <1>1, CellFacts, ScreenFacts
  <2>. QED
    BY <1>1, <2>1, <2>2, ChangeOne
<1>2. PICK rs \in Seq(Rects) : /\ Among(rs) = {A, TaskbarRect} \cup Among(TitleStrips(m))
                               /\ RedrawWithTitles(m, A) = Redraw(m, rs)
  BY WithTitles
<1>3. \A p \in Cells : (\A r \in Among(rs) : ~Contains(r, p))
                        => Like(SceneCell(d, p), SceneCell(m, p))
  BY <1>1, <1>2
<1>4. Op(d, Redraw(m, rs)) /\ SameWindows(m, Redraw(m, rs))
  BY <1>3, OpRedraw
<1>5. ASSUME WinTopmostIndex(m) = WinTopmostIndex(d)
      PROVE  /\ Op(d, Redraw(m, <<A, TaskbarRect>>))
             /\ SameWindows(m, Redraw(m, <<A, TaskbarRect>>))
  <2>. DEFINE two == <<A, TaskbarRect>>
  <2>1. two \in Seq(Rects) /\ Among(two) = {A, TaskbarRect}
    BY RectFacts, AmongTwo
  <2>. HIDE DEF two
  <2>2. \A p \in Cells : (\A r \in Among(two) : ~Contains(r, p))
                          => Like(SceneCell(d, p), SceneCell(m, p))
    BY <1>1, <1>5, <2>1
  <2>3. Op(d, Redraw(m, two)) /\ SameWindows(m, Redraw(m, two))
    BY <2>1, <2>2, OpRedraw
  <2>. QED
    BY <2>3 DEF two
<1>. QED
  BY <1>2, <1>4, <1>5

LEMMA RaiseOp ==
  ASSUME NEW d, DeskOK(d), NEW i \in Visible(d)
  PROVE  /\ Op(d, WinRaise(d, i))
         /\ WinRaise(d, i).win = d.win /\ WinRaise(d, i).drag = d.drag
         /\ WinRaise(d, i).resize = d.resize
<1>. DEFINE was == WinTopmostIndex(d)
            m == ToFront(d, i)
            A == Around({d.win[i].rect, d.win[was].rect})
<1>1. /\ i \in Slots /\ d.win[i].used /\ OrderOK(d) /\ DOMAIN d = Fields
      /\ was \in Visible(d) /\ was \in Slots /\ d.win[was].used
  BY TopmostIs DEF Visible, DeskOK
<1>2. CASE was = i
  <2>1. WinRaise(d, i) = d
    BY <1>2 DEF WinRaise
  <2>. QED
    BY <2>1, OpSame
<1>3. CASE was # i
  <2>1. WinRaise(d, i) = RedrawWithTitles(m, A)
    BY <1>1, <1>3 DEF WinRaise
  <2>2. /\ DOMAIN m = Fields /\ m.z = Append(WithoutSlot(d, i), i) /\ m.win = d.win
        /\ m.drag = d.drag /\ m.resize = d.resize /\ m.off = d.off /\ m.grab = d.grab
        /\ m.menu = d.menu /\ m.opens = d.opens /\ m.bb = d.bb /\ m.damage = d.damage
        /\ m.hit = d.hit
    BY <1>1 DEF ToFront, Fields
  <2>. HIDE DEF m
  <2>3. OrderOK(m) /\ Kept(d, m, {j \in Slots : d.win[j].used /\ j # i})
    BY <1>1, <2>2, OrderFront
  <2>4. DeskOK(m)
    BY <2>2, <2>3 DEF DeskOK, HoldOK, Visible
  <2>5. /\ A \in Rects
        /\ \A p \in Cells : Contains(d.win[i].rect, p) => Contains(A, p)
    BY <1>1, WindowFacts, AroundTwo
  <2>. HIDE DEF A
  <2>6. \A p \in Cells : i \in Under(d, p) \/ i \in Under(m, p) => Contains(A, p)
    BY <2>2, <2>5 DEF Under
  <2>7. Kept(d, m, {j \in Slots : j # i /\ d.win[j].used})
    BY <2>3 DEF Kept
  <2>8. /\ Op(d, RedrawWithTitles(m, A))
        /\ SameWindows(m, RedrawWithTitles(m, A))
    BY <1>1, <2>2, <2>4, <2>5, <2>6, <2>7, Uncovered
  <2>. QED
    BY <2>1, <2>2, <2>8 DEF SameWindows
<1>. QED
  BY <1>2, <1>3

LEMMA MinimizeOp ==
  ASSUME NEW d, DeskOK(d), NEW i \in Visible(d)
  PROVE  Op(d, WinMinimize(d, i))
<1>. DEFINE v == [d.win[i] EXCEPT !.min = TRUE]
            m == Released([d EXCEPT !.win[i].min = TRUE], i)
            A == d.win[i].rect
<1>1. /\ i \in Slots /\ d.win[i].used /\ OrderOK(d) /\ DOMAIN d = Fields
      /\ d.win \in [Slots -> AnyWindow] /\ WindowOK(d.win[i]) /\ d.win[i] \in AnyWindow
      /\ HoldOK(d)
  BY DEF Visible, DeskOK
<1>2. /\ v \in AnyWindow /\ v.used /\ v.min /\ v.rect = A /\ WindowOK(v) /\ v.max = d.win[i].max
  BY <1>1 DEF AnyWindow, WindowOK
<1>3. /\ DOMAIN m = Fields /\ m.z = d.z /\ m.win = [d.win EXCEPT ![i] = v]
      /\ m.drag = (IF d.drag = i THEN None ELSE d.drag)
      /\ m.resize = (IF d.resize = i THEN None ELSE d.resize)
      /\ m.off = d.off /\ m.grab = d.grab
      /\ m.menu = d.menu /\ m.opens = d.opens /\ m.bb = d.bb /\ m.damage = d.damage
      /\ m.hit = d.hit
  BY <1>1 DEF Released, Fields
<1>4. /\ m.win[i] = v /\ \A j \in Slots : j # i => m.win[j] = d.win[j]
  BY <1>1, <1>3
<1>5. WinMinimize(d, i) = RedrawWithTitles(m, A)
  BY DEF WinMinimize
<1>. HIDE DEF m, v
<1>6. OrderOK(m) /\ \A S : Kept(d, m, S)
  <2>1. v.used = d.win[i].used
    BY <1>1 DEF v, AnyWindow
  <2>2. \A j \in Slots : m.win[j].used = d.win[j].used
    BY <1>4, <2>1
  <2>. QED
    BY <1>1, <1>3, <2>2, SameOrder
<1>7. HoldOK(m)
  BY <1>1, <1>3, <1>4 DEF HoldOK, Visible
<1>8. d.opens \in 0 .. (OpenSteps - 1)
  BY DEF DeskOK
<1>9. DeskOK(m)
  BY <1>1, <1>2, <1>3, <1>6, <1>7, <1>8, OneSlot
<1>10. A \in Rects
  BY <1>1, WindowFacts
<1>11. \A p \in Cells : i \in Under(d, p) \/ i \in Under(m, p) => Contains(A, p)
  BY <1>2, <1>4 DEF Under
<1>12. Op(d, RedrawWithTitles(m, A))
  <2>. HIDE DEF A
  <2>. QED
    BY <1>1, <1>3, <1>4, <1>6, <1>9, <1>10, <1>11, Uncovered
<1>. QED
  BY <1>5, <1>12

LEMMA CloseOp ==
  ASSUME NEW d, DeskOK(d), NEW i \in Visible(d)
  PROVE  Op(d, WinClose(d, i))
<1>. DEFINE m == Released([d EXCEPT !.win[i] = NoWindow, !.z = WithoutSlot(d, i)], i)
            A == d.win[i].rect
<1>1. /\ i \in Slots /\ d.win[i].used /\ OrderOK(d) /\ DOMAIN d = Fields
      /\ d.win \in [Slots -> AnyWindow] /\ HoldOK(d)
  BY DEF Visible, DeskOK
<1>2. NoWindow \in AnyWindow /\ ~NoWindow.used /\ WindowOK(NoWindow)
  BY DEF NoWindow, AnyWindow, AnyRect, WindowOK, Empty, Rect
<1>3. /\ DOMAIN m = Fields /\ m.z = WithoutSlot(d, i) /\ m.win = [d.win EXCEPT ![i] = NoWindow]
      /\ m.drag = (IF d.drag = i THEN None ELSE d.drag)
      /\ m.resize = (IF d.resize = i THEN None ELSE d.resize)
      /\ m.off = d.off /\ m.grab = d.grab
      /\ m.menu = d.menu /\ m.opens = d.opens /\ m.bb = d.bb /\ m.damage = d.damage
      /\ m.hit = d.hit
  BY <1>1 DEF Released, Fields
<1>4. /\ m.win[i] = NoWindow /\ \A j \in Slots : j # i => m.win[j] = d.win[j]
  BY <1>1, <1>3
<1>5. WinClose(d, i) = RedrawWithTitles(m, A)
  BY DEF WinClose
<1>. HIDE DEF m
<1>6. OrderOK(m) /\ Kept(d, m, {j \in Slots : m.win[j].used})
  <2>1. \A j \in Slots : m.win[j].used <=> j # i /\ d.win[j].used
    BY <1>2, <1>4
  <2>2. m.z = WithoutSlot(d, i)
    BY <1>3
  <2>. QED
    BY <1>1, <2>1, <2>2, OrderWithout
<1>7. Kept(d, m, {j \in Slots : j # i /\ d.win[j].used})
  BY <1>4, <1>6 DEF Kept
<1>8. HoldOK(m)
  BY <1>1, <1>3, <1>4 DEF HoldOK, Visible
<1>9. d.opens \in 0 .. (OpenSteps - 1)
  BY DEF DeskOK
<1>10. DeskOK(m)
  BY <1>1, <1>2, <1>3, <1>6, <1>8, <1>9, OneSlot
<1>11. A \in Rects
  BY <1>1, WindowFacts
<1>12. \A p \in Cells : i \in Under(d, p) \/ i \in Under(m, p) => Contains(A, p)
  BY <1>2, <1>4 DEF Under, Visible
<1>13. Op(d, RedrawWithTitles(m, A))
  <2>. HIDE DEF A
  <2>. QED
    BY <1>1, <1>3, <1>4, <1>7, <1>10, <1>11, <1>12, Uncovered
<1>. QED
  BY <1>5, <1>13

LEMMA RestoreOp ==
  ASSUME NEW d, DeskOK(d), NEW i \in Slots, d.win[i].used
  PROVE  Op(d, WinRestoreFromTaskbar(d, i))
<1>. DEFINE v == [d.win[i] EXCEPT !.min = FALSE]
            c == [d EXCEPT !.win[i].min = FALSE]
            m == ToFront(c, i)
            A == d.win[i].rect
<1>1. /\ OrderOK(d) /\ DOMAIN d = Fields
      /\ d.win \in [Slots -> AnyWindow] /\ WindowOK(d.win[i]) /\ d.win[i] \in AnyWindow
      /\ HoldOK(d)
  BY DEF Visible, DeskOK
<1>2. /\ v \in AnyWindow /\ v.used /\ ~v.min /\ v.rect = A /\ WindowOK(v) /\ v.max = d.win[i].max
  BY <1>1 DEF AnyWindow, WindowOK
<1>3. /\ DOMAIN c = Fields /\ c.z = d.z /\ c.win = [d.win EXCEPT ![i] = v]
      /\ c.drag = d.drag /\ c.resize = d.resize /\ c.off = d.off /\ c.grab = d.grab
      /\ c.menu = d.menu /\ c.opens = d.opens /\ c.bb = d.bb /\ c.damage = d.damage
      /\ c.hit = d.hit
  BY <1>1 DEF Fields
<1>4. WinRestoreFromTaskbar(d, i) = RedrawWithTitles(m, A)
  BY DEF WinRestoreFromTaskbar
<1>. HIDE DEF c, v
<1>5. /\ DOMAIN m = Fields /\ m.z = Append(WithoutSlot(c, i), i) /\ m.win = [d.win EXCEPT ![i] = v]
      /\ m.drag = d.drag /\ m.resize = d.resize /\ m.off = d.off /\ m.grab = d.grab
      /\ m.menu = d.menu /\ m.opens = d.opens /\ m.bb = d.bb /\ m.damage = d.damage
      /\ m.hit = d.hit
  BY <1>3 DEF ToFront, Fields
<1>. HIDE DEF m
<1>6. /\ m.win[i] = v /\ \A j \in Slots : j # i => m.win[j] = d.win[j]
      /\ \A j \in Slots : c.win[j].used = d.win[j].used
      /\ \A j \in Slots : m.win[j].used <=> c.win[j].used
      /\ c.win[i].used
  <2>1. v.used = d.win[i].used
    BY <1>1 DEF v, AnyWindow
  <2>2. c.win[i] = v /\ m.win[i] = v
    BY <1>1, <1>3, <1>5
  <2>3. \A j \in Slots : j # i => m.win[j] = d.win[j] /\ c.win[j] = d.win[j]
    BY <1>1, <1>3, <1>5
  <2>. QED
    BY <2>1, <2>2, <2>3
<1>7. OrderOK(c) /\ \A j : Place(c, j) = Place(d, j)
  <2>1. c.z = d.z /\ \A j \in Slots : c.win[j].used = d.win[j].used
    BY <1>3, <1>6
  <2>. QED
    BY <1>1, <2>1, SameOrder
<1>8. OrderOK(m) /\ Kept(c, m, {j \in Slots : c.win[j].used /\ j # i})
  <2>1. m.z = Append(WithoutSlot(c, i), i)
    BY <1>5
  <2>. QED
    BY <1>6, <1>7, <2>1, OrderFront
<1>9. Kept(d, m, {j \in Slots : j # i /\ d.win[j].used})
  BY <1>6, <1>7, <1>8 DEF Kept
<1>10. HoldOK(m)
  BY <1>1, <1>2, <1>5, <1>6 DEF HoldOK, Visible
<1>11. d.opens \in 0 .. (OpenSteps - 1)
  BY DEF DeskOK
<1>12. DeskOK(m)
  BY <1>1, <1>2, <1>5, <1>8, <1>10, <1>11, OneSlot
<1>13. A \in Rects
  BY <1>1, WindowFacts
<1>14. \A p \in Cells : i \in Under(d, p) \/ i \in Under(m, p) => Contains(A, p)
  BY <1>2, <1>6 DEF Under
<1>15. Op(d, RedrawWithTitles(m, A))
  <2>. HIDE DEF A
  <2>. QED
    BY <1>1, <1>5, <1>6, <1>9, <1>12, <1>13, <1>14, Uncovered
<1>. QED
  BY <1>4, <1>15

LEMMA LesserGreater ==
  ASSUME NEW a \in Int, NEW b \in Int
  PROVE  /\ Lesser(a, b) \in Int /\ Lesser(a, b) <= a /\ Lesser(a, b) <= b
         /\ Lesser(a, b) = a \/ Lesser(a, b) = b
         /\ Greater(a, b) \in Int /\ Greater(a, b) >= a /\ Greater(a, b) >= b
         /\ Greater(a, b) = a \/ Greater(a, b) = b
  BY DEF Lesser, Greater

\* A window in use as it stands on the desk.
LEMMA VisibleFacts ==
  ASSUME NEW d, DeskOK(d), NEW i \in Visible(d)
  PROVE  /\ i \in Slots /\ d.win[i].used /\ ~d.win[i].min /\ OrderOK(d) /\ HoldOK(d)
         /\ DOMAIN d = Fields /\ d.win \in [Slots -> AnyWindow] /\ WindowOK(d.win[i])
         /\ d.win[i] \in AnyWindow /\ d.opens \in 0 .. (OpenSteps - 1)
         /\ InArea(d.win[i].rect) /\ d.win[i].icon \in 1 .. Len(Icons)
         /\ d.win[i].max => InArea(d.win[i].rest)
  BY DEF Visible, DeskOK, WindowOK

\* Window i is v, and nothing else is changed.
Becomes(d, i, v, m) ==
  /\ DOMAIN m = Fields /\ m.win = [d.win EXCEPT ![i] = v]
  /\ m.z = d.z /\ m.drag = d.drag /\ m.resize = d.resize /\ m.off = d.off
  /\ m.grab = d.grab /\ m.menu = d.menu /\ m.opens = d.opens /\ m.bb = d.bb
  /\ m.damage = d.damage /\ m.hit = d.hit

\* v may stand for window i: it is as visible, and not maximised while sized.
Stands(d, i, v) ==
  /\ WindowOK(v) /\ v.used = d.win[i].used /\ v.min = d.win[i].min
  /\ d.resize = i => ~v.max

LEMMA BecomesIs ==
  ASSUME NEW d, DOMAIN d = Fields, NEW i, NEW v
  PROVE  Becomes(d, i, v, [d EXCEPT !.win[i] = v])
  BY DEF Becomes, Fields

\* It is as visible as it was.
Became(d, i, v, m) ==
  /\ DeskOK(m) /\ m.win[i] = v
  /\ \A j \in Slots : j # i => m.win[j] = d.win[j]
  /\ Visible(m) = Visible(d) /\ WinTopmostIndex(m) = WinTopmostIndex(d)
  /\ \A p : TaskbarCell(m, p) = TaskbarCell(d, p)
  /\ \A S : Kept(d, m, S)
  /\ m.z = d.z /\ m.drag = d.drag /\ m.resize = d.resize /\ m.menu = d.menu /\ m.bb = d.bb
  /\ m.damage = d.damage /\ m.hit = d.hit

LEMMA BecomesOK ==
  ASSUME NEW d, DeskOK(d), NEW i \in Visible(d), NEW v, Stands(d, i, v),
         NEW m, Becomes(d, i, v, m)
  PROVE  Became(d, i, v, m)
<1>0. /\ DeskOK(d) /\ WindowOK(v) /\ v.used = d.win[i].used /\ v.min = d.win[i].min
      /\ d.resize = i => ~v.max
  BY DEF Stands
<1>1. /\ i \in Slots /\ OrderOK(d) /\ DOMAIN d = Fields /\ HoldOK(d)
      /\ d.win \in [Slots -> AnyWindow] /\ d.opens \in 0 .. (OpenSteps - 1)
  BY VisibleFacts
<1>2. /\ DOMAIN m = Fields /\ m.win = [d.win EXCEPT ![i] = v]
      /\ m.z = d.z /\ m.drag = d.drag /\ m.resize = d.resize /\ m.off = d.off
      /\ m.grab = d.grab /\ m.menu = d.menu /\ m.opens = d.opens /\ m.bb = d.bb
      /\ m.damage = d.damage /\ m.hit = d.hit
  BY DEF Becomes
<1>3. m.win[i] = v /\ \A j \in Slots : j # i => m.win[j] = d.win[j]
  BY <1>1, <1>2
<1>4. \A j \in Slots : m.win[j].used = d.win[j].used /\ m.win[j].min = d.win[j].min
  BY <1>0, <1>3
<1>5. Visible(m) = Visible(d)
  BY <1>4 DEF Visible
<1>6. OrderOK(m) /\ (\A S : Kept(d, m, S)) /\ WinTopmostIndex(m) = WinTopmostIndex(d)
  <2>1. m.z = d.z /\ \A j \in Slots : m.win[j].used = d.win[j].used
    BY <1>2, <1>4
  <2>. QED
    BY <1>1, <1>5, <2>1, SameOrder
<1>7. HoldOK(m)
  <2>1. m.drag = d.drag /\ m.resize = d.resize
    BY <1>2
  <2>2. m.resize # None => ~m.win[m.resize].max
    BY <1>0, <1>1, <1>3, <2>1 DEF HoldOK, Visible
  <2>. QED
    BY <1>1, <1>5, <2>1, <2>2 DEF HoldOK
<1>8. DeskOK(m)
  <2>1. m.opens \in 0 .. (OpenSteps - 1)
    BY <1>1, <1>2
  <2>2. /\ m.win = [d.win EXCEPT ![i] = v] /\ m.off = d.off /\ m.grab = d.grab
        /\ m.menu = d.menu /\ m.bb = d.bb /\ m.damage = d.damage
    BY <1>2
  <2>3. OrderOK(m)
    BY <1>6
  <2>4. DOMAIN m = Fields
    BY <1>2
  <2>. QED
    BY ONLY <1>0, <1>1, <1>7, <2>1, <2>2, <2>3, <2>4, OneSlot
<1>9. \A p : TaskbarCell(m, p) = TaskbarCell(d, p)
  BY <1>4, <1>6, TaskbarOf
<1>. QED
  BY <1>2, <1>3, <1>5, <1>6, <1>8, <1>9 DEF Became

LEMMA ToggleOp ==
  ASSUME NEW d, DeskOK(d), NEW i \in Visible(d), d.resize # i
  PROVE  Op(d, WinToggleMax(d, i))
<1>. DEFINE w == d.win[i]
            full == Rect(0, 0, ScrW, WorkH)
            v == IF w.max THEN Unmaximised(w)
                 ELSE [w EXCEPT !.rest = w.rect, !.rect = full, !.max = TRUE]
            m == [d EXCEPT !.win[i] = v]
            A == Around({w.rect, v.rect})
<1>1. /\ i \in Slots /\ w \in AnyWindow /\ InArea(w.rect) /\ w.icon \in 1 .. Len(Icons)
      /\ w.max => InArea(w.rest)
      /\ w.used
  BY VisibleFacts
<1>2. InArea(full)
  <2>1. MinW <= ScrW /\ MinH <= WorkH
    <3>1. /\ w.rect.x \in Int /\ w.rect.y \in Int /\ w.rect.w \in Int /\ w.rect.h \in Int
      BY <1>1, AreaFacts
    <3>2. /\ w.rect.x >= 0 /\ w.rect.y >= 0 /\ w.rect.w >= MinW /\ w.rect.h >= MinH
          /\ w.rect.x + w.rect.w <= ScrW /\ w.rect.y + w.rect.h <= WorkH
      BY <1>1 DEF InArea
    <3>3. MinW \in Int /\ MinH \in Int /\ ScrW \in Int /\ WorkH \in Int
      BY ScreenFacts
    <3>. HIDE DEF w
    <3>. QED
      BY <3>1, <3>2, <3>3
  <2>. QED
    BY <2>1, ScreenFacts DEF InArea, AnyRect, Rect
<1>3. /\ WindowOK(v) /\ v.used = w.used /\ v.min = w.min /\ InArea(v.rect)
  <2>1. CASE w.max
    <3>1. v = Unmaximised(w)
      BY <2>1
    <3>2. /\ v \in AnyWindow /\ v.used = w.used /\ v.min = w.min /\ v.rect = w.rest
          /\ ~v.max /\ v.icon = w.icon
      <4>1. Empty \in AnyRect
        BY DEF Empty, Rect, AnyRect
      <4>. HIDE DEF w
      <4>. QED
        BY <1>1, <2>1, <3>1, <4>1 DEF Unmaximised, AnyWindow
    <3>. QED
      BY <1>1, <2>1, <3>2 DEF WindowOK
  <2>2. CASE ~w.max
    <3>1. v = [w EXCEPT !.rest = w.rect, !.rect = full, !.max = TRUE]
      BY <2>2
    <3>2. full \in AnyRect
      BY <1>2 DEF InArea
    <3>. HIDE DEF full, v
    <3>3. /\ v \in AnyWindow /\ v.used = w.used /\ v.min = w.min /\ v.rect = full
          /\ v.rest = w.rect /\ v.icon = w.icon
      BY <1>1, <3>1, <3>2 DEF AnyWindow
    <3>. QED
      BY <1>1, <1>2, <3>3 DEF WindowOK
  <2>. QED
    BY <2>1, <2>2
<1>4. WinToggleMax(d, i) = Redraw(m, <<A, TaskbarRect>>)
  BY DEF WinToggleMax
<1>5. /\ A \in Rects
      /\ \A p \in Cells : Contains(w.rect, p) \/ Contains(v.rect, p) => Contains(A, p)
  BY <1>1, <1>3, AroundTwo
<1>. HIDE DEF v, A
<1>6. Becomes(d, i, v, m)
  BY BecomesIs DEF DeskOK
<1>. HIDE DEF m
<1>7. /\ DeskOK(m) /\ m.win[i] = v
      /\ \A j \in Slots : j # i => m.win[j] = d.win[j]
      /\ WinTopmostIndex(m) = WinTopmostIndex(d)
      /\ \A S : Kept(d, m, S)
      /\ m.drag = d.drag /\ m.resize = d.resize /\ m.menu = d.menu /\ m.bb = d.bb
      /\ m.damage = d.damage /\ m.hit = d.hit
  <2>1. Stands(d, i, v)
    BY <1>3 DEF Stands
  <2>. HIDE DEF w
  <2>. QED
    BY <1>6, <2>1, BecomesOK DEF Became
<1>8. \A p \in Cells : i \in Under(d, p) \/ i \in Under(m, p) => Contains(A, p)
  BY <1>5, <1>7 DEF Under
<1>9. Op(d, Redraw(m, <<A, TaskbarRect>>))
  BY <1>1, <1>5, <1>7, <1>8, Uncovered
<1>. QED
  BY <1>4, <1>9

LEMMA DragOp ==
  ASSUME NEW d, DeskOK(d), d.drag # None, NEW p \in Cells
  PROVE  Op(d, DragStep(d, p))
<1>. DEFINE i == d.drag
            w == d.win[i]
            u == IF w.max THEN Unmaximised(w) ELSE w
            x == Lesser(p[1] - d.off[1], ScrW - u.rect.w)
            y == Lesser(p[2] - d.off[2], WorkH - u.rect.h)
            at == [u.rect EXCEPT !.x = Greater(x, 0), !.y = Greater(y, 0)]
            v == [u EXCEPT !.rect = at]
            m == [d EXCEPT !.win[i] = v]
<1>1. i \in Visible(d)
  BY DEF DeskOK, HoldOK
<1>2. /\ i \in Slots /\ w \in AnyWindow /\ InArea(w.rect) /\ w.icon \in 1 .. Len(Icons)
      /\ w.max => InArea(w.rest)
      /\ w.used
  BY <1>1, VisibleFacts
<1>3. /\ u \in AnyWindow /\ u.used = w.used /\ u.min = w.min /\ InArea(u.rect)
      /\ ~u.max /\ u.icon = w.icon
  <2>1. CASE w.max
    <3>1. u = Unmaximised(w)
      BY <2>1
    <3>2. /\ u \in AnyWindow /\ u.used = w.used /\ u.min = w.min /\ u.rect = w.rest
          /\ ~u.max /\ u.icon = w.icon
      <4>1. Empty \in AnyRect
        BY DEF Empty, Rect, AnyRect
      <4>. HIDE DEF w
      <4>. QED
        BY <1>2, <2>1, <3>1, <4>1 DEF Unmaximised, AnyWindow
    <3>. QED
      BY <1>2, <2>1, <3>2
  <2>2. CASE ~w.max
    BY <1>2, <2>2
  <2>. QED
    BY <2>1, <2>2
<1>4. DragStep(d, p) = Redraw(m, <<Screen>>)
  BY DEF DragStep
<1>5. /\ p[1] \in Int /\ p[2] \in Int /\ d.off[1] \in Int /\ d.off[2] \in Int
  BY CellFacts DEF DeskOK
<1>. HIDE DEF u
<1>6. /\ at \in AnyRect /\ InArea(at)
  <2>1. /\ u.rect \in AnyRect /\ u.rect.w \in Int /\ u.rect.h \in Int
        /\ u.rect.x \in Int /\ u.rect.y \in Int
        /\ u.rect.x >= 0 /\ u.rect.y >= 0 /\ u.rect.w >= MinW /\ u.rect.h >= MinH
        /\ u.rect.x + u.rect.w <= ScrW /\ u.rect.y + u.rect.h <= WorkH
    BY <1>3, AreaFacts DEF InArea
  <2>2. x \in Int /\ y \in Int /\ x <= ScrW - u.rect.w /\ y <= WorkH - u.rect.h
    <3>1. /\ p[1] - d.off[1] \in Int /\ ScrW - u.rect.w \in Int
          /\ p[2] - d.off[2] \in Int /\ WorkH - u.rect.h \in Int
      <4>1. ScrW \in Int /\ WorkH \in Int
        BY ScreenFacts
      <4>. HIDE DEF i, w
      <4>. QED
        BY <1>5, <2>1, <4>1
    <3>. QED
      BY <3>1, LesserGreater
  <2>. HIDE DEF x, y
  <2>3. /\ Greater(x, 0) \in Int /\ Greater(x, 0) >= 0 /\ Greater(x, 0) + u.rect.w <= ScrW
        /\ Greater(y, 0) \in Int /\ Greater(y, 0) >= 0 /\ Greater(y, 0) + u.rect.h <= WorkH
    <3>1. /\ Greater(x, 0) \in Int /\ Greater(x, 0) >= 0 /\ Greater(x, 0) \in {x, 0}
          /\ Greater(y, 0) \in Int /\ Greater(y, 0) >= 0 /\ Greater(y, 0) \in {y, 0}
      BY <2>2, LesserGreater
    <3>2. ScrW \in Int /\ WorkH \in Int /\ MinW \in Int /\ MinH \in Int
      BY ScreenFacts
    <3>3. ScrW - u.rect.w >= 0 /\ WorkH - u.rect.h >= 0
      BY <2>1, <3>2
    <3>. QED
      BY <2>1, <2>2, <3>1, <3>2, <3>3
  <2>4. /\ at \in AnyRect /\ at.x = Greater(x, 0) /\ at.y = Greater(y, 0)
        /\ at.w = u.rect.w /\ at.h = u.rect.h
    BY <2>1, <2>3 DEF AnyRect
  <2>. QED
    BY <2>1, <2>3, <2>4 DEF InArea
<1>. HIDE DEF at
<1>7. WindowOK(v) /\ v.used = w.used /\ v.min = w.min /\ ~v.max
  <2>1. /\ v \in AnyWindow /\ v.used = u.used /\ v.min = u.min /\ v.max = u.max
        /\ v.icon = u.icon /\ v.rect = at
    BY <1>3, <1>6 DEF AnyWindow
  <2>. QED
    BY <1>2, <1>3, <1>6, <2>1 DEF WindowOK
<1>. HIDE DEF v
<1>8. Becomes(d, i, v, m)
  BY BecomesIs DEF DeskOK
<1>. HIDE DEF m
<1>9. /\ DeskOK(m) /\ m.drag = d.drag /\ m.resize = d.resize /\ m.bb = d.bb
      /\ m.damage = d.damage /\ m.hit = d.hit
  <2>1. Stands(d, i, v)
    BY <1>7 DEF Stands
  <2>. HIDE DEF w
  <2>. QED
    BY <1>1, <1>8, <2>1, BecomesOK DEF Became
<1>10. <<Screen>> \in Seq(Rects) /\ Among(<<Screen>>) = {Screen}
  BY RectFacts, AmongOne
<1>11. Op(d, Redraw(m, <<Screen>>))
  <2>. DEFINE all == <<Screen>>
  <2>. HIDE DEF all
  <2>1. all \in Seq(Rects) /\ Among(all) = {Screen}
    BY <1>10 DEF all
  <2>2. \A q \in Cells : (\A r \in Among(all) : ~Contains(r, q)) => Like(SceneCell(d, q), SceneCell(m, q))
    BY <2>1, CellFacts
  <2>3. Op(d, Redraw(m, all))
    BY <1>9, <2>1, <2>2, OpRedraw
  <2>. QED
    BY <2>3 DEF all
<1>. QED
  BY <1>4, <1>11

LEMMA ResizeOp ==
  ASSUME NEW d, DeskOK(d), d.resize # None, NEW p \in Cells
  PROVE  Op(d, ResizeStep(d, p))
<1>. DEFINE i == d.resize
            w == d.win[i]
            r == w.rect
            W == Greater(d.grab.w + p[1] - d.grab.at[1], MinW)
            H == Greater(d.grab.h + p[2] - d.grab.at[2], MinH)
            s == [r EXCEPT !.w = IF r.x + W > ScrW THEN ScrW - r.x ELSE W,
                           !.h = IF r.y + H > WorkH THEN WorkH - r.y ELSE H]
            v == [w EXCEPT !.rect = s]
            m == [d EXCEPT !.win[i] = v]
            A == Around({r, s})
<1>1. i \in Visible(d) /\ ~w.max
  BY DEF DeskOK, HoldOK
<1>2. /\ i \in Slots /\ w \in AnyWindow /\ InArea(r) /\ w.icon \in 1 .. Len(Icons) /\ w.used
  BY <1>1, VisibleFacts
<1>3. ResizeStep(d, p) = IF s = r THEN d ELSE Redraw(m, <<A>>)
  BY <1>1 DEF ResizeStep
<1>4. CASE s = r
  BY <1>3, <1>4, OpSame
<1>5. CASE s # r
  <2>1. /\ p[1] \in Int /\ p[2] \in Int /\ d.grab.w \in Int /\ d.grab.h \in Int
        /\ d.grab.at[1] \in Int /\ d.grab.at[2] \in Int
    BY CellFacts DEF DeskOK
  <2>2. /\ W \in Int /\ H \in Int /\ W >= MinW /\ H >= MinH
    <3>1. /\ d.grab.w + p[1] - d.grab.at[1] \in Int /\ d.grab.h + p[2] - d.grab.at[2] \in Int
          /\ MinW \in Int /\ MinH \in Int
      <4>1. MinW \in Int /\ MinH \in Int
        BY ScreenFacts
      <4>. QED
        BY <2>1, <4>1
    <3>. QED
      BY <3>1, LesserGreater
  <2>. HIDE DEF W, H
  <2>3. InArea(s)
    <3>1. /\ r \in AnyRect /\ r.w \in Int /\ r.h \in Int
          /\ r.x \in Int /\ r.y \in Int
          /\ r.x >= 0 /\ r.y >= 0 /\ r.w >= MinW /\ r.h >= MinH
          /\ r.x + r.w <= ScrW /\ r.y + r.h <= WorkH
      BY <1>2, AreaFacts DEF InArea
    <3>2. /\ s \in AnyRect /\ s.x = r.x /\ s.y = r.y
          /\ s.w = (IF r.x + W > ScrW THEN ScrW - r.x ELSE W)
          /\ s.h = (IF r.y + H > WorkH THEN WorkH - r.y ELSE H)
      <4>. DEFINE a == IF r.x + W > ScrW THEN ScrW - r.x ELSE W
                  b == IF r.y + H > WorkH THEN WorkH - r.y ELSE H
      <4>1. ScrW \in Int /\ WorkH \in Int
        BY ScreenFacts
      <4>2. a \in Int /\ b \in Int
        BY <2>2, <3>1, <4>1
      <4>3. s = [r EXCEPT !.w = a, !.h = b]
        OBVIOUS
      <4>. HIDE DEF a, b, s, r
      <4>4. s \in AnyRect /\ s.x = r.x /\ s.y = r.y /\ s.w = a /\ s.h = b
        BY <3>1, <4>2, <4>3 DEF AnyRect
      <4>. QED
        BY <4>4 DEF a, b
    <3>3. ScrW \in Int /\ WorkH \in Int /\ MinW \in Int /\ MinH \in Int
      BY ScreenFacts
    <3>. HIDE DEF s, r
    <3>4. s.w >= MinW /\ s.x + s.w <= ScrW
      BY <2>2, <3>1, <3>2, <3>3
    <3>5. s.h >= MinH /\ s.y + s.h <= WorkH
      BY <2>2, <3>1, <3>2, <3>3
    <3>. QED
      BY <3>1, <3>2, <3>4, <3>5 DEF InArea
  <2>. HIDE DEF s
  <2>4. WindowOK(v) /\ v.used = w.used /\ v.min = w.min /\ ~v.max /\ v.rect = s
    <3>1. /\ v \in AnyWindow /\ v.used = w.used /\ v.min = w.min /\ v.max = w.max
          /\ v.icon = w.icon /\ v.rect = s
      BY <1>2, <2>3 DEF AnyWindow, InArea
    <3>. QED
      BY <1>1, <1>2, <2>3, <3>1 DEF WindowOK
  <2>5. /\ A \in Rects
        /\ \A q \in Cells : Contains(r, q) \/ Contains(s, q) => Contains(A, q)
    BY <1>2, <2>3, AroundTwo
  <2>. HIDE DEF v, A
  <2>6. Becomes(d, i, v, m)
    BY BecomesIs DEF DeskOK
  <2>. HIDE DEF m
  <2>7. /\ DeskOK(m) /\ m.win[i] = v
        /\ \A j \in Slots : j # i => m.win[j] = d.win[j]
        /\ WinTopmostIndex(m) = WinTopmostIndex(d)
        /\ \A q : TaskbarCell(m, q) = TaskbarCell(d, q)
        /\ \A S : Kept(d, m, S)
        /\ m.drag = d.drag /\ m.resize = d.resize /\ m.menu = d.menu /\ m.bb = d.bb
        /\ m.damage = d.damage /\ m.hit = d.hit
    <3>1. Stands(d, i, v)
      BY <2>4 DEF Stands
    <3>. HIDE DEF w
    <3>. QED
      BY <1>1, <2>6, <3>1, BecomesOK DEF Became
  <2>8. ASSUME NEW q \in Cells, ~Contains(A, q)
        PROVE  Like(SceneCell(d, q), SceneCell(m, q))
    <3>1. i \notin Under(d, q) /\ i \notin Under(m, q)
      BY <2>4, <2>5, <2>7, <2>8 DEF Under
    <3>. HIDE DEF i
    <3>. QED
      BY <1>2, <2>7, <3>1, ChangeOne
  <2>9. Op(d, Redraw(m, <<A>>))
    <3>. DEFINE one == <<A>>
    <3>1. one \in Seq(Rects) /\ Among(one) = {A}
      BY <2>5, AmongOne
    <3>. HIDE DEF one
    <3>2. \A q \in Cells : (\A t \in Among(one) : ~Contains(t, q)) => Like(SceneCell(d, q), SceneCell(m, q))
      BY <2>8, <3>1
    <3>3. Op(d, Redraw(m, one))
      BY <2>7, <3>1, <3>2, OpRedraw
    <3>. QED
      BY <3>3 DEF one
  <2>. QED
    BY <1>3, <1>5, <2>9 DEF m, v
<1>. QED
  BY <1>4, <1>5

LEMMA MenuOp ==
  ASSUME NEW d, DeskOK(d)
  PROVE  /\ Op(d, OpenStartMenu(d)) /\ Op(d, CloseStartMenu(d))
         /\ CloseStartMenu(d).win = d.win /\ CloseStartMenu(d).z = d.z
         /\ CloseStartMenu(d).drag = d.drag /\ CloseStartMenu(d).resize = d.resize
         /\ CloseStartMenu(d).menu = FALSE
<1>1. ASSUME NEW b \in BOOLEAN
      PROVE  /\ Op(d, Redraw([d EXCEPT !.menu = b], <<MenuRect>>))
             /\ Redraw([d EXCEPT !.menu = b], <<MenuRect>>).win = d.win
             /\ Redraw([d EXCEPT !.menu = b], <<MenuRect>>).z = d.z
             /\ Redraw([d EXCEPT !.menu = b], <<MenuRect>>).drag = d.drag
             /\ Redraw([d EXCEPT !.menu = b], <<MenuRect>>).resize = d.resize
             /\ Redraw([d EXCEPT !.menu = b], <<MenuRect>>).menu = b
  <2>. DEFINE m == [d EXCEPT !.menu = b]
  <2>1. DOMAIN d = Fields /\ OrderOK(d)
    BY DEF DeskOK
  <2>2. /\ DOMAIN m = Fields /\ m.win = d.win /\ m.z = d.z /\ m.drag = d.drag
        /\ m.resize = d.resize /\ m.off = d.off /\ m.grab = d.grab /\ m.menu = b
        /\ m.opens = d.opens /\ m.bb = d.bb /\ m.damage = d.damage /\ m.hit = d.hit
    BY <2>1 DEF Fields
  <2>. HIDE DEF m
  <2>3. OrderOK(m) /\ HoldOK(m)
    BY <2>2 DEF DeskOK, OrderOK, HoldOK, Visible
  <2>4. DeskOK(m)
    BY <2>2, <2>3 DEF DeskOK
  <2>5. \A p : ~Contains(MenuRect, p) => SceneCell(m, p) = SceneCell(d, p)
    BY <2>1, <2>2, <2>3, SceneOf
  <2>. DEFINE one == <<MenuRect>>
  <2>6. one \in Seq(Rects) /\ Among(one) = {MenuRect}
    BY RectFacts, AmongOne
  <2>. HIDE DEF one
  <2>7. \A p \in Cells : (\A r \in Among(one) : ~Contains(r, p)) => Like(SceneCell(d, p), SceneCell(m, p))
    BY <2>5, <2>6 DEF Like
  <2>8. Op(d, Redraw(m, one)) /\ SameWindows(m, Redraw(m, one))
    BY <2>2, <2>4, <2>6, <2>7, OpRedraw
  <2>. QED
    BY <2>2, <2>8 DEF SameWindows, m, one
<1>2. Op(d, d)
  BY OpSame
<1>3. Op(d, OpenStartMenu(d))
  BY <1>1, <1>2 DEF OpenStartMenu
<1>4. CASE d.menu
  <2>1. CloseStartMenu(d) = Redraw([d EXCEPT !.menu = FALSE], <<MenuRect>>)
    BY <1>4 DEF CloseStartMenu
  <2>. QED
    BY <1>1, <1>3, <2>1
<1>5. CASE ~d.menu
  <2>1. CloseStartMenu(d) = d
    BY <1>5 DEF CloseStartMenu
  <2>2. d.menu = FALSE
    BY <1>5 DEF DeskOK
  <2>. QED
    BY <1>2, <1>3, <2>1, <2>2
<1>. QED
  BY <1>4, <1>5

\* Two repaints of the same scene, the first of rs, the second of ts.
LEMMA RedrawTwice ==
  ASSUME NEW d, NEW m, DeskOK(m), m.bb = d.bb, m.damage = d.damage, m.hit = d.hit,
         m.drag \in {d.drag, None}, m.resize \in {d.resize, None},
         NEW rs \in Seq(Rects), NEW ts \in Seq(Rects),
         \A p \in Cells : (\A r \in Among(rs) \cup Among(ts) : ~Contains(r, p))
                            => Like(SceneCell(d, p), SceneCell(m, p))
  PROVE  Op(d, Redraw(Redraw(m, rs), ts))
<1>. DEFINE e == Redraw(m, rs)
            f == Redraw(e, ts)
            S == Among(rs)
            T == Among(ts)
<1>1. /\ DeskOK(e) /\ SameWindows(m, e) /\ e.hit = m.hit
      /\ \A p \in Cells : IF \E r \in S : Contains(r, p) THEN e.bb[p].paint = SceneCell(m, p)
                          ELSE e.bb[p] = d.bb[p]
      /\ \A p \in Cells : Contains(d.damage, p) => Contains(e.damage, p)
      /\ \A p \in Cells : \A r \in S : Contains(r, p) => Contains(e.damage, p)
      /\ \A p : SceneCell(e, p) = SceneCell(m, p)
  BY RedrawIs
<1>. HIDE DEF e
<1>2. /\ DeskOK(f) /\ SameWindows(e, f) /\ f.hit = e.hit
      /\ \A p \in Cells : IF \E r \in T : Contains(r, p) THEN f.bb[p].paint = SceneCell(e, p)
                          ELSE f.bb[p] = e.bb[p]
      /\ \A p \in Cells : Contains(e.damage, p) => Contains(f.damage, p)
      /\ \A p \in Cells : \A r \in T : Contains(r, p) => Contains(f.damage, p)
      /\ \A p : SceneCell(f, p) = SceneCell(e, p)
  BY <1>1, RedrawIs
<1>3. \A p \in Cells : (\A r \in S \cup T : ~Contains(r, p)) => Like(SceneCell(d, p), SceneCell(m, p))
  OBVIOUS
<1>. HIDE DEF f, S, T
<1>4. ASSUME NEW p \in Cells
      PROVE  /\ f.bb[p] = d.bb[p] \/ Contains(f.damage, p)
             /\ Contains(d.damage, p) => Contains(f.damage, p)
             /\ \/ Like(f.bb[p].paint, SceneCell(f, p))
                \/ f.bb[p] = d.bb[p] /\ Like(SceneCell(d, p), SceneCell(f, p))
  <2>1. CASE \E r \in S \cup T : Contains(r, p)
    <3>1. Contains(f.damage, p)
      BY <1>1, <1>2, <2>1
    <3>2. f.bb[p].paint = SceneCell(f, p)
      <4>1. CASE \E r \in T : Contains(r, p)
        BY <1>2, <4>1
      <4>2. CASE ~\E r \in T : Contains(r, p)
        <5>1. f.bb[p] = e.bb[p] /\ \E r \in S : Contains(r, p)
          BY <1>2, <2>1, <4>2
        <5>. QED
          BY <1>1, <1>2, <5>1
      <4>. QED
        BY <4>1, <4>2
    <3>. QED
      BY <3>1, <3>2 DEF Like
  <2>2. CASE \A r \in S \cup T : ~Contains(r, p)
    <3>1. f.bb[p] = d.bb[p] /\ SceneCell(f, p) = SceneCell(m, p)
      BY <1>1, <1>2, <2>2
    <3>2. Contains(d.damage, p) => Contains(f.damage, p)
      BY <1>1, <1>2
    <3>. QED
      BY <1>3, <2>2, <3>1, <3>2
  <2>. QED
    BY <2>1, <2>2
<1>5. Repaints(d, f)
  BY <1>4 DEF Repaints
<1>. QED
  BY <1>1, <1>2, <1>5 DEF Op, SameWindows, e, f

-----------------------------------------------------------------------------
(* Opening a window.                                                        *)
Openable(r) ==
  /\ r.x \in Int /\ r.y \in Int /\ r.w \in MinW .. ScrW /\ r.h \in MinH .. WorkH

LEMMA OpenRectIs ==
  ASSUME NEW r, Openable(r)
  PROVE  InArea(OpenRect(r))
<1>. DEFINE x == Greater(r.x, 0)
            y == Greater(r.y, 0)
            X == IF x + r.w > ScrW THEN ScrW - r.w ELSE x
            Y == IF y + r.h > WorkH THEN WorkH - r.h ELSE y
<1>1. /\ MinW \in Nat /\ MinH \in Nat /\ ScrW \in Nat /\ WorkH \in Nat
  BY ScreenFacts
<1>2. /\ r.x \in Int /\ r.y \in Int /\ r.w \in Int /\ r.h \in Int
      /\ r.w >= MinW /\ r.w <= ScrW /\ r.h >= MinH /\ r.h <= WorkH
  BY <1>1 DEF Openable
<1>3. x \in Int /\ x >= 0 /\ y \in Int /\ y >= 0
  BY <1>2 DEF Greater
<1>4. Greater(r.w, MinW) = r.w /\ Greater(r.h, MinH) = r.h
  BY <1>1, <1>2 DEF Greater
<1>5. OpenRect(r) = Rect(X, Y, r.w, r.h)
  BY <1>4 DEF OpenRect
<1>. HIDE DEF x, y
<1>6. X \in Int /\ X >= 0 /\ X + r.w <= ScrW /\ Y \in Int /\ Y >= 0 /\ Y + r.h <= WorkH
  BY <1>1, <1>2, <1>3
<1>. HIDE DEF X, Y
<1>. QED
  BY <1>2, <1>5, <1>6 DEF InArea, AnyRect, Rect

Opened(d, k, r) ==
  LET i == Min(FreeSlots(d))
  IN [d EXCEPT !.win[i] = [NoWindow EXCEPT !.used = TRUE, !.rect = OpenRect(r), !.icon = k],
               !.z = Append(@, i)]

LEMMA WinOpenIs ==
  ASSUME NEW d, NEW k, NEW r
  PROVE  WinOpen(d, k, r) = IF FreeSlots(d) = {} THEN d
                            ELSE Redraw(Opened(d, k, r), TitleStrips(Opened(d, k, r)))
  BY Zenon DEF WinOpen, Opened

\* The new window is on top, and nothing is painted yet.
LEMMA OpenedIs ==
  ASSUME NEW d, DeskOK(d), NEW k \in 1 .. Len(Icons), NEW r, Openable(r), FreeSlots(d) # {}
  PROVE  /\ DeskOK(Opened(d, k, r))
         /\ Opened(d, k, r).bb = d.bb /\ Opened(d, k, r).damage = d.damage
         /\ Opened(d, k, r).hit = d.hit /\ Opened(d, k, r).drag = d.drag
         /\ Opened(d, k, r).resize = d.resize
         /\ \A p \in Cells : ~Contains(OpenRect(r), p) /\ ~Contains(TaskbarRect, p)
                  /\ (\A s \in Among(TitleStrips(Opened(d, k, r))) : ~Contains(s, p))
                => Like(SceneCell(d, p), SceneCell(Opened(d, k, r), p))
<1>. DEFINE i == Min(FreeSlots(d))
            v == [NoWindow EXCEPT !.used = TRUE, !.rect = OpenRect(r), !.icon = k]
            m == Opened(d, k, r)
<1>1. i \in Slots /\ ~d.win[i].used
  <2>1. FreeSlots(d) \in SUBSET Nat
    BY DEF FreeSlots, Slots
  <2>2. i \in FreeSlots(d)
    BY <2>1, MinIs
  <2>. QED
    BY <2>2 DEF FreeSlots
<1>2. /\ OrderOK(d) /\ HoldOK(d) /\ DOMAIN d = Fields /\ d.win \in [Slots -> AnyWindow]
      /\ d.opens \in 0 .. (OpenSteps - 1)
  BY DEF DeskOK
<1>3. /\ WindowOK(v) /\ v.used /\ ~v.min /\ v.rect = OpenRect(r)
  <2>1. InArea(OpenRect(r)) /\ OpenRect(r) \in AnyRect /\ Empty \in AnyRect
    BY OpenRectIs DEF InArea, Empty, Rect, AnyRect
  <2>2. /\ v \in AnyWindow /\ v.used = TRUE /\ v.min = FALSE /\ v.max = FALSE
        /\ v.rect = OpenRect(r) /\ v.icon = k
    <3>1. NoWindow \in AnyWindow /\ NoWindow.min = FALSE /\ NoWindow.max = FALSE
      BY DEF NoWindow, AnyWindow, AnyRect, Empty, Rect
    <3>2. k \in Int
      BY ScreenFacts
    <3>. QED
      BY <2>1, <3>1, <3>2 DEF AnyWindow
  <2>. HIDE DEF v
  <2>. QED
    BY <2>1, <2>2 DEF WindowOK
<1>. HIDE DEF v
<1>4. /\ DOMAIN m = Fields /\ m.win = [d.win EXCEPT ![i] = v] /\ m.z = Append(d.z, i)
      /\ m.drag = d.drag /\ m.resize = d.resize /\ m.off = d.off
      /\ m.grab = d.grab /\ m.menu = d.menu /\ m.opens = d.opens /\ m.bb = d.bb
      /\ m.damage = d.damage /\ m.hit = d.hit
  <2>. HIDE DEF i
  <2>. QED
    BY <1>2 DEF Opened, Fields, v, i
<1>. HIDE DEF m, i
<1>5. m.win[i] = v /\ \A j \in Slots : j # i => m.win[j] = d.win[j]
  BY <1>1, <1>2, <1>4
<1>6. OrderOK(m) /\ Kept(d, m, {j \in Slots : d.win[j].used})
  <2>1. \A j \in Slots : m.win[j].used <=> j = i \/ d.win[j].used
    BY <1>3, <1>5
  <2>. QED
    BY <1>1, <1>2, <1>4, <2>1, OrderAppend
<1>7. HoldOK(m)
  BY <1>1, <1>2, <1>4, <1>5 DEF HoldOK, Visible
<1>8. DeskOK(m)
  BY <1>1, <1>2, <1>3, <1>4, <1>6, <1>7, OneSlot
<1>9. ASSUME NEW p \in Cells, ~Contains(OpenRect(r), p), ~Contains(TaskbarRect, p),
             \A s \in Among(TitleStrips(m)) : ~Contains(s, p)
      PROVE  Like(SceneCell(d, p), SceneCell(m, p))
  <2>1. i \notin Under(d, p) /\ i \notin Under(m, p)
    BY <1>1, <1>3, <1>5, <1>9 DEF Under, Visible
  <2>2. p[2] < WorkH
    BY <1>9, CellFacts, ScreenFacts
  <2>3. Kept(d, m, {j \in Slots : j # i /\ d.win[j].used})
    BY <1>6 DEF Kept
  <2>. QED
    BY <1>1, <1>4, <1>5, <1>8, <1>9, <2>1, <2>2, <2>3, ChangeOne
<1>. QED
  BY <1>4, <1>8, <1>9 DEF m

LEMMA IconOpenOp ==
  ASSUME NEW d, DeskOK(d), NEW k \in 1 .. Len(Icons)
  PROVE  Op(d, IconOpen(d, k))
<1>. DEFINE at == OpenAt[d.opens + 1]
            r == Rect(at[1], at[2], Icons[k].w, Icons[k].h)
            c == [d EXCEPT !.opens = (@ + 1) % OpenSteps]
<1>1. Openable(r)
  <2>1. d.opens + 1 \in 1 .. OpenSteps
    BY ScreenFacts DEF DeskOK
  <2>2. at \in Int \X Int /\ Icons[k].w \in MinW .. ScrW /\ Icons[k].h \in MinH .. WorkH
    BY <2>1, DesktopAssumption
  <2>3. r.x = at[1] /\ r.y = at[2] /\ r.w = Icons[k].w /\ r.h = Icons[k].h
    BY DEF Rect
  <2>. HIDE DEF r
  <2>. QED
    BY <2>2, <2>3 DEF Openable
<1>2. DOMAIN d = Fields /\ OrderOK(d) /\ d.opens \in 0 .. (OpenSteps - 1)
  BY DEF DeskOK
<1>3. /\ DOMAIN c = Fields /\ c.win = d.win /\ c.z = d.z /\ c.drag = d.drag
      /\ c.resize = d.resize /\ c.off = d.off /\ c.grab = d.grab /\ c.menu = d.menu
      /\ c.opens \in 0 .. (OpenSteps - 1) /\ c.bb = d.bb /\ c.damage = d.damage /\ c.hit = d.hit
  <2>1. (d.opens + 1) % OpenSteps \in 0 .. (OpenSteps - 1)
    BY <1>2, ScreenFacts
  <2>2. /\ DOMAIN c = Fields /\ c.win = d.win /\ c.z = d.z /\ c.drag = d.drag
        /\ c.resize = d.resize /\ c.off = d.off /\ c.grab = d.grab /\ c.menu = d.menu
        /\ c.opens = (d.opens + 1) % OpenSteps /\ c.bb = d.bb /\ c.damage = d.damage
        /\ c.hit = d.hit
    BY <1>2 DEF Fields
  <2>. QED
    BY <2>1, <2>2
<1>4. IconOpen(d, k) = Redraw(WinOpen(c, k, r), IF FreeSlots(d) = {} THEN << >> ELSE <<OpenRect(r), TaskbarRect>>)
  BY DEF IconOpen
<1>. HIDE DEF c, r
<1>5. OrderOK(c) /\ HoldOK(c)
  BY <1>3 DEF DeskOK, OrderOK, HoldOK, Visible
<1>6. DeskOK(c)
  BY <1>3, <1>5 DEF DeskOK
<1>7. FreeSlots(c) = FreeSlots(d)
  BY <1>3 DEF FreeSlots
<1>8. \A p : SceneCell(c, p) = SceneCell(d, p)
  BY <1>2, <1>3, <1>5, SceneOf
<1>9. CASE FreeSlots(d) = {}
  <2>. DEFINE no == << >>
  <2>1. IconOpen(d, k) = Redraw(c, no)
    BY <1>4, <1>7, <1>9, WinOpenIs
  <2>2. no \in Seq(Rects)
    OBVIOUS
  <2>. HIDE DEF no
  <2>3. \A p \in Cells : (\A s \in Among(no) : ~Contains(s, p)) => Like(SceneCell(d, p), SceneCell(c, p))
    BY <1>8 DEF Like
  <2>4. Op(d, Redraw(c, no))
    BY <1>3, <1>6, <2>2, <2>3, OpRedraw
  <2>. QED
    BY <2>1, <2>4
<1>10. CASE FreeSlots(d) # {}
  <2>. DEFINE m == Opened(c, k, r)
              rs == TitleStrips(m)
              ts == <<OpenRect(r), TaskbarRect>>
  <2>1. IconOpen(d, k) = Redraw(Redraw(m, rs), ts)
    BY <1>4, <1>7, <1>10, WinOpenIs
  <2>2. /\ DeskOK(m) /\ m.bb = c.bb /\ m.damage = c.damage /\ m.hit = c.hit
        /\ m.drag = c.drag /\ m.resize = c.resize
        /\ \A p \in Cells : ~Contains(OpenRect(r), p) /\ ~Contains(TaskbarRect, p)
                 /\ (\A s \in Among(rs) : ~Contains(s, p))
               => Like(SceneCell(c, p), SceneCell(m, p))
    BY <1>1, <1>6, <1>7, <1>10, OpenedIs
  <2>3. /\ rs \in Seq(Rects)
        /\ ts \in Seq(Rects) /\ Among(ts) = {OpenRect(r), TaskbarRect}
    <3>1. rs \in Seq(Rects)
      BY <2>2, StripFacts
    <3>2. OpenRect(r) \in Rects
      BY <1>1, OpenRectIs, AreaFacts
    <3>. QED
      BY <3>1, <3>2, RectFacts, AmongTwo
  <2>. HIDE DEF m, rs, ts
  <2>4. \A p \in Cells : (\A s \in Among(rs) \cup Among(ts) : ~Contains(s, p))
                           => Like(SceneCell(d, p), SceneCell(m, p))
    <3>1. ASSUME NEW p \in Cells, \A s \in Among(rs) \cup Among(ts) : ~Contains(s, p)
          PROVE  Like(SceneCell(d, p), SceneCell(m, p))
      <4>1. ~Contains(OpenRect(r), p) /\ ~Contains(TaskbarRect, p)
            /\ \A s \in Among(rs) : ~Contains(s, p)
        BY <2>3, <3>1
      <4>2. Like(SceneCell(c, p), SceneCell(m, p))
        BY <2>2, <4>1
      <4>. QED
        BY <1>8, <4>2
    <3>. QED
      BY <3>1
  <2>5. Op(d, Redraw(Redraw(m, rs), ts))
    BY <1>3, <2>2, <2>3, <2>4, RedrawTwice
  <2>. QED
    BY <2>1, <2>5
<1>. QED
  BY <1>9, <1>10

-----------------------------------------------------------------------------
(* A left press.  What it acts on is what the cell under it allows.         *)
Says(c, what, id, part) == c[1] = what /\ c[2] = id /\ c[3] = part
Shows(c, what, id) == c[1] = what /\ c[2] = id

LEMMA PaintIs ==
  ASSUME NEW what, NEW id, NEW part, NEW focus
  PROVE  /\ Says(Paint(what, id, part, focus), what, id, part)
         /\ Shows(Paint(what, id, part, focus), what, id)
  BY DEF Says, Shows, Paint

TaskUnder(d, p) == {i \in Slots : Contains(TaskBtn(d, i), p)}

BarActs(d, p) == {Nothing} \cup {"task"} \X TaskUnder(d, p)
MenuActs == {Nothing} \cup {"menu"} \X (1 .. Len(Icons))
BareActs(p) == {Nothing, <<"icon", IconAt(p)>>}
Only(what, id) == {<<what, id>>}
WinActs(part, id) == ActsOfPart(part) \X {id}

LEMMA ActsAre ==
  ASSUME NEW d, NEW p
  PROVE  LET c == SceneCell(d, p)
         IN Acts(d, p) = CASE c[1] = "win" -> WinActs(c[3], c[2])
                           [] c[1] = "menu" /\ c[2] = 0 -> MenuActs
                           [] c[1] = "clock" -> BarActs(d, p)
                           [] c[1] = "background" -> BareActs(p)
                           [] c[1] = "taskbar" -> {Nothing}
                           [] OTHER -> Only(c[1], c[2])
  BY Zenon DEF Acts, TaskUnder, BarActs, MenuActs, BareActs, Only, WinActs

LEMMA ActsOfWin ==
  ASSUME NEW d, NEW p, NEW id, NEW part, Says(SceneCell(d, p), "win", id, part)
  PROVE  Acts(d, p) = ActsOfPart(part) \X {id}
<1>. DEFINE c == SceneCell(d, p)
<1>. HIDE DEF c
<1>1. Acts(d, p) = WinActs(c[3], c[2])
  BY ActsAre DEF Says, c
<1>. QED
  BY <1>1 DEF Says, c, WinActs

LEMMA ActsIs ==
  ASSUME NEW d, NEW p, NEW what, NEW id, Shows(SceneCell(d, p), what, id)
  PROVE  /\ what = "menu" => Acts(d, p) = IF id = 0 THEN MenuActs ELSE Only("menu", id)
         /\ what = "clock" => Acts(d, p) = BarActs(d, p)
         /\ what = "background" => Acts(d, p) = BareActs(p)
         /\ what = "taskbar" => Acts(d, p) = {Nothing}
         /\ what \in {"start", "task", "icon"} => Acts(d, p) = Only(what, id)
<1>. DEFINE c == SceneCell(d, p)
            S == Acts(d, p)
            bar == BarActs(d, p)
            bare == BareActs(p)
            no == {Nothing}
<1>1. S = CASE c[1] = "win" -> WinActs(c[3], c[2])
            [] c[1] = "menu" /\ c[2] = 0 -> MenuActs
            [] c[1] = "clock" -> bar
            [] c[1] = "background" -> bare
            [] c[1] = "taskbar" -> no
            [] OTHER -> Only(c[1], c[2])
  BY ActsAre, Zenon
<1>2. c[1] = what /\ c[2] = id
  BY DEF Shows
<1>. HIDE DEF c, S, bar, bare, no
<1>3. /\ what = "menu" => S = IF id = 0 THEN MenuActs ELSE Only("menu", id)
      /\ what = "clock" => S = bar
      /\ what = "background" => S = bare
      /\ what = "taskbar" => S = no
      /\ what \in {"start", "task", "icon"} => S = Only(what, id)
  BY ONLY <1>1, <1>2
<1>. QED
  BY <1>3, Zenon DEF S, bar, bare, no

\* The press of a poll that goes from d to e, and does one of S.
Press(d, e, S) == DeskOK(e) /\ Repaints(d, e) /\ e.hit \in S

LEMMA DidOK ==
  ASSUME NEW d, NEW e, Op(d, e), NEW what, NEW id, NEW S, <<what, id>> \in S
  PROVE  Press(d, Did(e, what, id), S)
<1>. DEFINE f == Did(e, what, id)
<1>1. DOMAIN e = Fields /\ DeskOK(e) /\ OrderOK(e)
  BY DEF Op, DeskOK
<1>2. /\ DOMAIN f = Fields /\ f.win = e.win /\ f.z = e.z /\ f.drag = e.drag
      /\ f.resize = e.resize /\ f.off = e.off /\ f.grab = e.grab /\ f.menu = e.menu
      /\ f.opens = e.opens /\ f.bb = e.bb /\ f.damage = e.damage /\ f.hit = <<what, id>>
  BY <1>1 DEF Did, Fields
<1>. HIDE DEF f
<1>3. OrderOK(f) /\ HoldOK(f)
  BY <1>1, <1>2 DEF DeskOK, OrderOK, HoldOK, Visible
<1>4. DeskOK(f)
  BY <1>1, <1>2, <1>3 DEF DeskOK
<1>5. Repaints(e, f)
  BY <1>1, <1>2, <1>3, RepaintsNothing
<1>6. Repaints(d, f)
  BY <1>5, RepaintsAgain DEF Op
<1>. QED
  BY <1>2, <1>4, <1>6 DEF Press, f

\* A press that takes hold of window i.
LEMMA HoldsOK ==
  ASSUME NEW d, NEW e, Op(d, e), e.drag = None, e.resize = None, NEW i \in Visible(e),
         NEW what, NEW S, <<what, i>> \in S, NEW off \in Int \X Int, NEW grab \in [at : Int \X Int, w : Int, h : Int]
  PROVE  /\ Press(d, Did([e EXCEPT !.drag = i, !.off = off], what, i), S)
         /\ ~e.win[i].max
              => Press(d, Did([e EXCEPT !.resize = i, !.grab = grab], what, i), S)
<1>1. DOMAIN e = Fields /\ DeskOK(e) /\ OrderOK(e)
  BY DEF Op, DeskOK
<1>2. ASSUME NEW f, DOMAIN f = Fields, f.win = e.win, f.z = e.z, f.menu = e.menu,
             f.opens = e.opens, f.bb = e.bb, f.damage = e.damage, f.hit = <<what, i>>,
             HoldOK(f), f.off \in Int \X Int, f.grab \in [at : Int \X Int, w : Int, h : Int]
      PROVE  Press(d, f, S)
  <2>1. OrderOK(f)
    BY <1>1, <1>2 DEF OrderOK
  <2>2. DeskOK(f)
    BY <1>1, <1>2, <2>1 DEF DeskOK
  <2>3. Repaints(e, f)
    BY <1>1, <1>2, <2>1, RepaintsNothing
  <2>4. Repaints(d, f)
    BY <2>3, RepaintsAgain DEF Op
  <2>. QED
    BY <1>2, <2>2, <2>4 DEF Press
<1>3. Press(d, Did([e EXCEPT !.drag = i, !.off = off], what, i), S)
  <2>. DEFINE f == Did([e EXCEPT !.drag = i, !.off = off], what, i)
  <2>1. /\ DOMAIN f = Fields /\ f.win = e.win /\ f.z = e.z /\ f.drag = i
        /\ f.resize = e.resize /\ f.off = off /\ f.grab = e.grab /\ f.menu = e.menu
        /\ f.opens = e.opens /\ f.bb = e.bb /\ f.damage = e.damage /\ f.hit = <<what, i>>
    BY <1>1 DEF Did, Fields
  <2>. HIDE DEF f
  <2>2. HoldOK(f)
    BY <2>1 DEF HoldOK, Visible
  <2>3. f.grab \in [at : Int \X Int, w : Int, h : Int]
    BY <1>1, <2>1 DEF DeskOK
  <2>. QED
    BY <1>2, <2>1, <2>2, <2>3 DEF f
<1>4. ASSUME ~e.win[i].max
      PROVE  Press(d, Did([e EXCEPT !.resize = i, !.grab = grab], what, i), S)
  <2>. DEFINE f == Did([e EXCEPT !.resize = i, !.grab = grab], what, i)
  <2>1. /\ DOMAIN f = Fields /\ f.win = e.win /\ f.z = e.z /\ f.drag = e.drag
        /\ f.resize = i /\ f.off = e.off /\ f.grab = grab /\ f.menu = e.menu
        /\ f.opens = e.opens /\ f.bb = e.bb /\ f.damage = e.damage /\ f.hit = <<what, i>>
    BY <1>1 DEF Did, Fields
  <2>. HIDE DEF f
  <2>2. HoldOK(f)
    BY <1>4, <2>1 DEF HoldOK, Visible
  <2>3. f.off \in Int \X Int
    BY <1>1, <2>1 DEF DeskOK
  <2>. QED
    BY <1>2, <2>1, <2>2, <2>3 DEF f
<1>. QED
  BY <1>3, <1>4

LEMMA TaskbarWinIs ==
  ASSUME NEW d, NEW p
  PROVE  LET under == {i \in TaskUnder(d, p) : d.win[i].used}
             i == TaskbarWinAt(d, p)
         IN IF under = {} THEN i = None ELSE i \in under /\ i \in Slots /\ i # None
<1>. DEFINE under == {i \in TaskUnder(d, p) : d.win[i].used}
            at == {i \in Slots : d.win[i].used /\ Contains(TaskBtn(d, i), p)}
<1>1. under = at
  BY DEF TaskUnder
<1>2. TaskbarWinAt(d, p) = IF at = {} THEN None ELSE Min(at)
  BY Zenon DEF TaskbarWinAt
<1>3. at \in SUBSET Nat /\ at \subseteq Slots /\ None \notin Slots
  <2>1. None \notin Slots
    BY DesktopAssumption
  <2>2. Slots \subseteq Nat
    BY DEF Slots
  <2>. QED
    BY <2>1, <2>2
<1>. HIDE DEF at, under
<1>4. at # {} => Min(at) \in at
  BY <1>3, MinIs
<1>. QED
  BY <1>1, <1>2, <1>3, <1>4 DEF under

LEMMA UpTo ==
  ASSUME NEW m \in Nat, NEW n \in Nat, NEW k \in Nat, m + 1 <= n
  PROVE  m * k + k <= n * k
<1>1. PICK c \in Nat : n = m + 1 + c
  <2>1. n - m - 1 \in Nat /\ n = m + 1 + (n - m - 1)
    OBVIOUS
  <2>. QED
    BY <2>1
<1>2. n * k = m * k + k + c * k /\ c * k \in Nat /\ m * k \in Nat
  BY <1>1
<1>. QED
  BY <1>2

\* A slot in use has a place before those of the slots after it, so no cell is in
\* the buttons of two.
LEMMA TaskPlaces ==
  ASSUME NEW d, NEW i \in Slots, NEW j \in Slots, i < j, d.win[i].used
  PROVE  /\ TaskPlace(d, i) \in Nat /\ TaskPlace(d, j) \in Nat
         /\ TaskPlace(d, i) + 1 <= TaskPlace(d, j)
<1>. DEFINE S(n) == {k \in Slots : k < n /\ d.win[k].used}
<1>1. IsFiniteSet(Slots)
  BY ScreenFacts, CountUpTo DEF Slots
<1>2. ASSUME NEW n PROVE IsFiniteSet(S(n)) /\ Cardinality(S(n)) \in Nat
  <2>1. S(n) \subseteq Slots
    OBVIOUS
  <2>. HIDE DEF S
  <2>2. IsFiniteSet(S(n))
    BY <1>1, <2>1, FS_Subset
  <2>. QED
    BY <2>2, FS_CardinalityType
<1>3. i \notin S(i) /\ S(i) \cup {i} \subseteq S(j)
  BY DEF Slots
<1>. HIDE DEF S
<1>4. /\ IsFiniteSet(S(i) \cup {i}) /\ Cardinality(S(i) \cup {i}) = Cardinality(S(i)) + 1
  BY <1>2, <1>3, FS_AddElement
<1>5. Cardinality(S(i) \cup {i}) <= Cardinality(S(j))
  BY <1>2, <1>3, FS_Subset
<1>. QED
  BY <1>2, <1>4, <1>5 DEF TaskPlace, S

LEMMA TaskApart ==
  ASSUME NEW d, NEW p \in Cells, NEW i \in TaskUnder(d, p), NEW j \in TaskUnder(d, p),
         d.win[i].used, d.win[j].used
  PROVE  i = j
<1>1. p[1] \in Int /\ i \in Int /\ j \in Int
  BY CellFacts DEF TaskUnder, Slots
<1>2. \A m, n \in TaskUnder(d, p) : d.win[m].used => ~(m < n)
  <2>. SUFFICES ASSUME NEW m \in TaskUnder(d, p), NEW n \in TaskUnder(d, p),
                       d.win[m].used, m < n
                PROVE  FALSE
    OBVIOUS
  <2>. DEFINE a == TaskPlace(d, m)
              b == TaskPlace(d, n)
              k == TaskW + TaskGap
  <2>1. a \in Nat /\ b \in Nat /\ a + 1 <= b
    BY TaskPlaces DEF TaskUnder
  <2>2. /\ p[1] < TaskX0 + a * k + TaskW /\ p[1] >= TaskX0 + b * k
    BY DEF TaskUnder, TaskBtn, TaskBtnX, Contains, Rect
  <2>3. k \in Nat /\ TaskW <= k /\ TaskX0 \in Nat /\ TaskW \in Nat
    BY SizeFacts
  <2>. HIDE DEF a, b, k
  <2>4. a * k + k <= b * k /\ a * k \in Int /\ b * k \in Int
    BY <2>1, <2>3, UpTo
  <2>. QED
    BY <1>1, <2>2, <2>3, <2>4
<1>. QED
  BY <1>1, <1>2

\* What a cell of the taskbar shows, by what may be pressed there.
LEMMA TaskbarShown ==
  ASSUME NEW d, NEW p \in Cells, p[2] >= WorkH
  PROVE  LET i == TaskbarWinAt(d, p)
         IN IF Contains(StartRect, p) THEN <<"start", 0>> \in Acts(d, p)
            ELSE IF i = None THEN Nothing \in Acts(d, p) ELSE <<"task", i>> \in Acts(d, p)
<1>. DEFINE i == TaskbarWinAt(d, p)
            under == {k \in TaskUnder(d, p) : d.win[k].used}
<1>1. p[1] \in Nat /\ p[2] \in Nat /\ p[2] >= WorkH
  BY CellFacts
<1>2. ~Contains(MenuRect, p)
  BY <1>1, ScreenFacts, MenuFacts DEF Contains
<1>3. SceneCell(d, p) = TaskbarCell(d, p)
  BY <1>2, SceneParts
<1>4. /\ IF under = {} THEN i = None ELSE i \in under /\ i \in Slots /\ i # None
      /\ under \subseteq TaskUnder(d, p)
  BY TaskbarWinIs
<1>5. Contains(ClockRect, p) => /\ Acts(d, p) = BarActs(d, p)
                                /\ ~Contains(StartRect, p)
  <2>1. ASSUME Contains(ClockRect, p)
        PROVE  Shows(SceneCell(d, p), "clock", 0)
    <3>1. SceneCell(d, p) = Paint("clock", 0, "", FALSE)
      BY <1>3, <2>1, Zenon DEF TaskbarCell
    <3>. QED
      BY <3>1, PaintIs, Zenon
  <2>2. Contains(ClockRect, p) => ~Contains(StartRect, p)
    <3>1. StartX + StartW <= ScrW - ClockR - ClockW
      BY DesktopAssumption
    <3>2. ScrW \in Nat
      BY ScreenSize
    <3>. QED
      BY <1>1, <3>1, <3>2, SizeFacts DEF Contains, ClockRect, StartRect, Rect
  <2>3. Shows(SceneCell(d, p), "clock", 0) => Acts(d, p) = BarActs(d, p)
    BY ActsIs
  <2>. QED
    BY <2>1, <2>2, <2>3, Zenon
<1>6. Contains(StartRect, p) => under = {}
  <2>1. ASSUME Contains(StartRect, p), NEW k \in under PROVE FALSE
    <3>. DEFINE n == TaskPlace(d, k)
    <3>1. n \in Nat
      <4>1. {j \in Slots : j < k /\ d.win[j].used} \subseteq Slots /\ IsFiniteSet(Slots)
        BY ScreenFacts, CountUpTo DEF Slots
      <4>. QED
        BY <4>1, FS_Subset, FS_CardinalityType DEF TaskPlace
    <3>2. p[1] >= TaskX0 + n * (TaskW + TaskGap) /\ p[1] < StartX + StartW
      BY <2>1 DEF TaskUnder, TaskBtn, TaskBtnX, Contains, StartRect, Rect
    <3>. HIDE DEF n
    <3>3. n * (TaskW + TaskGap) \in Nat
      BY <3>1, SizeFacts
    <3>4. StartX + StartW <= TaskX0
      BY DesktopAssumption
    <3>. QED
      BY <1>1, <3>2, <3>3, <3>4, SizeFacts
  <2>. QED
    BY <2>1
<1>7. ~Contains(ClockRect, p) =>
        /\ under # {} => Acts(d, p) = Only("task", i)
        /\ under = {} /\ Contains(StartRect, p) => Acts(d, p) = Only("start", 0)
        /\ under = {} /\ ~Contains(StartRect, p) => Acts(d, p) = {Nothing}
  <2>. SUFFICES ASSUME ~Contains(ClockRect, p)
                PROVE  /\ under # {} => Acts(d, p) = Only("task", i)
                       /\ under = {} /\ Contains(StartRect, p) => Acts(d, p) = Only("start", 0)
                       /\ under = {} /\ ~Contains(StartRect, p) => Acts(d, p) = {Nothing}
    OBVIOUS
  <2>. DEFINE drawn == {k \in Slots : d.win[k].used /\ Contains(TaskBtn(d, k), p)}
              focus == Max(drawn) = WinTopmostIndex(d)
  <2>1. under = drawn
    BY DEF TaskUnder
  <2>2. SceneCell(d, p) =
          IF drawn # {} THEN Paint("task", Max(drawn), "", focus)
          ELSE Paint(IF Contains(StartRect, p) THEN "start" ELSE "taskbar", 0, "", FALSE)
    BY <1>3, Zenon DEF TaskbarCell
  <2>3. drawn # {} => Max(drawn) = i
    <3>1. MaxWindows - 1 \in Nat /\ drawn \in SUBSET (0 .. (MaxWindows - 1))
      BY ScreenFacts DEF Slots
    <3>. HIDE DEF drawn, under, i
    <3>2. drawn # {} => Max(drawn) \in drawn
      BY <3>1, MaxIs
    <3>3. \A m, n \in under : m = n
      BY TaskApart DEF under
    <3>. QED
      BY <1>4, <2>1, <3>2, <3>3
  <2>. HIDE DEF drawn, focus, under, i
  <2>4. /\ drawn # {} => Shows(SceneCell(d, p), "task", i)
        /\ drawn = {} /\ Contains(StartRect, p) => Shows(SceneCell(d, p), "start", 0)
        /\ drawn = {} /\ ~Contains(StartRect, p) => Shows(SceneCell(d, p), "taskbar", 0)
    <3>1. drawn # {} => SceneCell(d, p) = Paint("task", i, "", focus)
      BY <2>2, <2>3, Zenon
    <3>2. drawn = {} /\ Contains(StartRect, p) => SceneCell(d, p) = Paint("start", 0, "", FALSE)
      BY <2>2, Zenon
    <3>3. drawn = {} /\ ~Contains(StartRect, p) => SceneCell(d, p) = Paint("taskbar", 0, "", FALSE)
      BY <2>2, Zenon
    <3>. QED
      BY ONLY <3>1, <3>2, <3>3, PaintIs, Zenon
  <2>5. /\ Shows(SceneCell(d, p), "task", i) => Acts(d, p) = Only("task", i)
        /\ Shows(SceneCell(d, p), "start", 0) => Acts(d, p) = Only("start", 0)
        /\ Shows(SceneCell(d, p), "taskbar", 0) => Acts(d, p) = {Nothing}
    <3>. HIDE DEF i
    <3>. QED
      BY ActsIs
  <2>. QED
    BY <2>1, <2>4, <2>5, Zenon
<1>. HIDE DEF under, i
<1>8. IF Contains(StartRect, p) THEN <<"start", 0>> \in Acts(d, p)
      ELSE IF i = None THEN Nothing \in Acts(d, p) ELSE <<"task", i>> \in Acts(d, p)
  <2>1. CASE Contains(ClockRect, p)
    <3>1. i # None => i \in TaskUnder(d, p)
      BY <1>4
    <3>. QED
      BY <1>5, <2>1, <3>1 DEF BarActs
  <2>2. CASE ~Contains(ClockRect, p)
    BY <1>4, <1>6, <1>7, <2>2 DEF Only
  <2>. QED
    BY <2>1, <2>2
<1>. QED
  BY <1>8 DEF i

LEMMA PressTaskbarOK ==
  ASSUME NEW d, DeskOK(d), d.hit = Nothing, NEW p \in Cells, p[2] >= WorkH
  PROVE  Press(d, PressTaskbar(d, p), Acts(d, p))
<1>. DEFINE i == TaskbarWinAt(d, p)
            c == CloseStartMenu(d)
<1>1. /\ Op(d, c) /\ Op(d, OpenStartMenu(d)) /\ c.win = d.win /\ DeskOK(c)
  BY MenuOp DEF Op
<1>. HIDE DEF c
<1>2. CASE Contains(StartRect, p)
  <2>. DEFINE e == IF d.menu THEN c ELSE OpenStartMenu(d)
  <2>1. Op(d, e)
    BY <1>1
  <2>2. PressTaskbar(d, p) = Did(e, "start", 0)
    BY <1>2 DEF PressTaskbar, c
  <2>. QED
    BY <1>2, <2>1, <2>2, DidOK, TaskbarShown
<1>3. CASE ~Contains(StartRect, p) /\ i = None
  <2>1. PressTaskbar(d, p) = c
    BY <1>3 DEF PressTaskbar, c
  <2>2. Nothing \in Acts(d, p)
    BY <1>3, TaskbarShown
  <2>. QED
    BY <1>1, <2>1, <2>2 DEF Press, Op
<1>4. CASE ~Contains(StartRect, p) /\ i # None
  <2>. DEFINE e == IF d.win[i].min THEN WinRestoreFromTaskbar(c, i) ELSE WinRaise(c, i)
  <2>1. i \in Slots /\ d.win[i].used
    BY <1>4, TaskbarWinIs
  <2>2. PressTaskbar(d, p) = Did(e, "task", i)
    BY <1>4 DEF PressTaskbar, c
  <2>3. <<"task", i>> \in Acts(d, p)
    BY <1>4, TaskbarShown
  <2>. HIDE DEF i
  <2>4. Op(c, e)
    <3>1. CASE d.win[i].min
      BY <1>1, <2>1, <3>1, RestoreOp
    <3>2. CASE ~d.win[i].min
      <4>1. i \in Visible(c)
        BY <1>1, <2>1, <3>2 DEF Visible
      <4>. QED
        BY <1>1, <3>2, <4>1, RaiseOp
    <3>. QED
      BY <3>1, <3>2
  <2>5. Op(d, e)
    BY <1>1, <2>4, OpTrans
  <2>. QED
    BY <2>2, <2>3, <2>5, DidOK
<1>. QED
  BY <1>2, <1>3, <1>4

LEMMA QuotientIs ==
  ASSUME NEW a \in Nat, NEW b \in Nat, b > 0
  PROVE  /\ a \div b \in Nat
         /\ \A q \in Nat : q * b <= a /\ a < q * b + b => a \div b = q
<1>. DEFINE t == a \div b
<1>1. t \in Nat /\ t * b <= a /\ a < t * b + b
  OBVIOUS
<1>. HIDE DEF t
<1>2. ASSUME NEW q \in Nat, q * b <= a, a < q * b + b PROVE t = q
  <2>1. t * b \in Int /\ q * b \in Int
    BY <1>1
  <2>2. t + 1 <= q => t * b + b <= q * b
    BY <1>1, UpTo
  <2>3. q + 1 <= t => q * b + b <= t * b
    BY <1>1, UpTo
  <2>4. ~(t + 1 <= q) /\ ~(q + 1 <= t)
    BY <1>1, <1>2, <2>1, <2>2, <2>3
  <2>. QED
    BY <1>1, <2>4
<1>. QED
  BY <1>1, <1>2 DEF t

LEMMA PressMenuOK ==
  ASSUME NEW d, DeskOK(d), d.hit = Nothing, NEW p \in Cells, d.menu, Contains(MenuRect, p)
  PROVE  Press(d, PressMenu(d, p), Acts(d, p))
<1>. DEFINE off == p[2] - MenuRect.y - MenuPad
            row == IF off < 0 THEN -((-off) \div ItemH) ELSE off \div ItemH
            rows == {k \in 1 .. Len(Icons) : Contains(ItemRect(k), p)}
            c == CloseStartMenu(d)
            id == IF rows = {} THEN 0 ELSE Max(rows)
<1>1. Op(d, c) /\ DeskOK(c)
  BY MenuOp DEF Op
<1>2. PressMenu(d, p) = IF row \in 0 .. Len(Icons) - 1
                        THEN Did(IconOpen(c, row + 1), "menu", row + 1) ELSE d
  BY Zenon DEF PressMenu
<1>3. Acts(d, p) = IF id = 0 THEN MenuActs ELSE Only("menu", id)
  <2>1. SceneCell(d, p) = MenuCell(p)
    BY SceneParts
  <2>2. MenuCell(p) = Paint("menu", id, "", FALSE)
    BY Zenon DEF MenuCell
  <2>. HIDE DEF id
  <2>3. Shows(SceneCell(d, p), "menu", id)
    BY <2>1, <2>2, PaintIs, Zenon
  <2>. QED
    BY <2>3, ActsIs
<1>4. /\ ItemH \in Nat /\ ItemH > 0 /\ MenuPad \in Nat /\ MenuPad < ItemH /\ ItemGap \in Nat
      /\ MenuRect.y \in Nat /\ p[2] \in Nat /\ MenuRect.y <= p[2] /\ Len(Icons) \in Nat
  <2>1. MenuPad < ItemH
    BY DesktopAssumption
  <2>2. MenuRect.y <= p[2]
    BY CellFacts, MenuFacts DEF Contains
  <2>. QED
    BY <2>1, <2>2, SizeFacts, MenuFacts, CellFacts, ScreenFacts
<1>5. off \in Int /\ (off < 0 => -off \in Nat) /\ (~(off < 0) => off \in Nat)
  <2>. DEFINE top == MenuRect.y
              at == p[2]
  <2>1. top \in Int /\ at \in Int /\ MenuPad \in Int
    BY <1>4
  <2>. HIDE DEF top, at
  <2>2. at - top - MenuPad \in Int
    BY <2>1
  <2>3. off \in Int
    BY <2>2 DEF top, at
  <2>. HIDE DEF off
  <2>. QED
    BY <2>3
<1>6. row \in Int
  <2>1. off < 0 => (-off) \div ItemH \in Nat
    BY <1>4, <1>5, QuotientIs
  <2>2. ~(off < 0) => off \div ItemH \in Nat
    BY <1>4, <1>5, QuotientIs
  <2>. QED
    BY <2>1, <2>2
<1>7. ASSUME NEW k \in rows PROVE row = k - 1
  <2>. DEFINE n == (k - 1) * ItemH
  <2>1. k - 1 \in Nat /\ n \in Nat
    BY <1>4
  <2>2. ItemRect(k).y = MenuRect.y + MenuPad + n /\ ItemRect(k).h = ItemH - ItemGap
    BY DEF ItemRect, Rect
  <2>3. Contains(ItemRect(k), p)
    OBVIOUS
  <2>. HIDE DEF n
  <2>4. p[2] >= MenuRect.y + MenuPad + n /\ p[2] < MenuRect.y + MenuPad + n + (ItemH - ItemGap)
    BY <2>2, <2>3 DEF Contains
  <2>5. ~(off < 0) /\ n <= off /\ off < n + ItemH
    <3>. DEFINE top == MenuRect.y
                at == p[2]
    <3>1. /\ top \in Int /\ at \in Int /\ at >= top + MenuPad + n
          /\ at < top + MenuPad + n + (ItemH - ItemGap)
      BY <1>4, <2>4
    <3>. HIDE DEF top, at
    <3>2. ~(at - top - MenuPad < 0) /\ n <= at - top - MenuPad /\ at - top - MenuPad < n + ItemH
      BY <1>4, <2>1, <3>1
    <3>. QED
      BY <3>2 DEF top, at
  <2>6. off \div ItemH = k - 1
    <3>. HIDE DEF off
    <3>. QED
      BY <1>4, <1>5, <2>1, <2>5, QuotientIs DEF n
  <2>. QED
    BY <2>5, <2>6
<1>8. rows # {} => id \in rows
  <2>1. rows \in SUBSET (0 .. Len(Icons))
    BY ScreenFacts
  <2>. HIDE DEF rows
  <2>. QED
    BY <2>1, ScreenFacts, MaxIs
<1>. HIDE DEF row, off, c
<1>9. row \in 0 .. Len(Icons) - 1 => Op(d, IconOpen(c, row + 1))
  <2>1. row \in 0 .. Len(Icons) - 1 => row + 1 \in 1 .. Len(Icons)
    BY <1>4
  <2>. QED
    BY <1>1, <2>1, IconOpenOp, OpTrans
<1>10. CASE rows = {}
  <2>1. Acts(d, p) = MenuActs
    BY <1>3, <1>10
  <2>2. CASE row \in 0 .. Len(Icons) - 1
    <3>1. <<"menu", row + 1>> \in MenuActs
      BY <1>4, <2>2 DEF MenuActs
    <3>. QED
      BY <1>2, <1>9, <2>1, <2>2, <3>1, DidOK
  <2>3. CASE row \notin 0 .. Len(Icons) - 1
    <3>1. PressMenu(d, p) = d /\ Nothing \in Acts(d, p)
      BY <1>2, <2>1, <2>3 DEF MenuActs
    <3>. QED
      BY <3>1, OpSame DEF Press, Op
  <2>. QED
    BY <2>2, <2>3
<1>11. CASE rows # {}
  <2>1. id \in rows /\ id \in 1 .. Len(Icons) /\ row = id - 1
    BY <1>7, <1>8, <1>11
  <2>. HIDE DEF id, rows
  <2>2. id # 0 /\ row \in 0 .. Len(Icons) - 1 /\ row + 1 = id
    BY <1>4, <2>1
  <2>3. <<"menu", id>> \in Acts(d, p)
    BY <1>3, <2>2 DEF Only
  <2>4. PressMenu(d, p) = Did(IconOpen(c, id), "menu", id)
    BY <1>2, <2>2
  <2>5. Op(d, IconOpen(c, id))
    BY <1>9, <2>2
  <2>. QED
    BY <2>3, <2>4, <2>5, DidOK
<1>. QED
  BY <1>10, <1>11

\* An icon's tile is inside what icon_at hits, and no two of those touch.
HitIcons(p) == {k \in 1 .. Len(Icons) : Contains([IconRect(k) EXCEPT !.h = IconH + LabelH], p)}

LEMMA IconIs ==
  ASSUME NEW p \in Cells
  PROVE  /\ IF HitIcons(p) = {} THEN IconAt(p) = None
            ELSE IconAt(p) \in HitIcons(p) /\ IconAt(p) \in 1 .. Len(Icons) /\ IconAt(p) # None
         /\ \A k \in 1 .. Len(Icons) : Contains(IconRect(k), p) => k \in HitIcons(p)
         /\ \A j, k \in HitIcons(p) : j = k
<1>. DEFINE at == HitIcons(p)
<1>1. IconAt(p) = IF at = {} THEN None ELSE Min(at)
  BY Zenon DEF IconAt, HitIcons
<1>2. at \in SUBSET Nat /\ at \subseteq 1 .. Len(Icons) /\ None \notin at
  <2>1. None \notin 1 .. Len(Icons)
    BY DesktopAssumption
  <2>2. at \subseteq 1 .. Len(Icons)
    BY DEF HitIcons
  <2>. QED
    BY <2>1, <2>2, ScreenFacts
<1>3. p[1] \in Nat /\ p[2] \in Nat
  BY CellFacts
<1>4. ASSUME NEW k \in 1 .. Len(Icons)
      PROVE  /\ IconRect(k).y = IconY0 + (k - 1) * IconStep
             /\ Contains(IconRect(k), p) => k \in at
             /\ k \in at => /\ IconY0 + (k - 1) * IconStep <= p[2]
                            /\ p[2] < IconY0 + (k - 1) * IconStep + (IconH + LabelH)
  <2>. DEFINE n == (k - 1) * IconStep
              r == Rect(IconX0, IconY0 + n, IconW, IconH)
              s == Rect(IconX0, IconY0 + n, IconW, IconH + LabelH)
  <2>1. n \in Nat
    BY ScreenFacts, SizeFacts
  <2>2. IconRect(k) = r /\ [IconRect(k) EXCEPT !.h = IconH + LabelH] = s
    BY DEF IconRect, Rect
  <2>3. k \in at <=> Contains(s, p)
    BY <2>2 DEF HitIcons
  <2>. HIDE DEF n
  <2>4. Contains(r, p) => Contains(s, p)
    BY <1>3, <2>1, SizeFacts DEF Contains, Rect
  <2>5. Contains(s, p) => IconY0 + n <= p[2] /\ p[2] < IconY0 + n + (IconH + LabelH)
    BY <1>3, <2>1, SizeFacts DEF Contains, Rect
  <2>6. r.y = IconY0 + n
    BY DEF Rect
  <2>. QED
    BY <2>2, <2>3, <2>4, <2>5, <2>6 DEF n
<1>5. ASSUME NEW j \in at, NEW k \in at, j < k PROVE FALSE
  <2>1. j \in Nat /\ k \in Nat /\ j \in 1 .. Len(Icons) /\ k \in 1 .. Len(Icons)
        /\ j - 1 \in Nat /\ k - 1 \in Nat /\ (j - 1) + 1 <= k - 1
    BY <1>2, <1>5, ScreenFacts
  <2>. DEFINE m == (j - 1) * IconStep
              n == (k - 1) * IconStep
  <2>2. m + IconStep <= n /\ m \in Nat /\ n \in Nat
    BY <2>1, UpTo, SizeFacts
  <2>3. p[2] < IconY0 + m + (IconH + LabelH) /\ IconY0 + n <= p[2]
    BY <1>4, <2>1
  <2>4. IconH + LabelH <= IconStep
    BY DesktopAssumption
  <2>. HIDE DEF m, n
  <2>. QED
    BY <1>3, <2>2, <2>3, <2>4, SizeFacts
<1>. HIDE DEF at
<1>6. at # {} => Min(at) \in at
  BY <1>2, MinIs
<1>7. \A j, k \in at : j = k
  <2>1. \A j, k \in at : ~(j < k) /\ j \in Nat /\ k \in Nat
    BY <1>2, <1>5
  <2>. QED
    BY <2>1
<1>8. IF at = {} THEN IconAt(p) = None
      ELSE IconAt(p) \in at /\ IconAt(p) \in 1 .. Len(Icons) /\ IconAt(p) # None
  BY <1>1, <1>2, <1>6
<1>. QED
  BY <1>4, <1>7, <1>8 DEF at

LEMMA PressBareOK ==
  ASSUME NEW d, DeskOK(d), d.hit = Nothing, NEW p \in Cells, p[2] < WorkH,
         ~(d.menu /\ Contains(MenuRect, p)), WinTopmostAt(d, p) = None
  PROVE  Press(d, PressBare(CloseStartMenu(d), p), Acts(d, p))
<1>. DEFINE k == IconAt(p)
            c == CloseStartMenu(d)
            tiles == {n \in 1 .. Len(Icons) : Contains(IconRect(n), p)}
<1>1. Op(d, c) /\ DeskOK(c) /\ c.hit = d.hit
  BY MenuOp DEF Op
<1>2. SceneCell(d, p) = BareCell(p)
  <2>1. ~(p[2] >= WorkH)
    <3>1. p[2] \in Nat /\ WorkH \in Nat /\ p[2] < WorkH
      BY CellFacts, ScreenFacts
    <3>. QED
      BY ONLY <3>1
  <2>. QED
    BY <2>1, SceneParts
<1>3. BareCell(p) = IF tiles # {} THEN Paint("icon", Max(tiles), "", FALSE) ELSE Background
  BY Zenon DEF BareCell
<1>4. /\ tiles \subseteq HitIcons(p)
      /\ tiles # {} => Max(tiles) \in tiles
  <2>1. tiles \in SUBSET (0 .. Len(Icons))
    BY ScreenFacts
  <2>2. tiles \subseteq HitIcons(p)
    BY IconIs
  <2>. HIDE DEF tiles
  <2>. QED
    BY <2>1, <2>2, ScreenFacts, MaxIs
<1>5. /\ tiles = {} => Acts(d, p) = BareActs(p)
      /\ tiles # {} => Acts(d, p) = Only("icon", k) /\ k # None
  <2>1. tiles # {} => Max(tiles) = k /\ k # None
    <3>. HIDE DEF tiles
    <3>. QED
      BY <1>4, IconIs
  <2>. HIDE DEF tiles, k
  <2>2. /\ tiles = {} => Shows(SceneCell(d, p), "background", 0)
        /\ tiles # {} => Shows(SceneCell(d, p), "icon", k)
    <3>1. tiles = {} => SceneCell(d, p) = Paint("background", 0, "", FALSE)
      BY <1>2, <1>3, Zenon DEF Background
    <3>2. tiles # {} => SceneCell(d, p) = Paint("icon", k, "", FALSE)
      BY <1>2, <1>3, <2>1, Zenon
    <3>. QED
      BY ONLY <3>1, <3>2, PaintIs, Zenon
  <2>. QED
    BY <2>1, <2>2, ActsIs
<1>. HIDE DEF c, tiles
<1>6. CASE k = None
  <2>1. PressBare(c, p) = c
    BY <1>6 DEF PressBare
  <2>2. Nothing \in Acts(d, p)
    BY <1>5, <1>6 DEF BareActs
  <2>. QED
    BY <1>1, <2>1, <2>2 DEF Press, Op, c
<1>7. CASE k # None
  <2>1. PressBare(c, p) = Did(IconOpen(c, k), "icon", k)
    BY <1>7 DEF PressBare
  <2>2. k \in 1 .. Len(Icons)
    BY <1>7, IconIs
  <2>3. <<"icon", k>> \in Acts(d, p)
    BY <1>5 DEF BareActs, Only
  <2>. HIDE DEF k
  <2>4. Op(d, IconOpen(c, k))
    BY <1>1, <2>2, IconOpenOp, OpTrans
  <2>. QED
    BY <2>1, <2>3, <2>4, DidOK DEF c
<1>. QED
  BY <1>6, <1>7

\* The button, the grip, the title or the body that a press in a window finds is
\* one that the part shown there stands for.
LEMMA PartIs ==
  ASSUME NEW w, InArea(w.rect), NEW p, Contains(w.rect, p), p[1] \in Int, p[2] \in Int
  PROVE  LET r == w.rect
             b == WinButtonAt(r, p)
             acts == ActsOfPart(WinPart(w, p))
         IN \/ b \in {"close", "max", "min"} /\ ~OnGrip(w, p) /\ b \in acts
            \/ b = "none" /\ OnGrip(w, p) /\ "grip" \in acts
            \/ b = "none" /\ ~OnGrip(w, p) /\ p[2] < r.y + TitleH /\ "title" \in acts
            \/ b = "none" /\ ~OnGrip(w, p) /\ ~(p[2] < r.y + TitleH) /\ "body" \in acts
<1>. DEFINE r == w.rect
            x == r.x
            y == r.y
            b == WinButtonAt(r, p)
            grip == OnGrip(w, p)
            part == WinPart(w, p)
            bar == \E n \in 1 .. 3 : OnButton(r, n, p)
            left == BtnX(r, 1)
            middle == BtnX(r, 2)
            right == BtnX(r, 3)
            row == p[2] >= y + BtnTop /\ p[2] < y + BtnTop + BtnH
<1>1. /\ x \in Int /\ y \in Int /\ r.w \in Int /\ r.h \in Int /\ r.w >= MinW /\ r.h >= MinH
      /\ x <= p[1] /\ p[1] < x + r.w /\ y <= p[2] /\ p[2] < y + r.h
  BY AreaFacts DEF InArea, Contains
<1>2. /\ TitleH \in Nat /\ Gutter \in Nat /\ MinH \in Nat /\ MinW \in Nat /\ BtnTop \in Nat
      /\ BtnH \in Nat /\ BtnW \in Nat /\ BtnMargin \in Nat /\ BtnGap \in Nat /\ TextY \in Nat
      /\ TitleH + Gutter < MinH /\ BtnTop > 0 /\ BtnTop + BtnH <= TitleH
      /\ BtnMargin + BtnW > 0 /\ 3 * BtnW + 2 * BtnGap + BtnMargin < MinW /\ TextY > TitleH
  BY SizeFacts, DesktopAssumption
<1>3. /\ left = x + r.w - BtnMargin - BtnW
      /\ middle = x + r.w - BtnMargin - 2 * BtnW - BtnGap
      /\ right = x + r.w - BtnMargin - 3 * BtnW - 2 * BtnGap
  BY <1>1, <1>2 DEF BtnX
<1>4. b = IF ~Contains(r, p) \/ p[2] >= y + TitleH \/ p[2] < y + BtnTop \/ p[2] >= y + BtnTop + BtnH
          THEN "none"
          ELSE IF p[1] >= left THEN "close"
          ELSE IF p[1] >= middle THEN "max"
          ELSE IF p[1] >= right THEN "min" ELSE "none"
  BY Zenon DEF WinButtonAt
<1>5. part = IF bar THEN Buttons[CHOOSE n \in 1 .. 3 : OnButton(r, n, p)]
             ELSE IF OnMark(w, p) THEN "grip"
             ELSE IF IsInfo(w) /\ Contains(TextRect(w), p) THEN "text"
             ELSE IF OnBorder(r, p) THEN "border"
             ELSE IF p[2] < y + TitleH THEN "title"
             ELSE IF p[2] = y + TitleH THEN "edge" ELSE "body"
  BY Zenon DEF WinPart
<1>6. grip <=> ~w.max /\ p[1] >= x + r.w - Gutter /\ p[2] >= y + r.h - Gutter
  BY DEF OnGrip
<1>7. /\ ActsOfPart("close") = {"close"} /\ ActsOfPart("max") = {"max"}
      /\ ActsOfPart("min") = {"min"} /\ ActsOfPart("grip") = {"grip"}
      /\ ActsOfPart("title") = {"title", "close", "max", "min"}
      /\ ActsOfPart("edge") = {"body"} /\ ActsOfPart("body") = {"body", "grip"}
      /\ ActsOfPart("text") = {"body", "grip"}
      /\ ActsOfPart("border") = {"title", "close", "body", "grip"}
  BY DEF ActsOfPart
<1>8. Contains(r, p) /\ (grip \/ ~grip)
  OBVIOUS
<1>9. \A n \in 1 .. 3 : OnButton(r, n, p) => /\ row /\ p[1] >= BtnX(r, n) /\ p[1] < BtnX(r, n) + BtnW
  BY DEF OnButton, Contains, Rect
<1>10. OnMark(w, p) => grip
  <2>1. ASSUME OnMark(w, p) PROVE ~w.max /\ p[1] >= x + r.w - Gutter /\ p[2] >= y + r.h - Gutter
    <3>1. PICK m \in Marks : Contains([m EXCEPT !.x = @ + r.x + r.w, !.y = @ + r.y + r.h], p)
      BY <2>1, Zenon DEF OnMark
    <3>2. ~w.max
      BY <2>1 DEF OnMark
    <3>3. /\ m \in [x : Int, y : Int, w : Nat, h : Nat] /\ m.x >= -Gutter /\ m.y >= -Gutter
      BY DesktopAssumption
    <3>4. p[1] >= m.x + x + r.w /\ p[2] >= m.y + y + r.h
      BY <3>1, <3>3 DEF Contains
    <3>. HIDE DEF x, y, r
    <3>5. m.x \in Int /\ m.y \in Int
      BY <3>3
    <3>. QED
      BY <1>1, <1>2, <3>2, <3>3, <3>4, <3>5
  <2>. QED
    BY <1>6, <2>1
<1>11. Contains(TextRect(w), p) => p[2] >= y + TextY
  BY DEF Contains, TextRect, Rect
<1>12. OnBorder(r, p) => \/ p[1] = x \/ p[1] = x + r.w - 1 \/ p[2] = y \/ p[2] = y + r.h - 1
  BY DEF OnBorder
<1>. HIDE DEF b, grip, part, bar, left, middle, right, x, y, r
<1>13. p[2] < y + TitleH => ~grip
  BY <1>1, <1>2, <1>6
<1>14. ~(p[2] < y + TitleH) => b = "none"
  BY <1>1, <1>2, <1>4
<1>15. /\ b \in {"close", "max", "min", "none"}
       /\ b # "none" => p[2] < y + TitleH /\ row
  BY <1>1, <1>2, <1>4
<1>16. CASE bar
  <2>. DEFINE n == CHOOSE n \in 1 .. 3 : OnButton(r, n, p)
  <2>1. n \in 1 .. 3 /\ OnButton(r, n, p)
    BY <1>16 DEF bar
  <2>2. part = Buttons[n]
    BY <1>5, <1>16, Zenon
  <2>. HIDE DEF n
  <2>3. row /\ p[1] >= BtnX(r, n) /\ p[1] < BtnX(r, n) + BtnW
    BY <1>9, <2>1
  <2>4. p[2] < y + TitleH /\ ~(p[2] >= y + TitleH)
    BY <1>1, <1>2, <2>3
  <2>5. b = part /\ part \in {"close", "max", "min"}
    <3>1. CASE n = 1
      <4>1. part = "close" /\ p[1] >= left
        BY <2>2, <2>3, <3>1 DEF Buttons, left
      <4>. QED
        BY <1>1, <1>2, <1>4, <1>8, <2>3, <2>4, <4>1
    <3>2. CASE n = 2
      <4>1. part = "max" /\ p[1] >= middle /\ p[1] < middle + BtnW
        BY <2>2, <2>3, <3>2 DEF Buttons, middle
      <4>2. ~(p[1] >= left)
        BY <1>1, <1>2, <1>3, <4>1
      <4>. QED
        BY <1>1, <1>2, <1>4, <1>8, <2>3, <2>4, <4>1, <4>2
    <3>3. CASE n = 3
      <4>1. part = "min" /\ p[1] >= right /\ p[1] < right + BtnW
        BY <2>2, <2>3, <3>3 DEF Buttons, right
      <4>2. ~(p[1] >= left) /\ ~(p[1] >= middle)
        BY <1>1, <1>2, <1>3, <4>1
      <4>. QED
        BY <1>1, <1>2, <1>4, <1>8, <2>3, <2>4, <4>1, <4>2
    <3>. QED
      BY <2>1, <3>1, <3>2, <3>3
  <2>6. b \in ActsOfPart(part)
    BY <1>7, <2>5
  <2>. QED
    BY <1>13, <2>4, <2>5, <2>6 DEF b, grip, part, y, r
<1>17. CASE ~bar /\ OnMark(w, p)
  <2>1. part = "grip" /\ grip
    BY <1>5, <1>10, <1>17
  <2>2. b = "none"
    BY <1>13, <1>14, <2>1
  <2>3. "grip" \in ActsOfPart(part)
    BY <1>7, <2>1
  <2>. QED
    BY <2>1, <2>2, <2>3 DEF b, grip, part, y, r
<1>18. CASE ~bar /\ ~OnMark(w, p) /\ IsInfo(w) /\ Contains(TextRect(w), p)
  <2>1. part = "text"
    BY <1>5, <1>18
  <2>2. ~(p[2] < y + TitleH)
    BY <1>1, <1>2, <1>11, <1>18
  <2>3. b = "none" /\ "grip" \in ActsOfPart(part) /\ "body" \in ActsOfPart(part)
    BY <1>7, <1>14, <2>1, <2>2
  <2>. QED
    BY <1>8, <2>2, <2>3 DEF b, grip, part, y, r
<1>. DEFINE frame == /\ ~bar /\ ~OnMark(w, p) /\ ~(IsInfo(w) /\ Contains(TextRect(w), p))
<1>19. CASE frame /\ OnBorder(r, p)
  <2>1. part = "border"
    BY <1>5, <1>19
  <2>2. b \in {"close", "none"}
    <3>1. ASSUME b # "none" PROVE b = "close"
      <4>1. p[2] < y + TitleH /\ row
        BY <1>15, <3>1
      <4>2. p[1] = x \/ p[1] = x + r.w - 1
        BY <1>1, <1>2, <1>12, <1>19, <4>1
      <4>3. CASE p[1] = x
        <5>1. ~(p[1] >= left) /\ ~(p[1] >= middle) /\ ~(p[1] >= right)
          BY <1>1, <1>2, <1>3, <4>3
        <5>. QED
          BY <1>4, <3>1, <5>1
      <4>4. CASE p[1] = x + r.w - 1
        <5>1. p[1] >= left
          BY <1>1, <1>2, <1>3, <4>4
        <5>. QED
          BY <1>4, <3>1, <5>1
      <4>. QED
        BY <4>2, <4>3, <4>4
    <3>. QED
      BY <3>1
  <2>3. {"title", "close", "body", "grip"} = ActsOfPart(part)
    BY <1>7, <2>1
  <2>4. b = "close" => ~grip
    BY <1>13, <1>15
  <2>. QED
    BY <1>13, <2>2, <2>3, <2>4 DEF b, grip, part, y, r
<1>20. CASE frame /\ ~OnBorder(r, p) /\ p[2] < y + TitleH
  <2>1. part = "title"
    BY <1>5, <1>20
  <2>2. {"title", "close", "max", "min"} = ActsOfPart(part)
    BY <1>7, <2>1
  <2>. QED
    BY <1>13, <1>15, <1>20, <2>2 DEF b, grip, part, y, r
<1>21. CASE frame /\ ~OnBorder(r, p) /\ p[2] = y + TitleH
  <2>1. ~(p[2] < y + TitleH) /\ ~grip
    BY <1>1, <1>2, <1>6, <1>21
  <2>2. part = "edge"
    BY <1>5, <1>21, <2>1
  <2>3. b = "none" /\ "body" \in ActsOfPart(part)
    BY <1>7, <1>14, <2>1, <2>2
  <2>. QED
    BY <2>1, <2>3 DEF b, grip, part, y, r
<1>22. CASE frame /\ ~OnBorder(r, p) /\ ~(p[2] < y + TitleH) /\ ~(p[2] = y + TitleH)
  <2>1. part = "body"
    BY <1>5, <1>22
  <2>2. b = "none" /\ "grip" \in ActsOfPart(part) /\ "body" \in ActsOfPart(part)
    BY <1>7, <1>14, <1>22, <2>1
  <2>. QED
    BY <1>8, <1>22, <2>2 DEF b, grip, part, y, r
<1>. QED
  BY <1>16, <1>17, <1>18, <1>19, <1>20, <1>21, <1>22

LEMMA PressWindowOK ==
  ASSUME NEW d, DeskOK(d), d.drag = None, d.resize = None, NEW p \in Cells, p[2] < WorkH,
         ~(d.menu /\ Contains(MenuRect, p)), WinTopmostAt(d, p) # None
  PROVE  Press(d, PressWindow(CloseStartMenu(d), WinTopmostAt(d, p), p), Acts(d, p))
<1>. DEFINE i == WinTopmostAt(d, p)
            c == CloseStartMenu(d)
            w == c.win[i]
            r == w.rect
            off == <<p[1] - r.x, p[2] - r.y>>
            grab == [at |-> p, w |-> r.w, h |-> r.h]
            b == WinButtonAt(r, p)
            e == PressWindow(c, i, p)
<1>. SUFFICES Press(d, e, Acts(d, p))
  OBVIOUS
<1>1. /\ Op(d, c) /\ DeskOK(c) /\ c.win = d.win /\ c.drag = None /\ c.resize = None
  BY MenuOp DEF Op
<1>2. i \in Under(d, p)
  BY TopmostAtIs DEF DeskOK
<1>. HIDE DEF c, i
<1>3. i \in Visible(c) /\ i \in Slots /\ Contains(r, p) /\ c.win[i] = d.win[i] /\ InArea(r)
  <2>1. i \in Visible(c) /\ i \in Slots /\ Contains(r, p) /\ c.win[i] = d.win[i]
    BY <1>1, <1>2 DEF Under, Visible
  <2>. QED
    BY <1>1, <2>1, VisibleFacts
<1>4. SceneCell(d, p) = WinCell(d, i, p)
  <2>1. ~(p[2] >= WorkH)
    <3>1. p[2] \in Nat /\ WorkH \in Nat /\ p[2] < WorkH
      BY CellFacts, ScreenFacts
    <3>. QED
      BY ONLY <3>1
  <2>. QED
    BY <2>1, SceneParts DEF i
<1>5. p[1] \in Int /\ p[2] \in Int
  BY CellFacts
<1>6. /\ Acts(d, p) = ActsOfPart(WinPart(w, p)) \X {i}
      /\ \/ b \in {"close", "max", "min"} /\ ~OnGrip(w, p) /\ <<b, i>> \in Acts(d, p)
         \/ b = "none" /\ OnGrip(w, p) /\ <<"grip", i>> \in Acts(d, p)
         \/ b = "none" /\ ~OnGrip(w, p) /\ p[2] < r.y + TitleH /\ <<"title", i>> \in Acts(d, p)
         \/ b = "none" /\ ~OnGrip(w, p) /\ ~(p[2] < r.y + TitleH) /\ <<"body", i>> \in Acts(d, p)
  <2>1. Says(SceneCell(d, p), "win", i, WinPart(w, p))
    <3>. DEFINE part == WinPart(w, p)
                focus == part \in Coloured /\ i = WinTopmostIndex(d)
    <3>1. SceneCell(d, p) = Paint("win", i, part, focus)
      BY <1>3, <1>4, Zenon DEF WinCell
    <3>. HIDE DEF part, focus, w
    <3>2. Says(SceneCell(d, p), "win", i, part)
      BY ONLY <3>1, PaintIs, Zenon
    <3>. QED
      BY <3>2 DEF part
  <2>2. Acts(d, p) = ActsOfPart(WinPart(w, p)) \X {i}
    BY <2>1, ActsOfWin
  <2>3. \/ b \in {"close", "max", "min"} /\ ~OnGrip(w, p) /\ b \in ActsOfPart(WinPart(w, p))
        \/ b = "none" /\ OnGrip(w, p) /\ "grip" \in ActsOfPart(WinPart(w, p))
        \/ b = "none" /\ ~OnGrip(w, p) /\ p[2] < r.y + TitleH /\ "title" \in ActsOfPart(WinPart(w, p))
        \/ b = "none" /\ ~OnGrip(w, p) /\ ~(p[2] < r.y + TitleH) /\ "body" \in ActsOfPart(WinPart(w, p))
    BY <1>3, <1>5, PartIs
  <2>. HIDE DEF b, w, r
  <2>. QED
    BY <2>2, <2>3
<1>7. /\ e = CASE b = "close" -> Did(WinClose(c, i), b, i)
               [] b = "max" -> Did(WinToggleMax(c, i), b, i)
               [] b = "min" -> Did(WinMinimize(c, i), b, i)
               [] b = "none" /\ OnGrip(w, p) ->
                    Did([WinRaise(c, i) EXCEPT !.resize = i, !.grab = grab], "grip", i)
               [] b = "none" /\ ~OnGrip(w, p) /\ p[2] < r.y + TitleH ->
                    Did([WinRaise(c, i) EXCEPT !.drag = i, !.off = off], "title", i)
               [] OTHER -> Did(WinRaise(c, i), "body", i)
  BY DEF PressWindow
<1>8. /\ Op(c, WinRaise(c, i)) /\ WinRaise(c, i).win = c.win
      /\ WinRaise(c, i).drag = None /\ WinRaise(c, i).resize = None
      /\ i \in Visible(WinRaise(c, i))
  <2>1. /\ Op(c, WinRaise(c, i)) /\ WinRaise(c, i).win = c.win
        /\ WinRaise(c, i).drag = None /\ WinRaise(c, i).resize = None
    BY <1>1, <1>3, RaiseOp
  <2>. QED
    BY <1>3, <2>1 DEF Visible
<1>9. Op(d, WinRaise(c, i))
  BY <1>1, <1>8, OpTrans
<1>10. /\ off \in Int \X Int /\ grab \in [at : Int \X Int, w : Int, h : Int]
  <2>1. r.x \in Int /\ r.y \in Int /\ r.w \in Int /\ r.h \in Int
    BY <1>3, AreaFacts
  <2>2. p \in Int \X Int
    BY ScreenFacts DEF Cells
  <2>. HIDE DEF r
  <2>. QED
    BY <1>5, <2>1, <2>2
<1>. HIDE DEF e, b, w, r, off, grab
<1>11. CASE b = "close" /\ <<"close", i>> \in Acts(d, p)
  <2>1. e = Did(WinClose(c, i), "close", i)
    BY <1>7, <1>11
  <2>2. Op(d, WinClose(c, i))
    BY <1>1, <1>3, CloseOp, OpTrans
  <2>. QED
    BY <1>11, <2>1, <2>2, DidOK
<1>12. CASE b = "max" /\ <<"max", i>> \in Acts(d, p)
  <2>1. e = Did(WinToggleMax(c, i), "max", i)
    BY <1>7, <1>12
  <2>2. c.resize # i
    <3>1. None \notin Slots
      BY DesktopAssumption
    <3>. QED
      BY <1>1, <1>3, <3>1
  <2>3. Op(c, WinToggleMax(c, i))
    BY <1>1, <1>3, <2>2, ToggleOp
  <2>4. Op(d, WinToggleMax(c, i))
    BY <1>1, <2>3, OpTrans
  <2>. QED
    BY <1>12, <2>1, <2>4, DidOK
<1>13. CASE b = "min" /\ <<"min", i>> \in Acts(d, p)
  <2>1. e = Did(WinMinimize(c, i), "min", i)
    BY <1>7, <1>13
  <2>2. Op(d, WinMinimize(c, i))
    BY <1>1, <1>3, MinimizeOp, OpTrans
  <2>. QED
    BY <1>13, <2>1, <2>2, DidOK
<1>14. CASE b = "none" /\ OnGrip(w, p) /\ <<"grip", i>> \in Acts(d, p)
  <2>1. e = Did([WinRaise(c, i) EXCEPT !.resize = i, !.grab = grab], "grip", i)
    BY <1>7, <1>14
  <2>2. ~WinRaise(c, i).win[i].max
    BY <1>8, <1>14 DEF OnGrip, w
  <2>3. Press(d, Did([WinRaise(c, i) EXCEPT !.resize = i, !.grab = grab], "grip", i), Acts(d, p))
    <3>. DEFINE f == WinRaise(c, i)
                S == Acts(d, p)
    <3>1. /\ Op(d, f) /\ f.drag = None /\ f.resize = None /\ i \in Visible(f)
          /\ ~f.win[i].max /\ <<"grip", i>> \in S
      BY <1>8, <1>9, <1>14, <2>2
    <3>. HIDE DEF f, S
    <3>2. Press(d, Did([f EXCEPT !.resize = i, !.grab = grab], "grip", i), S)
      BY ONLY <1>10, <3>1, HoldsOK, ZenonT(30)
    <3>. QED
      BY <3>2 DEF f, S
  <2>. QED
    BY <2>1, <2>3
<1>15. CASE /\ b = "none" /\ ~OnGrip(w, p) /\ p[2] < r.y + TitleH
            /\ <<"title", i>> \in Acts(d, p)
  <2>1. e = Did([WinRaise(c, i) EXCEPT !.drag = i, !.off = off], "title", i)
    BY <1>7, <1>15
  <2>2. Press(d, Did([WinRaise(c, i) EXCEPT !.drag = i, !.off = off], "title", i), Acts(d, p))
    <3>. DEFINE f == WinRaise(c, i)
                S == Acts(d, p)
    <3>1. /\ Op(d, f) /\ f.drag = None /\ f.resize = None /\ i \in Visible(f)
          /\ <<"title", i>> \in S
      BY <1>8, <1>9, <1>15
    <3>. HIDE DEF f, S
    <3>2. Press(d, Did([f EXCEPT !.drag = i, !.off = off], "title", i), S)
      BY ONLY <1>10, <3>1, HoldsOK, ZenonT(30)
    <3>. QED
      BY <3>2 DEF f, S
  <2>. QED
    BY <2>1, <2>2
<1>16. CASE /\ b = "none" /\ ~OnGrip(w, p) /\ ~(p[2] < r.y + TitleH)
            /\ <<"body", i>> \in Acts(d, p)
  <2>1. e = Did(WinRaise(c, i), "body", i)
    BY <1>7, <1>16
  <2>. QED
    BY <1>9, <1>16, <2>1, DidOK
<1>. QED
  BY <1>6, <1>11, <1>12, <1>13, <1>14, <1>15, <1>16

LEMMA PressOK ==
  ASSUME NEW d, DeskOK(d), d.hit = Nothing, d.drag = None, d.resize = None, NEW p \in Cells
  PROVE  Press(d, HandleLeftPress(d, p), Acts(d, p))
<1>1. p[2] < WorkH <=> ~(p[2] >= WorkH)
  BY CellFacts, ScreenFacts
<1>2. CASE p[2] >= WorkH
  BY <1>2, PressTaskbarOK DEF HandleLeftPress
<1>3. CASE ~(p[2] >= WorkH) /\ d.menu /\ Contains(MenuRect, p)
  BY <1>3, PressMenuOK DEF HandleLeftPress
<1>4. CASE ~(p[2] >= WorkH) /\ ~(d.menu /\ Contains(MenuRect, p)) /\ WinTopmostAt(d, p) = None
  BY <1>1, <1>4, PressBareOK DEF HandleLeftPress
<1>5. CASE ~(p[2] >= WorkH) /\ ~(d.menu /\ Contains(MenuRect, p)) /\ WinTopmostAt(d, p) # None
  BY <1>1, <1>5, PressWindowOK DEF HandleLeftPress
<1>. QED
  BY <1>2, <1>3, <1>4, <1>5

-----------------------------------------------------------------------------
(* The parts of a poll.                                                     *)
Free(d) == d.drag = None /\ d.resize = None

LEMMA FollowOp ==
  ASSUME NEW d, DeskOK(d), NEW p \in Cells, NEW moved
  PROVE  Op(d, Follow(d, p, moved)) /\ (Free(d) => Follow(d, p, moved) = d)
<1>. DEFINE e == IF Held(d, d.drag) /\ moved THEN DragStep(d, p) ELSE d
<1>1. Op(d, e) /\ (Free(d) => e = d)
  <2>1. CASE Held(d, d.drag) /\ moved
    BY <2>1, DragOp DEF Held, Free
  <2>2. CASE ~(Held(d, d.drag) /\ moved)
    BY <2>2, OpSame
  <2>. QED
    BY <2>1, <2>2
<1>2. Follow(d, p, moved) = FollowResize(e, p)
  BY DEF Follow
<1>. HIDE DEF e
<1>3. Op(e, FollowResize(e, p)) /\ (Free(e) => FollowResize(e, p) = e)
  <2>1. DeskOK(e)
    BY <1>1 DEF Op
  <2>2. CASE Held(e, e.resize)
    BY <2>1, <2>2, ResizeOp DEF Held, Free, FollowResize
  <2>3. CASE ~Held(e, e.resize)
    BY <2>1, <2>3, OpSame DEF FollowResize
  <2>. QED
    BY <2>2, <2>3
<1>4. Op(d, FollowResize(e, p))
  BY <1>1, <1>3, OpTrans
<1>. QED
  BY <1>1, <1>2, <1>3, <1>4

LEMMA RepaintOp ==
  ASSUME NEW d, DeskOK(d), NEW r \in Rects
  PROVE  Op(d, Redraw(d, <<r>>))
<1>. DEFINE one == <<r>>
<1>1. one \in Seq(Rects)
  OBVIOUS
<1>. HIDE DEF one
<1>2. \A p \in Cells : (\A q \in Among(one) : ~Contains(q, p)) => Like(SceneCell(d, p), SceneCell(d, p))
  BY DEF Like
<1>3. Op(d, Redraw(d, one))
  BY <1>1, <1>2, OpRedraw
<1>. QED
  BY <1>3 DEF one

LEMMA BlinkTermOp ==
  ASSUME NEW d, DeskOK(d)
  PROVE  Op(d, BlinkTerm(d))
<1>. DEFINE i == WinTopmostIndex(d)
<1>1. CASE IsTerm(d, i)
  <2>1. i # None
    BY <1>1 DEF IsTerm
  <2>2. i \in Visible(d)
    BY <2>1, TopmostIs DEF DeskOK
  <2>. HIDE DEF i
  <2>3. d.win[i].rect \in Rects
    BY <2>2, WindowFacts DEF Visible
  <2>4. Op(d, Redraw(d, <<d.win[i].rect>>))
    BY <2>3, RepaintOp
  <2>5. BlinkTerm(d) = Redraw(d, <<d.win[i].rect>>)
    BY <1>1 DEF BlinkTerm, i
  <2>. QED
    BY <2>4, <2>5
<1>2. CASE ~IsTerm(d, i)
  BY <1>2, OpSame DEF BlinkTerm
<1>. QED
  BY <1>1, <1>2

\* Where the caret of a terminal is has no part in the fills.
LEMMA KeyInputOp ==
  ASSUME NEW d, DeskOK(d), NEW col \in Int
  PROVE  Op(d, KeyInput(d, col))
<1>. DEFINE i == WinTopmostIndex(d)
            v == [d.win[i] EXCEPT !.col = col]
            m == [d EXCEPT !.win[i].col = col]
<1>1. CASE IsTerm(d, i)
  <2>1. i \in Visible(d)
    BY <1>1, TopmostIs DEF IsTerm, DeskOK
  <2>2. /\ i \in Slots /\ d.win[i] \in AnyWindow /\ WindowOK(d.win[i]) /\ HoldOK(d) /\ OrderOK(d)
        /\ DOMAIN d = Fields /\ d.win \in [Slots -> AnyWindow]
    BY <2>1, VisibleFacts
  <2>3. /\ v \in AnyWindow /\ v.used = d.win[i].used /\ v.min = d.win[i].min
        /\ v.max = d.win[i].max /\ v.rect = d.win[i].rect /\ v.rest = d.win[i].rest
        /\ v.icon = d.win[i].icon
    <3>. HIDE DEF i
    <3>. QED
      BY <2>2 DEF AnyWindow
  <2>4. m = [d EXCEPT !.win[i] = v]
    OBVIOUS
  <2>. HIDE DEF v
  <2>5. Becomes(d, i, v, m)
    <3>. HIDE DEF m, i
    <3>. QED
      BY <2>2, <2>4, BecomesIs
  <2>6. Stands(d, i, v)
    <3>1. WindowOK(v)
      BY <2>2, <2>3 DEF WindowOK
    <3>. QED
      <4>1. i # None
        BY <1>1 DEF IsTerm
      <4>2. d.resize = i => ~v.max
        BY <2>2, <2>3, <4>1 DEF HoldOK
      <4>. QED
        BY <2>2, <2>3, <3>1, <4>2 DEF Stands
  <2>7. KeyInput(d, col) = BlinkTerm(m)
    BY <1>1 DEF KeyInput
  <2>. HIDE DEF m, i
  <2>8. Became(d, i, v, m)
    BY <2>1, <2>5, <2>6, BecomesOK
  <2>9. ASSUME NEW p \in Cells PROVE Like(SceneCell(d, p), SceneCell(m, p))
    <3>1. OrderOK(m) /\ OrderOK(d) /\ m.menu = d.menu /\ TaskbarCell(m, p) = TaskbarCell(d, p)
          /\ WinTopmostIndex(m) = WinTopmostIndex(d) /\ Visible(m) = Visible(d) /\ m.z = d.z
          /\ m.win[i] = v /\ \A j \in Slots : j # i => m.win[j] = d.win[j]
      BY <2>2, <2>8 DEF Became, DeskOK
    <3>2. \A j \in Slots : /\ m.win[j].rect = d.win[j].rect /\ m.win[j].max = d.win[j].max
                           /\ m.win[j].icon = d.win[j].icon
      BY <2>3, <3>1
    <3>3. WinTopmostAt(m, p) = WinTopmostAt(d, p)
      <4>1. Under(m, p) = Under(d, p)
        BY <3>1, <3>2 DEF Under, Visible
      <4>2. \A j : Place(m, j) = Place(d, j)
        BY <3>1 DEF Place
      <4>. QED
        BY <3>1, <4>1, <4>2, TopmostAtIs
    <3>4. ASSUME NEW j \in Under(d, p)
          PROVE  WinPart(m.win[j], p) = WinPart(d.win[j], p) /\ d.win[j].rect.y \in Int
      <4>1. j \in Slots
        BY DEF Under, Visible
      <4>2. /\ m.win[j].rect = d.win[j].rect /\ m.win[j].max = d.win[j].max
            /\ m.win[j].icon = d.win[j].icon
        BY <3>2, <4>1
      <4>3. WinPart(m.win[j], p) = WinPart(d.win[j], p)
        <5>1. /\ IsInfo(m.win[j]) = IsInfo(d.win[j]) /\ TextRect(m.win[j]) = TextRect(d.win[j])
              /\ OnMark(m.win[j], p) = OnMark(d.win[j], p)
          BY <4>2 DEF IsInfo, TextRect, OnMark
        <5>. QED
          BY <4>2, <5>1, Zenon DEF WinPart
      <4>4. d.win[j].rect \in AnyRect
        BY <2>2, <4>1 DEF AnyWindow
      <4>. QED
        BY <4>3, <4>4 DEF AnyRect
    <3>. QED
      BY <3>1, <3>3, <3>4, SceneLike
  <2>10. Op(d, m)
    <3>1. Repaints(d, m)
      BY <2>8, <2>9 DEF Repaints, Became
    <3>. QED
      BY <2>8, <3>1 DEF Op, Became
  <2>11. Op(m, BlinkTerm(m))
    BY <2>10, BlinkTermOp DEF Op
  <2>. QED
    BY <2>7, <2>10, <2>11, OpTrans
<1>2. CASE ~IsTerm(d, i)
  BY <1>2, OpSame DEF KeyInput
<1>. QED
  BY <1>1, <1>2

LEMMA EverySecondOp ==
  ASSUME NEW d, DeskOK(d), NEW odd
  PROVE  Op(d, EverySecond(d, odd))
<1>. DEFINE m == [d EXCEPT !.odd = odd]
            e == Redraw(m, <<ClockRect>>)
<1>1. DOMAIN d = Fields /\ OrderOK(d)
  BY DEF DeskOK
<1>2. /\ DOMAIN m = Fields /\ m.win = d.win /\ m.z = d.z /\ m.drag = d.drag
      /\ m.resize = d.resize /\ m.off = d.off /\ m.grab = d.grab /\ m.menu = d.menu
      /\ m.opens = d.opens /\ m.bb = d.bb /\ m.damage = d.damage /\ m.hit = d.hit
  BY <1>1 DEF Fields
<1>3. EverySecond(d, odd) = BlinkTerm(e)
  BY DEF EverySecond
<1>. HIDE DEF m
<1>4. OrderOK(m) /\ HoldOK(m)
  BY <1>2 DEF DeskOK, OrderOK, HoldOK, Visible
<1>5. DeskOK(m)
  BY <1>2, <1>4 DEF DeskOK
<1>6. Op(d, m)
  BY <1>1, <1>2, <1>4, <1>5, RepaintsNothing DEF Op
<1>7. Op(m, e)
  BY <1>5, RectFacts, RepaintOp
<1>. HIDE DEF e
<1>8. Op(e, BlinkTerm(e))
  BY <1>7, BlinkTermOp DEF Op
<1>9. Op(d, e)
  BY <1>6, <1>7, OpTrans
<1>. QED
  BY <1>3, <1>8, <1>9, OpTrans

LEMMA RightPressOp ==
  ASSUME NEW d, DeskOK(d), NEW p
  PROVE  Op(d, RightPress(d, p))
<1>. DEFINE i == WinTopmostAt(d, p)
<1>1. CASE i = None
  BY <1>1, OpSame DEF RightPress
<1>2. CASE i # None
  <2>1. i \in Visible(d)
    BY <1>2, TopmostAtIs DEF DeskOK
  <2>. QED
    BY <1>2, <2>1, RaiseOp DEF RightPress
<1>. QED
  BY <1>1, <1>2

LEMMA LeftReleasedOp ==
  ASSUME NEW d, DeskOK(d)
  PROVE  Op(d, LeftReleased(d)) /\ Free(LeftReleased(d))
<1>. DEFINE f == LeftReleased(d)
<1>1. DOMAIN d = Fields /\ OrderOK(d)
  BY DEF DeskOK
<1>2. /\ DOMAIN f = Fields /\ f.win = d.win /\ f.z = d.z /\ f.drag = None
      /\ f.resize = None /\ f.off = <<0, 0>> /\ f.grab = NoGrab /\ f.menu = d.menu
      /\ f.opens = d.opens /\ f.bb = d.bb /\ f.damage = d.damage /\ f.hit = d.hit
  BY <1>1 DEF LeftReleased, Fields
<1>. HIDE DEF f
<1>3. OrderOK(f) /\ HoldOK(f)
  BY <1>1, <1>2 DEF OrderOK, HoldOK
<1>4. f.off \in Int \X Int /\ f.grab \in [at : Int \X Int, w : Int, h : Int]
  BY <1>2 DEF NoGrab
<1>5. DeskOK(f)
  BY <1>2, <1>3, <1>4 DEF DeskOK
<1>6. Repaints(d, f)
  BY <1>1, <1>2, <1>3, RepaintsNothing
<1>. QED
  BY <1>2, <1>5, <1>6 DEF Op, Free, f

\* What comes after the left press.
Rest(d, in) == Ticked(Keyed(LeftUp(RightDown(d, in), in), in), in)

LEMMA RestOp ==
  ASSUME NEW d, DeskOK(d), NEW in \in Input
  PROVE  /\ Op(d, Rest(d, in))
         /\ buttons.left /\ ~in.left => Free(Rest(d, in))
<1>. DEFINE a == RightDown(d, in)
            b == LeftUp(a, in)
            c == Keyed(b, in)
            e == Ticked(c, in)
<1>1. Op(d, a)
  BY RightPressOp, OpSame DEF RightDown
<1>. HIDE DEF a
<1>2. Op(a, b) /\ (buttons.left /\ ~in.left => Free(b))
  BY <1>1, LeftReleasedOp, OpSame DEF LeftUp, Op
<1>. HIDE DEF b
<1>3. Op(b, c)
  <2>1. in.col \in Columns
    BY DEF Input
  <2>2. Columns \subseteq Nat
    BY DesktopAssumption
  <2>3. in.col \in Nat
    BY <2>1, <2>2, Zenon
  <2>4. in.col \in Int
    BY <2>3
  <2>. QED
    BY <1>2, <2>4, KeyInputOp, OpSame DEF Keyed, Op
<1>. HIDE DEF c
<1>4. Op(c, e)
  BY <1>3, EverySecondOp, OpSame DEF Ticked, Op
<1>. HIDE DEF e
<1>5. Op(b, e)
  BY <1>3, <1>4, OpTrans
<1>6. Op(d, e)
  BY <1>1, <1>2, <1>5, OpTrans
<1>7. Free(b) => Free(e)
  BY <1>5 DEF Op, Free
<1>. QED
  BY <1>2, <1>6, <1>7 DEF Rest, a, b, c, e

\* A press, then the rest of the poll.
LEMMA PressThen ==
  ASSUME NEW d, NEW e, NEW f, NEW S, Press(d, e, S), Op(e, f)
  PROVE  Press(d, f, S)
<1>1. Repaints(d, f)
  BY RepaintsAgain DEF Press, Op
<1>. QED
  BY <1>1 DEF Press, Op

\* All that one poll does to the desk before it is presented.
LEMMA HandledOK ==
  ASSUME NEW d, DeskOK(d), d.hit = Nothing, ~buttons.left => Free(d), NEW in \in Input
  PROVE  /\ DeskOK(Handled(d, in)) /\ Repaints(d, Handled(d, in))
         /\ ~in.left => Free(Handled(d, in))
         /\ Pressed(in) => Handled(d, in).hit \in Acts(d, in.at)
<1>. DEFINE p == in.at
            a == Follow(d, p, p # cursor \/ in.push)
            b == LeftDown(a, in)
            e == Rest(b, in)
<1>1. p \in Cells
  BY DesktopAssumption DEF Input
<1>2. Handled(d, in) = e
  BY DEF Handled, Rest
<1>3. Op(d, a) /\ (Free(d) => a = d) /\ DeskOK(a)
  BY <1>1, FollowOp DEF Op
<1>. HIDE DEF a
<1>4. CASE Pressed(in)
  <2>1. ~buttons.left /\ in.left /\ a = d /\ Free(d)
    BY <1>3, <1>4 DEF Pressed
  <2>2. Press(d, b, Acts(d, p))
    BY <1>1, <1>4, <2>1, PressOK DEF LeftDown, Free
  <2>. HIDE DEF b
  <2>3. Op(b, e)
    BY <2>2, RestOp DEF Press
  <2>. HIDE DEF e
  <2>4. Press(d, e, Acts(d, p))
    BY <2>2, <2>3, PressThen
  <2>. QED
    BY <1>2, <2>1, <2>4 DEF Press
<1>5. CASE ~Pressed(in)
  <2>1. b = a
    BY <1>5 DEF LeftDown
  <2>. HIDE DEF b
  <2>2. Op(b, e) /\ (buttons.left /\ ~in.left => Free(e))
    BY <1>3, <2>1, RestOp
  <2>. HIDE DEF e
  <2>3. Op(d, e)
    BY <1>3, <2>1, <2>2, OpTrans
  <2>4. ~buttons.left => Free(e)
    BY <2>3 DEF Op, Free
  <2>5. ~in.left => Free(e)
    BY <2>2, <2>4
  <2>. QED
    BY <1>2, <1>5, <2>3, <2>5 DEF Op
<1>. QED
  BY <1>4, <1>5

-----------------------------------------------------------------------------
(* Presenting.                                                              *)
CellsOK(d, at) ==
  \A p \in Cells : IF p = at THEN d.bb[p] = CursorMark ELSE Like(d.bb[p].paint, SceneCell(d, p))

\* Damage grown by a cell.
LEMMA DamageCell ==
  ASSUME NEW d, DeskOK(d), NEW p \in Cells
  PROVE  /\ InScreen(DamageAdd(d.damage, {At(p)}))
         /\ Contains(DamageAdd(d.damage, {At(p)}), p)
         /\ \A q \in Cells : Contains(d.damage, q) => Contains(DamageAdd(d.damage, {At(p)}), q)
<1>1. /\ p[1] \in Nat /\ p[2] \in Nat /\ p[1] < ScrW /\ p[2] < ScrH
  BY CellFacts
<1>2. p[1] \in IntRange /\ p[2] \in IntRange /\ 1 \in IntRange
  BY <1>1, ScreenSize DEF IntRange
<1>3. {At(p)} \in SUBSET Rects
  BY <1>2 DEF At, Rect, Rects
<1>4. Contains(At(p), p)
  BY <1>1 DEF At, Rect, Contains
<1>5. InScreen(d.damage)
  BY DEF DeskOK
<1>. HIDE DEF At
<1>. QED
  BY <1>3, <1>4, <1>5, DamageHolds

\* One cell of the backbuffer painted.
Painted(d, p, mark, f) ==
  /\ DOMAIN f = Fields /\ SameWindows(d, f) /\ f.hit = d.hit
  /\ f.bb = [d.bb EXCEPT ![p] = mark] /\ f.damage = DamageAdd(d.damage, {At(p)})

Paints(d, p, mark) == [d EXCEPT !.bb[p] = mark, !.damage = DamageAdd(@, {At(p)})]

LEMMA PaintedIs ==
  ASSUME NEW d, DOMAIN d = Fields, NEW p, NEW mark
  PROVE  Painted(d, p, mark, Paints(d, p, mark))
  BY DEF Painted, Paints, Fields, SameWindows

LEMMA CellPainted ==
  ASSUME NEW d, DeskOK(d), NEW p \in Cells, NEW mark, NEW f, Painted(d, p, mark, f)
  PROVE  /\ DeskOK(f) /\ SameWindows(d, f) /\ f.hit = d.hit
         /\ \A q \in Cells : f.bb[q] = IF q = p THEN mark ELSE d.bb[q]
         /\ Contains(f.damage, p)
         /\ \A q \in Cells : Contains(d.damage, q) => Contains(f.damage, q)
         /\ \A q : SceneCell(f, q) = SceneCell(d, q)
<1>1. DOMAIN d = Fields /\ d.bb = [q \in Cells |-> d.bb[q]] /\ OrderOK(d)
  BY DEF DeskOK
<1>2. /\ DOMAIN f = Fields /\ SameWindows(d, f) /\ f.hit = d.hit
      /\ f.bb = [d.bb EXCEPT ![p] = mark] /\ f.damage = DamageAdd(d.damage, {At(p)})
  BY DEF Painted
<1>3. /\ f.bb = [q \in Cells |-> f.bb[q]]
      /\ \A q \in Cells : f.bb[q] = IF q = p THEN mark ELSE d.bb[q]
  BY <1>1, <1>2
<1>4. /\ InScreen(f.damage) /\ Contains(f.damage, p)
      /\ \A q \in Cells : Contains(d.damage, q) => Contains(f.damage, q)
  <2>1. InScreen(DamageAdd(d.damage, {At(p)})) /\ Contains(DamageAdd(d.damage, {At(p)}), p)
    BY DamageCell
  <2>2. \A q \in Cells : Contains(d.damage, q) => Contains(DamageAdd(d.damage, {At(p)}), q)
    BY DamageCell
  <2>. QED
    BY <1>2, <2>1, <2>2
<1>5. OrderOK(f) /\ HoldOK(f)
  BY <1>1, <1>2 DEF DeskOK, OrderOK, HoldOK, SameWindows, Visible
<1>6. DeskOK(f)
  BY <1>2, <1>3, <1>4, <1>5 DEF DeskOK, SameWindows
<1>7. \A q : SceneCell(f, q) = SceneCell(d, q)
  <2>1. f.win = d.win /\ f.z = d.z /\ f.menu = d.menu
    BY <1>2 DEF SameWindows
  <2>. QED
    BY <1>1, <1>5, <2>1, SceneOf
<1>. QED
  BY <1>2, <1>3, <1>4, <1>6, <1>7

LEMMA StampedIs ==
  ASSUME NEW d, DeskOK(d), d.damage = Empty, NEW was \in Cells, CellsOK(d, was),
         NEW e, DeskOK(e), Repaints(d, e), NEW now \in Cells,
         NEW g, g = Stamp(WipeCursor(e, was, now), was, now)
  PROVE  /\ DeskOK(g) /\ SameWindows(e, g) /\ g.hit = e.hit /\ CellsOK(g, now)
         /\ \A p \in Cells : g.bb[p] = d.bb[p] \/ Contains(g.damage, p)
<1>. DEFINE f == WipeCursor(e, was, now)
<1>1. ASSUME NEW p \in Cells
      PROVE  \/ Like(e.bb[p].paint, SceneCell(e, p))
             \/ p = was /\ e.bb[p] = CursorMark
  <2>1. CASE Like(e.bb[p].paint, SceneCell(e, p))
    BY <2>1
  <2>2. CASE e.bb[p] = d.bb[p] /\ Like(SceneCell(d, p), SceneCell(e, p))
    <3>1. CASE p = was
      BY <2>2, <3>1 DEF CellsOK
    <3>2. CASE p # was
      <4>1. Like(d.bb[p].paint, SceneCell(d, p))
        BY <3>2 DEF CellsOK
      <4>2. Like(e.bb[p].paint, SceneCell(e, p))
        BY <2>2, <4>1 DEF Like
      <4>. QED
        BY <4>2
    <3>. QED
      BY <3>1, <3>2
  <2>. QED
    BY <2>1, <2>2 DEF Repaints
<1>2. \A p \in Cells : e.bb[p] = d.bb[p] \/ Contains(e.damage, p)
  BY DEF Repaints
<1>3. CASE was # now
  <2>. DEFINE mark == Cell(e, At(was), was)
  <2>0. mark.paint = SceneCell(e, was)
    BY DEF Cell
  <2>1. f = Paints(e, was, mark)
    BY <1>3 DEF WipeCursor, Paints
  <2>. HIDE DEF mark
  <2>2. Painted(e, was, mark, f)
    <3>1. DOMAIN e = Fields
      BY DEF DeskOK
    <3>. QED
      BY <2>1, <3>1, PaintedIs
  <2>3. g = Paints(f, now, CursorMark)
    BY <1>3 DEF Stamp, Paints
  <2>. HIDE DEF f
  <2>4. /\ DeskOK(f) /\ SameWindows(e, f) /\ f.hit = e.hit
        /\ \A q \in Cells : f.bb[q] = IF q = was THEN mark ELSE e.bb[q]
        /\ Contains(f.damage, was)
        /\ \A q \in Cells : Contains(e.damage, q) => Contains(f.damage, q)
        /\ \A q : SceneCell(f, q) = SceneCell(e, q)
    BY <2>2, CellPainted
  <2>5. Painted(f, now, CursorMark, g)
    <3>1. DOMAIN f = Fields
      BY <2>4 DEF DeskOK
    <3>. QED
      BY <2>3, <3>1, PaintedIs
  <2>6. /\ DeskOK(g) /\ SameWindows(f, g) /\ g.hit = f.hit
        /\ \A q \in Cells : g.bb[q] = IF q = now THEN CursorMark ELSE f.bb[q]
        /\ Contains(g.damage, now)
        /\ \A q \in Cells : Contains(f.damage, q) => Contains(g.damage, q)
        /\ \A q : SceneCell(g, q) = SceneCell(f, q)
    BY <2>4, <2>5, CellPainted
  <2>7. ASSUME NEW p \in Cells
        PROVE  /\ IF p = now THEN g.bb[p] = CursorMark ELSE Like(g.bb[p].paint, SceneCell(g, p))
               /\ g.bb[p] = d.bb[p] \/ Contains(g.damage, p)
    <3>1. CASE p = now
      BY <2>6, <3>1
    <3>2. CASE p # now /\ p = was
      <4>1. g.bb[p].paint = SceneCell(g, p) /\ Contains(g.damage, p)
        BY <2>0, <2>4, <2>6, <3>2
      <4>. QED
        BY <3>2, <4>1 DEF Like
    <3>3. CASE p # now /\ p # was
      <4>1. g.bb[p] = e.bb[p] /\ SceneCell(g, p) = SceneCell(e, p)
        BY <2>4, <2>6, <3>3
      <4>2. Like(e.bb[p].paint, SceneCell(e, p))
        BY <1>1, <3>3
      <4>3. Contains(e.damage, p) => Contains(g.damage, p)
        BY <2>4, <2>6
      <4>. QED
        BY <1>2, <3>3, <4>1, <4>2, <4>3
    <3>. QED
      BY <3>1, <3>2, <3>3
  <2>. QED
    BY <2>4, <2>6, <2>7 DEF CellsOK, SameWindows
<1>4. CASE was = now
  <2>1. f = e
    BY <1>4 DEF WipeCursor
  <2>2. CASE e.damage = Empty \/ ~Overlaps(e.damage, At(now))
    <3>1. g = e
      BY <1>4, <2>1, <2>2 DEF Stamp
    <3>2. ~Contains(e.damage, now)
      <4>1. /\ now[1] \in Nat /\ now[2] \in Nat
        BY CellFacts
      <4>2. InScreen(e.damage)
        BY DEF DeskOK
      <4>3. CASE e.damage = Empty
        BY <4>1, <4>3 DEF Contains, Empty, Rect
      <4>4. CASE ~Overlaps(e.damage, At(now))
        <5>1. /\ e.damage.x \in Nat /\ e.damage.y \in Nat /\ e.damage.w \in Nat /\ e.damage.h \in Nat
          BY <4>2 DEF InScreen
        <5>2. At(now).x = now[1] /\ At(now).y = now[2] /\ At(now).w = 1 /\ At(now).h = 1
          BY DEF At, Rect
        <5>. QED
          BY <4>1, <4>4, <5>1, <5>2 DEF Overlaps, Contains
      <4>. QED
        BY <2>2, <4>3, <4>4
    <3>3. e.bb[now] = CursorMark
      BY <1>2, <1>4, <3>2 DEF CellsOK
    <3>4. CellsOK(e, now)
      BY <1>1, <1>4, <3>3 DEF CellsOK
    <3>. QED
      BY <1>2, <3>1, <3>4 DEF SameWindows
  <2>3. CASE ~(e.damage = Empty \/ ~Overlaps(e.damage, At(now)))
    <3>1. g = Paints(e, now, CursorMark)
      BY <1>4, <2>1, <2>3 DEF Stamp, Paints
    <3>2. Painted(e, now, CursorMark, g)
      <4>1. DOMAIN e = Fields
        BY DEF DeskOK
      <4>. QED
        BY <3>1, <4>1, PaintedIs
    <3>3. /\ DeskOK(g) /\ SameWindows(e, g) /\ g.hit = e.hit
          /\ \A q \in Cells : g.bb[q] = IF q = now THEN CursorMark ELSE e.bb[q]
          /\ Contains(g.damage, now)
          /\ \A q \in Cells : Contains(e.damage, q) => Contains(g.damage, q)
          /\ \A q : SceneCell(g, q) = SceneCell(e, q)
      BY <3>2, CellPainted
    <3>4. ASSUME NEW p \in Cells
          PROVE  /\ IF p = now THEN g.bb[p] = CursorMark ELSE Like(g.bb[p].paint, SceneCell(g, p))
                 /\ g.bb[p] = d.bb[p] \/ Contains(g.damage, p)
      <4>1. CASE p = now
        BY <3>3, <4>1
      <4>2. CASE p # now
        <5>1. g.bb[p] = e.bb[p] /\ SceneCell(g, p) = SceneCell(e, p) /\ Like(e.bb[p].paint, SceneCell(e, p))
          BY <1>1, <1>4, <3>3, <4>2
        <5>. QED
          BY <1>2, <3>3, <4>2, <5>1
      <4>. QED
        BY <4>1, <4>2
    <3>. QED
      BY <3>3, <3>4 DEF CellsOK
  <2>. QED
    BY <2>2, <2>3
<1>. QED
  BY <1>3, <1>4

-----------------------------------------------------------------------------
(* The inductive invariant, between two polls: the desk is in order, each   *)
(* cell but the cursor's shows the scene, the page in front is the          *)
(* backbuffer, and the page in the back is behind it by prev at most.       *)
PagesOK ==
  /\ front \in {0, 1} /\ DOMAIN page = {0, 1} /\ page = [n \in {0, 1} |-> page[n]]
  /\ page[front] = desk.bb
  /\ flip => \A p \in Cells : Contains(prev, p) \/ page[1 - front][p] = desk.bb[p]

IInv ==
  /\ DeskOK(desk) /\ desk.damage = Empty
  /\ cursor \in Cells /\ stamped = cursor
  /\ buttons \in [left : BOOLEAN, right : BOOLEAN] /\ (~buttons.left => Free(desk))
  /\ CellsOK(desk, cursor)
  /\ PagesOK

\* What a poll makes of the desk, and what it shows.
LEMMA PollIs ==
  ASSUME IInv, NEW in \in Input, DesktopPoll(in)
  PROVE  \E g : /\ DeskOK(g) /\ DeskOK(desk') /\ desk' = [g EXCEPT !.damage = Empty]
                /\ desk'.bb = g.bb /\ desk'.damage = Empty
                /\ CellsOK(desk', in.at)
                /\ \A p \in Cells : g.bb[p] = desk.bb[p] \/ Contains(g.damage, p)
                /\ (~in.left => Free(desk'))
                /\ (Pressed(in) => desk'.hit \in Acts(desk, in.at))
                /\ IF flip THEN PresentFlip(g) ELSE PresentSingle(g)
                /\ cursor' = in.at /\ stamped' = in.at
<1>. DEFINE d == [desk EXCEPT !.hit = Nothing]
            e == Handled(d, in)
            g == Stamp(WipeCursor(e, stamped, in.at), stamped, in.at)
<1>1. /\ in.at \in Cells
  BY DesktopAssumption DEF Input
<1>2. /\ DeskOK(desk) /\ DOMAIN desk = Fields /\ OrderOK(desk) /\ desk.damage = Empty
      /\ stamped \in Cells /\ CellsOK(desk, stamped) /\ (~buttons.left => Free(desk))
  BY DEF IInv, DeskOK
<1>3. /\ DOMAIN d = Fields /\ d.hit = Nothing /\ d.bb = desk.bb /\ d.damage = desk.damage
      /\ d.menu = desk.menu /\ d.win = desk.win /\ d.z = desk.z /\ d.opens = desk.opens
      /\ d.drag = desk.drag /\ d.resize = desk.resize /\ d.off = desk.off /\ d.grab = desk.grab
  BY <1>2 DEF Fields
<1>4. /\ cursor' = in.at /\ stamped' = in.at /\ desk' = [g EXCEPT !.damage = Empty]
      /\ IF flip THEN PresentFlip(g) ELSE PresentSingle(g)
  BY DEF DesktopPoll, Present, PresentStamped
<1>. HIDE DEF d
<1>5. OrderOK(d) /\ HoldOK(d)
  BY <1>2, <1>3 DEF DeskOK, OrderOK, HoldOK, Visible
<1>6. DeskOK(d)
  BY <1>2, <1>3, <1>5 DEF DeskOK
<1>7. /\ \A p : SceneCell(d, p) = SceneCell(desk, p)
      /\ \A i \in Slots : TaskBtn(d, i) = TaskBtn(desk, i)
  BY <1>2, <1>3, <1>5, SceneOf, TaskbarOf
<1>8. CellsOK(d, stamped)
  BY <1>2, <1>3, <1>7 DEF CellsOK
<1>9. /\ DeskOK(e) /\ Repaints(d, e) /\ (~in.left => Free(e))
      /\ (Pressed(in) => e.hit \in Acts(d, in.at))
  BY <1>2, <1>3, <1>6, HandledOK DEF Free
<1>. HIDE DEF e
<1>10. /\ DeskOK(g) /\ SameWindows(e, g) /\ g.hit = e.hit /\ CellsOK(g, in.at)
       /\ \A p \in Cells : g.bb[p] = d.bb[p] \/ Contains(g.damage, p)
  BY <1>1, <1>2, <1>3, <1>6, <1>8, <1>9, StampedIs
<1>. HIDE DEF g
<1>11. DOMAIN g = Fields /\ OrderOK(g)
  BY <1>10 DEF DeskOK
<1>12. /\ DOMAIN desk' = Fields /\ SameWindows(g, desk') /\ desk'.hit = g.hit
       /\ desk'.bb = g.bb /\ desk'.damage = Empty
  BY <1>4, <1>11 DEF Fields, SameWindows
<1>13. OrderOK(desk') /\ HoldOK(desk')
  BY <1>10, <1>12 DEF DeskOK, OrderOK, HoldOK, Visible, SameWindows
<1>14. InScreen(Empty)
  BY ScreenFacts DEF InScreen, Empty, Rect
<1>15. DeskOK(desk')
  BY <1>10, <1>12, <1>13, <1>14 DEF DeskOK, SameWindows
<1>16. \A p : SceneCell(desk', p) = SceneCell(g, p)
  BY <1>11, <1>12, <1>13, SceneOf DEF SameWindows
<1>17. CellsOK(desk', in.at)
  BY <1>10, <1>12, <1>16 DEF CellsOK
<1>18. ~in.left => Free(desk')
  BY <1>9, <1>10, <1>12 DEF Free, SameWindows
<1>19. Pressed(in) => desk'.hit \in Acts(desk, in.at)
  <2>1. SceneCell(d, in.at) = SceneCell(desk, in.at)
    BY <1>7
  <2>2. {i \in Slots : Contains(TaskBtn(d, i), in.at)}
          = {i \in Slots : Contains(TaskBtn(desk, i), in.at)}
    BY <1>7
  <2>3. Acts(d, in.at) = Acts(desk, in.at)
    BY <2>1, <2>2, Zenon DEF Acts
  <2>. QED
    BY <1>9, <1>10, <1>12, <2>3
<1>20. \A p \in Cells : g.bb[p] = desk.bb[p] \/ Contains(g.damage, p)
  BY <1>3, <1>10
<1>. QED
  BY <1>4, <1>10, <1>12, <1>15, <1>17, <1>18, <1>19, <1>20

LEMMA FirstIs ==
  DeskOK(FirstDesk) /\ Free(FirstDesk) /\ \A p \in Cells : FirstDesk.bb[p].paint = SceneCell(FirstDesk, p)
<1>. DEFINE k == First.icon
            r == First.rect
            m == Opened(Blank, k, r)
            f == Redraw(m, TitleStrips(m))
            all == <<Screen>>
            e == Redraw(f, all)
<1>1. k \in 1 .. Len(Icons) /\ Openable(r)
  BY DesktopAssumption DEF Openable
<1>2. NoWindow \in AnyWindow /\ ~NoWindow.used /\ WindowOK(NoWindow)
  BY DEF NoWindow, AnyWindow, AnyRect, WindowOK, Empty, Rect
<1>3. /\ DOMAIN Blank = Fields /\ Blank.win = [i \in Slots |-> NoWindow] /\ Blank.z = << >>
      /\ Blank.drag = None /\ Blank.resize = None /\ Blank.off = <<0, 0>> /\ Blank.grab = NoGrab
      /\ Blank.menu = FALSE /\ Blank.opens = 0 /\ Blank.bb = [p \in Cells |-> [paint |-> Background, over |-> {}]]
      /\ Blank.damage = Empty
  BY DEF Blank, Fields
<1>4. OrderOK(Blank) /\ HoldOK(Blank)
  BY <1>2, <1>3 DEF OrderOK, HoldOK
<1>5. /\ Blank.off \in Int \X Int /\ Blank.grab \in [at : Int \X Int, w : Int, h : Int]
      /\ Blank.opens \in 0 .. (OpenSteps - 1) /\ InScreen(Blank.damage)
      /\ Blank.win \in [Slots -> AnyWindow] /\ \A i \in Slots : WindowOK(Blank.win[i])
      /\ Blank.bb = [p \in Cells |-> Blank.bb[p]]
  BY <1>2, <1>3, ScreenFacts DEF NoGrab, InScreen, Empty, Rect
<1>6. DeskOK(Blank)
  BY <1>3, <1>4, <1>5 DEF DeskOK
<1>7. FreeSlots(Blank) # {}
  <2>1. 0 \in Slots
    BY ScreenFacts DEF Slots
  <2>. QED
    BY <1>2, <1>3, <2>1 DEF FreeSlots
<1>8. DeskOK(m) /\ m.drag = None /\ m.resize = None
  BY <1>1, <1>3, <1>6, <1>7, OpenedIs
<1>9. FirstDesk = e
  BY <1>7, WinOpenIs DEF FirstDesk
<1>. HIDE DEF m
<1>10. DeskOK(f) /\ SameWindows(m, f)
  BY <1>8, StripFacts, RedrawIs
<1>. HIDE DEF f
<1>11. all \in Seq(Rects) /\ Among(all) = {Screen}
  BY RectFacts, AmongOne
<1>. HIDE DEF all
<1>12. /\ DeskOK(e) /\ SameWindows(f, e)
       /\ \A p \in Cells : IF \E s \in Among(all) : Contains(s, p) THEN e.bb[p].paint = SceneCell(f, p)
                           ELSE e.bb[p] = f.bb[p]
       /\ \A p : SceneCell(e, p) = SceneCell(f, p)
  BY <1>10, <1>11, RedrawIs
<1>13. \A p \in Cells : e.bb[p].paint = SceneCell(e, p)
  BY <1>11, <1>12, CellFacts
<1>. QED
  BY <1>8, <1>9, <1>10, <1>12, <1>13 DEF SameWindows, Free

LEMMA IInvInit == Init => IInv
<1>. SUFFICES ASSUME Init PROVE IInv
  OBVIOUS
<1>. DEFINE f == FirstDesk
<1>1. DeskOK(f) /\ Free(f) /\ \A p \in Cells : f.bb[p].paint = SceneCell(f, p)
  BY FirstIs
<1>2. Middle \in Cells
  <2>1. ScrW \div 2 \in 0 .. (ScrW - 1) /\ ScrH \div 2 \in 0 .. (ScrH - 1)
    BY ScreenFacts
  <2>. QED
    BY <2>1 DEF Middle, Cells
<1>3. PICK odd \in BOOLEAN :
        desk = [f EXCEPT !.bb[Middle] = CursorMark, !.damage = Empty, !.odd = odd]
  BY Zenon DEF Init
<1>. HIDE DEF f
<1>4. DOMAIN f = Fields /\ f.bb = [p \in Cells |-> f.bb[p]] /\ OrderOK(f)
  BY <1>1 DEF DeskOK
<1>5. /\ DOMAIN desk = Fields /\ SameWindows(f, desk) /\ desk.damage = Empty
      /\ desk.bb = [f.bb EXCEPT ![Middle] = CursorMark]
  BY <1>3, <1>4 DEF Fields, SameWindows
<1>6. /\ desk.bb = [p \in Cells |-> desk.bb[p]]
      /\ \A p \in Cells : desk.bb[p] = IF p = Middle THEN CursorMark ELSE f.bb[p]
  BY <1>2, <1>4, <1>5
<1>7. OrderOK(desk) /\ HoldOK(desk)
  <2>1. /\ desk.win = f.win /\ desk.z = f.z /\ desk.drag = f.drag /\ desk.resize = f.resize
    BY <1>5 DEF SameWindows
  <2>2. OrderOK(desk)
    BY <1>4, <2>1 DEF OrderOK
  <2>3. HoldOK(f)
    BY <1>1 DEF DeskOK
  <2>4. Visible(desk) = Visible(f)
    BY <2>1 DEF Visible
  <2>. QED
    BY <2>1, <2>2, <2>3, <2>4 DEF HoldOK
<1>8. InScreen(Empty)
  BY ScreenFacts DEF InScreen, Empty, Rect
<1>9. DeskOK(desk)
  BY <1>1, <1>5, <1>6, <1>7, <1>8 DEF DeskOK, SameWindows
<1>10. \A p : SceneCell(desk, p) = SceneCell(f, p)
  <2>1. desk.win = f.win /\ desk.z = f.z /\ desk.menu = f.menu
    BY <1>5 DEF SameWindows
  <2>. QED
    BY <1>4, <1>7, <2>1, SceneOf
<1>11. CellsOK(desk, Middle)
  BY <1>1, <1>6, <1>10 DEF CellsOK, Like
<1>12. PagesOK
  BY DesktopAssumption DEF Init, PagesOK
<1>13. /\ cursor = Middle /\ stamped = cursor /\ buttons \in [left : BOOLEAN, right : BOOLEAN]
  BY DEF Init
<1>. QED
  BY <1>1, <1>2, <1>5, <1>9, <1>11, <1>12, <1>13 DEF IInv, Free, SameWindows

LEMMA PagesStep ==
  ASSUME IInv, NEW g, DeskOK(g), desk'.bb = g.bb, flip' = flip,
         \A p \in Cells : g.bb[p] = desk.bb[p] \/ Contains(g.damage, p),
         IF flip THEN PresentFlip(g) ELSE PresentSingle(g)
  PROVE  PagesOK'
<1>1. /\ front \in {0, 1} /\ DOMAIN page = {0, 1} /\ page = [n \in {0, 1} |-> page[n]]
      /\ page[front] = desk.bb
      /\ flip => \A p \in Cells : Contains(prev, p) \/ page[1 - front][p] = desk.bb[p]
  BY DEF IInv, PagesOK
<1>2. g.bb = [p \in Cells |-> g.bb[p]]
  BY DEF DeskOK
<1>3. CASE ~flip
  <2>1. page' = [page EXCEPT ![front] = BlitRect(page[front], g.bb, g.damage)] /\ front' = front
    BY <1>3 DEF PresentSingle
  <2>2. \A p \in Cells : (IF Contains(g.damage, p) THEN g.bb[p] ELSE page[front][p]) = g.bb[p]
    BY <1>1
  <2>3. BlitRect(page[front], g.bb, g.damage) = g.bb
    BY <1>2, <2>2 DEF BlitRect
  <2>4. /\ DOMAIN page' = {0, 1} /\ page' = [n \in {0, 1} |-> page'[n]] /\ page'[front'] = g.bb
    BY <1>1, <2>1, <2>3
  <2>. QED
    BY <1>1, <1>3, <2>1, <2>4 DEF PagesOK
<1>4. CASE flip
  <2>. DEFINE back == 1 - front
              pg == BlitRect(BlitRect(page[back], g.bb, prev), g.bb, g.damage)
  <2>1. page' = [page EXCEPT ![back] = pg] /\ front' = back /\ prev' = g.damage
    BY <1>4 DEF PresentFlip
  <2>2. back \in {0, 1} /\ 1 - back = front /\ back # front
    BY <1>1
  <2>3. pg = g.bb
    <3>1. \A p \in Cells : BlitRect(page[back], g.bb, prev)[p]
                           = IF Contains(prev, p) THEN g.bb[p] ELSE page[back][p]
      BY DEF BlitRect
    <3>2. \A p \in Cells : (IF Contains(g.damage, p) THEN g.bb[p]
                            ELSE BlitRect(page[back], g.bb, prev)[p]) = g.bb[p]
      BY <1>1, <1>4, <3>1
    <3>3. pg = [p \in Cells |-> IF Contains(g.damage, p) THEN g.bb[p]
                                ELSE BlitRect(page[back], g.bb, prev)[p]]
      BY DEF BlitRect
    <3>. HIDE DEF pg
    <3>. QED
      BY <1>2, <3>2, <3>3
  <2>. HIDE DEF pg, back
  <2>4. /\ DOMAIN page' = {0, 1} /\ page' = [n \in {0, 1} |-> page'[n]]
        /\ page'[front'] = g.bb /\ page'[1 - front'] = page[front]
    BY <1>1, <2>1, <2>2, <2>3
  <2>5. \A p \in Cells : Contains(prev', p) \/ page'[1 - front'][p] = desk'.bb[p]
    BY <1>1, <2>1, <2>4
  <2>. QED
    BY <1>1, <2>1, <2>2, <2>4, <2>5 DEF PagesOK
<1>. QED
  BY <1>3, <1>4

LEMMA IInvNext ==
  ASSUME IInv, [Next]_vars
  PROVE  /\ IInv'
         /\ [(~buttons.left /\ buttons'.left) => desk'.hit \in Acts(desk, cursor')]_vars
<1>1. ASSUME NEW in \in Input, DesktopPoll(in)
      PROVE  IInv' /\ ((~buttons.left /\ buttons'.left) => desk'.hit \in Acts(desk, cursor'))
  <2>1. PICK g : /\ DeskOK(g) /\ DeskOK(desk') /\ desk' = [g EXCEPT !.damage = Empty]
                 /\ desk'.bb = g.bb /\ desk'.damage = Empty
                 /\ CellsOK(desk', in.at)
                 /\ \A p \in Cells : g.bb[p] = desk.bb[p] \/ Contains(g.damage, p)
                 /\ (~in.left => Free(desk'))
                 /\ (Pressed(in) => desk'.hit \in Acts(desk, in.at))
                 /\ IF flip THEN PresentFlip(g) ELSE PresentSingle(g)
                 /\ cursor' = in.at /\ stamped' = in.at
    BY <1>1, PollIs
  <2>2. /\ buttons' = [left |-> in.left, right |-> in.also = "right"] /\ flip' = flip
        /\ in.left \in BOOLEAN /\ in.at \in Cells
    BY <1>1, DesktopAssumption DEF DesktopPoll, Input
  <2>3. PagesOK'
    BY <2>1, <2>2, PagesStep
  <2>4. /\ buttons' \in [left : BOOLEAN, right : BOOLEAN] /\ buttons'.left = in.left
    BY <2>2
  <2>5. DeskOK(desk)' /\ CellsOK(desk, cursor)' /\ (~buttons.left => Free(desk))'
    BY <2>1, <2>4
  <2>6. IInv'
    BY <2>1, <2>2, <2>3, <2>4, <2>5 DEF IInv
  <2>. QED
    BY <2>1, <2>4, <2>6 DEF Pressed
<1>2. CASE UNCHANGED vars
  <2>1. IInv'
    BY <1>2 DEF IInv, PagesOK, vars
  <2>. QED
    BY <1>2, <2>1
<1>. QED
  BY <1>1, <1>2 DEF Next

LEMMA IInvAlways == Spec => []IInv
<1>1. IInv /\ [Next]_vars => IInv'
  BY IInvNext
<1>. QED
  BY <1>1, IInvInit, PTL DEF Spec

-----------------------------------------------------------------------------
(* The theorems.                                                            *)

\* What follows the mouse is a window in use, shown and held by the left button,
\* and no window is both moved and sized or sized while maximised, for every
\* number of windows and every screen (handle_left_press, win_close,
\* win_minimize and the release in desktop_poll).
THEOREM HoldCorrect == Spec => []HeldWindowIsHeld
<1>1. IInv => HeldWindowIsHeld
  BY DEF IInv, DeskOK, HoldOK, HeldWindowIsHeld, Free
<1>. QED
  BY <1>1, IInvAlways, PTL

\* Every window in use, and the rectangle a maximised one goes back to, stays in
\* the work area and above the smallest size, through all of win_open,
\* win_toggle_max, the drag and the resize.
THEOREM AreaCorrect == Spec => []WindowsInWorkArea
<1>1. IInv => WindowsInWorkArea
  BY DEF IInv, DeskOK, WindowOK, InArea, WindowsInWorkArea
<1>. QED
  BY <1>1, IInvAlways, PTL

\* After every poll each cell of the backbuffer but the cursor's is filled with
\* what is on top there, up to the focus colour of a title's last row: the
\* rectangles the operations repaint hold every cell whose fill they change. What
\* windows draw over the fills, carets and text beyond a frame, is left out.
THEOREM BackbufferCorrect == Spec => []BackbufferShowsScene
<1>1. IInv => BackbufferShowsScene
  BY DEF IInv, CellsOK, Like, BackbufferShowsScene
<1>. QED
  BY <1>1, IInvAlways, PTL

\* The page on the screen is the backbuffer after every poll: the damage holds
\* every cell that changed, and a page that was in the back also gets the damage
\* of the frame it missed (present_single, present_flip).
THEOREM ScreenCorrect == Spec => []ScreenShowsBackbuffer
<1>1. IInv => ScreenShowsBackbuffer
  BY DEF IInv, PagesOK, ScreenShowsBackbuffer
<1>. QED
  BY <1>1, IInvAlways, PTL

\* A left press acts only on what the part shown under the cursor before it stands
\* for, wherever the buttons, grips, items, icons and taskbar buttons are: the
\* hit tests (win_button_at, icon_at, taskbar_win_at, the row of the menu) and
\* the painting (win_render, render_taskbar, render_start_menu) agree.
THEOREM PressCorrect == Spec => PressActsOnShown
<1>1. IInv /\ [Next]_vars => [(~buttons.left /\ buttons'.left) => desk'.hit \in Acts(desk, cursor')]_vars
  BY IInvNext
<1>. QED
  BY <1>1, IInvAlways, PTL DEF Spec, PressActsOnShown

-----------------------------------------------------------------------------
(***************************************************************************)
(* The RAM files, the Notepad and the file manager.                         *)
(***************************************************************************)

LEMMA SlotFacts ==
  /\ MaxFiles \in Nat /\ MaxFiles > 1 /\ MAX_WINDOWS \in Nat
  /\ FileCap \in Nat /\ FileCap > 0 /\ TextCap \in Nat
  BY FileAssumption

(* A set of naturals has a least.                                           *)
LEMMA LeastExists ==
  ASSUME NEW S \in SUBSET Nat, S # {}
  PROVE  \E i \in S : \A j \in S : i <= j
<1>. DEFINE less == OpToRel(<, Nat)
<1>1. IsWellFoundedOn(less, Nat)
  BY NatLessThanWellFounded
<1>2. PICK i \in S : \A j \in S : ~ (<<j, i>> \in less)
  BY <1>1, WFMin
<1>3. \A j \in S : ~ (j < i)
  BY <1>2 DEF OpToRel
<1>. QED
  BY <1>3

LEMMA LeastIs ==
  ASSUME NEW S \in SUBSET FileSlots
  PROVE  /\ Least(S) \in {NOT_FOUND} \cup FileSlots
         /\ S # {} => Least(S) \in S
         /\ Least(S) = NOT_FOUND <=> S = {}
<1>1. CASE S = {}
  BY <1>1 DEF Least
<1>2. CASE S # {}
  <2>1. S \in SUBSET Nat /\ NOT_FOUND \notin S
    BY SlotFacts DEF FileSlots, NOT_FOUND
  <2>2. Least(S) \in S
    BY <1>2, <2>1, LeastExists DEF Least
  <2>. QED
    BY <1>2, <2>1, <2>2
<1>. QED
  BY <1>1, <1>2

(* A file of that name, or a free slot.                                     *)
LEMMA FsFindIs ==
  ASSUME NEW f \in [FileSlots -> Files], NEW n
  PROVE  /\ FsFind(f, n) \in {NOT_FOUND} \cup FileSlots
         /\ FsFind(f, n) # NOT_FOUND =>
              FsFind(f, n) \in Used(f) /\ f[FsFind(f, n)].name = n
         /\ FsFind(f, n) = NOT_FOUND => \A i \in Used(f) : f[i].name # n
<1>. DEFINE S == {i \in Used(f) : f[i].name = n}
<1>1. S \in SUBSET FileSlots
  BY DEF Used
<1>. QED
  BY <1>1, LeastIs DEF FsFind

LEMMA FsCreateIs ==
  ASSUME NEW f \in [FileSlots -> Files], NEW n
  PROVE  /\ FsCreate(f, n) \in {NOT_FOUND} \cup FileSlots
         /\ FsCreate(f, n) = NOT_FOUND <=> FsFind(f, n) = NOT_FOUND /\ Used(f) = FileSlots
         /\ FsCreate(f, n) # NOT_FOUND =>
              \A i \in Used(f) : f[i].name = n => FsCreate(f, n) \in Used(f)
                                                  /\ f[FsCreate(f, n)].name = n
         /\ FsCreate(f, n) # NOT_FOUND /\ FsCreate(f, n) \in Used(f) =>
              f[FsCreate(f, n)].name = n
<1>. DEFINE free == DOMAIN f \ Used(f)
<1>1. free \in SUBSET FileSlots /\ Used(f) \in SUBSET FileSlots
  BY DEF Used
<1>2. /\ Least(free) \in {NOT_FOUND} \cup FileSlots
      /\ free # {} => Least(free) \in free
      /\ Least(free) = NOT_FOUND <=> free = {}
  BY <1>1, LeastIs
<1>3. free = {} <=> Used(f) = FileSlots
  BY <1>1
<1>4. NOT_FOUND \notin FileSlots
  BY SlotFacts DEF NOT_FOUND, FileSlots
<1>5. CASE FsFind(f, n) # NOT_FOUND
  BY <1>5, FsFindIs DEF FsCreate
<1>6. CASE FsFind(f, n) = NOT_FOUND
  <2>. HIDE DEF free
  <2>1. FsCreate(f, n) = Least(free)
    BY <1>6 DEF FsCreate, free
  <2>2. \A i \in Used(f) : f[i].name # n
    BY <1>6, FsFindIs
  <2>3. Least(free) \in Used(f) => Least(free) = NOT_FOUND
    BY <1>2 DEF free
  <2>. QED
    BY <1>2, <1>3, <1>6, <2>1, <2>2, <2>3
<1>. QED
  BY <1>5, <1>6

LEMMA CutIs ==
  ASSUME NEW t \in Seq(Int), NEW cap \in Nat
  PROVE  /\ Cut(t, cap) \in Seq(Int) /\ Len(Cut(t, cap)) <= cap
         /\ Len(t) <= cap => Cut(t, cap) = t
<1>1. CASE Len(t) <= cap
  BY <1>1 DEF Cut
<1>2. CASE Len(t) > cap
  BY <1>2 DEF Cut
<1>. QED
  BY <1>1, <1>2

(* The array after a write: the file holds the text and the others stay.    *)
LEMMA WrittenIs ==
  ASSUME NEW f \in [FileSlots -> Files], NEW n \in Names, NEW t \in Seq(Int)
  PROVE  /\ Written(f, n, t) \in [FileSlots -> Files]
         /\ FsCreate(f, n) = NOT_FOUND => Written(f, n, t) = f
         /\ FsCreate(f, n) # NOT_FOUND =>
              /\ FsCreate(f, n) \in FileSlots
              /\ Written(f, n, t) =
                   [f EXCEPT ![FsCreate(f, n)] = File(n, Cut(t, FileCap))]
              /\ Written(f, n, t)[FsCreate(f, n)] = File(n, Cut(t, FileCap))
<1>1. File(n, Cut(t, FileCap)) \in Files
  BY CutIs, SlotFacts DEF File, Files
<1>. QED
  BY <1>1, FsCreateIs DEF Written

LEMMA DeletedIs ==
  ASSUME NEW f \in [FileSlots -> Files], NEW i \in FileSlots
  PROVE  /\ FsDelete(f, i) \in [FileSlots -> Files]
         /\ FsDelete(f, i) = [f EXCEPT ![i] = NoFile]
<1>1. NoFile \in Files
  BY SlotFacts DEF NoFile, Files
<1>. QED
  BY <1>1 DEF FsDelete

Unique(f) == \A i, j \in Used(f) : f[i].name = f[j].name => i = j

LEMMA WrittenUnique ==
  ASSUME NEW f \in [FileSlots -> Files], Unique(f), NEW n \in Names, NEW t \in Seq(Int)
  PROVE  Unique(Written(f, n, t)) /\ FileNames(f) \subseteq FileNames(Written(f, n, t))
<1>. DEFINE s == FsCreate(f, n)
            g == Written(f, n, t)
<1>1. CASE s = NOT_FOUND
  BY <1>1, WrittenIs
<1>2. CASE s # NOT_FOUND
  <2>1. /\ s \in FileSlots /\ g = [f EXCEPT ![s] = File(n, Cut(t, FileCap))]
        /\ g[s].used /\ g[s].name = n
    <3>1. /\ s \in FileSlots /\ g = [f EXCEPT ![s] = File(n, Cut(t, FileCap))]
          /\ g[s] = File(n, Cut(t, FileCap))
      BY <1>2, WrittenIs
    <3>2. File(n, Cut(t, FileCap)).used /\ File(n, Cut(t, FileCap)).name = n
      BY DEF File
    <3>. HIDE DEF s, g
    <3>. QED
      BY <3>1, <3>2
  <2>2. \A i \in Used(f) : f[i].name = n => i = s
    <3>1. ASSUME NEW i \in Used(f), f[i].name = n
          PROVE  i = s
      <4>1. s \in Used(f) /\ f[s].name = n
        BY <1>2, <3>1, FsCreateIs
      <4>. QED
        BY <3>1, <4>1 DEF Unique
    <3>. QED
      BY <3>1
  <2>3. s \in Used(f) => f[s].name = n
    BY <1>2, FsCreateIs
  <2>. HIDE DEF s, g
  <2>4. \A i \in FileSlots \ {s} : g[i] = f[i]
    BY <2>1
  <2>5. Used(g) = Used(f) \cup {s}
    BY <2>1, <2>4 DEF Used
  <2>6. Unique(g)
    <3>1. ASSUME NEW i \in Used(g), NEW j \in Used(g), g[i].name = g[j].name
          PROVE  i = j
      <4>1. \A k \in Used(g) : k \in FileSlots /\ (k = s \/ (k \in Used(f) /\ g[k] = f[k]))
        BY <2>1, <2>4, <2>5 DEF Used
      <4>. QED
        BY <2>1, <2>2, <3>1, <4>1 DEF Unique
    <3>. QED
      BY <3>1 DEF Unique
  <2>7. FileNames(f) \subseteq FileNames(g)
    <3>1. ASSUME NEW i \in Used(f)
          PROVE  i \in Used(g) /\ g[i].name = f[i].name
      <4>1. i \in FileSlots
        BY DEF Used
      <4>. QED
        BY <2>1, <2>3, <2>4, <2>5, <4>1
    <3>. QED
      BY <3>1 DEF FileNames
  <2>. QED
    BY <2>6, <2>7 DEF g
<1>. QED
  BY <1>1, <1>2

LEMMA DeletedUnique ==
  ASSUME NEW f \in [FileSlots -> Files], Unique(f), NEW i \in FileSlots
  PROVE  /\ Unique(FsDelete(f, i))
         /\ Used(FsDelete(f, i)) = Used(f) \ {i}
         /\ \A j \in Used(f) \ {i} : FsDelete(f, i)[j] = f[j]
<1>. DEFINE g == FsDelete(f, i)
<1>1. g = [f EXCEPT ![i] = NoFile]
  BY DEF FsDelete
<1>2. ~g[i].used /\ \A j \in FileSlots \ {i} : g[j] = f[j]
  BY <1>1 DEF NoFile
<1>3. DOMAIN g = FileSlots /\ DOMAIN f = FileSlots
  BY <1>1
<1>. HIDE DEF g
<1>4. Used(g) = Used(f) \ {i}
  BY <1>2, <1>3 DEF Used
<1>5. \A j \in Used(f) \ {i} : g[j] = f[j]
  BY <1>2, <1>3 DEF Used
<1>6. Unique(g)
  BY <1>4, <1>5 DEF Unique
<1>. QED
  BY <1>4, <1>5, <1>6 DEF g

(* What np_save leaves in the array and in the editor.                      *)
LEMMA SaveFacts ==
  ASSUME TypeOK, NamesUnique, NEW e \in States
  PROVE  /\ SaveName(e) \in Names
         /\ AfterSave(e) \in [FileSlots -> Files] /\ Unique(AfterSave(e))
         /\ FileNames(fs) \subseteq FileNames(AfterSave(e))
         /\ Saved(e) \in States /\ Saved(e).kind = e.kind
<1>1. SaveName(e) \in Names
  BY FileAssumption DEF SaveName, States
<1>2. fs \in [FileSlots -> Files] /\ Unique(fs) /\ e.text \in Seq(Int)
  BY DEF TypeOK, NamesUnique, Unique, States
<1>3. AfterSave(e) \in [FileSlots -> Files]
  BY <1>1, <1>2, WrittenIs DEF AfterSave
<1>4. Unique(AfterSave(e)) /\ FileNames(fs) \subseteq FileNames(AfterSave(e))
  BY <1>1, <1>2, WrittenUnique DEF AfterSave
<1>5. FsCreate(fs, SaveName(e)) \in {NOT_FOUND} \cup FileSlots
  BY <1>2, FsCreateIs
<1>6. Saved(e) \in States /\ Saved(e).kind = e.kind
  BY <1>1, <1>5 DEF Saved, States
<1>. QED
  BY <1>1, <1>3, <1>4, <1>6

LEMMA AutosaveFacts ==
  ASSUME TypeOK, NamesUnique, NEW e \in States
  PROVE  /\ AfterAutosave(e) \in [FileSlots -> Files] /\ Unique(AfterAutosave(e))
         /\ FileNames(fs) \subseteq FileNames(AfterAutosave(e))
<1>1. fs \in [FileSlots -> Files] /\ Unique(fs)
  BY DEF TypeOK, NamesUnique, Unique
<1>. QED
  BY <1>1, SaveFacts DEF AfterAutosave

LEMMA WindowType ==
  ASSUME NEW kind \in {"unused", "notepad", "manager"}
  PROVE  Window(kind) \in States
<1>1. << >> \in Seq(Int) /\ Len(<< >>) = 0
  OBVIOUS
<1>. QED
  BY <1>1, SlotFacts DEF Window, States

LEMMA FreeWindowIs ==
  ASSUME TypeOK
  PROVE  /\ FreeWindow \in {NOT_FOUND} \cup Windows
         /\ FreeWindow # NOT_FOUND => win[FreeWindow].kind = "unused"
<1>. DEFINE S == {w \in Windows : win[w].kind = "unused"}
<1>1. S \in SUBSET Nat /\ S \in SUBSET Windows
  BY SlotFacts DEF Windows
<1>2. CASE S = {}
  BY <1>2 DEF FreeWindow, Least
<1>3. CASE S # {}
  <2>1. Least(S) \in S
    BY <1>1, <1>3, LeastExists DEF Least
  <2>. QED
    BY <2>1 DEF FreeWindow
<1>. QED
  BY <1>2, <1>3

(* What a window shows of a file.                                           *)
LEMMA LoadedType ==
  ASSUME NEW e \in States, NEW f \in [FileSlots -> Files], NEW i \in FileSlots, f[i].used
  PROVE  Loaded(e, f, i) \in States
<1>1. f[i].data \in Seq(Int) /\ f[i].name \in Names
  BY DEF Files
<1>2. Cut(f[i].data, TextCap) \in Seq(Int) /\ Len(Cut(f[i].data, TextCap)) <= TextCap
  BY <1>1, CutIs, SlotFacts
<1>. QED
  BY <1>1, <1>2 DEF Loaded, States

LEMMA UsedCount ==
  ASSUME NEW f \in [FileSlots -> Files]
  PROVE  Cardinality(Used(f)) \in 0 .. MaxFiles
<1>1. IsFiniteSet(FileSlots) /\ Cardinality(FileSlots) = MaxFiles
  BY FS_Interval, SlotFacts DEF FileSlots
<1>2. Used(f) \in SUBSET FileSlots
  BY DEF Used
<1>3. IsFiniteSet(Used(f)) /\ Cardinality(Used(f)) <= MaxFiles
  BY <1>1, <1>2, FS_Subset
<1>4. Cardinality(Used(f)) \in Nat
  BY <1>3, FS_CardinalityType
<1>. QED
  BY <1>3, <1>4, SlotFacts

LEMMA FmNthIs ==
  ASSUME NEW f \in [FileSlots -> Files], NEW k
  PROVE  /\ FmNth(f, k) \in {NOT_FOUND} \cup FileSlots
         /\ FmNth(f, k) # NOT_FOUND => FmNth(f, k) \in Used(f)
<1>. DEFINE S == {i \in Used(f) : Cardinality({j \in Used(f) : j < i}) = k}
<1>1. S \in SUBSET FileSlots
  BY DEF Used
<1>. HIDE DEF S
<1>2. Least(S) \in {NOT_FOUND} \cup FileSlots /\ (Least(S) # NOT_FOUND => Least(S) \in S)
  BY <1>1, LeastIs
<1>. QED
  BY <1>2 DEF FmNth, S

LEMMA ClampedType ==
  ASSUME NEW e \in States, NEW f \in [FileSlots -> Files]
  PROVE  /\ Clamped(e, f) \in States /\ Clamped(e, f).kind = e.kind
         /\ Dismissed(Clamped(e, f)) \in States
         /\ ~Dismissed(Clamped(e, f)).confirming
         /\ Dismissed(Clamped(e, f)).kind = e.kind
<1>. DEFINE n == Cardinality(Used(f))
            sel == IF e.sel < n THEN e.sel ELSE IF n > 0 THEN n - 1 ELSE 0
<1>1. sel \in 0 .. MaxFiles - 1
  BY UsedCount, SlotFacts DEF States
<1>2. Clamped(e, f) = [e EXCEPT !.sel = sel]
  BY DEF Clamped
<1>. HIDE DEF sel
<1>3. Clamped(e, f) \in States /\ Clamped(e, f).kind = e.kind
  BY <1>1, <1>2 DEF States
<1>4. ASSUME NEW c \in States
      PROVE  /\ Dismissed(c) \in States /\ ~Dismissed(c).confirming
             /\ Dismissed(c).kind = c.kind
  <2>1. -1 \in -1 .. MaxFiles - 1
    BY SlotFacts
  <2>2. Dismissed(c) = [c EXCEPT !.confirming = FALSE, !.confirm_idx = -1]
    BY DEF Dismissed
  <2>. QED
    BY <2>1, <2>2 DEF States
<1>. QED
  BY <1>3, <1>4

(* The slot np_open_next goes to holds a file.                              *)
LEMMA NextFileIs ==
  ASSUME TypeOK, NEW e \in States
  PROVE  /\ NextFile(e) \in {NOT_FOUND} \cup FileSlots
         /\ NextFile(e) # NOT_FOUND => NextFile(e) \in Used(fs)
<1>1. Used(fs) \in SUBSET FileSlots
  BY DEF TypeOK, Used
<1>2. CASE e.file_idx \notin Used(fs)
  BY <1>1, <1>2, LeastIs DEF NextFile
<1>3. CASE e.file_idx \in Used(fs)
  <2>. DEFINE far == {Past(e.file_idx, j) : j \in Used(fs)}
  <2>1. e.file_idx \in FileSlots
    BY <1>1, <1>3
  <2>2. \A j \in FileSlots : Past(e.file_idx, j) \in Nat
    BY <2>1, SlotFacts DEF Past, FileSlots
  <2>3. far \in SUBSET Nat /\ far # {}
    BY <1>1, <1>3, <2>2
  <2>4. PICK m \in far : \A x \in far : m <= x
    BY <2>3, LeastExists
  <2>5. PICK j \in Used(fs) : m = Past(e.file_idx, j)
    BY <2>4
  <2>6. \A k \in Used(fs) : Past(e.file_idx, j) <= Past(e.file_idx, k)
    BY <2>4, <2>5
  <2>7. NextFile(e) \in Used(fs)
    BY <1>3, <2>5, <2>6 DEF NextFile
  <2>. QED
    BY <1>1, <2>7
<1>. QED
  BY <1>2, <1>3

-----------------------------------------------------------------------------
(* The invariant, and what every step keeps. *)

Inv == TypeOK /\ NamesUnique

Asked == \E w \in Windows : win[w].confirming /\ ~win'[w].confirming

Grows == FileNames(fs) \subseteq FileNames(fs') \/ Asked

StoredOr(w) ==
  /\ Cleaned(w) /\ Len(win[w].text) <= FileCap
  /\ Used(fs) # FileSlots \/ FsFind(fs, SaveName(win[w])) # NOT_FOUND
  => InAFile(win[w].text)

Good == Inv' /\ Grows /\ \A w \in Windows : StoredOr(w)

LEMMA InitInv == FilesInit => Inv
<1>. SUFFICES ASSUME FilesInit PROVE Inv
  OBVIOUS
<1>1. NoFile \in Files /\ NoApp \in States
  BY WindowType, SlotFacts DEF NoFile, Files, NoApp
<1>2. File("welcome.txt", <<-1>>) \in Files /\ File("notes.txt", <<-2>>) \in Files
  <2>1. <<-1>> \in Seq(Int) /\ <<-2>> \in Seq(Int) /\ Len(<<-1>>) = 1 /\ Len(<<-2>>) = 1
    OBVIOUS
  <2>2. "welcome.txt" \in Names /\ "notes.txt" \in Names
    BY FileAssumption
  <2>3. ASSUME NEW n \in Names, NEW t \in Seq(Int), Len(t) = 1
        PROVE  File(n, t) \in Files
    <3>1. Len(t) <= FileCap
      BY <2>3, SlotFacts
    <3>. QED
      BY <3>1 DEF File, Files
  <2>. QED
    BY <2>1, <2>2, <2>3
<1>3. TypeOK
  BY <1>1, <1>2 DEF FilesInit, TypeOK
<1>4. \A i \in Used(fs) : i \in {1, 2}
  BY DEF FilesInit, Used, NoFile
<1>5. \A i \in {1, 2} \cap FileSlots : fs[i].name = IF i = 1 THEN "welcome.txt" ELSE "notes.txt"
  BY DEF FilesInit, File
<1>6. Used(fs) \subseteq FileSlots
  BY <1>3 DEF TypeOK, Used
<1>7. NamesUnique
  BY <1>4, <1>5, <1>6 DEF NamesUnique
<1>. QED
  BY <1>3, <1>7 DEF Inv

LEMMA WindowIsStep ==
  ASSUME TypeOK, NEW w \in Windows, NEW e \in States, WindowIs(w, e)
  PROVE  /\ win' \in [Windows -> States] /\ win'[w] = e
         /\ \A v \in Windows \ {w} : win'[v] = win[v]
  BY DEF WindowIs, TypeOK

(* Only the window that becomes another can have been cleaned.              *)
LEMMA CleanedIs ==
  ASSUME TypeOK, NEW w \in Windows, NEW e \in States, WindowIs(w, e),
         NEW v \in Windows, Cleaned(v)
  PROVE  /\ v = w /\ win[w].kind = "notepad" /\ win[w].dirty
         /\ e.kind = "notepad" /\ ~e.dirty
  BY WindowIsStep DEF Cleaned, Notepad

(* A step on windows only, that cleans none.                                *)
LEMMA QuietGood ==
  ASSUME Inv, NEW w \in Windows, NEW e \in States, WindowIs(w, e),
         UNCHANGED fs, edits' \in Nat,
         win[w].kind = "notepad" /\ e.kind = "notepad" /\ win[w].dirty => e.dirty
  PROVE  Good
<1>1. TypeOK'
  BY WindowIsStep DEF Inv, TypeOK
<1>2. NamesUnique'
  BY DEF Inv, NamesUnique, Used
<1>3. \A v \in Windows : ~Cleaned(v)
  BY CleanedIs DEF Inv
<1>. QED
  BY <1>1, <1>2, <1>3 DEF Good, Inv, Grows, StoredOr

(* A step that stores the text of w, or leaves it dirty, and removes none.  *)
LEMMA StoreGood ==
  ASSUME Inv, NEW w \in Windows, NEW e \in States, WindowIs(w, e), edits' \in Nat,
         fs' \in [FileSlots -> Files], Unique(fs'),
         FileNames(fs) \subseteq FileNames(fs'), StoredOr(w)
  PROVE  Good
<1>1. TypeOK'
  BY WindowIsStep DEF Inv, TypeOK
<1>2. NamesUnique'
  BY DEF NamesUnique, Unique
<1>3. ASSUME NEW v \in Windows PROVE StoredOr(v)
  BY CleanedIs DEF Inv, StoredOr
<1>. QED
  BY <1>1, <1>2, <1>3 DEF Good, Inv, Grows

(* What np_save has stored is kept.                                         *)
LEMMA SaveKeeps ==
  ASSUME Inv, NEW w \in Windows, fs' = AfterSave(win[w]),
         Len(win[w].text) <= FileCap,
         Used(fs) # FileSlots \/ FsFind(fs, SaveName(win[w])) # NOT_FOUND
  PROVE  InAFile(win[w].text)
<1>. DEFINE n == SaveName(win[w])
            t == win[w].text
<1>1. n \in Names /\ t \in Seq(Int) /\ fs \in [FileSlots -> Files]
  BY SaveFacts DEF Inv, TypeOK, States
<1>2. FsCreate(fs, n) # NOT_FOUND
  BY <1>1, FsCreateIs
<1>3. /\ FsCreate(fs, n) \in FileSlots
      /\ fs'[FsCreate(fs, n)] = File(n, Cut(t, FileCap))
  BY <1>1, <1>2, WrittenIs DEF AfterSave
<1>4. Cut(t, FileCap) = t
  BY <1>1, CutIs, SlotFacts
<1>5. DOMAIN fs' = FileSlots
  BY <1>1, WrittenIs DEF AfterSave
<1>6. fs'[FsCreate(fs, n)].used /\ fs'[FsCreate(fs, n)].data = t
  BY <1>3, <1>4 DEF File
<1>. QED
  BY <1>3, <1>5, <1>6 DEF InAFile

LEMMA IconGood ==
  ASSUME Inv, NEW kind \in {"notepad", "manager"}, AppOpen(kind)
  PROVE  Good
<1>1. FreeWindow \in Windows /\ win[FreeWindow].kind = "unused"
  BY FreeWindowIs DEF AppOpen, Inv
<1>2. Window(kind) \in States
  BY WindowType
<1>. QED
  BY <1>1, <1>2, QuietGood DEF AppOpen, Inv, TypeOK

LEMMA CloseGood ==
  ASSUME Inv, NEW w \in Windows, AppClose(w)
  PROVE  Good
<1>1. NoApp \in States /\ NoApp.kind = "unused"
  BY WindowType DEF NoApp, Window
<1>. QED
  BY <1>1, QuietGood DEF AppClose, Inv, TypeOK

LEMMA TypeGood ==
  ASSUME Inv, NEW w \in Windows, TypeChar(w)
  PROVE  Good
<1>. DEFINE e == [win[w] EXCEPT !.text = Append(@, edits + 1), !.dirty = TRUE]
<1>0. win[w] \in States /\ edits \in Nat /\ edits' \in Nat /\ UNCHANGED fs
  BY DEF TypeChar, Inv, TypeOK
<1>1. CASE Len(win[w].text) < TextCap /\ WindowIs(w, e)
  <2>1. win[w].text \in Seq(Int)
    BY <1>0 DEF States
  <2>2. /\ Append(win[w].text, edits + 1) \in Seq(Int)
        /\ Len(Append(win[w].text, edits + 1)) <= TextCap
    BY <1>0, <1>1, <2>1, SlotFacts
  <2>3. e \in States /\ e.dirty
    BY <1>0, <2>2 DEF States
  <2>. QED
    BY <1>0, <1>1, <2>3, QuietGood
<1>2. CASE UNCHANGED win
  <2>1. WindowIs(w, win[w])
    BY <1>2 DEF WindowIs, Inv, TypeOK
  <2>. QED
    BY <1>0, <2>1, QuietGood
<1>. QED
  BY <1>1, <1>2 DEF TypeChar

LEMMA BackspaceGood ==
  ASSUME Inv, NEW w \in Windows, Backspace(w)
  PROVE  Good
<1>. DEFINE t == SubSeq(win[w].text, 1, Len(win[w].text) - 1)
            e == [win[w] EXCEPT !.text = t, !.dirty = TRUE]
<1>0. win[w] \in States /\ edits' \in Nat /\ UNCHANGED fs /\ win[w].text # << >>
  BY DEF Backspace, Inv, TypeOK
<1>1. win[w].text \in Seq(Int) /\ Len(win[w].text) <= TextCap
  BY <1>0 DEF States
<1>2. t \in Seq(Int) /\ Len(t) <= TextCap
  BY <1>0, <1>1, SlotFacts
<1>. HIDE DEF t
<1>3. e \in States /\ e.dirty
  BY <1>0, <1>2 DEF States
<1>4. WindowIs(w, e)
  BY DEF Backspace, t
<1>. QED
  BY <1>0, <1>3, <1>4, QuietGood

LEMMA SaveGood ==
  ASSUME Inv, NEW w \in Windows, NpSave(w)
  PROVE  Good
<1>1. win[w] \in States /\ edits' \in Nat /\ fs' = AfterSave(win[w])
      /\ WindowIs(w, Saved(win[w]))
  BY DEF NpSave, Inv, TypeOK
<1>2. StoredOr(w)
  BY <1>1, SaveKeeps DEF StoredOr
<1>. QED
  BY <1>1, <1>2, SaveFacts, StoreGood DEF Inv

LEMMA NewGood ==
  ASSUME Inv, NEW w \in Windows, NpNew(w)
  PROVE  Good
<1>. DEFINE e == [Window("notepad") EXCEPT !.save_as = win[w].save_as]
<1>1. win[w] \in States /\ edits' \in Nat /\ fs' = AfterAutosave(win[w]) /\ WindowIs(w, e)
  BY DEF NpNew, Inv, TypeOK
<1>2. e \in States
  BY <1>1, WindowType DEF States
<1>3. StoredOr(w)
  BY <1>1, SaveKeeps DEF StoredOr, Cleaned, AfterAutosave
<1>. HIDE DEF e
<1>. QED
  BY <1>1, <1>2, <1>3, AutosaveFacts, StoreGood DEF Inv

(* np_open_next shows a file that was there and still is.                   *)
LEMMA OpenFacts ==
  ASSUME Inv, NEW w \in Windows, NpOpenNext(w)
  PROVE  LET i == NextFile(win[w])
         IN  /\ i \in FileSlots /\ i \in Used(fs) /\ fs'[i].used
             /\ fs' \in [FileSlots -> Files] /\ Unique(fs')
             /\ FileNames(fs) \subseteq FileNames(fs')
             /\ Loaded(win[w], fs', i) \in States
<1>. DEFINE i == NextFile(win[w])
<1>1. /\ win[w] \in States /\ edits' \in Nat /\ fs' = AfterAutosave(win[w])
      /\ WindowIs(w, Loaded(win[w], fs', i)) /\ i # NOT_FOUND
  BY DEF NpOpenNext, Inv, TypeOK
<1>2. i \in FileSlots /\ i \in Used(fs)
  BY <1>1, NextFileIs DEF Inv, TypeOK, Used
<1>3. fs' \in [FileSlots -> Files] /\ Unique(fs') /\ FileNames(fs) \subseteq FileNames(fs')
  BY <1>1, AutosaveFacts DEF Inv
(* The write frees no slot.                                                 *)
<1>4. fs'[i].used
  <2>1. fs[i].used /\ fs \in [FileSlots -> Files]
    BY <1>2 DEF Used, Inv, TypeOK
  <2>2. CASE fs' = fs
    BY <2>1, <2>2
  <2>3. CASE fs' = AfterSave(win[w])
    <3>. DEFINE n == SaveName(win[w])
                t == win[w].text
    <3>1. n \in Names /\ t \in Seq(Int)
      BY <1>1, SaveFacts DEF Inv, States
    <3>2. CASE FsCreate(fs, n) = NOT_FOUND
      BY <2>1, <2>3, <3>1, <3>2, WrittenIs DEF AfterSave
    <3>3. CASE FsCreate(fs, n) # NOT_FOUND
      <4>1. /\ FsCreate(fs, n) \in FileSlots
            /\ fs' = [fs EXCEPT ![FsCreate(fs, n)] = File(n, Cut(t, FileCap))]
        <5>1. fs' = Written(fs, n, t)
          BY <2>3 DEF AfterSave
        <5>. HIDE DEF n, t
        <5>. QED
          BY <2>1, <3>1, <3>3, <5>1, WrittenIs
      <4>2. File(n, Cut(t, FileCap)).used
        BY DEF File
      <4>. QED
        BY <1>2, <2>1, <4>1, <4>2
    <3>. QED
      BY <3>2, <3>3
  <2>. QED
    BY <1>1, <2>2, <2>3 DEF AfterAutosave
<1>5. Loaded(win[w], fs', i) \in States
  BY <1>1, <1>2, <1>3, <1>4, LoadedType
<1>. QED
  BY <1>2, <1>3, <1>4, <1>5

LEMMA OpenGood ==
  ASSUME Inv, NEW w \in Windows, NpOpenNext(w)
  PROVE  Good
<1>1. /\ edits' \in Nat /\ fs' = AfterAutosave(win[w])
      /\ WindowIs(w, Loaded(win[w], fs', NextFile(win[w])))
  BY DEF NpOpenNext, Inv, TypeOK
<1>2. StoredOr(w)
  BY <1>1, SaveKeeps DEF StoredOr, Cleaned, AfterAutosave
<1>. QED
  BY <1>1, <1>2, OpenFacts, StoreGood

LEMMA PromptGood ==
  ASSUME Inv, NEW w \in Windows, SaveAsBegin(w) \/ SaveAsLeave(w)
  PROVE  Good
<1>1. win[w] \in States /\ edits' \in Nat /\ UNCHANGED fs
  BY DEF SaveAsBegin, SaveAsLeave, Inv, TypeOK
<1>2. PICK b \in BOOLEAN : WindowIs(w, [win[w] EXCEPT !.save_as = b])
  BY DEF SaveAsBegin, SaveAsLeave
<1>3. [win[w] EXCEPT !.save_as = b] \in States
      /\ [win[w] EXCEPT !.save_as = b].dirty = win[w].dirty
  BY <1>1 DEF States
<1>. QED
  BY <1>1, <1>2, <1>3, QuietGood

(* np_save_as writes the array f: the old one, or the old one without the   *)
(* other file of that name.                                                 *)
SavesAs(w, n, f, e) ==
  /\ WindowIs(w, e) /\ fs' = Written(f, n, win[w].text)
  /\ Unique(f)
  /\ \/ f = fs
     \/ \E o \in Used(fs) : fs[o].name = n /\ f = FsDelete(fs, o)
  /\ FsCreate(f, n) = NOT_FOUND => f = fs /\ e.dirty = win[w].dirty
  /\ e.text = win[w].text /\ e.kind = win[w].kind

LEMMA SaveAsFacts ==
  ASSUME Inv, NEW w \in Windows, NEW n \in Names, SaveAs(w, n)
  PROVE  \E f \in [FileSlots -> Files], e \in States : SavesAs(w, n, f, e)
<1>. DEFINE d == win[w]
            other == FsFind(fs, n)
            f == IF other # NOT_FOUND /\ other # d.file_idx THEN FsDelete(fs, other) ELSE fs
            idx == FsCreate(f, n)
            e == IF idx = NOT_FOUND THEN [d EXCEPT !.save_as = FALSE]
                 ELSE [d EXCEPT !.save_as = FALSE, !.fname = n, !.dirty = FALSE,
                                !.file_idx = idx]
<1>1. d \in States /\ fs \in [FileSlots -> Files] /\ Unique(fs)
  BY DEF Inv, TypeOK, NamesUnique, Unique
<1>2. fs' = Written(f, n, d.text) /\ WindowIs(w, e)
  BY DEF SaveAs
<1>3. /\ other # NOT_FOUND => other \in Used(fs) /\ fs[other].name = n
      /\ Used(fs) \subseteq FileSlots
  BY <1>1, FsFindIs DEF Used
<1>4. f \in [FileSlots -> Files] /\ Unique(f)
  BY <1>1, <1>3, DeletedIs, DeletedUnique
<1>5. f = fs \/ \E o \in Used(fs) : fs[o].name = n /\ f = FsDelete(fs, o)
  BY <1>3
<1>6. idx \in {NOT_FOUND} \cup FileSlots
  BY <1>4, FsCreateIs
<1>7. idx = NOT_FOUND => f = fs
  <2>1. SUFFICES ASSUME idx = NOT_FOUND, f # fs PROVE FALSE
    OBVIOUS
  <2>2. other # NOT_FOUND /\ f = FsDelete(fs, other)
    BY <2>1
  <2>3. Used(f) = Used(fs) \ {other} /\ other \in FileSlots
    BY <1>1, <1>3, <2>2, DeletedUnique
  <2>4. Used(f) # FileSlots
    BY <2>3
  <2>. HIDE DEF f
  <2>. QED
    BY <1>4, <2>1, <2>4, FsCreateIs
<1>. HIDE DEF f, idx
<1>8. /\ e \in States /\ e.text = d.text /\ e.kind = d.kind
      /\ idx = NOT_FOUND => e.dirty = d.dirty
  BY <1>1, <1>6 DEF States
<1>. HIDE DEF e
<1>9. SavesAs(w, n, f, e)
  BY <1>2, <1>4, <1>5, <1>7, <1>8 DEF SavesAs, idx
<1>. QED
  BY <1>4, <1>8, <1>9

(* Save As removes only a file of the name it then writes.                  *)
LEMMA SaveAsGood ==
  ASSUME Inv, NEW w \in Windows, NEW n \in Names, SaveAs(w, n)
  PROVE  Good
<1>1. PICK f \in [FileSlots -> Files], e \in States : SavesAs(w, n, f, e)
  BY SaveAsFacts
<1>. DEFINE t == win[w].text
            idx == FsCreate(f, n)
<1>2. t \in Seq(Int) /\ edits' \in Nat /\ fs \in [FileSlots -> Files] /\ Unique(fs)
  BY DEF SaveAs, Inv, TypeOK, States, NamesUnique, Unique
<1>3. fs' = Written(f, n, t) /\ WindowIs(w, e) /\ Unique(f)
  BY <1>1 DEF SavesAs
<1>4. FileNames(fs) \subseteq FileNames(f) \cup {n}
  <2>1. CASE f = fs
    BY <2>1
  <2>2. CASE \E o \in Used(fs) : fs[o].name = n /\ f = FsDelete(fs, o)
    <3>1. PICK o \in Used(fs) : fs[o].name = n /\ f = FsDelete(fs, o)
      BY <2>2
    <3>2. Used(f) = Used(fs) \ {o} /\ \A j \in Used(fs) \ {o} : f[j] = fs[j]
      BY <1>2, <3>1, DeletedUnique DEF Used
    <3>. QED
      BY <3>1, <3>2 DEF FileNames
  <2>. QED
    BY <1>1, <2>1, <2>2 DEF SavesAs
<1>. HIDE DEF t, idx
<1>5. fs' \in [FileSlots -> Files] /\ Unique(fs') /\ FileNames(f) \subseteq FileNames(fs')
  BY <1>2, <1>3, WrittenIs, WrittenUnique
<1>6. idx # NOT_FOUND => /\ fs'[idx] = File(n, Cut(t, FileCap))
                         /\ idx \in FileSlots /\ DOMAIN fs' = FileSlots
  BY <1>2, <1>3, <1>5, WrittenIs DEF idx
<1>7. FileNames(fs) \subseteq FileNames(fs')
  <2>1. CASE idx = NOT_FOUND
    BY <1>1, <1>5, <2>1 DEF SavesAs, idx
  <2>2. CASE idx # NOT_FOUND
    <3>1. n \in FileNames(fs')
      BY <1>6, <2>2 DEF FileNames, Used, File
    <3>. QED
      BY <1>4, <1>5, <3>1
  <2>. QED
    BY <2>1, <2>2
<1>8. StoredOr(w)
  <2>. SUFFICES ASSUME Cleaned(w), Len(t) <= FileCap PROVE InAFile(t)
    BY DEF StoredOr, t
  <2>1. idx # NOT_FOUND
    BY <1>1, <1>3, CleanedIs DEF Inv, SavesAs, idx
  <2>2. Cut(t, FileCap) = t
    BY <1>2, CutIs, SlotFacts
  <2>. QED
    BY <1>6, <2>1, <2>2 DEF InAFile, File
<1>. QED
  BY <1>2, <1>3, <1>5, <1>7, <1>8, StoreGood

-----------------------------------------------------------------------------
(* The file manager. *)

LEMMA SelectGood ==
  ASSUME Inv, NEW w \in Windows, NEW k \in 0 .. (MaxFiles - 1), FmSelect(w, k)
  PROVE  Good
<1>1. win[w] \in States /\ edits' \in Nat /\ UNCHANGED fs /\ win[w].kind = "manager"
      /\ WindowIs(w, [win[w] EXCEPT !.sel = k])
  BY DEF FmSelect, Manager, Inv, TypeOK
<1>2. [win[w] EXCEPT !.sel = k] \in States
  BY <1>1 DEF States
<1>. QED
  BY <1>1, <1>2, QuietGood

LEMMA RedrawGood ==
  ASSUME Inv, NEW w \in Windows, FmRedraw(w) \/ FmCancel(w)
  PROVE  Good
<1>1. win[w] \in States /\ edits' \in Nat /\ UNCHANGED fs /\ win[w].kind = "manager"
  BY DEF FmRedraw, FmCancel, Manager, Inv, TypeOK
<1>2. fs \in [FileSlots -> Files]
  BY DEF Inv, TypeOK
<1>. QED
  BY <1>1, <1>2, ClampedType, QuietGood DEF FmRedraw, FmCancel

LEMMA AskGood ==
  ASSUME Inv, NEW w \in Windows, FmAskDelete(w)
  PROVE  Good
<1>. DEFINE e == [win[w] EXCEPT !.confirming = TRUE, !.confirm_idx = win[w].sel]
<1>1. win[w] \in States /\ edits' \in Nat /\ UNCHANGED fs /\ win[w].kind = "manager"
      /\ WindowIs(w, e)
  BY DEF FmAskDelete, Manager, Inv, TypeOK
<1>2. win[w].sel \in -1 .. (MaxFiles - 1)
  BY <1>1, SlotFacts DEF States
<1>3. e \in States
  BY <1>1, <1>2 DEF States
<1>. HIDE DEF e
<1>. QED
  BY <1>1, <1>3, QuietGood

LEMMA ConfirmGood ==
  ASSUME Inv, NEW w \in Windows, FmConfirm(w)
  PROVE  Good
<1>. DEFINE i == FmNth(fs, win[w].confirm_idx)
            e == Dismissed(Clamped(win[w], fs'))
<1>1. /\ win[w] \in States /\ edits' \in Nat /\ win[w].kind = "manager"
      /\ win[w].confirming /\ WindowIs(w, e)
      /\ fs' = IF i = NOT_FOUND THEN fs ELSE FsDelete(fs, i)
  BY DEF FmConfirm, Manager, Inv, TypeOK
<1>2. fs \in [FileSlots -> Files] /\ Unique(fs)
  BY DEF Inv, TypeOK, NamesUnique, Unique
<1>3. i \in {NOT_FOUND} \cup FileSlots
  BY <1>2, FmNthIs
<1>4. fs' \in [FileSlots -> Files] /\ Unique(fs')
  BY <1>1, <1>2, <1>3, DeletedIs, DeletedUnique
<1>5. e \in States /\ ~e.confirming
  BY <1>1, <1>4, ClampedType
<1>. HIDE DEF i, e
<1>6. TypeOK'
  BY <1>1, <1>4, <1>5, WindowIsStep DEF Inv, TypeOK
<1>7. NamesUnique'
  BY <1>4 DEF NamesUnique, Unique
<1>8. Asked
  BY <1>1, <1>5, WindowIsStep DEF Inv, Asked
<1>9. \A v \in Windows : StoredOr(v)
  BY <1>1, <1>5, CleanedIs DEF Inv, StoredOr
<1>. QED
  BY <1>6, <1>7, <1>8, <1>9 DEF Good, Inv, Grows

LEMMA OpenSelectedGood ==
  ASSUME Inv, NEW w \in Windows, FmOpenSelected(w)
  PROVE  Good
<1>. DEFINE i == FmNth(fs, win[w].sel)
            e == Loaded(Window("notepad"), fs, i)
<1>1. edits' \in Nat /\ UNCHANGED fs /\ i # NOT_FOUND /\ WindowIs(FreeWindow, e)
  BY DEF FmOpenSelected, Inv, TypeOK
<1>2. FreeWindow \in Windows /\ win[FreeWindow].kind = "unused"
  BY FreeWindowIs DEF FmOpenSelected, Inv
<1>3. fs \in [FileSlots -> Files] /\ i \in FileSlots /\ fs[i].used
  BY <1>1, FmNthIs DEF Inv, TypeOK, Used
<1>4. e \in States
  BY <1>3, WindowType, LoadedType
<1>. HIDE DEF e
<1>. QED
  BY <1>1, <1>2, <1>4, QuietGood

LEMMA NextGood ==
  ASSUME Inv, FilesNext
  PROVE  Good
<1>1. ASSUME NEW w \in Windows, NotepadStep(w) PROVE Good
  BY <1>1, TypeGood, BackspaceGood, SaveGood, NewGood, OpenGood, PromptGood,
     SaveAsGood DEF NotepadStep
<1>2. ASSUME NEW w \in Windows, ManagerStep(w) PROVE Good
  BY <1>2, SelectGood, RedrawGood, AskGood, ConfirmGood, OpenSelectedGood DEF ManagerStep
<1>. QED
  BY <1>1, <1>2, IconGood, CloseGood DEF FilesNext

LEMMA NextInv == Inv /\ [FilesNext]_files_vars => Inv'
<1>1. ASSUME Inv, UNCHANGED files_vars PROVE Inv'
  BY <1>1 DEF files_vars, Inv, TypeOK, NamesUnique, Used
<1>. QED
  BY <1>1, NextGood DEF Good

-----------------------------------------------------------------------------
(* Texts fit their buffers, and every slot or position a window keeps is    *)
(* one of the array, whatever the others did to the files meanwhile.        *)
THEOREM TypeCorrect == FilesSpec => []TypeOK
<1>1. FilesInit => Inv
  BY InitInv
<1>2. Inv /\ [FilesNext]_files_vars => Inv'
  BY NextInv
<1>3. Inv => TypeOK
  BY DEF Inv
<1>. QED
  BY <1>1, <1>2, <1>3, PTL DEF FilesSpec

(* fs_create, np_save, np_save_as and the deletes never leave two slots with *)
(* one name, so that fs_find, which stops at the first, finds the only one.  *)
THEOREM NamesCorrect == FilesSpec => []NamesUnique
<1>1. FilesInit => Inv
  BY InitInv
<1>2. Inv /\ [FilesNext]_files_vars => Inv'
  BY NextInv
<1>3. Inv => NamesUnique
  BY DEF Inv
<1>. QED
  BY <1>1, <1>2, <1>3, PTL DEF FilesSpec

(* A name leaves the array only in the step that answers a delete dialog.   *)
THEOREM RemovalCorrect == FilesSpec => RemovedOnlyWhenAsked
<1>1. FilesInit => Inv
  BY InitInv
<1>2. Inv /\ [FilesNext]_files_vars => Inv'
  BY NextInv
<1>3. Inv /\ [FilesNext]_files_vars =>
        [FileNames(fs) \subseteq FileNames(fs') \/
         \E w \in Windows : win[w].confirming /\ ~win'[w].confirming]_files_vars
  BY NextGood DEF Good, Grows, Asked
<1>. QED
  BY <1>1, <1>2, <1>3, PTL DEF FilesSpec, RemovedOnlyWhenAsked

(* Save, New, Open and Save As mark an editor clean only when its whole text *)
(* is in a file, if a file can hold it and a slot or its name is there.     *)
THEOREM SaveCorrect == FilesSpec => SavedWhenRoom
<1>1. FilesInit => Inv
  BY InitInv
<1>2. Inv /\ [FilesNext]_files_vars => Inv'
  BY NextInv
<1>3. Inv /\ [FilesNext]_files_vars =>
        [\A w \in Windows :
           /\ Cleaned(w) /\ Len(win[w].text) <= FileCap
           /\ Used(fs) # FileSlots \/ FsFind(fs, SaveName(win[w])) # NOT_FOUND
           => InAFile(win[w].text)]_files_vars
  BY NextGood DEF Good, StoredOr
<1>. QED
  BY <1>1, <1>2, <1>3, PTL DEF FilesSpec, SavedWhenRoom

-----------------------------------------------------------------------------
(* The refinement: slots and positions do what names say. *)

FileMap(f) == [n \in FileNames(f) |-> f[NameSlot(f, n)].data]
TextMap(v) ==
  [w \in {x \in Windows : v[x].kind = "notepad"} |-> v[w].text]

LEMMA MapsAre == Contents = FileMap(fs) /\ Texts = TextMap(win)
  BY DEF Contents, Texts, FileMap, TextMap, FileNames, NameSlot, Notepad

LEMMA MapsNext == Contents' = FileMap(fs') /\ Texts' = TextMap(win')
  BY DEF Contents, Texts, FileMap, TextMap, FileNames, NameSlot, Notepad

LEMMA FileMapIs ==
  ASSUME NEW f \in [FileSlots -> Files], Unique(f), NEW i \in Used(f)
  PROVE  f[i].name \in DOMAIN FileMap(f) /\ FileMap(f)[f[i].name] = f[i].data
<1>1. NameSlot(f, f[i].name) = i
  BY DEF Unique, NameSlot
<1>2. f[i].name \in FileNames(f)
  BY DEF FileNames
<1>. QED
  BY <1>1, <1>2 DEF FileMap

(* A map is known by its names and what they hold.                          *)
LEMMA MapsEqual ==
  ASSUME NEW f \in [FileSlots -> Files], Unique(f), NEW m, NEW D, m = [x \in D |-> m[x]],
         \A i \in Used(f) : f[i].name \in D /\ m[f[i].name] = f[i].data,
         \A x \in D : \E i \in Used(f) : f[i].name = x
  PROVE  FileMap(f) = m
<1>1. FileNames(f) = D
  BY DEF FileNames
<1>2. ASSUME NEW x \in D PROVE FileMap(f)[x] = m[x]
  BY FileMapIs
<1>. QED
  BY <1>1, <1>2 DEF FileMap

LEMMA WrittenMap ==
  ASSUME NEW f \in [FileSlots -> Files], Unique(f), NEW n \in Names, NEW t \in Seq(Int),
         FsCreate(f, n) # NOT_FOUND
  PROVE  FileMap(Written(f, n, t)) = Store!Put(FileMap(f), n, Store!Trunc(t))
<1>. DEFINE s == FsCreate(f, n)
            g == Written(f, n, t)
            m == Store!Put(FileMap(f), n, Store!Trunc(t))
            D == FileNames(f) \cup {n}
<1>1. /\ s \in FileSlots /\ g = [f EXCEPT ![s] = File(n, Cut(t, FileCap))]
      /\ g \in [FileSlots -> Files]
  BY WrittenIs
<1>2. g[s].used /\ g[s].name = n /\ g[s].data = Cut(t, FileCap)
  BY <1>1 DEF File
<1>3. Store!Trunc(t) = Cut(t, FileCap)
  BY DEF Store!Trunc, Cut
<1>4. DOMAIN FileMap(f) = FileNames(f)
  BY DEF FileMap
<1>5. m = [x \in D |-> IF x = n THEN Cut(t, FileCap) ELSE FileMap(f)[x]]
  BY <1>3, <1>4 DEF Store!Put
<1>6. Unique(g)
  BY WrittenUnique
<1>7. \A i \in Used(f) : f[i].name = n => i = s
  BY FsCreateIs DEF Unique
<1>8. s \in Used(f) => f[s].name = n
  BY FsCreateIs
<1>. HIDE DEF s, g, m
<1>9. \A i \in FileSlots \ {s} : g[i] = f[i]
  BY <1>1
<1>10. Used(g) = Used(f) \cup {s}
  BY <1>1, <1>2, <1>9 DEF Used
<1>11. ASSUME NEW i \in Used(g) PROVE g[i].name \in D /\ m[g[i].name] = g[i].data
  <2>1. CASE i = s
    BY <1>2, <1>5, <2>1
  <2>2. CASE i # s
    <3>1. i \in Used(f) /\ g[i] = f[i] /\ f[i].name # n
      BY <1>7, <1>9, <1>10, <2>2 DEF Used
    <3>. QED
      BY <1>4, <1>5, <3>1, FileMapIs
  <2>. QED
    BY <2>1, <2>2
<1>12. ASSUME NEW x \in D PROVE \E i \in Used(g) : g[i].name = x
  <2>1. CASE x = n
    BY <1>2, <1>10, <2>1
  <2>2. CASE x # n
    <3>1. PICK i \in Used(f) : f[i].name = x
      BY <2>2 DEF FileNames
    <3>2. i # s /\ i \in FileSlots
      BY <1>8, <2>2, <3>1 DEF Used
    <3>. QED
      BY <1>9, <1>10, <3>1, <3>2
  <2>. QED
    BY <2>1, <2>2
<1>13. m = [x \in D |-> m[x]]
  BY <1>5
<1>14. FileMap(g) = m
  <2>1. \A i \in Used(g) : g[i].name \in D /\ m[g[i].name] = g[i].data
    BY <1>11
  <2>2. \A x \in D : \E i \in Used(g) : g[i].name = x
    BY <1>12
  <2>3. g \in [FileSlots -> Files]
    BY <1>1
  <2>. HIDE DEF D
  <2>4. FileNames(g) = D
    BY <2>1, <2>2 DEF FileNames
  <2>5. ASSUME NEW x \in D PROVE FileMap(g)[x] = m[x]
    BY <1>6, <2>1, <2>2, <2>3, FileMapIs
  <2>6. FileMap(g) = [x \in D |-> FileMap(g)[x]]
    BY <2>4 DEF FileMap
  <2>. QED
    BY <1>13, <2>5, <2>6
<1>. QED
  BY <1>14 DEF g, m

LEMMA DeletedMap ==
  ASSUME NEW f \in [FileSlots -> Files], Unique(f), NEW i \in Used(f)
  PROVE  FileMap(FsDelete(f, i)) = Store!Drop(FileMap(f), f[i].name)
<1>. DEFINE g == FsDelete(f, i)
            m == Store!Drop(FileMap(f), f[i].name)
            D == FileNames(f) \ {f[i].name}
<1>0. i \in FileSlots
  BY DEF Used
<1>1. /\ Unique(g) /\ Used(g) = Used(f) \ {i} /\ g \in [FileSlots -> Files]
      /\ \A j \in Used(f) \ {i} : g[j] = f[j]
  BY <1>0, DeletedIs, DeletedUnique
<1>2. DOMAIN FileMap(f) = FileNames(f)
  BY DEF FileMap
<1>3. m = [x \in D |-> FileMap(f)[x]]
  BY <1>2 DEF Store!Drop
<1>. HIDE DEF g, m
<1>4. ASSUME NEW j \in Used(g) PROVE g[j].name \in D /\ m[g[j].name] = g[j].data
  <2>1. j \in Used(f) /\ j # i /\ g[j] = f[j]
    BY <1>1
  <2>2. f[j].name # f[i].name
    BY <2>1 DEF Unique
  <2>3. f[j].name \in DOMAIN FileMap(f) /\ FileMap(f)[f[j].name] = f[j].data
    BY <2>1, FileMapIs
  <2>. QED
    BY <1>2, <1>3, <2>1, <2>2, <2>3
<1>5. ASSUME NEW x \in D PROVE \E j \in Used(g) : g[j].name = x
  BY <1>1 DEF FileNames
<1>6. m = [x \in D |-> m[x]]
  BY <1>3
<1>7. FileMap(g) = m
  <2>. HIDE DEF D
  <2>. QED
    BY <1>1, <1>4, <1>5, <1>6, MapsEqual
<1>. QED
  BY <1>7 DEF g, m

LEMMA TextsAre ==
  ASSUME TypeOK, NEW w \in Windows, NEW e \in States, WindowIs(w, e)
  PROVE  /\ e.kind = "notepad" => TextMap(win') = Store!Put(TextMap(win), w, e.text)
         /\ e.kind # "notepad" => TextMap(win') = Store!Drop(TextMap(win), w)
         /\ w \in DOMAIN TextMap(win) <=> win[w].kind = "notepad"
         /\ w \in DOMAIN TextMap(win) => TextMap(win)[w] = win[w].text
         /\ DOMAIN TextMap(win) \subseteq Windows
<1>. DEFINE pads == {x \in Windows : win[x].kind = "notepad"}
            pads2 == {x \in Windows : win'[x].kind = "notepad"}
<1>1. DOMAIN TextMap(win) = pads /\ \A x \in pads : TextMap(win)[x] = win[x].text
  BY DEF TextMap
<1>2. win'[w] = e /\ \A v \in Windows \ {w} : win'[v] = win[v]
  BY WindowIsStep
<1>3. TextMap(win') = [x \in pads2 |-> win'[x].text]
  BY DEF TextMap
<1>4. CASE e.kind = "notepad"
  <2>1. pads2 = pads \cup {w}
    BY <1>2, <1>4
  <2>2. \A x \in pads2 : win'[x].text = IF x = w THEN e.text ELSE TextMap(win)[x]
    BY <1>1, <1>2, <2>1
  <2>. HIDE DEF pads, pads2
  <2>3. TextMap(win') = Store!Put(TextMap(win), w, e.text)
    BY <1>1, <1>3, <2>1, <2>2 DEF Store!Put
  <2>. QED
    BY <1>1, <1>4, <2>3 DEF pads
<1>5. CASE e.kind # "notepad"
  <2>1. pads2 = pads \ {w}
    BY <1>2, <1>5
  <2>2. \A x \in pads2 : win'[x].text = TextMap(win)[x]
    BY <1>1, <1>2, <2>1
  <2>. HIDE DEF pads, pads2
  <2>3. TextMap(win') = Store!Drop(TextMap(win), w)
    BY <1>1, <1>3, <2>1, <2>2 DEF Store!Drop
  <2>. QED
    BY <1>1, <1>5, <2>3 DEF pads
<1>. QED
  BY <1>4, <1>5

(* A window that shows no other text than before.                           *)
LEMMA TextsSame ==
  ASSUME TypeOK, NEW w \in Windows, NEW e \in States, WindowIs(w, e),
         \/ win[w].kind = "notepad" /\ e.kind = "notepad" /\ e.text = win[w].text
         \/ win[w].kind # "notepad" /\ e.kind # "notepad"
  PROVE  TextMap(win') = TextMap(win)
<1>1. win'[w] = e /\ \A v \in Windows \ {w} : win'[v] = win[v]
  BY WindowIsStep
<1>2. \A x \in Windows : /\ win'[x].kind = "notepad" <=> win[x].kind = "notepad"
                         /\ win[x].kind = "notepad" => win'[x].text = win[x].text
  BY <1>1
<1>. QED
  BY <1>2 DEF TextMap

Refined == [Store!Next]_<<Contents, Texts>>

LEMMA StateFacts ==
  ASSUME Inv
  PROVE  /\ fs \in [FileSlots -> Files] /\ Unique(fs)
         /\ win \in [Windows -> States] /\ edits \in Nat
  BY DEF Inv, TypeOK, NamesUnique, Unique

(* What a store step is made of.                                            *)
LEMMA StutterRefined ==
  ASSUME Inv, NEW w \in Windows, NEW e \in States, WindowIs(w, e), UNCHANGED fs,
         \/ win[w].kind = "notepad" /\ e.kind = "notepad" /\ e.text = win[w].text
         \/ win[w].kind # "notepad" /\ e.kind # "notepad"
  PROVE  Refined
  BY TextsSame, MapsAre, MapsNext DEF Inv, Refined

LEMMA IconRefined ==
  ASSUME Inv, NEW kind \in {"notepad", "manager"}, AppOpen(kind)
  PROVE  Refined
<1>. DEFINE w == FreeWindow
            e == Window(kind)
<1>1. w \in Windows /\ win[w].kind = "unused" /\ WindowIs(w, e) /\ UNCHANGED fs
  BY FreeWindowIs DEF AppOpen, Inv
<1>2. e \in States /\ e.kind = kind /\ e.text = << >>
  BY WindowType DEF Window
<1>. HIDE DEF w, e
<1>3. CASE kind = "manager"
  BY <1>1, <1>2, <1>3, StutterRefined
<1>4. CASE kind = "notepad"
  <2>1. w \notin DOMAIN Texts /\ Texts' = Store!Put(Texts, w, << >>)
    BY <1>1, <1>2, <1>4, TextsAre, MapsAre, MapsNext DEF Inv
  <2>2. UNCHANGED Contents
    BY <1>1, MapsAre, MapsNext
  <2>. QED
    BY <1>1, <2>1, <2>2 DEF Refined, Store!Next, Store!OpenEmpty
<1>. QED
  BY <1>3, <1>4

LEMMA CloseRefined ==
  ASSUME Inv, NEW w \in Windows, AppClose(w)
  PROVE  Refined
<1>1. NoApp \in States /\ NoApp.kind = "unused" /\ WindowIs(w, NoApp) /\ UNCHANGED fs
  BY WindowType DEF NoApp, Window, AppClose
<1>2. CASE win[w].kind = "notepad"
  <2>1. w \in DOMAIN Texts /\ Texts' = Store!Drop(Texts, w)
    BY <1>1, <1>2, TextsAre, MapsAre, MapsNext DEF Inv
  <2>2. UNCHANGED Contents
    BY <1>1, MapsAre, MapsNext
  <2>. QED
    BY <2>1, <2>2 DEF Refined, Store!Next, Store!Close
<1>3. CASE win[w].kind # "notepad"
  BY <1>1, <1>3, StutterRefined
<1>. QED
  BY <1>2, <1>3

(* A notepad shows another text, and no file changes.                       *)
LEMMA EditRefined ==
  ASSUME Inv, NEW w \in Windows, NEW e \in States, WindowIs(w, e), UNCHANGED fs,
         win[w].kind = "notepad", e.kind = "notepad",
         \/ \E c \in 1 .. MaxEdits : e.text = Append(win[w].text, c)
         \/ win[w].text # << >>
              /\ e.text = SubSeq(win[w].text, 1, Len(win[w].text) - 1)
         \/ e.text = << >>
  PROVE  Refined
<1>1. /\ w \in DOMAIN Texts /\ Texts[w] = win[w].text
      /\ Texts' = Store!Put(Texts, w, e.text)
  BY TextsAre, MapsAre, MapsNext DEF Inv
<1>2. UNCHANGED Contents
  BY MapsAre, MapsNext
<1>3. Store!Edit(w)
  BY <1>1, <1>2 DEF Store!Edit
<1>. QED
  BY <1>1, <1>3 DEF Refined, Store!Next

LEMMA TypeRefined ==
  ASSUME Inv, NEW w \in Windows, TypeChar(w)
  PROVE  Refined
<1>. DEFINE e == [win[w] EXCEPT !.text = Append(@, edits + 1), !.dirty = TRUE]
<1>0. /\ win[w] \in States /\ edits + 1 \in 1 .. MaxEdits /\ UNCHANGED fs
      /\ win[w].kind = "notepad"
  BY StateFacts, FileAssumption DEF TypeChar, Notepad
<1>1. CASE Len(win[w].text) < TextCap /\ WindowIs(w, e)
  <2>1. win[w].text \in Seq(Int)
    BY <1>0 DEF States
  <2>2. /\ Append(win[w].text, edits + 1) \in Seq(Int)
        /\ Len(Append(win[w].text, edits + 1)) <= TextCap
    BY <1>0, <1>1, <2>1, SlotFacts
  <2>3. e \in States /\ e.kind = "notepad" /\ e.text = Append(win[w].text, edits + 1)
    BY <1>0, <2>2 DEF States
  <2>. HIDE DEF e
  <2>. QED
    BY <1>0, <1>1, <2>3, EditRefined
<1>2. CASE UNCHANGED win
  BY <1>0, <1>2, MapsAre, MapsNext DEF Refined
<1>. QED
  BY <1>1, <1>2 DEF TypeChar

LEMMA BackspaceRefined ==
  ASSUME Inv, NEW w \in Windows, Backspace(w)
  PROVE  Refined
<1>. DEFINE t == SubSeq(win[w].text, 1, Len(win[w].text) - 1)
            e == [win[w] EXCEPT !.text = t, !.dirty = TRUE]
<1>0. /\ win[w] \in States /\ UNCHANGED fs /\ win[w].text # << >>
      /\ win[w].kind = "notepad"
  BY StateFacts DEF Backspace, Notepad
<1>1. win[w].text \in Seq(Int) /\ Len(win[w].text) <= TextCap
  BY <1>0 DEF States
<1>2. t \in Seq(Int) /\ Len(t) <= TextCap
  BY <1>0, <1>1, SlotFacts
<1>. HIDE DEF t
<1>3. e \in States /\ e.kind = "notepad" /\ e.text = t
  BY <1>0, <1>2 DEF States
<1>4. WindowIs(w, e)
  BY DEF Backspace, t
<1>. HIDE DEF e
<1>. QED
  BY <1>0, <1>3, <1>4, EditRefined DEF t

(* A write of the text of w under a name, whatever w shows afterwards.      *)
LEMMA SaveRefined ==
  ASSUME Inv, NEW w \in Windows, NEW e \in States, WindowIs(w, e), NEW n \in Names,
         win[w].kind = "notepad", e.kind = "notepad",
         Contents' = Store!Put(Contents, n, Store!Trunc(win[w].text)),
         \/ e.text = win[w].text
         \/ e.text = << >>
         \/ \E m \in DOMAIN Contents' : e.text = Contents'[m]
  PROVE  Refined
<1>1. /\ w \in DOMAIN Texts /\ Texts[w] = win[w].text
      /\ Texts' = Store!Put(Texts, w, e.text)
  BY TextsAre, MapsAre, MapsNext DEF Inv
<1>2. e.text = win[w].text => Texts' = Texts
  BY TextsSame, MapsAre, MapsNext DEF Inv
<1>3. Store!Save(w, n)
  BY <1>1, <1>2 DEF Store!Save
<1>. QED
  BY <1>1, <1>3 DEF Refined, Store!Next

(* What np_save does to the map of files.                                   *)
LEMMA AfterSaveMap ==
  ASSUME Inv, NEW e \in States, fs' = AfterSave(e)
  PROVE  \/ UNCHANGED fs /\ FsCreate(fs, SaveName(e)) = NOT_FOUND
         \/ /\ FsCreate(fs, SaveName(e)) # NOT_FOUND
            /\ Contents' = Store!Put(Contents, SaveName(e), Store!Trunc(e.text))
<1>1. SaveName(e) \in Names /\ e.text \in Seq(Int)
  BY SaveFacts DEF Inv, States
<1>2. fs \in [FileSlots -> Files] /\ Unique(fs)
  BY StateFacts
<1>3. CASE FsCreate(fs, SaveName(e)) = NOT_FOUND
  BY <1>1, <1>2, <1>3, WrittenIs DEF AfterSave
<1>4. CASE FsCreate(fs, SaveName(e)) # NOT_FOUND
  <2>1. FileMap(fs') = Store!Put(FileMap(fs), SaveName(e), Store!Trunc(e.text))
    BY <1>1, <1>2, <1>4, WrittenMap DEF AfterSave
  <2>. QED
    BY <1>4, <2>1, MapsAre, MapsNext
<1>. QED
  BY <1>3, <1>4

LEMMA NpSaveRefined ==
  ASSUME Inv, NEW w \in Windows, NpSave(w)
  PROVE  Refined
<1>. DEFINE e == Saved(win[w])
<1>1. /\ win[w] \in States /\ win[w].kind = "notepad" /\ fs' = AfterSave(win[w])
      /\ WindowIs(w, e)
  BY StateFacts DEF NpSave, Notepad
<1>2. /\ e \in States /\ e.kind = "notepad" /\ e.text = win[w].text
      /\ SaveName(win[w]) \in Names
  BY <1>1, SaveFacts DEF Inv, Saved, States
<1>. HIDE DEF e
<1>3. CASE UNCHANGED fs
  BY <1>1, <1>2, <1>3, StutterRefined
<1>4. CASE Contents' = Store!Put(Contents, SaveName(win[w]), Store!Trunc(win[w].text))
  BY <1>1, <1>2, <1>4, SaveRefined
<1>. QED
  BY <1>1, <1>3, <1>4, AfterSaveMap

(* New: a save if the document was dirty and had room, then an empty one.   *)
LEMMA NewRefined ==
  ASSUME Inv, NEW w \in Windows, NpNew(w)
  PROVE  Refined
<1>. DEFINE e == [Window("notepad") EXCEPT !.save_as = win[w].save_as]
<1>1. /\ win[w] \in States /\ win[w].kind = "notepad"
      /\ fs' = AfterAutosave(win[w]) /\ WindowIs(w, e)
  BY StateFacts DEF NpNew, Notepad
<1>2. e \in States
  BY <1>1, WindowType DEF States
<1>3. e.kind = "notepad" /\ e.text = << >>
  BY DEF Window
<1>4. SaveName(win[w]) \in Names
  BY <1>1, SaveFacts DEF Inv
<1>. HIDE DEF e
<1>5. CASE UNCHANGED fs
  BY <1>1, <1>2, <1>3, <1>5, EditRefined
<1>6. CASE Contents' = Store!Put(Contents, SaveName(win[w]), Store!Trunc(win[w].text))
  BY <1>1, <1>2, <1>3, <1>4, <1>6, SaveRefined
<1>. QED
  BY <1>1, <1>5, <1>6, AfterSaveMap DEF AfterAutosave

(* A file loaded whole: a file is shorter than an editor's buffer.          *)
LEMMA LoadedText ==
  ASSUME NEW f \in [FileSlots -> Files], NEW i \in FileSlots
  PROVE  Cut(f[i].data, TextCap) = f[i].data
<1>1. f[i].data \in Seq(Int) /\ Len(f[i].data) <= FileCap
  BY DEF Files
<1>2. Len(f[i].data) <= TextCap
  BY <1>1, FileAssumption
<1>. QED
  BY <1>1, <1>2, CutIs, SlotFacts

LEMMA LoadRefined ==
  ASSUME Inv, NEW w \in Windows, NEW e \in States, WindowIs(w, e), UNCHANGED fs,
         e.kind = "notepad", NEW i \in Used(fs), e.text = fs[i].data
  PROVE  Refined
<1>1. Texts' = Store!Put(Texts, w, e.text) /\ UNCHANGED Contents
  BY TextsAre, MapsAre, MapsNext DEF Inv
<1>2. fs[i].name \in DOMAIN Contents /\ Contents[fs[i].name] = fs[i].data
  BY StateFacts, FileMapIs, MapsAre
<1>3. fs[i].name \in Names
  BY StateFacts DEF Used, Files
<1>4. Store!Load(w, fs[i].name)
  BY <1>1, <1>2 DEF Store!Load
<1>. QED
  BY <1>3, <1>4 DEF Refined, Store!Next

LEMMA DropRefined ==
  ASSUME Inv, NEW w \in Windows, NEW e \in States, WindowIs(w, e),
         win[w].kind # "notepad", e.kind # "notepad",
         NEW i \in Used(fs), fs' = FsDelete(fs, i)
  PROVE  Refined
<1>1. UNCHANGED Texts
  BY TextsSame, MapsAre, MapsNext DEF Inv
<1>2. Contents' = Store!Drop(Contents, fs[i].name)
  BY StateFacts, DeletedMap, MapsAre, MapsNext
<1>3. fs[i].name \in Names
  BY StateFacts DEF Used, Files
<1>4. Store!Delete(fs[i].name)
  BY <1>1, <1>2 DEF Store!Delete
<1>. QED
  BY <1>3, <1>4 DEF Refined, Store!Next

LEMMA OpenRefined ==
  ASSUME Inv, NEW w \in Windows, NpOpenNext(w)
  PROVE  Refined
<1>. DEFINE i == NextFile(win[w])
            e == Loaded(win[w], fs', i)
<1>1. /\ win[w] \in States /\ win[w].kind = "notepad"
      /\ fs' = AfterAutosave(win[w]) /\ WindowIs(w, e)
  BY StateFacts DEF NpOpenNext, Notepad
<1>2. /\ i \in FileSlots /\ i \in Used(fs) /\ fs'[i].used /\ e \in States
      /\ fs' \in [FileSlots -> Files] /\ Unique(fs')
  BY OpenFacts
<1>3. e.kind = "notepad" /\ e.text = fs'[i].data
  <2>1. Cut(fs'[i].data, TextCap) = fs'[i].data
    BY <1>2, LoadedText
  <2>. QED
    BY <1>1, <2>1 DEF Loaded, States
<1>4. SaveName(win[w]) \in Names
  BY <1>1, SaveFacts DEF Inv
<1>. HIDE DEF i, e
<1>5. CASE UNCHANGED fs
  BY <1>1, <1>2, <1>3, <1>5, LoadRefined
<1>6. CASE Contents' = Store!Put(Contents, SaveName(win[w]), Store!Trunc(win[w].text))
  <2>1. i \in Used(fs')
    BY <1>2 DEF Used
  <2>2. fs'[i].name \in DOMAIN Contents' /\ Contents'[fs'[i].name] = e.text
    BY <1>2, <1>3, <2>1, FileMapIs, MapsNext
  <2>. QED
    BY <1>1, <1>2, <1>3, <1>4, <1>6, <2>2, SaveRefined
<1>. QED
  BY <1>1, <1>5, <1>6, AfterSaveMap DEF AfterAutosave

LEMMA PromptRefined ==
  ASSUME Inv, NEW w \in Windows, SaveAsBegin(w) \/ SaveAsLeave(w)
  PROVE  Refined
<1>1. win[w] \in States /\ UNCHANGED fs /\ win[w].kind = "notepad"
  BY StateFacts DEF SaveAsBegin, SaveAsLeave, Notepad
<1>2. PICK b \in BOOLEAN : WindowIs(w, [win[w] EXCEPT !.save_as = b])
  BY DEF SaveAsBegin, SaveAsLeave
<1>. DEFINE e == [win[w] EXCEPT !.save_as = b]
<1>3. e \in States /\ e.kind = win[w].kind /\ e.text = win[w].text
  BY <1>1 DEF States
<1>. HIDE DEF e
<1>4. WindowIs(w, e)
  BY <1>2 DEF e
<1>. QED
  BY <1>1, <1>3, <1>4, StutterRefined

(* Removing the other file of the name and then writing it is one save.     *)
LEMMA SaveAsRefined ==
  ASSUME Inv, NEW w \in Windows, NEW n \in Names, SaveAs(w, n)
  PROVE  Refined
<1>1. PICK f \in [FileSlots -> Files], e \in States : SavesAs(w, n, f, e)
  BY SaveAsFacts
<1>. DEFINE t == win[w].text
<1>2. /\ fs \in [FileSlots -> Files] /\ Unique(fs) /\ t \in Seq(Int)
      /\ win[w].kind = "notepad"
  BY StateFacts DEF SaveAs, Notepad, States
<1>3. /\ fs' = Written(f, n, t) /\ WindowIs(w, e) /\ Unique(f)
      /\ e.text = t /\ e.kind = "notepad"
  BY <1>1, <1>2 DEF SavesAs
<1>4. CASE FsCreate(f, n) = NOT_FOUND
  <2>1. UNCHANGED fs
    BY <1>1, <1>2, <1>3, <1>4, WrittenIs DEF SavesAs
  <2>. QED
    BY <1>2, <1>3, <2>1, StutterRefined
<1>5. CASE FsCreate(f, n) # NOT_FOUND
  <2>1. FileMap(fs') = Store!Put(FileMap(f), n, Store!Trunc(t))
    BY <1>2, <1>3, <1>5, WrittenMap
  <2>2. Store!Put(FileMap(f), n, Store!Trunc(t)) = Store!Put(FileMap(fs), n, Store!Trunc(t))
    <3>1. CASE f = fs
      BY <3>1
    <3>2. CASE \E o \in Used(fs) : fs[o].name = n /\ f = FsDelete(fs, o)
      <4>1. FileMap(f) = Store!Drop(FileMap(fs), n)
        BY <1>2, <3>2, DeletedMap
      <4>. DEFINE D == DOMAIN FileMap(fs) \cup {n}
                  v == Store!Trunc(t)
      <4>2. /\ DOMAIN FileMap(f) \cup {n} = D
            /\ \A x \in D \ {n} : FileMap(f)[x] = FileMap(fs)[x]
        BY <4>1 DEF Store!Drop
      <4>3. Store!Put(FileMap(fs), n, v) = [x \in D |-> IF x = n THEN v ELSE FileMap(fs)[x]]
        BY DEF Store!Put
      <4>4. Store!Put(FileMap(f), n, v) = [x \in D |-> IF x = n THEN v ELSE FileMap(f)[x]]
        BY <4>2 DEF Store!Put
      <4>. QED
        BY <4>2, <4>3, <4>4
    <3>. QED
      BY <1>1, <3>1, <3>2 DEF SavesAs
  <2>3. Contents' = Store!Put(Contents, n, Store!Trunc(t))
    BY <2>1, <2>2, MapsAre, MapsNext
  <2>. QED
    BY <1>2, <1>3, <2>3, SaveRefined
<1>. QED
  BY <1>4, <1>5

LEMMA ManagerRefined ==
  ASSUME Inv, NEW w \in Windows, ManagerStep(w)
  PROVE  Refined
<1>1. win[w] \in States /\ fs \in [FileSlots -> Files] /\ win[w].kind = "manager"
  BY StateFacts DEF ManagerStep, FmSelect, FmRedraw, FmAskDelete, FmConfirm, FmCancel,
     FmOpenSelected, Manager
<1>2. CASE \E k \in 0 .. (MaxFiles - 1) : FmSelect(w, k)
  <2>1. PICK k \in 0 .. (MaxFiles - 1) : FmSelect(w, k)
    BY <1>2
  <2>. DEFINE e == [win[w] EXCEPT !.sel = k]
  <2>2. e \in States /\ e.kind = "manager"
    BY <1>1 DEF States
  <2>. HIDE DEF e
  <2>3. WindowIs(w, e) /\ UNCHANGED fs
    BY <2>1 DEF FmSelect, e
  <2>. QED
    BY <1>1, <2>2, <2>3, StutterRefined
<1>3. CASE FmRedraw(w) \/ FmCancel(w)
  BY <1>1, <1>3, ClampedType, StutterRefined DEF FmRedraw, FmCancel
<1>4. CASE FmAskDelete(w)
  <2>. DEFINE e == [win[w] EXCEPT !.confirming = TRUE, !.confirm_idx = win[w].sel]
  <2>1. win[w].sel \in -1 .. (MaxFiles - 1)
    BY <1>1, SlotFacts DEF States
  <2>2. e \in States /\ e.kind = "manager"
    BY <1>1, <2>1 DEF States
  <2>. HIDE DEF e
  <2>3. WindowIs(w, e) /\ UNCHANGED fs
    BY <1>4 DEF FmAskDelete, e
  <2>. QED
    BY <1>1, <2>2, <2>3, StutterRefined
<1>5. CASE FmConfirm(w)
  <2>. DEFINE i == FmNth(fs, win[w].confirm_idx)
              e == Dismissed(Clamped(win[w], fs'))
  <2>1. fs' = (IF i = NOT_FOUND THEN fs ELSE FsDelete(fs, i)) /\ WindowIs(w, e)
    BY <1>5 DEF FmConfirm
  <2>2. /\ i # NOT_FOUND => i \in Used(fs) /\ i \in FileSlots
    BY <1>1, FmNthIs DEF Used
  <2>3. fs' \in [FileSlots -> Files]
    BY <1>1, <2>1, <2>2, DeletedIs
  <2>4. e \in States /\ e.kind = "manager"
    BY <1>1, <2>3, ClampedType
  <2>. HIDE DEF i, e
  <2>. QED
    BY <1>1, <2>1, <2>2, <2>4, StutterRefined, DropRefined
<1>6. CASE FmOpenSelected(w)
  <2>. DEFINE i == FmNth(fs, win[w].sel)
              e == Loaded(Window("notepad"), fs, i)
  <2>1. UNCHANGED fs /\ i # NOT_FOUND /\ WindowIs(FreeWindow, e)
    BY <1>6 DEF FmOpenSelected
  <2>2. FreeWindow \in Windows /\ win[FreeWindow].kind = "unused"
    BY <1>6, FreeWindowIs DEF FmOpenSelected, Inv
  <2>3. i \in Used(fs) /\ i \in FileSlots /\ fs[i].used
    BY <1>1, <2>1, FmNthIs DEF Used
  <2>4. e \in States
    BY <1>1, <2>3, WindowType, LoadedType
  <2>5. e.kind = "notepad" /\ e.text = fs[i].data
    <3>1. Cut(fs[i].data, TextCap) = fs[i].data
      BY <1>1, <2>3, LoadedText
    <3>. QED
      BY <3>1 DEF Loaded, Window
  <2>. HIDE DEF i, e
  <2>. QED
    BY <2>1, <2>2, <2>3, <2>4, <2>5, LoadRefined
<1>. QED
  BY <1>2, <1>3, <1>4, <1>5, <1>6 DEF ManagerStep

LEMMA NextRefined == Inv /\ [FilesNext]_files_vars => Refined
<1>1. ASSUME Inv, NEW w \in Windows, NotepadStep(w) PROVE Refined
  BY <1>1, TypeRefined, BackspaceRefined, NpSaveRefined, NewRefined, OpenRefined,
     PromptRefined, SaveAsRefined DEF NotepadStep
<1>2. ASSUME Inv, UNCHANGED files_vars PROVE Refined
  BY <1>2, MapsAre, MapsNext DEF files_vars, Refined
<1>. QED
  BY <1>1, <1>2, IconRefined, CloseRefined, ManagerRefined DEF FilesNext

(* The array of slots, with the slots, names and list positions windows     *)
(* remember, implements a map from names to contents: each operation stores, *)
(* loads or removes the one file it is about, and leaves the others alone.  *)
THEOREM StoreCorrect == FilesSpec => ImplementsFileStore
<1>1. FilesInit => Inv
  BY InitInv
<1>2. Inv /\ [FilesNext]_files_vars => Inv'
  BY NextInv
<1>3. Inv /\ [FilesNext]_files_vars => [Store!Next]_<<Contents, Texts>>
  BY NextRefined DEF Refined
<1>. QED
  BY <1>1, <1>2, <1>3, PTL DEF FilesSpec, ImplementsFileStore, Store!Spec

=============================================================================
