-------------------------------- MODULE Scene --------------------------------
(***************************************************************************)
(* Rectangles of the desktop (src/kernel/desktop.c): clipping to the       *)
(* backbuffer and to the active clip, unions, hit tests. Coordinates are   *)
(* signed machine integers: IntHalf is 2^63 in the code.                   *)
(***************************************************************************)
EXTENDS Integers, FiniteSetsExt

CONSTANTS
  ScrW, ScrH,   \* g_w, g_h
  IntHalf       \* int64_t is -IntHalf .. IntHalf - 1

ASSUME ScreenAssumption ==
  /\ ScrW \in Nat \ {0} /\ ScrH \in Nat \ {0}
  /\ IntHalf \in Nat /\ ScrW < IntHalf /\ ScrH < IntHalf

Rect(x, y, w, h) == [x |-> x, y |-> y, w |-> w, h |-> h]
Empty == Rect(0, 0, 0, 0)
Screen == Rect(0, 0, ScrW, ScrH)

\* Two's complement: what a signed sum is when it does not fit.
Wrap(v) == ((v + IntHalf) % (2 * IntHalf)) - IntHalf

Lesser(a, b) == IF a < b THEN a ELSE b
Greater(a, b) == IF a > b THEN a ELSE b

\* The exclusive end of [at, at + len), saturated to lim and never summed when
\* the sum could leave the type.
Saturated(at, len, lim) ==
  IF at >= 0 THEN IF len >= lim - at THEN lim ELSE Wrap(at + len)
             ELSE Lesser(Wrap(at + len), lim)

\* bb_clip: the part of r on the screen and inside the active clip, or Empty.
BbClip(r, clip) ==
  LET left == Greater(r.x, 0)
      top == Greater(r.y, 0)
      right == Saturated(r.x, r.w, ScrW)
      bottom == Saturated(r.y, r.h, ScrH)
      x0 == Greater(left, clip.x)
      y0 == Greater(top, clip.y)
      x1 == Lesser(right, clip.x + clip.w)
      y1 == Lesser(bottom, clip.y + clip.h)
  IN IF \/ r.w <= 0 \/ r.h <= 0 \/ left >= ScrW \/ top >= ScrH
        \/ right <= left \/ bottom <= top \/ x1 <= x0 \/ y1 <= y0
     THEN Empty
     ELSE Rect(x0, y0, x1 - x0, y1 - y0)

Contains(r, p) ==
  /\ p[1] >= r.x /\ p[2] >= r.y
  /\ p[1] < r.x + r.w /\ p[2] < r.y + r.h

Overlaps(r, s) ==
  /\ r.x < s.x + s.w /\ s.x < r.x + r.w
  /\ r.y < s.y + s.h /\ s.y < r.y + r.h

\* The smallest rectangle around all of S.
Around(S) ==
  LET x == Min({r.x : r \in S})
      y == Min({r.y : r \in S})
  IN Rect(x, y, Max({r.x + r.w : r \in S}) - x, Max({r.y + r.h : r \in S}) - y)

\* damage_add on each of S: the damage grown by their visible parts.
DamageAdd(damage, S) ==
  LET parts == ({damage} \cup {BbClip(r, Screen) : r \in S}) \ {Empty}
  IN IF parts = {} THEN Empty ELSE Around(parts)
==============================================================================
