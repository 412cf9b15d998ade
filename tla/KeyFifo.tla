------------------------------ MODULE KeyFifo ------------------------------
(***************************************************************************)
(* What virtio_input.h promises of the keyboard: characters wait in the    *)
(* order they were typed and virtio_keyboard_read_char pops the oldest.  A  *)
(* keystroke is dropped only when the buffer is full.                       *)
(***************************************************************************)
EXTENDS Naturals, Sequences

CONSTANTS
  Chars,   \* characters that may be typed
  Room     \* how many may wait

VARIABLES
  waiting, \* typed and not yet read
  refused  \* keystrokes dropped so far

Init == waiting = << >> /\ refused = 0

Type(c) ==
  \/ /\ Len(waiting) < Room
     /\ waiting' = Append(waiting, c)
     /\ UNCHANGED refused
  \/ /\ Len(waiting) = Room
     /\ refused' = refused + 1
     /\ UNCHANGED waiting

Read ==
  /\ waiting # << >>
  /\ waiting' = Tail(waiting)
  /\ UNCHANGED refused

Next == Read \/ \E c \in Chars : Type(c)

Spec == Init /\ [][Next]_<<waiting, refused>>
=============================================================================
