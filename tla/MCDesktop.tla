----------------------------- MODULE MCDesktop -----------------------------
(* A small screen: work area 11 x 7, two taskbar rows. The text of the      *)
(* information window fits it as it opens and not when it is narrowed, and  *)
(* the caret of the terminal may be right of its frame. Between them the    *)
(* spots are on every button, grip, title and body of windows as they open  *)
(* or maximised, on an item and the lower padding of the menu, and on an    *)
(* icon's label.                                                            *)
EXTENDS Desktop
MCIcons == << [kind |-> "term", w |-> 8, h |-> 5, text |-> <<0, 0>>],
              [kind |-> "info", w |-> 9, h |-> 6, text |-> <<7, 2>>] >>
MCFirst == [icon |-> 2, rect |-> Rect(2, 0, 9, 6)]
MCMarks == { Rect(-2, -2, 2, 1) }
MCColumns == {0, 6}
MCOpenAt == << <<2, 0>> >>
MCSpots == { <<2, 1>>, <<6, 1>>, <<8, 1>>, <<9, 5>>, <<0, 7>>, <<3, 7>>, <<1, 5>> }
MCFlips == BOOLEAN
MCPresses == [f \in BOOLEAN |-> IF f THEN 1 ELSE 3]
============================================================================
