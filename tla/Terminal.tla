------------------------------ MODULE Terminal ------------------------------
(***************************************************************************)
(* The terminal window (src/kernel/desktop.c): a scrollback of a fixed      *)
(* number of lines, a command line with a cursor, and the rows drawn.       *)
(* Each function is an operator from the window it finds to the one it      *)
(* leaves. A line is a sequence of characters; a command's name is one.     *)
(***************************************************************************)
EXTENDS Integers, Sequences, SequencesExt

CONSTANTS
  ScrollMax,   \* TERM_SCROLL_MAX
  LineMax,     \* TERM_LINE_MAX
  RowHeight,   \* TERM_ROW_H
  CharWidth,   \* FONT_W
  MinCols,     \* fewest characters of a row
  Bodies       \* widths and heights a window's body may have, << bw, bh >>

ASSUME TerminalAssumption ==
  /\ ScrollMax \in Nat \ {0, 1} /\ LineMax \in Nat \ {0, 1}
  /\ RowHeight \in Nat \ {0} /\ CharWidth \in Nat \ {0} /\ MinCols \in Nat
  /\ Bodies \subseteq Int \X Int

Blank == << >>
Prompt == << "$" >>
Banner == << << "s" >>, << "t" >> >>

Cut(line) == SubSeq(line, 1, IF Len(line) < LineMax THEN Len(line) ELSE LineMax - 1)

\* Mutant: the lines stay where they are.
TermShiftNone(lines) == lines

\* The memmove of a full scrollback: the last slot keeps its line.
TermShift(lines) ==
  [k \in 1 .. ScrollMax |-> IF k < ScrollMax THEN lines[k + 1] ELSE lines[k]]

TermAppendLine(t, line) ==
  LET full == t.len >= ScrollMax
      lines == IF full THEN TermShift(t.lines) ELSE t.lines
      len == IF full THEN ScrollMax - 1 ELSE t.len
  IN [t EXCEPT !.lines = [lines EXCEPT ![len + 1] = Cut(line)],
               !.len = len + 1, !.scroll = 0]

TermAppendLines(t, lines) ==
  LET after[k \in 0 .. Len(lines)] ==
        IF k = 0 THEN t ELSE TermAppendLine(after[k - 1], lines[k])
  IN after[Len(lines)]

\* win_open of a terminal, in a slot whose lines are those of its last use.
TermOpen(lines) ==
  TermAppendLines([lines |-> lines, len |-> 0, scroll |-> 0, input |-> << >>, cursor |-> 0],
                  Banner)

\* Where the first word of a line begins, 0 in a line of blanks.
FirstOf(line) == SelectInSeq(line, LAMBDA c : c # " ")

\* What a command prints; echo alone looks at what follows the name.
Answer(input) ==
  LET at == FirstOf(input)
      rest == SubSeq(input, at + 1, Len(input))
      first == FirstOf(rest)
  IN IF rest # << >> /\ rest[1] # " " THEN << << "?" >> >>
     ELSE IF input[at] = "e" THEN IF first = 0 THEN << >>
                                  ELSE << SubSeq(rest, first, Len(rest)) >>
     ELSE IF input[at] = "h" THEN << << "1" >>, << "2" >> >>
     ELSE << << "?" >> >>

IsClear(input) ==
  LET at == FirstOf(input)
  IN input[at] = "c" /\ (at < Len(input) => input[at + 1] = " ")

\* term_exec. "clear" forgets how many lines there are, not the lines.
TermExec(t) ==
  LET echoed == [TermAppendLine(t, Prompt \o t.input) EXCEPT !.input = << >>, !.cursor = 0]
  IN IF FirstOf(t.input) = 0 THEN echoed
     ELSE IF IsClear(t.input) THEN [echoed EXCEPT !.len = 0, !.scroll = 0]
     ELSE TermAppendLines(echoed, Answer(t.input))

\* term_feed.
TermFeed(t, key) ==
  CASE key = "backspace" ->
         IF t.cursor = 0 THEN t
         ELSE [t EXCEPT !.input = RemoveAt(@, t.cursor), !.cursor = @ - 1]
    [] key = "enter" -> TermExec(t)
    [] key = "page_up" -> [t EXCEPT !.scroll = IF @ + 1 > t.len THEN t.len ELSE @ + 1]
    [] key = "page_down" -> [t EXCEPT !.scroll = IF @ > 0 THEN @ - 1 ELSE 0]
    [] key = "left" -> [t EXCEPT !.cursor = IF @ > 0 THEN @ - 1 ELSE 0]
    [] key = "right" -> [t EXCEPT !.cursor = IF @ < Len(t.input) THEN @ + 1 ELSE @]
    [] OTHER ->
         IF Len(t.input) >= LineMax - 1 THEN t
         ELSE [t EXCEPT !.input = InsertAt(@, t.cursor + 1, key), !.cursor = @ + 1]

\* How many rows and columns a body holds, the input row included.
Rows(body) == LET n == (body[2] - 2) \div RowHeight IN IF n < 2 THEN 2 ELSE n
Cols(body) ==
  LET n == (body[1] - 8) \div CharWidth
      wide == IF n < MinCols THEN MinCols ELSE n
  IN IF wide > LineMax - 1 THEN LineMax - 1 ELSE wide

Fit(line, cols) == SubSeq(line, 1, IF Len(line) < cols THEN Len(line) ELSE cols)

\* term_render. A body of more rows than there are slots reads on past the
\* last slot: what such a row shows is not defined, and has no value here.
TermRender(t, body) ==
  LET cols == Cols(body)
      start == t.len - (Rows(body) - 1) - t.scroll
      from == IF start < 0 THEN 0 ELSE start
  IN [rows |-> [i \in {k \in 1 .. Rows(body) - 1 : from + k <= ScrollMax} |->
                  Fit(t.lines[from + i], cols)],
      input |-> Fit(Prompt \o t.input, cols),
      caret |-> Len(Fit(Prompt, cols)) + t.cursor]

----------------------------------------------------------------------------
(* The same terminal as a user thinks of it: everything printed since the   *)
(* start or the last clear, what is left and right of the cursor, and how   *)
(* far the view is scrolled back.                                           *)

LogOpen == [log |-> Banner, left |-> << >>, right |-> << >>, back |-> 0, cleared |-> FALSE]

LogEnter(u) ==
  LET input == u.left \o u.right
      echoed == [LogOpen EXCEPT !.log = Append(u.log, Cut(Prompt \o input)), !.cleared = u.cleared]
  IN IF FirstOf(input) = 0 THEN echoed
     ELSE IF IsClear(input) THEN [LogOpen EXCEPT !.log = << >>, !.cleared = TRUE]
     ELSE [echoed EXCEPT !.log = @ \o Answer(input)]

Held(u) == IF Len(u.log) < ScrollMax THEN Len(u.log) ELSE ScrollMax

LogFeed(u, key) ==
  CASE key = "backspace" /\ u.left # << >> -> [u EXCEPT !.left = Front(@)]
    [] key = "enter" -> LogEnter(u)
    [] key = "page_up" /\ u.back < Held(u) -> [u EXCEPT !.back = @ + 1]
    [] key = "page_down" /\ u.back > 0 -> [u EXCEPT !.back = @ - 1]
    [] key = "left" /\ u.left # << >> ->
         [u EXCEPT !.left = Front(@), !.right = << Last(u.left) >> \o @]
    [] key = "right" /\ u.right # << >> ->
         [u EXCEPT !.left = Append(@, Head(u.right)), !.right = Tail(@)]
    [] key \notin {"backspace", "enter", "page_up", "page_down", "left", "right"}
         /\ Len(u.left) + Len(u.right) < LineMax - 1 -> [u EXCEPT !.left = Append(@, key)]
    [] OTHER -> u

\* The row i of a view: counted from the first line held when there are few.
LogRow(u, rows, i) ==
  LET top == Len(u.log) - (rows - 1) - u.back
      oldest == Len(u.log) - Held(u)
      n == i + (IF top < oldest THEN oldest ELSE top)
  IN IF n <= Len(u.log) THEN u.log[n] ELSE Blank

\* Nothing is said of rows past the number of slots; after a clear the rows
\* with no line show what was there before.
TermShows(t, u, body) ==
  LET rows == Rows(body)
      cols == Cols(body)
      shown == TermRender(t, body)
  IN /\ t.input = u.left \o u.right
     /\ shown.input = Fit(Prompt \o u.left \o u.right, cols)
     /\ shown.caret = Len(Fit(Prompt, cols)) + Len(u.left)
     /\ \A i \in 1 .. rows - 1 :
          \/ i > ScrollMax
          \/ u.cleared /\ i > Len(u.log)
          \/ i \in DOMAIN shown.rows /\ shown.rows[i] = Fit(LogRow(u, rows, i), cols)
=============================================================================
