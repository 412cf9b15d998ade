------------------------------- MODULE Desktop -------------------------------
(***************************************************************************)
(* The window system of src/kernel/desktop.c: window slots, z-order, the   *)
(* Start menu and the taskbar, dragging and resizing, and how each change  *)
(* is painted: into the backbuffer, from there into a page of the frame-   *)
(* buffer, and by a flip onto the screen. One step is one desktop_poll.    *)
(*                                                                         *)
(* A cell of the backbuffer says what fills it, and which windows have     *)
(* drawn over the fills: the text of an information window beyond its      *)
(* frame, the caret of a terminal. `desk' is the state the C functions     *)
(* share; each of them is the operator of its name, from the desk it finds *)
(* to the desk it leaves. The orders of the windows are kept as the        *)
(* sequence they sort into. The windows here are information windows       *)
(* ("info") and terminals ("term"); what is in a file, a text or a page is *)
(* elsewhere.                                                              *)
(***************************************************************************)
EXTENDS Scene, Sequences, FiniteSets

Seqs == INSTANCE SequencesExt

CONSTANTS
  MaxWindows,             \* MAX_WINDOWS
  TaskH, TitleH,          \* TASKBAR_H, TITLE_H
  MinW, MinH,             \* MIN_WIN_W, MIN_WIN_H
  BtnTop, BtnH,           \* win_render's by - y, BTN_H
  BtnW, BtnMargin, BtnGap,
  Gutter, Marks,          \* RESIZE_GUTTER; the grip's marks, from the corner
  TextX, TextY,           \* win_render's lx - x and ly - y
  CaretX, CaretY,         \* term_render's first caret, from the frame's corner
  TermFrame, RowH,        \* what is not rows of a terminal's height, TERM_ROW_H
  CharW, CaretH,          \* FONT_W, the caret's height
  Columns,                \* term_cursor_col
  Icons,                  \* g_icons: a sequence of [kind, w, h, text]
  IconX0, IconY0, IconW, IconH, IconStep, LabelH,
  MenuX, MenuW, MenuPad, ItemH, ItemGap, MenuGap,
  StartX, StartW,         \* start_x, START_W
  BarTop, BarH,           \* the buttons' rows in the taskbar: start_y, START_H
  TaskX0, TaskW, TaskGap, \* task_btn_x, TASK_WIN_W
  ClockW, ClockR, ClockTop,  \* render_clock's rectangle
  OpenAt, OpenSteps,      \* icon_open's cascade
  First,                  \* the window desktop_init opens
  Spots,                  \* where the cursor may be
  Flips,                  \* the values g_flip may get from the hardware
  MaxPresses,             \* bound: left presses in a behaviour, for each g_flip
  None

Slots == 0 .. MaxWindows - 1
Cells == (0 .. ScrW - 1) \X (0 .. ScrH - 1)
WorkH == ScrH - TaskH
MenuH == 2 * MenuPad + Len(Icons) * ItemH
IconRect(k) == Rect(IconX0, IconY0 + (k - 1) * IconStep, IconW, IconH)
MenuRect == Rect(MenuX, WorkH - MenuH - MenuGap, MenuW, MenuH)
ItemRect(k) == Rect(MenuX + MenuPad, MenuRect.y + MenuPad + (k - 1) * ItemH,
                    MenuW - 2 * MenuPad, ItemH - ItemGap)
TaskbarRect == Rect(0, WorkH, ScrW, TaskH)
ClockRect == Rect(ScrW - ClockR - ClockW, WorkH + ClockTop, ClockW, TaskH - 2 * ClockTop)
StartRect == Rect(StartX, WorkH + BarTop, StartW, BarH)
TaskBtnX(n) == TaskX0 + n * (TaskW + TaskGap)

\* Windows fit the screen when they open, their buttons fit their titles, the
\* menu and the Start button fit beside the clock and above the taskbar, icons
\* do not touch, and the grip is below the title.
ASSUME DesktopAssumption ==
  /\ MaxWindows \in Nat \ {0} /\ OpenSteps \in Nat \ {0}
  /\ {TaskH, TitleH, MinW, MinH, BtnTop, BtnH, BtnW, BtnMargin, BtnGap, Gutter,
      TextX, TextY, CaretX, CaretY, TermFrame, CharW, CaretH, IconX0, IconY0,
      IconW, IconH, IconStep, LabelH, MenuX, MenuW, MenuPad, ItemH, ItemGap,
      MenuGap, StartX, StartW, BarTop, BarH, TaskX0, TaskW, TaskGap, ClockW,
      ClockR, ClockTop} \subseteq Nat
  /\ RowH \in Nat \ {0} /\ Columns \subseteq Nat /\ 0 \in Columns
  /\ TaskH < ScrH /\ TitleH + Gutter < MinH
  /\ BtnTop > 0 /\ BtnTop + BtnH <= TitleH /\ BtnMargin + BtnW > 0
  /\ 3 * BtnW + 2 * BtnGap + BtnMargin < MinW /\ Gutter < MinW
  /\ \A m \in Marks : /\ m \in [x : Int, y : Int, w : Nat, h : Nat]
                      /\ m.x >= -Gutter /\ m.y >= -Gutter
                      /\ m.x + m.w <= 0 /\ m.y + m.h <= 0
  /\ TextY > TitleH
  /\ MenuPad < ItemH /\ 2 * MenuPad <= MenuW /\ ItemGap <= ItemH
  /\ MenuX + MenuW <= ScrW /\ MenuH + MenuGap <= WorkH
  /\ IconH + LabelH <= IconStep
  /\ StartX + StartW <= TaskX0 /\ BarTop + BarH <= TaskH
  /\ StartX + StartW <= ScrW - ClockR - ClockW /\ 2 * ClockTop <= TaskH
  /\ Len(Icons) \in Nat
  /\ \A k \in 1 .. Len(Icons) : /\ Icons[k].w \in MinW .. ScrW /\ Icons[k].h \in MinH .. WorkH
                              /\ Icons[k].text \in Nat \X Nat
  /\ \A k \in 1 .. OpenSteps : OpenAt[k] \in Int \X Int
  /\ First.icon \in 1 .. Len(Icons) /\ First.rect.x \in Int /\ First.rect.y \in Int
  /\ First.rect.w \in MinW .. ScrW /\ First.rect.h \in MinH .. WorkH
  /\ Spots \subseteq Cells /\ Flips \subseteq BOOLEAN
  /\ None \notin Slots \cup 1 .. Len(Icons)

VARIABLES
  desk,       \* win, z, drag, off, resize, grab, menu, opens, bb, damage,
              \* odd: whether g_last_second is, which is when carets show,
              \* hit (history): what the press of this poll acted on
  cursor,     \* g_cursor_x, g_cursor_y
  stamped,    \* g_cursor_bb_x, g_cursor_bb_y
  buttons,    \* g_buttons
  flip,       \* g_flip
  front,      \* g_front
  prev,       \* g_damage_prev_*
  page,       \* the two pages of the framebuffer
  presses     \* left presses so far

vars == <<desk, cursor, stamped, buttons, flip, front, prev, page, presses>>

\* col: term_cursor_col.
NoWindow == [used |-> FALSE, rect |-> Empty, icon |-> 0, min |-> FALSE,
             max |-> FALSE, rest |-> Empty, col |-> 0]

----------------------------------------------------------------------------
(* Which window is where.                                                  *)

Visible(d) == {i \in Slots : d.win[i].used /\ ~d.win[i].min}

Place(d, i) == CHOOSE n \in 1 .. Len(d.z) : d.z[n] = i

Highest(d, S) ==
  IF S = {} THEN None ELSE CHOOSE i \in S : \A j \in S : Place(d, j) <= Place(d, i)

WinTopmostIndex(d) == Highest(d, Visible(d))

WinTopmostAt(d, p) == Highest(d, {i \in Visible(d) : Contains(d.win[i].rect, p)})

\* The slot's place among the taskbar's buttons.
TaskPlace(d, i) == Cardinality({j \in Slots : j < i /\ d.win[j].used})

TaskBtn(d, i) == Rect(TaskBtnX(TaskPlace(d, i)), WorkH + BarTop, TaskW, BarH)

TaskbarWinAt(d, p) ==
  LET at == {i \in Slots : d.win[i].used /\ Contains(TaskBtn(d, i), p)}
  IN IF at = {} THEN None ELSE Min(at)

\* icon_at: the rows of the label below the tile count.
IconAt(p) ==
  LET at == {k \in 1 .. Len(Icons) :
               Contains([IconRect(k) EXCEPT !.h = IconH + LabelH], p)}
  IN IF at = {} THEN None ELSE Min(at)

\* The left end of a window's n-th title button, counted from the right.
BtnX(r, n) == r.x + r.w - BtnMargin - n * BtnW - (n - 1) * BtnGap
Buttons == <<"close", "max", "min">>

\* win_button_at: in the buttons' rows the margin and the gaps count as the
\* button on their left.
WinButtonAt(r, p) ==
  IF \/ ~Contains(r, p) \/ p[2] >= r.y + TitleH
     \/ p[2] < r.y + BtnTop \/ p[2] >= r.y + BtnTop + BtnH
  THEN "none"
  ELSE IF p[1] >= BtnX(r, 1) THEN "close"
  ELSE IF p[1] >= BtnX(r, 2) THEN "max"
  ELSE IF p[1] >= BtnX(r, 3) THEN "min" ELSE "none"

OnGrip(w, p) ==
  /\ ~w.max
  /\ p[1] >= w.rect.x + w.rect.w - Gutter
  /\ p[2] >= w.rect.y + w.rect.h - Gutter

----------------------------------------------------------------------------
(* Painting. A fill says what it is part of, and whether it has the colour *)
(* of the focused window.                                                  *)

Paint(what, id, part, focus) == <<what, id, part, focus>>
Background == Paint("background", 0, "", FALSE)
CursorMark == [paint |-> Paint("cursor", 0, "", FALSE), over |-> {}]

IsInfo(w) == Icons[w.icon].kind = "info"

\* The lines of an information window, all of them, and the caret of a terminal,
\* below the last row that fits: neither is cut to the frame.
TextRect(w) ==
  Rect(w.rect.x + TextX, w.rect.y + TextY, Icons[w.icon].text[1], Icons[w.icon].text[2])

CaretRect(w) ==
  LET rows == Greater((w.rect.h - TermFrame) \div RowH, 2)
  IN Rect(w.rect.x + CaretX + w.col * CharW, w.rect.y + CaretY + (rows - 1) * RowH,
          CharW, CaretH)

OnBorder(r, p) ==
  p[1] \in {r.x, r.x + r.w - 1} \/ p[2] \in {r.y, r.y + r.h - 1}

OnButton(r, n, p) == Contains(Rect(BtnX(r, n), r.y + BtnTop, BtnW, BtnH), p)

OnMark(w, p) ==
  /\ IsInfo(w) /\ ~w.max
  /\ \E m \in Marks : Contains([m EXCEPT !.x = @ + w.rect.x + w.rect.w,
                                       !.y = @ + w.rect.y + w.rect.h], p)

\* win_render, what is drawn last first. The title's colour fills TitleH rows
\* below the frame's first; "edge" is the last of them, which the strip of
\* redraw_all_titles leaves out.
WinPart(w, p) ==
  IF \E n \in 1 .. 3 : OnButton(w.rect, n, p)
  THEN Buttons[CHOOSE n \in 1 .. 3 : OnButton(w.rect, n, p)]
  ELSE IF OnMark(w, p) THEN "grip"
  ELSE IF IsInfo(w) /\ Contains(TextRect(w), p) THEN "text"
  ELSE IF OnBorder(w.rect, p) THEN "border"
  ELSE IF p[2] < w.rect.y + TitleH THEN "title"
  ELSE IF p[2] = w.rect.y + TitleH THEN "edge" ELSE "body"

Coloured == {"title", "edge", "close", "max", "min"}

WinCell(d, i, p) ==
  LET part == WinPart(d.win[i], p)
  IN Paint("win", i, part, part \in Coloured /\ i = WinTopmostIndex(d))

\* render_taskbar: the windows' buttons are drawn in the order of their slots,
\* then the clock; whether a button shows between the clock's digits, as it
\* does until render_clock clears them, is left open.
TaskbarCell(d, p) ==
  LET drawn == {i \in Slots : d.win[i].used /\ Contains(TaskBtn(d, i), p)}
  IN IF Contains(ClockRect, p) THEN Paint("clock", 0, "", FALSE)
     ELSE IF drawn # {}
          THEN LET i == Max(drawn) IN Paint("task", i, "", i = WinTopmostIndex(d))
     ELSE Paint(IF Contains(StartRect, p) THEN "start" ELSE "taskbar", 0, "", FALSE)

MenuCell(p) ==
  LET rows == {k \in 1 .. Len(Icons) : Contains(ItemRect(k), p)}
  IN Paint("menu", IF rows = {} THEN 0 ELSE Max(rows), "", FALSE)

\* scene_region: background, icons, windows in their order, taskbar, menu.
SceneCell(d, p) ==
  LET top == WinTopmostAt(d, p)
      icons == {k \in 1 .. Len(Icons) : Contains(IconRect(k), p)}
  IN IF d.menu /\ Contains(MenuRect, p) THEN MenuCell(p)
     ELSE IF p[2] >= WorkH THEN TaskbarCell(d, p)
     ELSE IF top # None THEN WinCell(d, top, p)
     ELSE IF icons # {} THEN Paint("icon", Max(icons), "", FALSE)
     ELSE Background

\* Where a window draws over the fills: text beyond its frame, or the caret.
Strays(d, i, p) ==
  LET w == d.win[i]
  IN IF IsInfo(w) THEN Contains(TextRect(w), p) /\ ~Contains(w.rect, p)
     ELSE i = WinTopmostIndex(d) /\ d.odd /\ Contains(CaretRect(w), p)

\* The windows that have drawn on the cell when redraw_rect is done with r: those
\* whose frame touches r, where no frame, bar or menu drawn later covers it.
Over(d, r, p) ==
  IF p[2] >= WorkH \/ (d.menu /\ Contains(MenuRect, p)) THEN {}
  ELSE {i \in Visible(d) :
          /\ Overlaps(r, d.win[i].rect) /\ Strays(d, i, p)
          /\ \A j \in Visible(d) : Contains(d.win[j].rect, p) => Place(d, j) <= Place(d, i)}

Cell(d, r, p) == [paint |-> SceneCell(d, p), over |-> Over(d, r, p)]

Among(rs) == {rs[n] : n \in 1 .. Len(rs)}

\* redraw_rect on each of rs in turn: the last to reach a cell decides.
Redraw(d, rs) ==
  LET clips == {<<n, BbClip(rs[n], Screen)>> : n \in 1 .. Len(rs)}
      reach(p) == {c[1] : c \in {b \in clips : Contains(b[2], p)}}
  IN [d EXCEPT !.bb = [p \in Cells |-> IF reach(p) = {} THEN @[p]
                                       ELSE Cell(d, rs[Max(reach(p))], p)],
               !.damage = DamageAdd(@, Among(rs))]

\* redraw_all_titles: TITLE_H rows of every visible window, one less than the
\* rows win_render colours reach.
TitleStrips(d) ==
  [n \in 1 .. MaxWindows |-> IF n - 1 \in Visible(d)
                             THEN [d.win[n - 1].rect EXCEPT !.h = TitleH] ELSE Empty]

RedrawWithTitles(d, r) == Redraw(d, <<r>> \o TitleStrips(d) \o <<TaskbarRect>>)

----------------------------------------------------------------------------
(* Window operations.                                                      *)

WithoutSlot(d, i) == Seqs!RemoveAt(d.z, Place(d, i))

\* ++g_order_counter: i is in front of all.
ToFront(d, i) == [d EXCEPT !.z = Append(WithoutSlot(d, i), i)]

\* win_open's position and size, clamped in this order.
OpenRect(r) ==
  LET x == Greater(r.x, 0)
      y == Greater(r.y, 0)
  IN Rect(IF x + r.w > ScrW THEN ScrW - r.w ELSE x,
          IF y + r.h > WorkH THEN WorkH - r.h ELSE y,
          Greater(r.w, MinW), Greater(r.h, MinH))

FreeSlots(d) == {i \in Slots : ~d.win[i].used}

WinOpen(d, k, r) ==
  LET i == Min(FreeSlots(d))
      w == [NoWindow EXCEPT !.used = TRUE, !.rect = OpenRect(r), !.icon = k]
  IN IF FreeSlots(d) = {} THEN d
     ELSE LET e == [d EXCEPT !.win[i] = w, !.z = Append(@, i)] IN Redraw(e, TitleStrips(e))

IconOpen(d, k) ==
  LET at == OpenAt[d.opens + 1]
      r == Rect(at[1], at[2], Icons[k].w, Icons[k].h)
  IN Redraw(WinOpen([d EXCEPT !.opens = (@ + 1) % OpenSteps], k, r),
            IF FreeSlots(d) = {} THEN << >> ELSE <<OpenRect(r), TaskbarRect>>)

WinRaise(d, i) ==
  LET was == WinTopmostIndex(d)
  IN IF ~d.win[i].used \/ was = i THEN d
     ELSE RedrawWithTitles(ToFront(d, i),
            Around({d.win[i].rect, d.win[was].rect}))

\* g_drag and g_resize let go of i.
Released(d, i) ==
  [d EXCEPT !.drag = IF @ = i THEN None ELSE @,
            !.resize = IF @ = i THEN None ELSE @]

WinClose(d, i) ==
  RedrawWithTitles(
    Released([d EXCEPT !.win[i] = NoWindow, !.z = WithoutSlot(d, i)], i),
    d.win[i].rect)

WinMinimize(d, i) ==
  RedrawWithTitles(Released([d EXCEPT !.win[i].min = TRUE], i), d.win[i].rect)

WinRestoreFromTaskbar(d, i) ==
  RedrawWithTitles(ToFront([d EXCEPT !.win[i].min = FALSE], i), d.win[i].rect)

\* A window that is not maximised has no use for its saved rectangle.
Unmaximised(w) == [w EXCEPT !.rect = w.rest, !.rest = Empty, !.max = FALSE]

\* Mutant: restoring draws the small rectangle only.
WinToggleMaxInPlace(d, i) ==
  LET w == d.win[i]
      full == Rect(0, 0, ScrW, WorkH)
      v == IF w.max THEN Unmaximised(w)
           ELSE [w EXCEPT !.rest = w.rect, !.rect = full, !.max = TRUE]
  IN Redraw([d EXCEPT !.win[i] = v], <<v.rect, TaskbarRect>>)

WinToggleMax(d, i) ==
  LET w == d.win[i]
      full == Rect(0, 0, ScrW, WorkH)
      v == IF w.max THEN Unmaximised(w)
           ELSE [w EXCEPT !.rest = w.rect, !.rect = full, !.max = TRUE]
  IN Redraw([d EXCEPT !.win[i] = v], <<Around({w.rect, v.rect}), TaskbarRect>>)

OpenStartMenu(d) ==
  IF d.menu THEN d ELSE Redraw([d EXCEPT !.menu = TRUE], <<MenuRect>>)

CloseStartMenu(d) ==
  IF ~d.menu THEN d ELSE Redraw([d EXCEPT !.menu = FALSE], <<MenuRect>>)

----------------------------------------------------------------------------
(* handle_left_press: the desk after it and what it acted on.              *)

Did(d, what, id) == [d EXCEPT !.hit = <<what, id>>]

PressTaskbar(d, p) ==
  LET i == TaskbarWinAt(d, p)
  IN IF Contains(StartRect, p)
     THEN Did(IF d.menu THEN CloseStartMenu(d) ELSE OpenStartMenu(d), "start", 0)
     ELSE IF i = None THEN CloseStartMenu(d)
     ELSE Did(IF d.win[i].min THEN WinRestoreFromTaskbar(CloseStartMenu(d), i)
                              ELSE WinRaise(CloseStartMenu(d), i),
              "task", i)

\* The quotient is cut towards zero: the padding above the items is row 0, that
\* below them is no row, and leaves the menu open.
PressMenu(d, p) ==
  LET off == p[2] - MenuRect.y - MenuPad
      row == IF off < 0 THEN -((-off) \div ItemH) ELSE off \div ItemH
  IN IF row \in 0 .. Len(Icons) - 1
     THEN Did(IconOpen(CloseStartMenu(d), row + 1), "menu", row + 1) ELSE d

PressBare(d, p) ==
  LET k == IconAt(p)
  IN IF k = None THEN d ELSE Did(IconOpen(d, k), "icon", k)

PressWindow(d, i, p) ==
  LET w == d.win[i]
      off == <<p[1] - w.rect.x, p[2] - w.rect.y>>
      grab == [at |-> p, w |-> w.rect.w, h |-> w.rect.h]
      button == WinButtonAt(w.rect, p)
  IN CASE button = "close" -> Did(WinClose(d, i), button, i)
       [] button = "max" -> Did(WinToggleMax(d, i), button, i)
       [] button = "min" -> Did(WinMinimize(d, i), button, i)
       [] button = "none" /\ OnGrip(w, p) ->
            Did([WinRaise(d, i) EXCEPT !.resize = i, !.grab = grab], "grip", i)
       [] button = "none" /\ ~OnGrip(w, p) /\ p[2] < w.rect.y + TitleH ->
            Did([WinRaise(d, i) EXCEPT !.drag = i, !.off = off], "title", i)
       [] OTHER -> Did(WinRaise(d, i), "body", i)

\* Mutant: windows are hit before the menu above them.
HandleLeftPressUnder(d, p) ==
  LET i == WinTopmostAt(d, p)
  IN IF p[2] >= WorkH THEN PressTaskbar(d, p)
     ELSE IF i # None THEN PressWindow(CloseStartMenu(d), i, p)
     ELSE IF d.menu /\ Contains(MenuRect, p) THEN PressMenu(d, p)
     ELSE PressBare(CloseStartMenu(d), p)

HandleLeftPress(d, p) ==
  LET i == WinTopmostAt(d, p)
  IN IF p[2] >= WorkH THEN PressTaskbar(d, p)
     ELSE IF d.menu /\ Contains(MenuRect, p) THEN PressMenu(d, p)
     ELSE IF i = None THEN PressBare(CloseStartMenu(d), p)
     ELSE PressWindow(CloseStartMenu(d), i, p)

----------------------------------------------------------------------------
(* The parts of desktop_poll.                                              *)

\* A dragged window follows the cursor inside the work area; a maximised one
\* gets its old size back first. The whole scene is drawn.
DragStep(d, p) ==
  LET w == d.win[d.drag]
      v == IF w.max THEN Unmaximised(w) ELSE w
      x == Lesser(p[1] - d.off[1], ScrW - v.rect.w)
      y == Lesser(p[2] - d.off[2], WorkH - v.rect.h)
      at == [v.rect EXCEPT !.x = Greater(x, 0), !.y = Greater(y, 0)]
  IN Redraw([d EXCEPT !.win[d.drag] = [v EXCEPT !.rect = at]], <<Screen>>)

\* Mutant: no limit but the smallest size.
ResizeStepFree(d, p) ==
  LET r == d.win[d.resize].rect
      s == [r EXCEPT !.w = Greater(d.grab.w + p[1] - d.grab.at[1], MinW),
                     !.h = Greater(d.grab.h + p[2] - d.grab.at[2], MinH)]
  IN IF d.win[d.resize].max THEN [d EXCEPT !.resize = None]
     ELSE IF s = r THEN d
     ELSE Redraw([d EXCEPT !.win[d.resize].rect = s], <<Around({r, s})>>)

\* A resized window's corner follows the cursor.
ResizeStep(d, p) ==
  LET r == d.win[d.resize].rect
      w == Greater(d.grab.w + p[1] - d.grab.at[1], MinW)
      h == Greater(d.grab.h + p[2] - d.grab.at[2], MinH)
      s == [r EXCEPT !.w = IF r.x + w > ScrW THEN ScrW - r.x ELSE w,
                     !.h = IF r.y + h > WorkH THEN WorkH - r.y ELSE h]
  IN IF d.win[d.resize].max THEN [d EXCEPT !.resize = None]
     ELSE IF s = r THEN d
     ELSE Redraw([d EXCEPT !.win[d.resize].rect = s], <<Around({r, s})>>)

Held(d, i) == i # None /\ d.win[i].used

FollowResize(d, p) == IF Held(d, d.resize) THEN ResizeStep(d, p) ELSE d

Follow(d, p, moved) ==
  FollowResize(IF Held(d, d.drag) /\ moved THEN DragStep(d, p) ELSE d, p)

RightPress(d, p) ==
  LET i == WinTopmostAt(d, p) IN IF i = None THEN d ELSE WinRaise(d, i)

\* The offsets and sizes noted at a press are not read after the release.
NoGrab == [at |-> <<0, 0>>, w |-> 0, h |-> 0]
\* Mutant: the release ends the dragging alone.
LeftReleasedDrag(d) == [d EXCEPT !.drag = None, !.off = <<0, 0>>]

LeftReleased(d) ==
  [d EXCEPT !.drag = None, !.resize = None, !.off = <<0, 0>>, !.grab = NoGrab]

IsTerm(d, i) == i # None /\ Icons[d.win[i].icon].kind = "term"

\* The focused terminal's window is redrawn: every second for its caret to blink.
BlinkTerm(d) ==
  LET i == WinTopmostIndex(d)
  IN IF IsTerm(d, i) THEN Redraw(d, <<d.win[i].rect>>) ELSE d

\* A key goes to the focused terminal, and may move its caret to any column.
KeyInput(d, col) ==
  LET i == WinTopmostIndex(d)
  IN IF IsTerm(d, i) THEN BlinkTerm([d EXCEPT !.win[i].col = col]) ELSE d

\* Once a second: the clock, and the focused terminal.
EverySecond(d, odd) == BlinkTerm(Redraw([d EXCEPT !.odd = odd], <<ClockRect>>))

----------------------------------------------------------------------------
(* Presenting.                                                             *)

At(p) == Rect(p[1], p[2], 1, 1)

\* present: wipe the cursor where it was, stamp it where it is.
WipeCursor(d, was, now) ==
  IF was = now THEN d
  ELSE [d EXCEPT !.bb[was] = Cell(d, At(was), was), !.damage = DamageAdd(@, {At(was)})]

Stamp(d, was, now) ==
  IF was = now /\ (d.damage = Empty \/ ~Overlaps(d.damage, At(now))) THEN d
  ELSE [d EXCEPT !.bb[now] = CursorMark, !.damage = DamageAdd(@, {At(now)})]

\* blit_rect: the rectangle of the backbuffer copied to a page.
BlitRect(pg, bb, r) == [p \in Cells |-> IF Contains(r, p) THEN bb[p] ELSE pg[p]]

PresentSingle(d) ==
  /\ page' = [page EXCEPT ![front] = BlitRect(@, d.bb, d.damage)]
  /\ UNCHANGED <<front, prev>>

\* Mutant: the back page gets this frame's damage alone.
PresentFlipOnce(d) ==
  LET back == 1 - front
  IN /\ page' = [page EXCEPT ![back] = BlitRect(@, d.bb, d.damage)]
     /\ prev' = d.damage
     /\ front' = back

\* present_flip: the back page is two frames old, so it gets the damage of the
\* frame before as well as this frame's, and is flipped to.
PresentFlip(d) ==
  LET back == 1 - front
  IN /\ page' = [page EXCEPT ![back] =
                   BlitRect(BlitRect(@, d.bb, prev), d.bb, d.damage)]
     /\ prev' = d.damage
     /\ front' = back

PresentStamped(d) ==
  /\ desk' = [d EXCEPT !.damage = Empty]
  /\ IF flip THEN PresentFlip(d) ELSE PresentSingle(d)

Present(d) ==
  /\ PresentStamped(Stamp(WipeCursor(d, stamped, cursor'), stamped, cursor'))
  /\ stamped' = cursor'

----------------------------------------------------------------------------
(* desktop_init, then desktop_poll for ever.                               *)

Nothing == <<"nothing", 0>>

Blank ==
  [win |-> [i \in Slots |-> NoWindow], z |-> << >>, drag |-> None,
   off |-> <<0, 0>>, resize |-> None, grab |-> NoGrab, menu |-> FALSE,
   opens |-> 0, bb |-> [p \in Cells |-> [paint |-> Background, over |-> {}]],
   damage |-> Empty, odd |-> FALSE, hit |-> Nothing]

Middle == <<ScrW \div 2, ScrH \div 2>>

FirstDesk == Redraw(WinOpen(Blank, First.icon, First.rect), <<Screen>>)

Init ==
  /\ \E odd \in BOOLEAN :
       desk = [FirstDesk EXCEPT !.bb[Middle] = CursorMark, !.damage = Empty, !.odd = odd]
  /\ cursor = Middle /\ stamped = Middle
  /\ buttons = [left |-> FALSE, right |-> FALSE]
  /\ flip \in Flips
  /\ front = 0 /\ prev = Empty
  /\ page = [n \in {0, 1} |-> desk.bb]
  /\ presses = 0

AtEdge(p) == p[1] \in {0, ScrW - 1} \/ p[2] \in {0, ScrH - 1}

\* What virtio_mouse_get_delta, the keyboard ring and the timer have for this
\* poll: of a second press, a key and a new second, odd or even, at most one
\* (bound), and while the mouse rests (bound). At the edge of the screen the mouse
\* may move (push) and the cursor not. A key leaves the caret at col.
Input == [at : Spots, push : BOOLEAN, left : BOOLEAN,
          also : {"nothing", "right", "key", "odd", "even"}, col : Columns]

Pressed(in) == in.left /\ ~buttons.left

\* The order of one poll: what is held follows the mouse, then the left press,
\* the right press, the release, the keys, and the once-a-second repaint.
LeftDown(d, in) == IF Pressed(in) THEN HandleLeftPress(d, in.at) ELSE d
RightDown(d, in) ==
  IF in.also = "right" /\ ~buttons.right THEN RightPress(d, in.at) ELSE d
LeftUp(d, in) == IF buttons.left /\ ~in.left THEN LeftReleased(d) ELSE d
Keyed(d, in) == IF in.also = "key" THEN KeyInput(d, in.col) ELSE d
Ticked(d, in) ==
  IF in.also \in {"odd", "even"} THEN EverySecond(d, in.also = "odd") ELSE d

Handled(d, in) ==
  Ticked(Keyed(LeftUp(RightDown(LeftDown(
    Follow(d, in.at, in.at # cursor \/ in.push), in), in), in), in), in)

DesktopPoll(in) ==
  /\ in.push => AtEdge(in.at) /\ in.at = cursor /\ desk.drag # None
  /\ in.also # "nothing" => in.at = cursor
  /\ in.also # "key" => in.col = 0
  /\ presses' = presses + (IF Pressed(in) THEN 1 ELSE 0)
  /\ presses' <= MaxPresses[flip]
  /\ cursor' = in.at
  /\ buttons' = [left |-> in.left, right |-> in.also = "right"]
  /\ Present(Handled([desk EXCEPT !.hit = Nothing], in))
  /\ UNCHANGED flip

Next == \E in \in Input : DesktopPoll(in)

Spec == Init /\ [][Next]_vars

----------------------------------------------------------------------------
(* Properties.                                                             *)

\* While a window follows the mouse it is one the user sees and holds: used,
\* not minimised, the left button down, and never both moved and sized nor
\* sized while maximised (handle_left_press, win_close, win_minimize and the
\* release in desktop_poll clear g_drag and g_resize).
HeldWindowIsHeld ==
  LET held == {desk.drag, desk.resize} \ {None}
  IN /\ held \subseteq Visible(desk)
     /\ held # {} => buttons.left
     /\ desk.drag = None \/ desk.resize = None
     /\ desk.resize # None => ~desk.win[desk.resize].max

\* No sequence of opening, dragging, sizing, maximising and restoring puts a
\* window off the work area or under the smallest size, nor the rectangle it
\* will be restored to (what desktop_gfx_integrity polls for, and tighter).
WindowsInWorkArea ==
  \A i \in Slots : desk.win[i].used =>
    \A r \in {desk.win[i].rect} \cup (IF desk.win[i].max THEN {desk.win[i].rest} ELSE {}) :
      /\ r.x >= 0 /\ r.y >= 0 /\ r.w >= MinW /\ r.h >= MinH
      /\ r.x + r.w <= ScrW /\ r.y + r.h <= WorkH

\* The repaints that the operations ask for are enough: after every poll each
\* cell of the backbuffer is filled with what is on top there, a window's text
\* inside its frame and the colours of its focus included, and the cursor is
\* there once. Left out is what the code does leave behind: the focus colour of
\* a title's last row, which redraw_all_titles does not reach, the caret of a
\* terminal, and text beyond a frame (`over').
BackbufferShowsScene ==
  \A p \in Cells :
    LET seen == desk.bb[p].paint
        want == SceneCell(desk, p)
    IN IF p = cursor THEN desk.bb[p] = CursorMark
       ELSE /\ <<seen[1], seen[2], seen[3]>> = <<want[1], want[2], want[3]>>
            /\ want[3] # "edge" => seen[4] = want[4]

\* The page on the screen is the backbuffer after every poll, flipped or not:
\* a page that was in the back for a frame has missed nothing.
ScreenShowsBackbuffer == page[front] = desk.bb

\* What a press may do to a window, by the part of it that is shown. The title
\* is also shown in the margin and the gaps of its buttons; a terminal shows no
\* grip, and a frame or a text nothing of what is under it.
ActsOfPart(part) ==
  CASE part \in {"close", "max", "min", "grip"} -> {part}
    [] part = "title" -> {"title", "close", "max", "min"}
    [] part = "edge" -> {"body"}
    [] part \in {"body", "text"} -> {"body", "grip"}
    [] part = "border" -> {"title", "close", "body", "grip"}

Acts(d, p) ==
  LET c == SceneCell(d, p)
  IN CASE c[1] = "win" -> ActsOfPart(c[3]) \X {c[2]}
       [] c[1] = "menu" /\ c[2] = 0 -> {Nothing} \cup {"menu"} \X (1 .. Len(Icons))
       [] c[1] = "clock" ->
            {Nothing} \cup {"task"} \X {i \in Slots : Contains(TaskBtn(d, i), p)}
       [] c[1] = "background" -> {Nothing, <<"icon", IconAt(p)>>}
       [] c[1] = "taskbar" -> {Nothing}
       [] OTHER -> {<<c[1], c[2]>>}

\* A press acts on the thing that was shown where it fell: the hit tests of
\* handle_left_press, written apart from the painting, agree with the order of
\* scene_region and with what win_render, render_taskbar and render_start_menu
\* draw there, and never reach a window, icon or item other than the one shown.
PressActsOnShown ==
  [][(~buttons.left /\ buttons'.left) => desk'.hit \in Acts(desk, cursor')]_vars
==============================================================================
