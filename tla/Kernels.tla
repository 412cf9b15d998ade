------------------------------ MODULE Kernels ------------------------------
(***************************************************************************)
(* Calls whose answer depends on their arguments alone: the clock; the page *)
(* tables and the image decoder, a turn of their loops at a time; and a     *)
(* terminal window fed one key after another.                               *)
(***************************************************************************)
EXTENDS Clock, Paging, Terminal, ImageCalls

CONSTANTS
  Dates,     \* what the clock is set to
  Modes,     \* its modes, << binary, hour12 >>
  Spaces,    \* page tables before a call, with the memory left
  Ranges,    \* physical ranges << phys, len >>
  Hhdm,      \* pages below the direct map
  Keys,      \* keys of the terminal
  MaxLog     \* bound: lines printed in a terminal

ASSUME ClockAssumption ==
  /\ Dates \subseteq [year : 2000 .. 2099, month : 1 .. 12, day : 1 .. 31,
                      hour : 0 .. 23, minute : 0 .. 59, second : 0 .. 59]
  /\ Modes \subseteq {<< FALSE, FALSE >>, << FALSE, TRUE >>, << TRUE, FALSE >>}

ASSUME RangeAssumption ==
  /\ Hhdm \in Nat
  /\ \A s \in Spaces : s = Space(s.entries, s.pages) /\ s.pages \in Nat /\ IsTree(s)
  /\ \A range \in Ranges :
       /\ range \in Nat \X (Nat \ {0})
       /\ Hhdm + FirstPage(range[1]) + Pages(range[1], range[2]) <= Top
       /\ \A s \in Spaces, n \in 0 .. Pages(range[1], range[2]) - 1 :
            IsIdentity(s, Hhdm, Hhdm + FirstPage(range[1]) + n)

ASSUME CallsAssumption == MaxLog \in Nat

VARIABLES
  call,   \* the function called and its arguments
  done,   \* whether it has returned
  space,  \* the page tables
  turns,  \* turns of paging_map_physical's loop so far
  png,    \* the image decoder
  term,   \* the terminal window
  user    \* the terminal as its user thinks of it

tables == <<space, turns>>
vars == <<call, done, tables, png, term, user>>

Init ==
  /\ done = FALSE /\ turns = 0
  /\ term = TermOpen([k \in 1 .. ScrollMax |-> Blank])
  /\ user = LogOpen
  /\ \/ \E s \in Spaces, range \in Ranges :
          call = [f |-> "paging_map_physical", space |-> s, range |-> range] /\ space = s
     \/ /\ space = Space(<< >>, 0)
        /\ \/ \E dt \in Dates, mode \in Modes :
                IsDate(dt) /\ call = [f |-> "rtc_read_ist", dt |-> dt, mode |-> mode]
           \/ call \in CodeCalls \cup InflateCalls \cup RowCalls
           \/ call = [f |-> "term_feed"]
  /\ png = Start(call)

\* The loop of paging_map_physical, for the direct map: it ends early when
\* there is no memory for a table, and the caller is not told.
MapTurn ==
  /\ call.f = "paging_map_physical"
  /\ ~space.failed /\ turns < Pages(call.range[1], call.range[2])
  /\ LET page == FirstPage(call.range[1]) + turns
     IN space' = MapPage(space, Hhdm + page, page)
  /\ turns' = turns + 1
  /\ UNCHANGED <<call, done, png, term, user>>

\* The loops of inflate and, over the rows, of png_decode.
InflateBlock ==
  /\ call.f = "inflate" /\ png.at = "block"
  /\ png' = BlockTurn(Body(call.src), call.cap, png)
  /\ UNCHANGED <<call, done, tables, term, user>>

InflateLens ==
  /\ call.f = "inflate" /\ png.at = "lens"
  /\ png' = LensTurn(Body(call.src), png)
  /\ UNCHANGED <<call, done, tables, term, user>>

InflateCodes ==
  /\ call.f = "inflate" /\ png.at = "codes"
  /\ png' = CodesTurn(Body(call.src), call.cap, png)
  /\ UNCHANGED <<call, done, tables, term, user>>

DecodeRow ==
  /\ call.f = "png_decode" /\ png.at = "rows"
  /\ png' = RowTurn(FilteredRows(call), call.channels, png)
  /\ UNCHANGED <<call, done, tables, term, user>>

Return ==
  /\ call.f # "term_feed" /\ png.at = "ended"
  /\ call.f = "paging_map_physical" =>
       space.failed \/ turns = Pages(call.range[1], call.range[2])
  /\ done' = TRUE
  /\ UNCHANGED <<call, tables, png, term, user>>

Key(key) ==
  /\ call.f = "term_feed" /\ Len(user.log) < MaxLog
  /\ term' = TermFeed(term, key)
  /\ user' = LogFeed(user, key)
  /\ UNCHANGED <<call, done, tables, png>>

\* A window closed and another terminal opened in its slot.
Reopen ==
  /\ call.f = "term_feed"
  /\ term' = TermOpen(term.lines)
  /\ user' = [LogOpen EXCEPT !.cleared = TRUE]
  /\ UNCHANGED <<call, done, tables, png>>

Next ==
  \/ MapTurn \/ Return \/ Reopen
  \/ InflateBlock \/ InflateLens \/ InflateCodes \/ DecodeRow
  \/ \E key \in Keys : Key(key)

Spec == Init /\ [][Next]_vars

----------------------------------------------------------------------------
(* The Indian time shown is the time of the clock 330 minutes later, and a   *)
(* date: midnight, the ends of months, leap days, the year, in BCD of 24 or  *)
(* 12 hours and in binary of 24. The fourth mode of the chip, binary of 12  *)
(* hours, is misread and is left out (rtc_read, rtc_read_ist).              *)
IstExact ==
  done /\ call.f = "rtc_read_ist" =>
    LET ist == RtcReadIst(Cmos(call.dt, call.mode[1], call.mode[2]))
    IN /\ IsDate(ist) /\ ist.second = call.dt.second
       /\ Minutes(ist) = Minutes(call.dt) + IstOffset

(* What an encoder writes is what is read: the symbols of every prefix code; *)
(* the bytes of every kind of block, with matches that run into themselves; *)
(* the rows of every filter. A stream cut short or longer than the image is *)
(* refused, as is Up on the first row (inflate, huff_dec, png_decode); but  *)
(* cuts inside the repeat count of a code length are left out (CutWell).    *)
PngExact ==
  /\ done /\ call.f = "huff_dec" =>
       LET h == HuffBuild(call.lens)
           first == HuffDec(h, TwoCodes(call), 0)
           second == HuffDec(h, TwoCodes(call), first.pos)
       IN h.ok /\ first.sym = call.a /\ second.sym = call.b
  /\ done /\ call.f = "inflate" => png.result = Inflated(call)
  /\ done /\ call.f = "png_decode" => png.result = Decoded(call)

(* A range mapped is found through the tables, page for page, wherever it   *)
(* begins and whatever was mapped; nothing else moves, even when memory for *)
(* tables runs out in the middle (paging_map_physical).                     *)
MapExact ==
  done /\ call.f = "paging_map_physical" =>
    MapsRange(call.space, space, Hhdm, call.range[1], call.range[2])

(* In a window of any size the rows drawn are the lines printed, however    *)
(* many there were, at the place scrolled to, each cut at the window's      *)
(* width; the input row and its caret are what was typed and edited. Rows   *)
(* past TERM_SCROLL_MAX, which a maximised window has, are left out: they   *)
(* are read past the lines (term_append_line, term_feed, term_exec,         *)
(* term_render).                                                            *)
TerminalExact ==
  call.f = "term_feed" => \A body \in Bodies : TermShows(term, user, body)
=============================================================================
