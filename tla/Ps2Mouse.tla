------------------------------ MODULE Ps2Mouse ------------------------------
(***************************************************************************)
(* The PS/2 mouse: interrupt delivery through the pair of 8259 PICs        *)
(* (src/kernel/arch/x86_64/pic.c, idt.c), the IRQ12 handler that assembles *)
(* packets and the drain the main loop calls (mouse.c).                     *)
(*                                                                         *)
(* An interrupt gate clears IF, so a handler runs to its end before the    *)
(* main loop's next instruction: each handler is one step.  The main loop  *)
(* is interleaved with the handlers at every access to shared state while  *)
(* IF is set.  The PICs, the 8042 controller and the mouse are hardware,    *)
(* modelled from how the code drives them.                                  *)
(***************************************************************************)
EXTENDS Integers, Sequences, FiniteSets

CONSTANTS
  Packets,     \* three-byte packets the mouse may send
  MaxPackets,  \* bound: packets the mouse sends in a behaviour
  OtherLines,  \* other unmasked IRQ lines, their handlers end in an EOI
  Lossy        \* whether a byte may be lost on the wire

ASSUME MouseAssumption ==
  /\ \A p \in Packets : p \in Seq(0 .. 255) /\ Len(p) = 3
  /\ OtherLines \subseteq (0 .. 15) \ {2, 12}
  /\ MaxPackets \in Nat /\ Lossy \in BOOLEAN

VARIABLES
  irr, isr,    \* PIC request and in-service registers, as sets of lines
  if,          \* the CPU's interrupt flag
  wire,        \* bytes of the current packet the mouse has yet to send
  out,         \* the 8042's output buffer: empty or one byte
  mouse_cycle, mouse_packet, mouse_dx, mouse_dy, mouse_events,
  pc,          \* where the main loop is in mouse_get_delta
  taken,       \* ddx, ddy and events, the locals of mouse_get_delta
  mouse_told,  \* motion reported to the main loop so far (history)
  mouse_moved, \* motion the mouse has sent so far (history)
  sent,        \* packets sent so far (bounds the run)
  mouse_lost   \* whether a byte was lost so far (history)

pic    == <<irr, isr>>
device == <<wire, out, mouse_moved, sent, mouse_lost>>
driver == <<mouse_cycle, mouse_packet, mouse_dx, mouse_dy, mouse_events>>
main   == <<if, pc, taken, mouse_told>>
mouse_vars == <<pic, device, driver, main>>

MOUSE   == 12
CASCADE == 2
EMPTY   == -1

Bit(byte, value) == (byte \div value) % 2 = 1
Int8(byte)       == IF byte < 128 THEN byte ELSE byte - 256
Plus(v, w)       == <<v[1] + w[1], v[2] + w[2]>>

-----------------------------------------------------------------------------
(* The PICs: lines 0-7 on the master, 8-15 on the slave behind line 2.      *)

Raise(line) == irr' = irr \cup {line}

\* A line is held off by a line in service of the same or a higher priority
\* on its own chip or, for a slave line, on the master.
HeldOff(line) ==
  \/ \E s \in isr : s <= line /\ (s < 8 <=> line < 8)
  \/ line >= 8 /\ \E s \in isr : s <= CASCADE

InService(line) == isr \cup IF line >= 8 THEN {CASCADE, line} ELSE {line}

\* A non-specific EOI retires the highest priority line of the chip.
Retire(S) == S \ {s \in S : \A t \in S : s <= t}
Chip(S, first) == {s \in S : first <= s /\ s < first + 8}

\* Mutant: an EOI to the master only.
SendEoiMasterOnly(S, irq) == Chip(S, 8) \cup Retire(Chip(S, 0))

\* pic_send_eoi
SendEoi(S, irq) ==
  IF irq >= 8 THEN Retire(Chip(S, 8)) \cup Retire(Chip(S, 0))
              ELSE Chip(S, 8) \cup Retire(Chip(S, 0))

Accept(line) ==
  /\ if /\ line \in irr /\ ~HeldOff(line)
  /\ irr' = irr \ {line}

-----------------------------------------------------------------------------
(* The mouse and the 8042. *)

\* A nine-bit delta, its sign in the header, as the mouse means it.
Nine(byte, negative) == IF negative THEN byte - 256 ELSE byte
Motion(p) ==
  << IF Bit(p[1], 64)  THEN 0 ELSE Nine(p[2], Bit(p[1], 16)),
     IF Bit(p[1], 128) THEN 0 ELSE Nine(p[3], Bit(p[1], 32)) >>

MoveMouse(p) ==
  /\ wire = << >> /\ sent < MaxPackets
  /\ wire' = p
  /\ mouse_moved' = Plus(mouse_moved, Motion(p))
  /\ sent' = sent + 1
  /\ UNCHANGED <<pic, out, mouse_lost, driver, main>>

\* The controller takes the next byte and raises IRQ12.
ClockByte ==
  /\ wire # << >> /\ out = EMPTY
  /\ out' = Head(wire) /\ wire' = Tail(wire)
  /\ Raise(MOUSE)
  /\ UNCHANGED <<isr, mouse_moved, sent, mouse_lost, driver, main>>

LoseByte ==
  /\ Lossy /\ wire # << >>
  /\ wire' = Tail(wire)
  /\ mouse_lost' = TRUE
  /\ UNCHANGED <<pic, out, mouse_moved, sent, driver, main>>

OtherDevice(line) ==
  /\ Raise(line)
  /\ UNCHANGED <<isr, device, driver, main>>

-----------------------------------------------------------------------------
(* Interrupt handlers. *)

\* timer_handler, keyboard_handler, irq_generic_dispatch as the PIC sees them.
OtherIrq(line) ==
  /\ Accept(line)
  /\ isr' = SendEoi(InService(line), line)
  /\ UNCHANGED <<device, driver, main>>

Unsynced == mouse_cycle = 0 /\ ~Bit(out, 8)

\* The packet complete once its third byte is read, and its effect.
Complete(p) ==
  /\ mouse_cycle' = 0
  /\ mouse_dx' = mouse_dx + (IF Bit(p[1], 64)  THEN 0 ELSE Int8(p[2]))
  /\ mouse_dy' = mouse_dy + (IF Bit(p[1], 128) THEN 0 ELSE Int8(p[3]))
  /\ mouse_events' = mouse_events + 1

\* mouse_handler; the early return on an unsynced byte sends no EOI.
MouseIrq ==
  /\ Accept(MOUSE) /\ out # EMPTY
  /\ out' = EMPTY
  /\ \/ /\ Unsynced
        /\ isr' = InService(MOUSE)
        /\ UNCHANGED driver
     \/ /\ ~Unsynced
        /\ isr' = SendEoi(InService(MOUSE), MOUSE)
        /\ mouse_packet' = [mouse_packet EXCEPT ![mouse_cycle + 1] = out]
        /\ \/ /\ mouse_cycle < 2
              /\ mouse_cycle' = mouse_cycle + 1
              /\ UNCHANGED <<mouse_dx, mouse_dy, mouse_events>>
           \/ mouse_cycle = 2 /\ Complete(mouse_packet')
  /\ UNCHANGED <<wire, mouse_moved, sent, mouse_lost, main>>

-----------------------------------------------------------------------------
(* mouse_get_delta, called from the main loop. *)

Goto(from, to) == pc = from /\ pc' = to

\* Mutant: the totals are read with interrupts on.
CliForgotten ==
  /\ Goto("idle", "read")
  /\ UNCHANGED <<if, pic, device, driver, taken, mouse_told>>

Cli ==
  /\ Goto("idle", "read") /\ if' = FALSE
  /\ UNCHANGED <<pic, device, driver, taken, mouse_told>>

ReadTotals ==
  /\ Goto("read", "clear")
  /\ taken' = <<mouse_dx, mouse_dy, mouse_events>>
  /\ UNCHANGED <<pic, device, driver, if, mouse_told>>

ClearTotals ==
  /\ Goto("clear", "sti")
  /\ mouse_dx' = 0 /\ mouse_dy' = 0 /\ mouse_events' = 0
  /\ UNCHANGED <<pic, device, mouse_cycle, mouse_packet, if, taken, mouse_told>>

\* sti, then the totals are returned to the caller.
Sti ==
  /\ Goto("sti", "idle") /\ if' = TRUE
  /\ mouse_told' = Plus(mouse_told, taken)
  /\ taken' = <<0, 0, 0>>
  /\ UNCHANGED <<pic, device, driver>>

-----------------------------------------------------------------------------
(* pic_remap and pic_unmask_irq have run, then mouse_init: every line of    *)
(* the model is unmasked and the mouse reports.                             *)
MouseInit ==
  /\ irr = {} /\ isr = {} /\ if = TRUE
  /\ wire = << >> /\ out = EMPTY /\ mouse_moved = <<0, 0>> /\ sent = 0 /\ mouse_lost = FALSE
  /\ mouse_cycle = 0 /\ mouse_packet = <<0, 0, 0>>
  /\ mouse_dx = 0 /\ mouse_dy = 0 /\ mouse_events = 0
  /\ pc = "idle" /\ taken = <<0, 0, 0>> /\ mouse_told = <<0, 0>>

MouseDrain == Cli \/ ReadTotals \/ ClearTotals \/ Sti

MouseNext ==
  \/ \E p \in Packets : MoveMouse(p)
  \/ ClockByte \/ LoseByte
  \/ \E line \in OtherLines : OtherDevice(line) \/ OtherIrq(line)
  \/ MouseIrq
  \/ MouseDrain

(* The CPU takes a deliverable interrupt, the controller clocks bytes, and  *)
(* the main loop, which the timer wakes from hlt, keeps calling.            *)
MouseFairness ==
  /\ WF_mouse_vars(ClockByte) /\ SF_mouse_vars(MouseIrq) /\ WF_mouse_vars(MouseDrain)
  /\ \A line \in OtherLines : SF_mouse_vars(OtherIrq(line))

MouseSpec == MouseInit /\ [][MouseNext]_mouse_vars /\ MouseFairness

-----------------------------------------------------------------------------
(* Types: registers hold lines, the packet holds bytes, and IF is clear     *)
(* exactly inside the drain.                                                *)
MouseTypeOK ==
  /\ irr \subseteq OtherLines \cup {MOUSE}
  /\ isr \subseteq OtherLines \cup {MOUSE, CASCADE}
  /\ if = (pc = "idle")
  /\ out \in {EMPTY} \cup 0 .. 255 /\ wire \in Seq(0 .. 255)
  /\ mouse_cycle \in 0 .. 2
  /\ mouse_packet \in [1 .. 3 -> 0 .. 255]
  /\ mouse_dx \in Int /\ mouse_dy \in Int /\ mouse_events \in Nat
  /\ taken \in Int \X Int \X Nat /\ mouse_told \in Int \X Int /\ mouse_moved \in Int \X Int
  /\ pc \in {"idle", "read", "clear", "sti"}

\* Bytes of the current packet the driver has yet to read.
Unread == Len(wire) + IF out = EMPTY THEN 0 ELSE 1

(* When every byte is delivered, the handler's place in the packet is the  *)
(* mouse's: no byte is ever taken for another of its packet.                *)
FramingAligned == ~mouse_lost => (mouse_cycle + Unread) % 3 = 0

(* No motion is lost or counted twice between the handler, which adds, and *)
(* the drain, which reads and then clears: when no packet is in flight, what*)
(* the mouse moved is what the main loop was told plus what it has yet to   *)
(* collect.                                                                 *)
MotionConserved ==
  ~mouse_lost /\ Unread = 0 =>
    mouse_moved = Plus(mouse_told, IF pc = "clear" THEN <<mouse_dx, mouse_dy>>
                       ELSE Plus(taken, <<mouse_dx, mouse_dy>>))

(* Every handler ends its interrupt: with no handler running, no line is   *)
(* left in service to hold others off.                                      *)
NothingLeftInService == ~mouse_lost => isr = {}

(* No line waits forever.  A mouse that lost a byte may stop, IRQ12 left in *)
(* service, and the slave's lines with it; those above the cascade, the     *)
(* clock every deadline counts on among them, are served even then.         *)
LinesServiced ==
  \A line \in OtherLines \cup {MOUSE} :
    (line \in irr) ~> (line \notin irr \/ (mouse_lost /\ line > CASCADE))
=============================================================================
