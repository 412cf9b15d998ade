---------------------------- MODULE InputProofs ----------------------------
(***************************************************************************)
(* Proofs about the two sources of input.                                   *)
(*                                                                         *)
(* The PS/2 mouse, for any packets, any number of them and any other        *)
(* interrupt lines: the handler's place in a packet is the mouse's, every   *)
(* interrupt is ended, and no motion is lost or counted twice between the   *)
(* handler and the drain.  They hold for packets the handler reads as the   *)
(* mouse means them (Small); it reads a ninth bit as a sign.                *)
(*                                                                         *)
(* The virtio keyboard and mouse, for any number of devices, event queues   *)
(* and a character ring of any size, however drains, new events and reads   *)
(* of the main loop interleave and however often the indexes wrap: the      *)
(* keyboard ring is a queue; a key press is handled with shift as it was    *)
(* when the key was pressed; motion is told once and button masks are the   *)
(* buttons held.                                                            *)
(***************************************************************************)
EXTENDS Ps2Mouse, VirtioInput, SequenceTheorems, TLAPS

-----------------------------------------------------------------------------
(* The PS/2 mouse.                                                          *)

(* The sync bit is set and each delta fits a signed byte, or has overflowed. *)
Small ==
  \A p \in Packets :
    /\ Bit(p[1], 8)
    /\ ~Bit(p[1], 64)  => Nine(p[2], Bit(p[1], 16)) = Int8(p[2])
    /\ ~Bit(p[1], 128) => Nine(p[3], Bit(p[1], 32)) = Int8(p[3])

(* What Complete adds for a packet.                                         *)
Adds(p) == << IF Bit(p[1], 64)  THEN 0 ELSE Int8(p[2]),
              IF Bit(p[1], 128) THEN 0 ELSE Int8(p[3]) >>

(* Where the bytes of the packet in flight are.                             *)
InFlight(p) ==
  \/ wire = <<p[1], p[2], p[3]>> /\ out = EMPTY /\ mouse_cycle = 0
  \/ wire = <<p[2], p[3]>> /\ out = p[1] /\ mouse_cycle = 0
  \/ wire = <<p[2], p[3]>> /\ out = EMPTY /\ mouse_cycle = 1 /\ mouse_packet[1] = p[1]
  \/ wire = <<p[3]>> /\ out = p[2] /\ mouse_cycle = 1 /\ mouse_packet[1] = p[1]
  \/ /\ wire = <<p[3]>> /\ out = EMPTY /\ mouse_cycle = 2
     /\ mouse_packet[1] = p[1] /\ mouse_packet[2] = p[2]
  \/ /\ wire = << >> /\ out = p[3] /\ mouse_cycle = 2
     /\ mouse_packet[1] = p[1] /\ mouse_packet[2] = p[2]

(* The last byte of q waits in the 8042 when the mouse begins on p.          *)
Behind(q, p) ==
  /\ wire = <<p[1], p[2], p[3]>> /\ out = q[3] /\ mouse_cycle = 2
  /\ mouse_packet[1] = q[1] /\ mouse_packet[2] = q[2]

NoneInFlight == wire = << >> /\ out = EMPTY /\ mouse_cycle = 0

(* The motion the driver has added up, told or waiting.                     *)
Counted ==
  Plus(mouse_told, IF pc = "clear" THEN <<mouse_dx, mouse_dy>>
             ELSE Plus(taken, <<mouse_dx, mouse_dy>>))

MotionInv ==
  \/ NoneInFlight /\ mouse_moved = Counted
  \/ \E p \in Packets : InFlight(p) /\ mouse_moved = Plus(Counted, Motion(p))
  \/ \E q, p \in Packets :
       Behind(q, p) /\ mouse_moved = Plus(Plus(Counted, Motion(q)), Motion(p))

DrainInv == pc \in {"idle", "read"} => taken = <<0, 0, 0>>

ClearInv == pc = "clear" => taken[1] = mouse_dx /\ taken[2] = mouse_dy

MouseInv ==
  /\ MouseTypeOK /\ DrainInv /\ ClearInv
  /\ Small /\ ~mouse_lost => isr = {} /\ MotionInv

-----------------------------------------------------------------------------
LEMMA PacketFacts ==
  ASSUME NEW p \in Packets
  PROVE  /\ p = <<p[1], p[2], p[3]>>
         /\ p[1] \in 0 .. 255 /\ p[2] \in 0 .. 255 /\ p[3] \in 0 .. 255
<1>1. p \in Seq(0 .. 255) /\ Len(p) = 3
  BY MouseAssumption
<1>2. \A i \in 1 .. Len(p) : p[i] \in 0 .. 255
  BY <1>1, ElementOfSeq
<1>3. p[1] \in 0 .. 255 /\ p[2] \in 0 .. 255 /\ p[3] \in 0 .. 255
  BY <1>1, <1>2
<1>4. <<p[1], p[2], p[3]>> \in Seq(0 .. 255) /\ Len(<<p[1], p[2], p[3]>>) = 3
  BY <1>3
<1>5. \A i \in 1 .. 3 : p[i] = <<p[1], p[2], p[3]>>[i]
  OBVIOUS
<1>6. p = <<p[1], p[2], p[3]>>
  BY <1>1, <1>4, <1>5
<1>. QED
  BY <1>3, <1>6

LEMMA MotionType ==
  ASSUME NEW p \in Packets
  PROVE  Motion(p) \in Int \X Int
<1>1. \A x \in 0 .. 255, b \in BOOLEAN : Nine(x, b) \in Int
  BY DEF Nine
<1>2. Bit(p[1], 16) \in BOOLEAN /\ Bit(p[1], 32) \in BOOLEAN
  BY DEF Bit
<1>. QED
  BY <1>1, <1>2, PacketFacts DEF Motion

LEMMA AddsIsMotion ==
  ASSUME Small, NEW p \in Packets
  PROVE  Adds(p) = Motion(p)
  BY DEF Small, Adds, Motion

LEMMA PlusIs ==
  ASSUME NEW v, NEW w
  PROVE  Plus(v, w) = <<v[1] + w[1], v[2] + w[2]>>
  BY DEF Plus

(* An interrupt ended leaves none in service.                               *)
LEMMA EoiClears ==
  ASSUME isr = {}, NEW line \in OtherLines \cup {MOUSE}
  PROVE  SendEoi(InService(line), line) = {}
<1>1. line \in (0 .. 15) \ {2}
  BY MouseAssumption DEF MOUSE
<1>2. \A x \in Int : Retire({x}) = {}
  BY DEF Retire
<1>3. Retire({}) = {}
  BY DEF Retire
<1>4. CASE line >= 8
  <2>1. InService(line) = {CASCADE, line}
    BY <1>4 DEF InService
  <2>2. Chip({CASCADE, line}, 8) = {line} /\ Chip({CASCADE, line}, 0) = {CASCADE}
    BY <1>1, <1>4 DEF Chip, CASCADE
  <2>. QED
    BY <1>1, <1>2, <1>4, <2>1, <2>2 DEF SendEoi, CASCADE
<1>5. CASE line < 8
  <2>1. InService(line) = {line}
    BY <1>1, <1>5 DEF InService
  <2>2. Chip({line}, 8) = {} /\ Chip({line}, 0) = {line}
    BY <1>1, <1>5 DEF Chip
  <2>3. SendEoi({line}, line) = Chip({line}, 8) \cup Retire(Chip({line}, 0))
    BY <1>1, <1>5 DEF SendEoi
  <2>4. Retire({line}) = {}
    BY <1>1, <1>2
  <2>. QED
    BY ONLY <2>1, <2>2, <2>3, <2>4
<1>. QED
  BY <1>1, <1>4, <1>5

LEMMA EoiType ==
  ASSUME NEW S, NEW T, S \subseteq T, NEW irq
  PROVE  SendEoi(S, irq) \subseteq T
  BY DEF SendEoi, Retire, Chip

LEMMA InServiceType ==
  ASSUME MouseTypeOK, NEW line \in OtherLines \cup {MOUSE}
  PROVE  InService(line) \subseteq OtherLines \cup {MOUSE, CASCADE}
  BY DEF MouseTypeOK, InService

LEMMA MouseInitInv == MouseInit => MouseInv
<1>. SUFFICES ASSUME MouseInit PROVE MouseInv
  OBVIOUS
<1>1. MouseTypeOK
  <2>1. mouse_packet \in [1 .. 3 -> 0 .. 255]
    BY DEF MouseInit
  <2>2. taken \in Int \X Int \X Nat /\ mouse_told \in Int \X Int /\ mouse_moved \in Int \X Int
    BY DEF MouseInit
  <2>3. wire \in Seq(0 .. 255)
    BY DEF MouseInit
  <2>4. irr = {} /\ isr = {} /\ if = TRUE /\ pc = "idle"
    BY DEF MouseInit
  <2>5. if = (pc = "idle")
    BY <2>4
  <2>6. /\ out \in {EMPTY} \cup 0 .. 255 /\ mouse_cycle \in 0 .. 2
        /\ mouse_dx \in Int /\ mouse_dy \in Int /\ mouse_events \in Nat
    BY DEF MouseInit
  <2>. QED
    BY <2>1, <2>2, <2>3, <2>4, <2>5, <2>6 DEF MouseTypeOK
<1>2. Counted = <<0, 0>>
  BY DEF MouseInit, Counted, Plus
<1>3. MotionInv
  BY <1>2 DEF MouseInit, MotionInv, NoneInFlight
<1>. QED
  BY <1>1, <1>3 DEF MouseInit, MouseInv, DrainInv, ClearInv

-----------------------------------------------------------------------------
(* The mouse and the 8042 leave the driver and the main loop alone.         *)
LEMMA CountedSame ==
  ASSUME UNCHANGED <<pc, taken, mouse_told, mouse_dx, mouse_dy>>
  PROVE  UNCHANGED Counted
  BY DEF Counted

LEMMA CountedType ==
  ASSUME MouseTypeOK
  PROVE  Counted \in Int \X Int
<1>1. /\ mouse_told \in Int \X Int /\ taken[1] \in Int /\ taken[2] \in Int
      /\ mouse_dx \in Int /\ mouse_dy \in Int
  BY DEF MouseTypeOK
<1>2. ASSUME NEW a \in Int, NEW b \in Int, NEW c \in Int, NEW d \in Int
      PROVE  a + c \in Int /\ b + d \in Int
  OBVIOUS
<1>3. mouse_told[1] \in Int /\ mouse_told[2] \in Int
  BY <1>1
<1>4. Plus(taken, <<mouse_dx, mouse_dy>>) \in Int \X Int
  BY <1>1, <1>2 DEF Plus
<1>5. \A v \in Int \X Int : Plus(mouse_told, v) \in Int \X Int
  BY <1>2, <1>3 DEF Plus
<1>. QED
  BY <1>1, <1>4, <1>5 DEF Counted

LEMMA PlusZero ==
  ASSUME NEW v \in Int \X Int
  PROVE  Plus(v, <<0, 0>>) = v
  BY DEF Plus

LEMMA MoveInv ==
  ASSUME MouseInv, NEW p \in Packets, MoveMouse(p)
  PROVE  MouseInv'
<1>0. UNCHANGED <<irr, isr, out, mouse_lost, mouse_cycle, mouse_packet, mouse_dx,
                  mouse_dy, mouse_events, if, pc, taken, mouse_told>>
  BY DEF MoveMouse, pic, driver, main
<1>1. wire = << >> /\ wire' = p /\ mouse_moved' = Plus(mouse_moved, Motion(p))
  BY DEF MoveMouse
<1>2. mouse_moved' \in Int \X Int
  <2>1. Motion(p) \in Int \X Int
    BY MotionType
  <2>2. mouse_moved \in Int \X Int
    BY DEF MouseInv, MouseTypeOK
  <2>. QED
    BY ONLY <1>1, <2>1, <2>2 DEF Plus
<1>3. wire' \in Seq(0 .. 255)
  BY <1>1, MouseAssumption
<1>4. MouseTypeOK'
  BY <1>0, <1>2, <1>3 DEF MouseInv, MouseTypeOK
<1>5. ASSUME Small, ~mouse_lost PROVE MotionInv'
  <2>1. Counted' = Counted
    BY <1>0, CountedSame
  <2>2. MotionInv
    BY <1>5 DEF MouseInv
  <2>3. CASE NoneInFlight /\ mouse_moved = Counted
    <3>1. wire' = <<p[1], p[2], p[3]>>
      BY <1>1, PacketFacts
    <3>2. InFlight(p)'
      BY <1>0, <2>3, <3>1 DEF NoneInFlight, InFlight
    <3>. QED
      BY <1>1, <2>1, <2>3, <3>2 DEF MotionInv
  <2>4. CASE \E q \in Packets : InFlight(q) /\ mouse_moved = Plus(Counted, Motion(q))
    <3>1. PICK q \in Packets : InFlight(q) /\ mouse_moved = Plus(Counted, Motion(q))
      BY <2>4
    <3>2. /\ out = q[3] /\ mouse_cycle = 2
          /\ mouse_packet[1] = q[1] /\ mouse_packet[2] = q[2]
      BY <1>1, <3>1 DEF InFlight
    <3>3. wire' = <<p[1], p[2], p[3]>>
      BY <1>1, PacketFacts
    <3>4. Behind(q, p)'
      BY <1>0, <3>2, <3>3 DEF Behind
    <3>. QED
      BY <1>1, <2>1, <3>1, <3>4 DEF MotionInv
  <2>5. CASE \E q, r \in Packets : Behind(q, r)
    BY <1>1, <2>5 DEF Behind
  <2>. QED
    BY <2>2, <2>3, <2>4, <2>5 DEF MotionInv
<1>. QED
  BY <1>0, <1>4, <1>5 DEF MouseInv, DrainInv, ClearInv

LEMMA ClockInv ==
  ASSUME MouseInv, ClockByte
  PROVE  MouseInv'
<1>0. UNCHANGED <<isr, mouse_moved, mouse_lost, mouse_cycle, mouse_packet, mouse_dx,
                  mouse_dy, mouse_events, if, pc, taken, mouse_told>>
  BY DEF ClockByte, driver, main
<1>1. /\ wire # << >> /\ out = EMPTY /\ wire \in Seq(0 .. 255)
      /\ out' = Head(wire) /\ wire' = Tail(wire)
      /\ irr' = irr \cup {MOUSE}
  BY DEF ClockByte, Raise, MouseInv, MouseTypeOK
<1>2. out' \in 0 .. 255 /\ wire' \in Seq(0 .. 255)
  BY <1>1, HeadTailProperties
<1>3. MouseTypeOK'
  BY <1>0, <1>1, <1>2 DEF MouseInv, MouseTypeOK
<1>4. ASSUME Small, ~mouse_lost PROVE MotionInv'
  <2>1. Counted' = Counted
    BY <1>0, CountedSame
  <2>2. MotionInv
    BY <1>4 DEF MouseInv
  <2>3. CASE NoneInFlight
    BY <1>1, <2>3 DEF NoneInFlight
  <2>4. ASSUME NEW p \in Packets, InFlight(p), mouse_moved = Plus(Counted, Motion(p))
        PROVE  MotionInv'
    <3>1. p[1] # EMPTY /\ p[2] # EMPTY /\ p[3] # EMPTY
      BY PacketFacts DEF EMPTY
    <3>2. CASE wire = <<p[1], p[2], p[3]>> /\ mouse_cycle = 0
      <4>1. out' = p[1] /\ wire' = <<p[2], p[3]>>
        BY <1>1, <3>2
      <4>. QED
        BY <1>0, <2>1, <2>4, <3>2, <4>1 DEF MotionInv, InFlight
    <3>3. CASE wire = <<p[2], p[3]>> /\ mouse_cycle = 1 /\ mouse_packet[1] = p[1]
      <4>1. out' = p[2] /\ wire' = <<p[3]>>
        BY <1>1, <3>3
      <4>. QED
        BY <1>0, <2>1, <2>4, <3>3, <4>1 DEF MotionInv, InFlight
    <3>4. CASE /\ wire = <<p[3]>> /\ mouse_cycle = 2
               /\ mouse_packet[1] = p[1] /\ mouse_packet[2] = p[2]
      <4>1. out' = p[3] /\ wire' = << >>
        BY <1>1, <3>4
      <4>. QED
        BY <1>0, <2>1, <2>4, <3>4, <4>1 DEF MotionInv, InFlight
    <3>. QED
      BY <1>1, <2>4, <3>1, <3>2, <3>3, <3>4 DEF InFlight
  <2>5. ASSUME NEW q \in Packets, NEW p \in Packets, Behind(q, p)
        PROVE  FALSE
    BY <1>1, <2>5, PacketFacts DEF Behind, EMPTY
  <2>. QED
    BY <2>2, <2>3, <2>4, <2>5 DEF MotionInv
<1>. QED
  BY <1>0, <1>3, <1>4 DEF MouseInv, DrainInv, ClearInv

LEMMA LoseInv ==
  ASSUME MouseInv, LoseByte
  PROVE  MouseInv'
<1>0. UNCHANGED <<irr, isr, out, mouse_moved, mouse_cycle, mouse_packet, mouse_dx,
                  mouse_dy, mouse_events, if, pc, taken, mouse_told>>
  BY DEF LoseByte, pic, driver, main
<1>1. wire # << >> /\ wire \in Seq(0 .. 255) /\ wire' = Tail(wire) /\ mouse_lost'
  BY DEF LoseByte, MouseInv, MouseTypeOK
<1>2. wire' \in Seq(0 .. 255)
  BY <1>1, HeadTailProperties
<1>3. MouseTypeOK'
  BY <1>0, <1>2 DEF MouseInv, MouseTypeOK
<1>. QED
  BY <1>0, <1>1, <1>3 DEF MouseInv, DrainInv, ClearInv

(* Steps that leave the bytes and the totals where they are.                *)
LEMMA MotionSame ==
  ASSUME MotionInv, UNCHANGED <<wire, out, mouse_cycle, mouse_packet, mouse_moved, Counted>>
  PROVE  MotionInv'
<1>1. CASE NoneInFlight /\ mouse_moved = Counted
  BY <1>1 DEF MotionInv, NoneInFlight
<1>2. ASSUME NEW p \in Packets, InFlight(p), mouse_moved = Plus(Counted, Motion(p))
      PROVE  MotionInv'
  BY <1>2 DEF MotionInv, InFlight
<1>3. ASSUME NEW q \in Packets, NEW p \in Packets, Behind(q, p),
             mouse_moved = Plus(Plus(Counted, Motion(q)), Motion(p))
      PROVE  MotionInv'
  BY <1>3 DEF MotionInv, Behind
<1>. QED
  BY <1>1, <1>2, <1>3 DEF MotionInv

LEMMA OtherInv ==
  ASSUME MouseInv, NEW line \in OtherLines, OtherDevice(line) \/ OtherIrq(line)
  PROVE  MouseInv'
<1>0. UNCHANGED <<wire, out, mouse_moved, mouse_lost, mouse_cycle, mouse_packet, mouse_dx,
                  mouse_dy, mouse_events, if, pc, taken, mouse_told>>
  BY DEF OtherDevice, OtherIrq, device, driver, main
<1>1. irr' \subseteq OtherLines \cup {MOUSE}
  BY DEF OtherDevice, OtherIrq, Raise, Accept, MouseInv, MouseTypeOK
<1>2. isr' \subseteq OtherLines \cup {MOUSE, CASCADE}
  BY EoiType, InServiceType DEF OtherDevice, OtherIrq, MouseInv, MouseTypeOK
<1>3. Small /\ ~mouse_lost => isr' = {}
  BY EoiClears DEF OtherDevice, OtherIrq, MouseInv
<1>4. MouseTypeOK'
  BY <1>0, <1>1, <1>2 DEF MouseInv, MouseTypeOK
<1>5. Small /\ ~mouse_lost => MotionInv'
  BY <1>0, CountedSame, MotionSame DEF MouseInv
<1>. QED
  BY <1>0, <1>3, <1>4, <1>5 DEF MouseInv, DrainInv, ClearInv

(* The drain moves the totals from the driver to the main loop.             *)
LEMMA DrainKeeps ==
  ASSUME MouseInv, MouseDrain
  PROVE  MouseInv'
<1>0. UNCHANGED <<irr, isr, wire, out, mouse_moved, mouse_lost, mouse_cycle, mouse_packet>>
  BY DEF MouseDrain, Cli, ReadTotals, ClearTotals, Sti, pic, device, driver
<1>1. MouseTypeOK'
  <2>1. CASE Cli
    <3>1. /\ UNCHANGED <<taken, mouse_told, mouse_dx, mouse_dy, mouse_events>>
          /\ pc' = "read" /\ if' = FALSE
      BY <2>1 DEF Cli, Goto, driver
    <3>. QED
      BY <1>0, <3>1 DEF MouseInv, MouseTypeOK
  <2>2. CASE ReadTotals
    BY <1>0, <2>2 DEF ReadTotals, Goto, driver, MouseInv, MouseTypeOK
  <2>3. CASE ClearTotals
    BY <1>0, <2>3 DEF ClearTotals, Goto, MouseInv, MouseTypeOK
  <2>4. CASE Sti
    <3>1. mouse_told' \in Int \X Int
      BY <2>4 DEF Sti, Plus, MouseInv, MouseTypeOK
    <3>2. taken' \in Int \X Int \X Nat
      BY <2>4 DEF Sti
    <3>3. if' = TRUE /\ pc' = "idle"
      BY <2>4 DEF Sti, Goto
    <3>4. if' = (pc' = "idle") /\ pc' \in {"idle", "read", "clear", "sti"}
      BY <3>3
    <3>5. UNCHANGED <<mouse_dx, mouse_dy, mouse_events>>
      BY <2>4 DEF Sti, driver
    <3>. QED
      BY <1>0, <3>1, <3>2, <3>4, <3>5 DEF MouseInv, MouseTypeOK
  <2>. QED
    BY <2>1, <2>2, <2>3, <2>4 DEF MouseDrain
<1>2. DrainInv' /\ ClearInv'
  <2>1. CASE Cli \/ Sti
    BY <2>1 DEF Cli, Sti, Goto, MouseInv, DrainInv, ClearInv
  <2>2. CASE ReadTotals
    BY <2>2 DEF ReadTotals, Goto, driver, DrainInv, ClearInv
  <2>3. CASE ClearTotals
    BY <2>3 DEF ClearTotals, Goto, DrainInv, ClearInv
  <2>. QED
    BY <2>1, <2>2, <2>3 DEF MouseDrain
<1>3. Counted' = Counted
  <2>1. CASE Cli
    BY <2>1 DEF Cli, Goto, driver, Counted
  <2>2. CASE ReadTotals
    <3>1. taken = <<0, 0, 0>>
      BY <2>2 DEF ReadTotals, Goto, MouseInv, DrainInv
    <3>2. Plus(taken, <<mouse_dx, mouse_dy>>) = <<mouse_dx, mouse_dy>>
      BY <3>1 DEF Plus, MouseInv, MouseTypeOK
    <3>. QED
      BY <2>2, <3>2 DEF ReadTotals, Goto, driver, Counted
  <2>3. CASE ClearTotals
    <3>1. taken[1] = mouse_dx /\ taken[2] = mouse_dy
      BY <2>3 DEF ClearTotals, Goto, MouseInv, ClearInv
    <3>2. Plus(taken, <<0, 0>>) = <<mouse_dx, mouse_dy>>
      BY <3>1 DEF Plus, MouseInv, MouseTypeOK
    <3>. QED
      BY <2>3, <3>2 DEF ClearTotals, Goto, Counted
  <2>4. CASE Sti
    <3>1. /\ taken' = <<0, 0, 0>> /\ mouse_told' = Plus(mouse_told, taken)
          /\ UNCHANGED <<mouse_dx, mouse_dy>> /\ pc = "sti" /\ pc' = "idle"
      BY <2>4 DEF Sti, Goto, driver
    <3>. QED
      BY <3>1 DEF Counted, Plus, MouseInv, MouseTypeOK
  <2>. QED
    BY <2>1, <2>2, <2>3, <2>4 DEF MouseDrain
<1>4. Small /\ ~mouse_lost => MotionInv'
  BY <1>0, <1>3, MotionSame DEF MouseInv
<1>. QED
  BY <1>0, <1>1, <1>2, <1>4 DEF MouseInv

(* What the handler adds is counted.                                        *)
LEMMA CompleteCounts ==
  ASSUME MouseTypeOK, pc = "idle", UNCHANGED <<pc, taken, mouse_told>>, NEW p, Complete(p),
         Adds(p) \in Int \X Int
  PROVE  Counted' = Plus(Counted, Adds(p))
<1>1. mouse_dx' = mouse_dx + Adds(p)[1] /\ mouse_dy' = mouse_dy + Adds(p)[2]
  BY DEF Complete, Adds
<1>2. PICK x \in Int, y \in Int : Adds(p) = <<x, y>>
  OBVIOUS
<1>3. /\ Counted = Plus(mouse_told, Plus(taken, <<mouse_dx, mouse_dy>>))
      /\ Counted' = Plus(mouse_told, Plus(taken, <<mouse_dx', mouse_dy'>>))
  BY DEF Counted
<1>4. /\ mouse_told[1] \in Int /\ mouse_told[2] \in Int /\ taken[1] \in Int /\ taken[2] \in Int
      /\ mouse_dx \in Int /\ mouse_dy \in Int
  BY DEF MouseTypeOK
<1>5. Counted = <<mouse_told[1] + (taken[1] + mouse_dx), mouse_told[2] + (taken[2] + mouse_dy)>>
  BY <1>3, <1>4 DEF Plus
<1>6. Counted' = <<mouse_told[1] + (taken[1] + (mouse_dx + x)),
                   mouse_told[2] + (taken[2] + (mouse_dy + y))>>
  BY <1>1, <1>2, <1>3, <1>4 DEF Plus
<1>. QED
  BY <1>2, <1>4, <1>5, <1>6 DEF Plus

LEMMA IrqType ==
  ASSUME MouseInv, MouseIrq
  PROVE  MouseTypeOK'
<1>0. UNCHANGED <<wire, mouse_moved, sent, mouse_lost, if, pc, taken, mouse_told>>
  BY DEF MouseIrq, main
<1>1. irr' \subseteq OtherLines \cup {MOUSE}
  BY DEF MouseIrq, Accept, MouseInv, MouseTypeOK
<1>2. isr' \subseteq OtherLines \cup {MOUSE, CASCADE}
  BY EoiType, InServiceType DEF MouseIrq, MouseInv, MouseTypeOK
<1>3. out \in 0 .. 255 /\ out' = EMPTY
  BY DEF MouseIrq, MouseInv, MouseTypeOK
<1>4. CASE UNCHANGED driver
  BY <1>0, <1>1, <1>2, <1>3, <1>4 DEF driver, MouseInv, MouseTypeOK
<1>5. CASE /\ mouse_packet' = [mouse_packet EXCEPT ![mouse_cycle + 1] = out]
           /\ \/ /\ mouse_cycle < 2
                 /\ mouse_cycle' = mouse_cycle + 1
                 /\ UNCHANGED <<mouse_dx, mouse_dy, mouse_events>>
              \/ mouse_cycle = 2 /\ Complete(mouse_packet')
  <2>1. mouse_packet' \in [1 .. 3 -> 0 .. 255]
    BY <1>3, <1>5 DEF MouseInv, MouseTypeOK
  <2>2. mouse_cycle' \in 0 .. 2
    BY <1>5 DEF Complete, MouseInv, MouseTypeOK
  <2>3. mouse_packet'[2] \in 0 .. 255 /\ mouse_packet'[3] \in 0 .. 255
    BY <2>1
  <2>4. mouse_dx' \in Int /\ mouse_dy' \in Int /\ mouse_events' \in Nat
    <3>1. Int8(mouse_packet'[2]) \in Int /\ Int8(mouse_packet'[3]) \in Int
      BY <2>3 DEF Int8
    <3>2. mouse_dx \in Int /\ mouse_dy \in Int /\ mouse_events \in Nat
      BY DEF MouseInv, MouseTypeOK
    <3>3. CASE UNCHANGED <<mouse_dx, mouse_dy, mouse_events>>
      BY <3>2, <3>3
    <3>4. CASE Complete(mouse_packet')
      BY <3>1, <3>2, <3>4 DEF Complete
    <3>. QED
      BY <1>5, <3>3, <3>4
  <2>. QED
    BY <1>0, <1>1, <1>2, <1>3, <2>1, <2>2, <2>4 DEF MouseInv, MouseTypeOK
<1>. QED
  BY <1>4, <1>5 DEF MouseIrq

(* The handler reads the next byte of the packet the mouse sends.           *)
LEMMA IrqMotion ==
  ASSUME Small, MouseInv, ~mouse_lost, MouseIrq
  PROVE  MotionInv' /\ isr' = {}
<1>0. UNCHANGED <<wire, mouse_moved, mouse_lost, pc, taken, mouse_told>> /\ pc = "idle"
  BY DEF MouseIrq, Accept, main, MouseInv, MouseTypeOK
<1>1. out # EMPTY /\ out' = EMPTY
  BY DEF MouseIrq
<1>2. MotionInv /\ isr = {}
  BY DEF MouseInv
<1>3. mouse_packet \in [1 .. 3 -> 0 .. 255] /\ mouse_cycle \in 0 .. 2
  BY DEF MouseInv, MouseTypeOK
<1>. DEFINE Taken == /\ isr' = SendEoi(InService(MOUSE), MOUSE)
                     /\ mouse_packet' = [mouse_packet EXCEPT ![mouse_cycle + 1] = out]
                     /\ \/ /\ mouse_cycle < 2
                           /\ mouse_cycle' = mouse_cycle + 1
                           /\ UNCHANGED <<mouse_dx, mouse_dy, mouse_events>>
                        \/ mouse_cycle = 2 /\ Complete(mouse_packet')
<1>4. ~Unsynced => Taken
  BY DEF MouseIrq
<1>5. Taken => isr' = {}
  BY <1>2, EoiClears
(* The third byte completes the packet.                                     *)
<1>6. ASSUME NEW p \in Packets, out = p[3], mouse_cycle = 2,
             mouse_packet[1] = p[1], mouse_packet[2] = p[2]
      PROVE  /\ Counted' = Plus(Counted, Motion(p))
             /\ mouse_cycle' = 0 /\ isr' = {}
  <2>1. Taken
    BY <1>4, <1>6 DEF Unsynced
  <2>2. /\ mouse_packet'[1] = p[1] /\ mouse_packet'[2] = p[2]
        /\ mouse_packet'[3] = p[3]
    BY <1>3, <1>6, <2>1
  <2>3. Complete(mouse_packet')
    BY <1>6, <2>1
  <2>4. Complete(p) /\ Adds(p) = Motion(p) /\ Adds(p) \in Int \X Int
    BY <2>2, <2>3, AddsIsMotion, MotionType DEF Complete
  <2>5. Counted' = Plus(Counted, Adds(p))
    BY <1>0, <2>4, CompleteCounts DEF MouseInv
  <2>. QED
    BY <1>5, <2>1, <2>4, <2>5 DEF Complete
(* An earlier one adds nothing.                                             *)
<1>7. ASSUME Taken, mouse_cycle < 2
      PROVE  /\ Counted' = Counted /\ mouse_cycle' = mouse_cycle + 1
             /\ mouse_packet' = [mouse_packet EXCEPT ![mouse_cycle + 1] = out]
  BY <1>0, <1>7, CountedSame
<1>8. CASE NoneInFlight
  BY <1>1, <1>8 DEF NoneInFlight
<1>9. ASSUME NEW p \in Packets, InFlight(p), mouse_moved = Plus(Counted, Motion(p))
      PROVE  MotionInv' /\ isr' = {}
  <2>1. CASE wire = <<p[2], p[3]>> /\ out = p[1] /\ mouse_cycle = 0
    <3>1. Taken
      BY <1>4, <2>1 DEF Unsynced, Small
    <3>2. mouse_packet'[1] = p[1] /\ mouse_cycle' = 1
      BY <1>3, <1>7, <2>1, <3>1
    <3>. QED
      BY <1>0, <1>1, <1>5, <1>7, <1>9, <2>1, <3>1, <3>2 DEF MotionInv, InFlight
  <2>2. CASE wire = <<p[3]>> /\ out = p[2] /\ mouse_cycle = 1 /\ mouse_packet[1] = p[1]
    <3>1. Taken
      BY <1>4, <2>2 DEF Unsynced
    <3>2. mouse_packet'[1] = p[1] /\ mouse_packet'[2] = p[2] /\ mouse_cycle' = 2
      BY <1>3, <1>7, <2>2, <3>1
    <3>. QED
      BY <1>0, <1>1, <1>5, <1>7, <1>9, <2>2, <3>1, <3>2 DEF MotionInv, InFlight
  <2>3. CASE /\ wire = << >> /\ out = p[3] /\ mouse_cycle = 2
             /\ mouse_packet[1] = p[1] /\ mouse_packet[2] = p[2]
    <3>1. Counted' = Plus(Counted, Motion(p)) /\ mouse_cycle' = 0 /\ isr' = {}
      BY <1>6, <2>3
    <3>. QED
      BY <1>0, <1>1, <1>9, <2>3, <3>1 DEF MotionInv, NoneInFlight
  <2>. QED
    BY <1>1, <1>9, <2>1, <2>2, <2>3 DEF InFlight
<1>10. ASSUME NEW q \in Packets, NEW p \in Packets, Behind(q, p),
              mouse_moved = Plus(Plus(Counted, Motion(q)), Motion(p))
       PROVE  MotionInv' /\ isr' = {}
  <2>1. Counted' = Plus(Counted, Motion(q)) /\ mouse_cycle' = 0 /\ isr' = {}
    BY <1>6, <1>10 DEF Behind
  <2>. QED
    BY <1>0, <1>1, <1>10, <2>1 DEF MotionInv, InFlight, Behind
<1>. QED
  BY <1>2, <1>8, <1>9, <1>10 DEF MotionInv

LEMMA IrqInv ==
  ASSUME MouseInv, MouseIrq
  PROVE  MouseInv'
<1>1. UNCHANGED <<mouse_lost, pc, taken, mouse_told>> /\ pc = "idle"
  BY DEF MouseIrq, Accept, main, MouseInv, MouseTypeOK
<1>2. DrainInv' /\ ClearInv'
  BY <1>1 DEF MouseInv, DrainInv, ClearInv
<1>. QED
  BY <1>1, <1>2, IrqType, IrqMotion DEF MouseInv

LEMMA MouseNextInv == MouseInv /\ [MouseNext]_mouse_vars => MouseInv'
<1>. SUFFICES ASSUME MouseInv, [MouseNext]_mouse_vars PROVE MouseInv'
  OBVIOUS
<1>1. CASE MouseNext
  BY <1>1, MoveInv, ClockInv, LoseInv, OtherInv, IrqInv, DrainKeeps DEF MouseNext
<1>2. CASE UNCHANGED mouse_vars
  <2>1. UNCHANGED <<irr, isr, wire, out, mouse_moved, mouse_lost, mouse_cycle, mouse_packet,
                    mouse_dx, mouse_dy, mouse_events, if, pc, taken, mouse_told>>
    BY <1>2 DEF mouse_vars, pic, device, driver, main
  <2>2. MouseTypeOK'
    BY <2>1 DEF MouseInv, MouseTypeOK
  <2>3. Small /\ ~mouse_lost => MotionInv'
    BY <2>1, CountedSame, MotionSame DEF MouseInv
  <2>. QED
    BY <2>1, <2>2, <2>3 DEF MouseInv, DrainInv, ClearInv
<1>. QED
  BY <1>1, <1>2

-----------------------------------------------------------------------------
LEMMA InvCounts ==
  ASSUME Small, MouseInv
  PROVE  FramingAligned /\ MotionConserved
<1>. SUFFICES ASSUME ~mouse_lost
              PROVE  /\ (mouse_cycle + Unread) % 3 = 0
                     /\ Unread = 0 => mouse_moved = Counted
  BY DEF FramingAligned, MotionConserved, Counted
<1>1. MotionInv
  BY DEF MouseInv
<1>2. CASE NoneInFlight /\ mouse_moved = Counted
  BY <1>2 DEF NoneInFlight, Unread
<1>3. ASSUME NEW p \in Packets, InFlight(p)
      PROVE  mouse_cycle + Unread = 3 /\ Unread # 0
  <2>1. p[1] # EMPTY /\ p[2] # EMPTY /\ p[3] # EMPTY
    BY PacketFacts DEF EMPTY
  <2>2. CASE wire = <<p[1], p[2], p[3]>> /\ out = EMPTY /\ mouse_cycle = 0
    BY <2>2 DEF Unread
  <2>3. CASE wire = <<p[2], p[3]>> /\ out = p[1] /\ mouse_cycle = 0
    BY <2>1, <2>3 DEF Unread
  <2>4. CASE wire = <<p[2], p[3]>> /\ out = EMPTY /\ mouse_cycle = 1
    BY <2>4 DEF Unread
  <2>5. CASE wire = <<p[3]>> /\ out = p[2] /\ mouse_cycle = 1
    BY <2>1, <2>5 DEF Unread
  <2>6. CASE wire = <<p[3]>> /\ out = EMPTY /\ mouse_cycle = 2
    BY <2>6 DEF Unread
  <2>7. CASE wire = << >> /\ out = p[3] /\ mouse_cycle = 2
    BY <2>1, <2>7 DEF Unread
  <2>. QED
    BY <1>3, <2>2, <2>3, <2>4, <2>5, <2>6, <2>7 DEF InFlight
<1>4. ASSUME NEW q \in Packets, NEW p \in Packets, Behind(q, p)
      PROVE  mouse_cycle + Unread = 6 /\ Unread # 0
  <2>1. q[3] # EMPTY
    BY PacketFacts DEF EMPTY
  <2>. QED
    BY <1>4, <2>1 DEF Behind, Unread
<1>. QED
  BY <1>1, <1>2, <1>3, <1>4 DEF MotionInv

(* Whatever is sent, lost or interrupted, the registers hold lines of the   *)
(* machine, the packet holds bytes and IF is clear exactly in the drain.    *)
THEOREM MouseTypeCorrect == MouseSpec => []MouseTypeOK
<1>1. MouseInit => MouseInv
  BY MouseInitInv
<1>2. MouseInv /\ [MouseNext]_mouse_vars => MouseInv'
  BY MouseNextInv
<1>3. MouseInv => MouseTypeOK
  BY DEF MouseInv
<1>. QED
  BY <1>1, <1>2, <1>3, PTL DEF MouseSpec

(* While no byte is lost, mouse_handler never takes a byte for another of   *)
(* its packet, also when the mouse begins the next before the last is read. *)
THEOREM FramingCorrect ==
  ASSUME Small
  PROVE  MouseSpec => []FramingAligned
<1>1. MouseInit => MouseInv
  BY MouseInitInv
<1>2. MouseInv /\ [MouseNext]_mouse_vars => MouseInv'
  BY MouseNextInv
<1>3. MouseInv => FramingAligned
  BY InvCounts
<1>. QED
  BY <1>1, <1>2, <1>3, PTL DEF MouseSpec

(* The totals mouse_get_delta reports and those it leaves add up to what    *)
(* the mouse moved: its cli keeps every packet on one side of the clearing. *)
THEOREM MotionCorrect ==
  ASSUME Small
  PROVE  MouseSpec => []MotionConserved
<1>1. MouseInit => MouseInv
  BY MouseInitInv
<1>2. MouseInv /\ [MouseNext]_mouse_vars => MouseInv'
  BY MouseNextInv
<1>3. MouseInv => MotionConserved
  BY InvCounts
<1>. QED
  BY <1>1, <1>2, <1>3, PTL DEF MouseSpec

(* Every handler retires its own line on both chips, the mouse's included   *)
(* while its packets stay in step.                                          *)
THEOREM EoiCorrect ==
  ASSUME Small
  PROVE  MouseSpec => []NothingLeftInService
<1>1. MouseInit => MouseInv
  BY MouseInitInv
<1>2. MouseInv /\ [MouseNext]_mouse_vars => MouseInv'
  BY MouseNextInv
<1>3. MouseInv => NothingLeftInService
  BY DEF MouseInv, NothingLeftInService
<1>. QED
  BY <1>1, <1>2, <1>3, PTL DEF MouseSpec

-----------------------------------------------------------------------------
(* The virtio keyboard and mouse.                                           *)

Codes == {e.code : e \in Inputs}

(* What a device may have written.                                          *)
EventSet ==
  {z \in [kind : Kinds, code : Codes \cup {0}, value : Int, shifted : BOOLEAN] :
     z.kind = "key" => z.code \in Codes}

QueueSet ==
  [queue_size : {QueueSize}, next : [Slots -> Int], addr : [Slots -> Int],
   free_head : Int, free_count : Int,
   avail_idx : Nat, avail : [Slots -> Slots], avail_pub : Nat,
   used_idx : Nat, used : [Slots -> Slots], used_pub : Nat]

(* The devices name only buffers of the queue, so that an event handled is   *)
(* one that was written.                                                    *)
QueuesInv ==
  /\ queue \in [Devices -> QueueSet]
  /\ seen \in [Devices -> 0 .. (IdxMod - 1)]
  /\ events \in [Devices -> [Slots -> EventSet]]
  /\ draining \in [dev : Devices \cup {"none"}, id : Slots,
                  stage : {"idle", "pop", "handle", "recycle"}]

Cells == 0 .. (RingSize - 1)

RingInv ==
  /\ vkey_head \in Cells /\ vkey_tail \in Cells
  /\ vkey_buf = [i \in Cells |-> vkey_buf[i]]

Inv == QueuesInv /\ RingInv

-----------------------------------------------------------------------------
(* Arithmetic of the ring. *)

LEMMA SizeType == RingSize \in Nat /\ RingSize > 1 /\ QueueSize \in Nat /\ QueueSize > 1
  BY InputAssumption

(* How far one cell is from another.                                        *)
LEMMA Distance ==
  ASSUME NEW R \in Nat, R > 1, NEW h \in 0 .. R - 1, NEW t \in 0 .. R - 1
  PROVE  (h - t) % R = IF t <= h THEN h - t ELSE h - t + R
  BY Z3

LEMMA Wrapped ==
  ASSUME NEW R \in Nat, R > 1, NEW x \in 0 .. R + R - 1
  PROVE  x % R = IF x < R THEN x ELSE x - R
  BY Z3

LEMMA ModType ==
  ASSUME NEW x \in Nat, NEW R \in Nat, R > 0
  PROVE  x % R \in 0 .. R - 1
  BY Z3

LEMMA AheadIs ==
  ASSUME NEW h \in Cells
  PROVE  /\ Ahead(h) \in Cells
         /\ Ahead(h) = IF h + 1 < RingSize THEN h + 1 ELSE 0
<1>1. h + 1 \in 0 .. RingSize + RingSize - 1
  BY SizeType DEF Cells
<1>2. (h + 1) % RingSize = IF h + 1 < RingSize THEN h + 1 ELSE h + 1 - RingSize
  BY <1>1, SizeType, Wrapped DEF Cells
<1>. QED
  BY <1>2, SizeType DEF Ahead, Cells

(* How many characters wait.                                                *)
Count(h, t) == IF t <= h THEN h - t ELSE h - t + RingSize
(* The cell of the i-th.                                                    *)
Cell(t, i) == IF t + i - 1 < RingSize THEN t + i - 1 ELSE t + i - 1 - RingSize

LEMMA CellIs ==
  ASSUME NEW t \in Cells, NEW i \in 1 .. RingSize - 1
  PROVE  (t + i - 1) % RingSize = Cell(t, i)
<1>. DEFINE x == t + i - 1
<1>1. x \in 0 .. RingSize + RingSize - 1
  BY SizeType DEF Cells
<1>2. x % RingSize = IF x < RingSize THEN x ELSE x - RingSize
  <2>. HIDE DEF x
  <2>. QED
    BY <1>1, SizeType, Wrapped
<1>. QED
  BY <1>2, SizeType DEF Cell, Cells

(* One cell always stays empty, so full and empty differ.                   *)
LEMMA FullIs ==
  ASSUME NEW h \in Cells, NEW t \in Cells, Ahead(h) = t
  PROVE  Count(h, t) = RingSize - 1
<1>1. t = IF h + 1 < RingSize THEN h + 1 ELSE 0
  BY AheadIs
<1>. QED
  BY <1>1, SizeType DEF Count, Cells

LEMMA PushedIs ==
  ASSUME NEW h \in Cells, NEW t \in Cells, Ahead(h) # t
  PROVE  /\ Count(h, t) < RingSize - 1
         /\ Count(Ahead(h), t) = Count(h, t) + 1
         /\ Cell(t, Count(h, t) + 1) = h
         /\ \A i \in 1 .. Count(h, t) : Cell(t, i) \in Cells /\ Cell(t, i) # h
<1>1. Ahead(h) = IF h + 1 < RingSize THEN h + 1 ELSE 0
  BY AheadIs
<1>. QED
  BY <1>1, SizeType DEF Count, Cell, Cells

LEMMA PoppedIs ==
  ASSUME NEW h \in Cells, NEW t \in Cells, h # t
  PROVE  /\ Count(h, t) > 0
         /\ Count(h, Ahead(t)) = Count(h, t) - 1
         /\ \A i \in 1 .. Count(h, t) - 1 : Cell(Ahead(t), i) = Cell(t, i + 1)
<1>1. Ahead(t) = IF t + 1 < RingSize THEN t + 1 ELSE 0
  BY AheadIs
<1>. QED
  BY <1>1, SizeType DEF Count, Cell, Cells

LEMMA WaitingIs ==
  ASSUME RingInv
  PROVE  /\ Waiting = [i \in 1 .. Count(vkey_head, vkey_tail) |->
                         vkey_buf[Cell(vkey_tail, i)]]
         /\ Count(vkey_head, vkey_tail) \in 0 .. RingSize - 1
<1>1. (vkey_head - vkey_tail) % RingSize = Count(vkey_head, vkey_tail)
  BY SizeType, Distance DEF RingInv, Cells, Count
<1>2. Count(vkey_head, vkey_tail) \in 0 .. RingSize - 1
  BY SizeType DEF RingInv, Cells, Count
<1>3. ASSUME NEW i \in 1 .. Count(vkey_head, vkey_tail)
      PROVE  (vkey_tail + i - 1) % RingSize = Cell(vkey_tail, i)
  BY <1>2, CellIs, SizeType DEF RingInv
<1>. QED
  BY <1>1, <1>2, <1>3 DEF Waiting

LEMMA WaitingNext ==
  ASSUME RingInv'
  PROVE  /\ Waiting' = [i \in 1 .. Count(vkey_head', vkey_tail') |->
                          vkey_buf'[Cell(vkey_tail', i)]]
         /\ Count(vkey_head', vkey_tail') \in 0 .. RingSize - 1
<1>1. (vkey_head' - vkey_tail') % RingSize = Count(vkey_head', vkey_tail')
  BY SizeType, Distance DEF RingInv, Cells, Count
<1>2. Count(vkey_head', vkey_tail') \in 0 .. RingSize - 1
  BY SizeType DEF RingInv, Cells, Count
<1>3. ASSUME NEW i \in 1 .. Count(vkey_head', vkey_tail')
      PROVE  (vkey_tail' + i - 1) % RingSize = Cell(vkey_tail', i)
  BY <1>2, CellIs, SizeType DEF RingInv
<1>. QED
  BY <1>1, <1>2, <1>3 DEF Waiting

-----------------------------------------------------------------------------
(* The invariant. *)

LEMMA InitInv == Init => Inv
<1>. SUFFICES ASSUME Init PROVE Inv
  OBVIOUS
<1>1. Seeded(QueueSize) \in QueueSet
  <2>1. Slots \subseteq Int /\ 0 \in Slots /\ Slots = 0 .. QueueSize - 1
    BY SizeType DEF Slots
  <2>. QED
    BY <2>1, SizeType DEF Seeded, QueueSet
<1>2. NoEvent \in EventSet
  BY DEF NoEvent, EventSet, Kinds
<1>3. 0 \in Slots /\ 0 \in Cells /\ 0 \in 0 .. (IdxMod - 1)
  BY SizeType, IdxAssumption DEF Slots, Cells
<1>4. QueuesInv
  BY <1>1, <1>2, <1>3 DEF Init, QueuesInv, NoDrain
<1>5. RingInv
  BY <1>3 DEF Init, RingInv, Cells
<1>. QED
  BY <1>4, <1>5 DEF Inv

LEMMA QueueIds ==
  ASSUME NEW q \in QueueSet, NEW s \in Nat
  PROVE  UsedId(q) \in Slots /\ OfferedId(q, s) \in Slots
<1>1. q.used_idx \in Nat /\ q.queue_size = QueueSize
  BY DEF QueueSet
<1>2. \A x \in Nat : x % QueueSize \in Slots
  BY SizeType, ModType DEF Slots
<1>3. q.used_idx % q.queue_size \in Slots /\ s % q.queue_size \in Slots
  BY <1>1, <1>2
<1>. QED
  BY <1>3 DEF UsedId, OfferedId, QueueSet

LEMMA StepType ==
  ASSUME NEW x \in Nat
  PROVE  Step(x) \in Nat /\ Step(x) \in 0 .. (IdxMod - 1)
<1>1. x + 1 \in Nat /\ IdxMod \in Nat /\ IdxMod > 0
  BY IdxAssumption
<1>2. Step(x) \in 0 .. (IdxMod - 1)
  BY <1>1, ModType DEF Step
<1>. QED
  BY <1>1, <1>2

LEMMA QueueSteps ==
  ASSUME NEW q \in QueueSet, NEW id \in Slots
  PROVE  /\ PushUsed(q, id) \in QueueSet
         /\ PopUsed(q) \in QueueSet
         /\ PublishIdx(WriteRing(q, id), id) \in QueueSet
<1>1. PushUsed(q, id) \in QueueSet
  BY StepType, SizeType DEF PushUsed, QueueSet
<1>2. PopUsed(q) \in QueueSet
  BY StepType DEF PopUsed, QueueSet
<1>3. WriteRing(q, id) \in QueueSet
  BY SizeType DEF WriteRing, Known, QueueSet
<1>4. \A r \in QueueSet : PublishIdx(r, id) \in QueueSet
  BY StepType DEF PublishIdx, Known, QueueSet
<1>. QED
  BY <1>1, <1>2, <1>3, <1>4

LEMMA EmitInv ==
  ASSUME Inv, NEW e \in Inputs, Emit(e.dev, e)
  PROVE  Inv'
<1>. DEFINE d == e.dev
<1>0. d \in Devices /\ e.kind \in Kinds /\ e.code \in Nat /\ e.value \in Int
  BY InputAssumption
<1>1. RingInv'
  BY DEF Emit, Inv, RingInv, ring
<1>2. CASE UNCHANGED <<queue, seen, events>>
  BY <1>1, <1>2 DEF Emit, Inv, QueuesInv, ring
<1>3. CASE /\ Offered(queue[d], seen[d])
           /\ LET id == OfferedId(queue[d], seen[d])
              IN  /\ events' = [events EXCEPT ![d][id] = Event(d, e)]
                  /\ queue' = [queue EXCEPT ![d] = PushUsed(@, id)]
           /\ seen' = [seen EXCEPT ![d] = Step(@)]
  <2>0. seen[d] \in Nat
    BY <1>0, IdxAssumption DEF Inv, QueuesInv
  <2>1. OfferedId(queue[d], seen[d]) \in Slots
    BY <1>0, <2>0, QueueIds DEF Inv, QueuesInv
  <2>2. Event(d, e) \in EventSet
    BY <1>0 DEF Event, EventSet, Codes
  <2>3. PushUsed(queue[d], OfferedId(queue[d], seen[d])) \in QueueSet
    BY <1>0, <2>1, QueueSteps DEF Inv, QueuesInv
  <2>4. Step(seen[d]) \in 0 .. (IdxMod - 1)
    BY <2>0, StepType
  <2>5. queue' \in [Devices -> QueueSet]
    BY <1>3, <2>3 DEF Inv, QueuesInv
  <2>6. seen' \in [Devices -> 0 .. (IdxMod - 1)]
    BY <1>3, <2>4 DEF Inv, QueuesInv
  <2>7. events' \in [Devices -> [Slots -> EventSet]]
    BY <1>0, <1>3, <2>1, <2>2 DEF Inv, QueuesInv
  <2>8. UNCHANGED draining
    BY DEF Emit
  <2>. QED
    BY <1>1, <2>5, <2>6, <2>7, <2>8 DEF Inv, QueuesInv
<1>. QED
  BY <1>2, <1>3 DEF Emit

LEMMA PopInv ==
  ASSUME Inv, NEW d \in Devices, DrainPop(d)
  PROVE  Inv' /\ UNCHANGED ring
<1>1. UNCHANGED <<seen, events, ring>>
  BY DEF DrainPop
<1>2. queue[d] \in QueueSet
  BY DEF Inv, QueuesInv
<1>3. queue' \in [Devices -> QueueSet]
  BY <1>2, QueueSteps, SizeType DEF DrainPop, Inv, QueuesInv, Slots
<1>4. UsedId(queue[d]) \in Slots /\ 0 \in Slots
  BY <1>2, QueueIds, SizeType DEF Slots
<1>5. draining' \in [dev : Devices \cup {"none"}, id : Slots,
                     stage : {"idle", "pop", "handle", "recycle"}]
  <2>1. draining' = NoDrain \/ draining' = [dev |-> d, stage |-> "handle", id |-> UsedId(queue[d])]
    BY DEF DrainPop
  <2>. QED
    BY <1>4, <2>1 DEF NoDrain
<1>. QED
  BY <1>1, <1>3, <1>5 DEF Inv, QueuesInv, RingInv, ring

LEMMA RecycleInv ==
  ASSUME Inv, NEW d \in Devices, Recycle(d)
  PROVE  Inv' /\ UNCHANGED ring
<1>1. UNCHANGED <<seen, events, ring>>
  BY DEF Recycle
<1>2. queue' \in [Devices -> QueueSet]
  BY QueueSteps DEF Recycle, Inv, QueuesInv
<1>3. draining' \in [dev : Devices \cup {"none"}, id : Slots,
                     stage : {"idle", "pop", "handle", "recycle"}]
  <2>1. draining' = [draining EXCEPT !.stage = "pop"]
    BY DEF Recycle
  <2>. QED
    BY <2>1 DEF Inv, QueuesInv
<1>. QED
  BY <1>1, <1>2, <1>3 DEF Inv, QueuesInv, RingInv, ring

LEMMA PushInv ==
  ASSUME Inv, NEW c, VkeyPush(c)
  PROVE  RingInv'
<1>1. Ahead(vkey_head) \in Cells
  BY AheadIs DEF Inv, RingInv
<1>. QED
  BY <1>1 DEF VkeyPush, Inv, RingInv

(* Handling an event leaves the ring alone or pushes a character of Inputs.  *)
LEMMA HandleRing ==
  ASSUME Inv, NEW d \in Devices, Handle(d)
  PROVE  UNCHANGED ring \/ \E e \in Inputs, s \in {0, 1} : VkeyPush(Char(e.code, s))
<1>. DEFINE z == events[d][draining.id]
<1>1. z \in EventSet
  BY DEF Inv, QueuesInv
<1>2. CASE HandleShift(d, z) \/ HandleButton(d, z) \/ HandleRel(d, z) \/ HandleRest(z)
  BY <1>2 DEF HandleShift, HandleButton, HandleRel, HandleRest, ring
<1>3. CASE HandleKey(d, z)
  <2>1. PICK e \in Inputs : z.code = e.code
    BY <1>1, <1>3 DEF HandleKey, EventSet, Codes
  <2>2. CASE UNCHANGED ring
    BY <2>2
  <2>3. CASE VkeyPush(Char(z.code, shift_state[d]))
    <3>. DEFINE s == IF shift_state[d] # 0 THEN 1 ELSE 0
    <3>1. Char(z.code, shift_state[d]) = Char(e.code, s)
      BY <2>1 DEF Char
    <3>. QED
      BY <2>3, <3>1
  <2>. QED
    BY <1>3, <2>2, <2>3 DEF HandleKey
<1>. QED
  BY <1>2, <1>3 DEF Handle

LEMMA HandleInv ==
  ASSUME Inv, NEW d \in Devices, Handle(d)
  PROVE  Inv'
<1>1. UNCHANGED <<queue, seen, events>>
  BY DEF Handle
<1>2. draining' = [draining EXCEPT !.stage = "recycle"]
  BY DEF Handle
<1>3. QueuesInv'
  <2>1. draining' \in [dev : Devices \cup {"none"}, id : Slots,
                       stage : {"idle", "pop", "handle", "recycle"}]
    BY <1>2 DEF Inv, QueuesInv
  <2>. QED
    BY <1>1, <2>1 DEF Inv, QueuesInv
<1>4. RingInv'
  BY HandleRing, PushInv DEF Inv, RingInv, ring
<1>. QED
  BY <1>3, <1>4 DEF Inv

LEMMA ReadInv ==
  ASSUME Inv, ReadChar
  PROVE  Inv'
<1>1. Ahead(vkey_tail) \in Cells
  BY AheadIs DEF Inv, RingInv
<1>. QED
  BY <1>1 DEF ReadChar, Inv, QueuesInv, RingInv

LEMMA NextInv == Inv /\ [Next]_vars => Inv'
<1>. SUFFICES ASSUME Inv, [Next]_vars PROVE Inv'
  OBVIOUS
<1>1. CASE \E e \in Inputs : Emit(e.dev, e)
  BY <1>1, EmitInv
<1>2. CASE \E d \in Devices : Drain(d)
  BY <1>2, PopInv, HandleInv, RecycleInv DEF Drain
<1>3. CASE ReadChar
  BY <1>3, ReadInv
<1>4. CASE GetDelta
  BY <1>4 DEF GetDelta, Inv, QueuesInv, RingInv, ring
<1>5. CASE UNCHANGED vars
  BY <1>5 DEF vars, Inv, QueuesInv, RingInv, ring
<1>. QED
  BY <1>1, <1>2, <1>3, <1>4, <1>5 DEF Next

-----------------------------------------------------------------------------
(* The refinement. *)

LEMMA FifoInit == Init => Fifo!Init
<1>. SUFFICES ASSUME Init PROVE Waiting = << >>
  BY DEF Init, Fifo!Init
<1>1. RingInv
  BY InitInv DEF Inv
<1>. QED
  BY <1>1, WaitingIs, SizeType DEF Init, Count

(* A push types one character, or finds the ring full.                      *)
LEMMA PushTypes ==
  ASSUME Inv, NEW c, VkeyPush(c)
  PROVE  Fifo!Type(c)
<1>1. RingInv /\ RingInv'
  BY PushInv DEF Inv
<1>. DEFINE n == Count(vkey_head, vkey_tail)
<1>2. Len(Waiting) = n /\ n \in 0 .. RingSize - 1
  BY <1>1, WaitingIs
<1>4. CASE Ahead(vkey_head) = vkey_tail
  <2>1. n = RingSize - 1
    BY <1>1, <1>4, FullIs DEF RingInv
  <2>2. UNCHANGED <<vkey_buf, vkey_head, vkey_tail>> /\ refused' = refused + 1
    BY <1>4 DEF VkeyPush
  <2>3. UNCHANGED Waiting
    BY <2>2 DEF Waiting
  <2>. QED
    BY <1>2, <2>1, <2>2, <2>3 DEF Fifo!Type
<1>5. CASE Ahead(vkey_head) # vkey_tail
  <2>1. /\ vkey_buf' = [vkey_buf EXCEPT ![vkey_head] = c]
        /\ vkey_head' = Ahead(vkey_head)
        /\ UNCHANGED <<vkey_tail, refused>>
    BY <1>5 DEF VkeyPush
  <2>2. n < RingSize - 1 /\ Count(vkey_head', vkey_tail') = n + 1
    BY <1>1, <1>5, <2>1, PushedIs DEF RingInv
  <2>3. Waiting' = [i \in 1 .. n + 1 |-> vkey_buf'[Cell(vkey_tail, i)]]
    BY <1>1, <2>1, <2>2, WaitingNext
  <2>4. vkey_buf'[Cell(vkey_tail, n + 1)] = c
    <3>1. Cell(vkey_tail, n + 1) = vkey_head
      BY <1>1, <1>5, PushedIs DEF RingInv
    <3>. QED
      BY <1>1, <2>1, <3>1 DEF RingInv
  <2>5. ASSUME NEW i \in 1 .. n
        PROVE  vkey_buf'[Cell(vkey_tail, i)] = vkey_buf[Cell(vkey_tail, i)]
    <3>1. Cell(vkey_tail, i) # vkey_head /\ Cell(vkey_tail, i) \in Cells
      BY <1>1, <1>5, PushedIs DEF RingInv
    <3>. QED
      BY <1>1, <2>1, <3>1 DEF RingInv
  <2>6. Waiting = [i \in 1 .. n |-> vkey_buf[Cell(vkey_tail, i)]]
    BY <1>1, WaitingIs
  <2>7. Waiting' = Append(Waiting, c)
    <3>. DEFINE w == [i \in 1 .. n |-> vkey_buf[Cell(vkey_tail, i)]]
    <3>1. Append(w, c) = [i \in 1 .. n + 1 |-> IF i = n + 1 THEN c ELSE w[i]]
      <4>1. Len(w) = n /\ w \in Seq({vkey_buf[Cell(vkey_tail, i)] : i \in 1 .. n})
        BY <1>2
      <4>. QED
        BY <1>2, <4>1
    <3>2. \A i \in 1 .. n + 1 : vkey_buf'[Cell(vkey_tail, i)] = IF i = n + 1 THEN c ELSE w[i]
      BY <1>2, <2>4, <2>5
    <3>. QED
      BY <2>3, <2>6, <3>1, <3>2
  <2>. QED
    BY <1>2, <2>1, <2>2, <2>7 DEF Fifo!Type
<1>. QED
  BY <1>4, <1>5

(* A read takes the oldest.                                                 *)
LEMMA ReadReads ==
  ASSUME Inv, ReadChar
  PROVE  Fifo!Read
<1>1. RingInv /\ RingInv'
  BY ReadInv DEF Inv
<1>. DEFINE n == Count(vkey_head, vkey_tail)
<1>2. n \in 0 .. RingSize - 1
  BY <1>1, WaitingIs
<1>4. /\ vkey_tail' = Ahead(vkey_tail) /\ vkey_tail # vkey_head
      /\ UNCHANGED <<vkey_buf, vkey_head, refused>>
  BY DEF ReadChar
<1>5. n > 0 /\ Count(vkey_head', vkey_tail') = n - 1
  BY <1>1, <1>4, PoppedIs DEF RingInv
<1>6. Waiting' = [i \in 1 .. n - 1 |-> vkey_buf[Cell(vkey_tail', i)]]
  BY <1>1, <1>4, <1>5, WaitingNext
<1>7. \A i \in 1 .. n - 1 : Cell(vkey_tail', i) = Cell(vkey_tail, i + 1)
  BY <1>1, <1>4, PoppedIs DEF RingInv
<1>. DEFINE w == [i \in 1 .. n |-> vkey_buf[Cell(vkey_tail, i)]]
<1>8. Waiting = w
  BY <1>1, WaitingIs
<1>9. Tail(w) = [i \in 1 .. n - 1 |-> w[i + 1]] /\ w # << >>
  BY <1>2, <1>5
<1>10. \A i \in 1 .. n - 1 : w[i + 1] = vkey_buf[Cell(vkey_tail', i)]
  BY <1>2, <1>7
<1>11. Waiting' = Tail(Waiting) /\ Waiting # << >>
  BY <1>6, <1>8, <1>9, <1>10
<1>. QED
  BY <1>4, <1>11 DEF Fifo!Read

LEMMA FifoNext ==
  ASSUME Inv, [Next]_vars
  PROVE  [Fifo!Next]_<<Waiting, refused>>
<1>0. UNCHANGED ring => UNCHANGED <<Waiting, refused>>
  BY DEF ring, Waiting
<1>1. CASE \E e \in Inputs : Emit(e.dev, e)
  BY <1>0, <1>1 DEF Emit
<1>2. ASSUME NEW d \in Devices, Drain(d)
      PROVE  [Fifo!Next]_<<Waiting, refused>>
  <2>1. CASE DrainPop(d) \/ Recycle(d)
    BY <1>0, <2>1, PopInv, RecycleInv
  <2>2. CASE Handle(d)
    <3>1. CASE UNCHANGED ring
      BY <1>0, <3>1
    <3>2. ASSUME NEW e \in Inputs, NEW s \in {0, 1}, VkeyPush(Char(e.code, s))
          PROVE  Fifo!Next
      BY <3>2, PushTypes DEF Fifo!Next
    <3>. QED
      BY <2>2, <3>1, <3>2, HandleRing
  <2>. QED
    BY <1>2, <2>1, <2>2 DEF Drain
<1>3. CASE ReadChar
  BY <1>3, ReadReads DEF Fifo!Next
<1>4. CASE GetDelta
  BY <1>0, <1>4 DEF GetDelta
<1>5. CASE UNCHANGED vars
  BY <1>0, <1>5 DEF vars
<1>. QED
  BY <1>1, <1>2, <1>3, <1>4, <1>5 DEF Next

(* The ring's indexes stay in the ring, however often they wrap, and a drain *)
(* always handles and gives back a buffer of the queue it drains.           *)
THEOREM TypeCorrect == Spec => []TypeOK
<1>1. Init => Inv
  BY InitInv
<1>2. Inv /\ [Next]_vars => Inv'
  BY NextInv
<1>3. Inv => TypeOK
  BY DEF Inv, QueuesInv, RingInv, Cells, TypeOK
<1>. QED
  BY <1>1, <1>2, <1>3, PTL DEF Spec

(* The ring vkey_push fills and virtio_keyboard_read_char empties is a queue *)
(* of RingSize - 1 characters: the oldest comes first, none is overwritten   *)
(* or read twice, and a keystroke is refused only when it is full.          *)
THEOREM RingCorrect == Spec => ImplementsKeyFifo
<1>1. Init => Inv
  BY InitInv
<1>2. Inv /\ [Next]_vars => Inv'
  BY NextInv
<1>3. Init => Fifo!Init
  BY FifoInit
<1>4. Inv /\ [Next]_vars => [Fifo!Next]_<<Waiting, refused>>
  BY FifoNext
<1>. QED
  BY <1>1, <1>2, <1>3, <1>4, PTL DEF Spec, ImplementsKeyFifo, Fifo!Spec

-----------------------------------------------------------------------------
(* Division with remainder, and the wrapped indexes of a queue's two rings. *)
LEMMA DivMod ==
  ASSUME NEW m \in Nat, m > 0, NEW a \in Nat
  PROVE  \E q \in Nat : a = m * q + (a % m)
<1>1. a \div m \in Nat /\ a = m * (a \div m) + (a % m)
  BY Z3
<1>. QED
  BY <1>1

LEMMA DivUnique ==
  ASSUME NEW m \in Nat, m > 0, NEW q \in Nat, NEW r \in Nat, r < m
  PROVE  (m * q + r) % m = r
  BY Z3

LEMMA MulMono ==
  ASSUME NEW m \in Nat, NEW q \in Int, q >= 1
  PROVE  m * q >= m
  BY Z3

LEMMA ModSmall ==
  ASSUME NEW m \in Nat, NEW x \in Nat, x < m
  PROVE  x % m = x
  BY Z3

LEMMA ModOnce ==
  ASSUME NEW m \in Nat, NEW x \in Nat, m <= x, x < 2 * m
  PROVE  x % m = x - m
  BY Z3

LEMMA ModNeg ==
  ASSUME NEW m \in Nat, NEW x \in Int, x < 0, -m <= x
  PROVE  x % m = x + m
  BY Z3

LEMMA ModDistinct ==
  ASSUME NEW m \in Nat, m > 0, NEW a \in Nat, NEW b \in Nat, a < b, b - a < m
  PROVE  a % m # b % m
<1>1. PICK q \in Nat : a = m * q + (a % m)
  BY DivMod
<1>2. PICK p \in Nat : b = m * p + (b % m)
  BY DivMod
<1>3. SUFFICES ASSUME a % m = b % m PROVE FALSE
  OBVIOUS
<1>4. b - a = m * (p - q)
  BY <1>1, <1>2, <1>3, Z3
<1>5. p - q >= 1
  BY <1>4, Z3
<1>6. m * (p - q) >= m
  BY <1>5, MulMono
<1>. QED
  BY <1>4, <1>6

LEMMA ModPeriod ==
  ASSUME NEW m \in Nat, m > 0, NEW M \in Nat, M % m = 0, NEW x \in Nat, x >= M
  PROVE  (x - M) % m = x % m
<1>. DEFINE r == (x - M) % m
<1>1. PICK q \in Nat : x - M = m * q + r
  BY DivMod
<1>2. PICK p \in Nat : M = m * p + 0
  BY DivMod
<1>3. x = m * (q + p) + r
  BY <1>1, <1>2, Z3
<1>4. r \in Nat /\ r < m /\ q + p \in Nat
  BY Z3
<1>. HIDE DEF r
<1>5. (m * (q + p) + r) % m = r
  BY <1>4, DivUnique
<1>. QED
  BY <1>3, <1>5 DEF r

-----------------------------------------------------------------------------
(* The k-th place of a ring window that starts at index s.                  *)
Idxs == 0 .. (IdxMod - 1)
Pos(s, k) == ((s + k) % IdxMod) % QueueSize

LEMMA IndexSizes ==
  /\ QueueSize \in Nat /\ QueueSize > 1 /\ QueueSize < IdxMod /\ IdxMod \in Nat
  /\ IdxMod > 1 /\ IdxMod % QueueSize = 0
  BY InputAssumption, IdxAssumption

LEMMA StepIdx ==
  ASSUME NEW s \in Idxs
  PROVE  Step(s) \in Idxs /\ Step(s) = IF s + 1 = IdxMod THEN 0 ELSE s + 1
<1>1. s \in Nat /\ s < IdxMod /\ IdxMod \in Nat /\ s + 1 \in Nat /\ IdxMod > 1
  BY IndexSizes DEF Idxs
<1>2. CASE s + 1 = IdxMod
  <2>1. (s + 1) % IdxMod = s + 1 - IdxMod
    BY <1>1, <1>2, ModOnce
  <2>. QED
    BY <1>1, <1>2, <2>1 DEF Step, Idxs
<1>3. CASE s + 1 # IdxMod
  <2>1. s + 1 < IdxMod /\ (s + 1) % IdxMod = s + 1
    BY <1>1, <1>3, ModSmall
  <2>. QED
    BY <1>1, <1>3, <2>1 DEF Step, Idxs
<1>. QED
  BY <1>2, <1>3

LEMMA BetweenType ==
  ASSUME NEW s \in Idxs, NEW e \in Idxs
  PROVE  /\ Between(s, e) \in Nat /\ Between(s, e) < IdxMod
         /\ Between(s, e) = IF s <= e THEN e - s ELSE e - s + IdxMod
<1>1. s \in Nat /\ e \in Nat /\ s < IdxMod /\ e < IdxMod /\ IdxMod \in Nat
  BY IndexSizes DEF Idxs
<1>2. CASE s <= e
  <2>1. e - s \in Nat /\ e - s < IdxMod
    BY <1>1, <1>2
  <2>2. (e - s) % IdxMod = e - s
    BY <1>1, <2>1, ModSmall
  <2>. QED
    BY <1>2, <2>1, <2>2 DEF Between
<1>3. CASE ~(s <= e)
  <2>1. e - s \in Int /\ e - s < 0 /\ -IdxMod <= e - s
    BY <1>1, <1>3
  <2>2. (e - s) % IdxMod = e - s + IdxMod
    BY <1>1, <2>1, ModNeg
  <2>. QED
    BY <1>1, <1>3, <2>1, <2>2 DEF Between
<1>. QED
  BY <1>2, <1>3

LEMMA BetweenStep ==
  ASSUME NEW s \in Idxs, NEW e \in Idxs
  PROVE  /\ Between(s, e) = 0 <=> s = e
         /\ Between(s, e) + 1 < IdxMod => Between(s, Step(e)) = Between(s, e) + 1
         /\ s # e => Between(Step(s), e) = Between(s, e) - 1
<1>1. s \in Nat /\ e \in Nat /\ s < IdxMod /\ e < IdxMod /\ IdxMod \in Nat
  BY IndexSizes DEF Idxs
<1>2. Step(s) \in Idxs /\ Step(e) \in Idxs
  BY StepIdx
<1>3. Between(s, e) = 0 <=> s = e
  BY <1>1, BetweenType
<1>4. ASSUME Between(s, e) + 1 < IdxMod
      PROVE  Between(s, Step(e)) = Between(s, e) + 1
  <2>1. Between(s, e) = IF s <= e THEN e - s ELSE e - s + IdxMod
    BY BetweenType
  <2>2. Between(s, Step(e)) = IF s <= Step(e) THEN Step(e) - s ELSE Step(e) - s + IdxMod
    BY <1>2, BetweenType
  <2>3. Step(e) = IF e + 1 = IdxMod THEN 0 ELSE e + 1
    BY StepIdx
  <2>. QED
    BY <1>1, <1>4, <2>1, <2>2, <2>3
<1>5. ASSUME s # e
      PROVE  Between(Step(s), e) = Between(s, e) - 1
  <2>1. Between(s, e) = IF s <= e THEN e - s ELSE e - s + IdxMod
    BY BetweenType
  <2>2. Between(Step(s), e) = IF Step(s) <= e THEN e - Step(s) ELSE e - Step(s) + IdxMod
    BY <1>2, BetweenType
  <2>3. Step(s) = IF s + 1 = IdxMod THEN 0 ELSE s + 1
    BY StepIdx
  <2>. QED
    BY <1>1, <1>5, <2>1, <2>2, <2>3
<1>. QED
  BY <1>3, <1>4, <1>5

LEMMA PosIs ==
  ASSUME NEW s \in Idxs, NEW k \in Nat, k <= QueueSize
  PROVE  Pos(s, k) = (s + k) % QueueSize
<1>1. /\ s + k \in Nat /\ s + k < 2 * IdxMod /\ IdxMod \in Nat /\ QueueSize \in Nat /\ QueueSize > 0
      /\ IdxMod % QueueSize = 0
  BY IndexSizes DEF Idxs
<1>2. CASE s + k < IdxMod
  BY <1>1, <1>2, ModSmall DEF Pos
<1>3. CASE s + k >= IdxMod
  <2>. DEFINE x == s + k
  <2>0. x \in Nat /\ IdxMod <= x /\ x < 2 * IdxMod
    BY <1>1, <1>3
  <2>. HIDE DEF x
  <2>1. x % IdxMod = x - IdxMod
    BY <1>1, <2>0, ModOnce
  <2>2. (x - IdxMod) % QueueSize = x % QueueSize
    BY <1>1, <2>0, ModPeriod
  <2>. USE DEF x
  <2>. QED
    BY <2>1, <2>2 DEF Pos
<1>. QED
  BY <1>1, <1>2, <1>3

LEMMA PosType ==
  ASSUME NEW s \in Idxs, NEW k \in Nat, k <= QueueSize
  PROVE  Pos(s, k) \in 0 .. (QueueSize - 1)
<1>1. s + k \in Nat /\ QueueSize \in Nat /\ QueueSize > 0
  BY IndexSizes DEF Idxs
<1>. QED
  BY <1>1, PosIs, ModType

LEMMA PosDistinct ==
  ASSUME NEW s \in Idxs,
         NEW j \in Nat, NEW k \in Nat, j < k, k < QueueSize
  PROVE  Pos(s, j) # Pos(s, k)
<1>1. /\ s + j \in Nat /\ s + k \in Nat /\ s + j < s + k /\ (s + k) - (s + j) < QueueSize
      /\ QueueSize \in Nat /\ QueueSize > 0
  BY IndexSizes DEF Idxs
<1>2. (s + j) % QueueSize # (s + k) % QueueSize
  BY <1>1, ModDistinct
<1>3. j <= QueueSize /\ k <= QueueSize
  BY <1>1
<1>. QED
  BY <1>2, <1>3, PosIs

LEMMA PosEnds ==
  ASSUME NEW s \in Idxs, NEW e \in Idxs
  PROVE  /\ Pos(s, 0) = s % QueueSize
         /\ Pos(s, Between(s, e)) = e % QueueSize
         /\ \A k \in Nat : k < QueueSize => Pos(Step(s), k) = Pos(s, k + 1)
<1>1. /\ s \in Nat /\ e \in Nat /\ s < IdxMod /\ e < IdxMod /\ IdxMod \in Nat
      /\ QueueSize \in Nat /\ QueueSize > 0 /\ QueueSize < IdxMod /\ IdxMod > 1
  BY IndexSizes DEF Idxs
<1>2. Pos(s, 0) = s % QueueSize
  BY <1>1, ModSmall DEF Pos
<1>3. (s + Between(s, e)) % IdxMod = e
  <2>1. CASE s <= e
    <3>1. s + Between(s, e) = e
      BY <1>1, <2>1, BetweenType
    <3>. QED
      BY <1>1, <3>1, ModSmall
  <2>2. CASE ~(s <= e)
    <3>1. s + Between(s, e) = e + IdxMod
      BY <1>1, <2>2, BetweenType
    <3>2. (e + IdxMod) % IdxMod = (e + IdxMod) - IdxMod
      BY <1>1, ModOnce
    <3>. QED
      BY <1>1, <3>1, <3>2
  <2>. QED
    BY <2>1, <2>2
<1>4. ASSUME NEW k \in Nat, k < QueueSize
      PROVE  Pos(Step(s), k) = Pos(s, k + 1)
  <2>1. CASE s + 1 = IdxMod
    <3>1. Step(s) = 0
      BY <2>1, StepIdx
    <3>2. (0 + k) % IdxMod = k
      BY <1>1, <1>4, ModSmall
    <3>3. s + (k + 1) = k + IdxMod
      BY <1>1, <2>1
    <3>4. (k + IdxMod) % IdxMod = (k + IdxMod) - IdxMod
      BY <1>1, <1>4, ModOnce
    <3>5. (k + IdxMod) - IdxMod = k
      BY <1>1
    <3>. QED
      BY <3>1, <3>2, <3>3, <3>4, <3>5 DEF Pos
  <2>2. CASE s + 1 # IdxMod
    <3>1. Step(s) = s + 1
      BY <2>2, StepIdx
    <3>2. (s + 1) + k = s + (k + 1)
      BY <1>1
    <3>. QED
      BY <3>1, <3>2 DEF Pos
  <2>. QED
    BY <2>1, <2>2
<1>. QED
  BY <1>2, <1>3, <1>4 DEF Pos

-----------------------------------------------------------------------------
(* Where a device's buffers are: no buffer is in two of the used ring, the  *)
(* available ring and the drain's hands, so an event is not written over    *)
(* before it is handled.                                                    *)
Used(q, k)       == q.used[Pos(q.used_idx, k)]
Avail(q, s, k)   == q.avail[Pos(s, k)]
UsedCount(q)     == Between(q.used_idx, q.used_pub)
AvailCount(q, s) == Between(s, q.avail_pub)

Indexed(q, s) ==
  /\ q \in QueueSet /\ s \in Idxs /\ q.avail_pub \in Idxs /\ q.avail_idx = q.avail_pub
  /\ q.used_idx \in Idxs /\ q.used_pub \in Idxs

\* hold: the drain has buffer id of this device.
Apart(q, s, hold, id) ==
  /\ UsedCount(q) + AvailCount(q, s) + (IF hold THEN 1 ELSE 0) <= QueueSize
  /\ \A j, k \in 0 .. (UsedCount(q) - 1) : Used(q, j) = Used(q, k) => j = k
  /\ \A j, k \in 0 .. (AvailCount(q, s) - 1) : Avail(q, s, j) = Avail(q, s, k) => j = k
  /\ \A j \in 0 .. (UsedCount(q) - 1), k \in 0 .. (AvailCount(q, s) - 1) :
       Used(q, j) # Avail(q, s, k)
  /\ hold => /\ id \in Slots
             /\ \A j \in 0 .. (UsedCount(q) - 1) : Used(q, j) # id
             /\ \A k \in 0 .. (AvailCount(q, s) - 1) : Avail(q, s, k) # id

Buffers(q, s, hold, id) == Indexed(q, s) /\ Apart(q, s, hold, id)

LEMMA Counts ==
  ASSUME NEW q, NEW s, Indexed(q, s)
  PROVE  /\ UsedCount(q) \in Nat /\ AvailCount(q, s) \in Nat
         /\ UsedCount(q) = 0 <=> q.used_idx = q.used_pub
         /\ AvailCount(q, s) = 0 <=> s = q.avail_pub
         /\ OfferedId(q, s) = Avail(q, s, 0) /\ UsedId(q) = Used(q, 0)
<1>1. /\ UsedCount(q) \in Nat /\ AvailCount(q, s) \in Nat
      /\ UsedCount(q) = 0 <=> q.used_idx = q.used_pub
      /\ AvailCount(q, s) = 0 <=> s = q.avail_pub
  BY BetweenType, BetweenStep DEF Indexed, UsedCount, AvailCount
<1>2. Pos(s, 0) = s % QueueSize /\ Pos(q.used_idx, 0) = q.used_idx % QueueSize
  BY PosEnds DEF Indexed
<1>3. q.queue_size = QueueSize
  BY DEF Indexed, QueueSet
<1>. QED
  BY <1>1, <1>2, <1>3 DEF OfferedId, UsedId, Avail, Used

(* The device takes the oldest offered buffer and completes it.             *)
Completed(q, p, s, o) ==
  /\ Indexed(p, Step(s)) /\ p.avail = q.avail /\ p.avail_pub = q.avail_pub
  /\ p.used_idx = q.used_idx /\ UsedCount(p) = UsedCount(q) + 1
  /\ AvailCount(p, Step(s)) = AvailCount(q, s) - 1
  /\ Used(p, UsedCount(q)) = o
  /\ \A k \in 0 .. (UsedCount(q) - 1) : Used(p, k) = Used(q, k)
  /\ \A k \in 0 .. (AvailCount(q, s) - 2) : Avail(p, Step(s), k) = Avail(q, s, k + 1)

LEMMA CompletedIs ==
  ASSUME NEW q, NEW s, NEW hold \in BOOLEAN, NEW id, Buffers(q, s, hold, id),
         Offered(q, s)
  PROVE  Completed(q, PushUsed(q, OfferedId(q, s)), s, OfferedId(q, s))
<1>. DEFINE o == OfferedId(q, s)
            p == PushUsed(q, o)
            n == UsedCount(q)
<1>1. /\ q \in QueueSet /\ s \in Idxs /\ q.avail_pub \in Idxs /\ q.used_idx \in Idxs
      /\ q.used_pub \in Idxs /\ q.avail_idx = q.avail_pub /\ q.queue_size = QueueSize
      /\ q.used \in [Slots -> Slots]
  BY DEF Buffers, Indexed, QueueSet
<1>2. /\ n \in Nat /\ AvailCount(q, s) \in Nat /\ AvailCount(q, s) # 0
      /\ n + AvailCount(q, s) <= QueueSize
  <2>1. n \in Nat /\ AvailCount(q, s) \in Nat /\ AvailCount(q, s) # 0
    BY Counts DEF Buffers, Offered
  <2>. QED
    BY <2>1, IndexSizes DEF Buffers, Apart
<1>3. n < QueueSize /\ n + 1 < IdxMod /\ QueueSize \in Nat
  BY <1>2, IndexSizes
<1>4. o \in Slots
  <2>1. s \in Nat
    BY <1>1, IndexSizes DEF Idxs
  <2>. QED
    BY <1>1, <2>1, QueueIds
<1>5. p \in QueueSet
  BY <1>1, <1>4, QueueSteps
<1>6. /\ p.avail = q.avail /\ p.avail_pub = q.avail_pub /\ p.avail_idx = q.avail_idx
      /\ p.used_idx = q.used_idx /\ p.used_pub = Step(q.used_pub)
      /\ p.used = [q.used EXCEPT ![q.used_pub % QueueSize] = o]
  BY <1>1 DEF PushUsed, QueueSet
<1>7. q.used_pub % QueueSize \in Slots
  BY <1>1, IndexSizes, ModType DEF Idxs, Slots
<1>. HIDE DEF o, p
<1>8. Indexed(p, Step(s))
  BY <1>1, <1>5, <1>6, StepIdx DEF Indexed
<1>9. UsedCount(p) = n + 1
  <2>. HIDE DEF n
  <2>1. Between(q.used_idx, q.used_pub) = n
    BY DEF n, UsedCount
  <2>2. Between(q.used_idx, Step(q.used_pub)) = Between(q.used_idx, q.used_pub) + 1
    BY <1>1, <1>3, <2>1, BetweenStep
  <2>. QED
    BY <1>6, <2>1, <2>2 DEF UsedCount
<1>10. AvailCount(p, Step(s)) = AvailCount(q, s) - 1
  <2>1. s # q.avail_pub
    BY DEF Offered
  <2>. QED
    BY <1>1, <1>6, <2>1, BetweenStep DEF AvailCount
<1>11. Pos(q.used_idx, n) = q.used_pub % QueueSize
  BY <1>1, PosEnds DEF UsedCount
<1>12. Used(p, n) = o
  BY <1>1, <1>6, <1>7, <1>11 DEF Used
<1>13. ASSUME NEW k \in 0 .. (n - 1) PROVE Used(p, k) = Used(q, k)
  <2>1. k \in Nat /\ k < n /\ k <= QueueSize
    BY <1>2, <1>3
  <2>2. Pos(q.used_idx, k) # Pos(q.used_idx, n)
    BY <1>1, <1>2, <1>3, <2>1, PosDistinct
  <2>3. Pos(q.used_idx, k) \in Slots
    BY <1>1, <2>1, PosType DEF Slots
  <2>. QED
    BY <1>1, <1>6, <1>11, <2>2, <2>3 DEF Used
<1>14. ASSUME NEW k \in 0 .. (AvailCount(q, s) - 2)
       PROVE  Avail(p, Step(s), k) = Avail(q, s, k + 1)
  <2>1. k \in Nat /\ k < QueueSize
    BY <1>2, <1>3
  <2>. QED
    BY <1>1, <1>6, <2>1, PosEnds DEF Avail
<1>. QED
  BY <1>6, <1>8, <1>9, <1>10, <1>12, <1>13, <1>14 DEF Completed, n, p, o

LEMMA CompletedApart ==
  ASSUME NEW q, NEW p, NEW s, NEW o, NEW hold \in BOOLEAN, NEW id,
         Buffers(q, s, hold, id), Offered(q, s), o = OfferedId(q, s),
         Completed(q, p, s, o)
  PROVE  /\ Buffers(p, Step(s), hold, id)
         /\ \A k \in 0 .. (UsedCount(q) - 1) : Used(q, k) # o
         /\ hold => id # o
<1>. DEFINE n == UsedCount(q)
            m == AvailCount(q, s)
            h == IF hold THEN 1 ELSE 0
<1>1. n \in Nat /\ m \in Nat /\ m > 0 /\ o = Avail(q, s, 0)
  BY Counts DEF Buffers, Offered
<1>2. h \in Nat
  OBVIOUS
<1>3. /\ n + m + h <= QueueSize
      /\ \A j, k \in 0 .. (n - 1) : Used(q, j) = Used(q, k) => j = k
      /\ \A j, k \in 0 .. (m - 1) : Avail(q, s, j) = Avail(q, s, k) => j = k
      /\ \A j \in 0 .. (n - 1), k \in 0 .. (m - 1) : Used(q, j) # Avail(q, s, k)
      /\ hold => /\ id \in Slots
                 /\ \A j \in 0 .. (n - 1) : Used(q, j) # id
                 /\ \A k \in 0 .. (m - 1) : Avail(q, s, k) # id
  BY DEF Buffers, Apart
<1>4. /\ UsedCount(p) = n + 1 /\ AvailCount(p, Step(s)) = m - 1
      /\ Used(p, n) = o
      /\ \A k \in 0 .. (n - 1) : Used(p, k) = Used(q, k)
      /\ \A k \in 0 .. (m - 2) : Avail(p, Step(s), k) = Avail(q, s, k + 1)
      /\ Indexed(p, Step(s))
  BY DEF Completed
<1>. HIDE DEF n, m
<1>5. /\ 0 \in 0 .. (m - 1) /\ (n + 1) - 1 = n /\ (m - 1) - 1 = m - 2
      /\ \A k \in 0 .. n : k \in 0 .. (n - 1) \/ k = n
      /\ \A k \in 0 .. (m - 2) : k + 1 \in 0 .. (m - 1) /\ k + 1 # 0
      /\ (n + 1) + (m - 1) + h = n + m + h
  BY <1>1, <1>2
<1>6. \A k \in 0 .. (n - 1) : Used(q, k) # o
  BY <1>1, <1>3, <1>5
<1>7. hold => id # o
  BY <1>1, <1>3, <1>5
<1>8. \A k \in 0 .. (m - 2) : Avail(q, s, k + 1) # o
  BY <1>1, <1>3, <1>5
<1>9. \A j, k \in 0 .. n : Used(p, j) = Used(p, k) => j = k
  BY <1>3, <1>4, <1>5, <1>6
<1>10. \A j, k \in 0 .. (m - 2) : Avail(p, Step(s), j) = Avail(p, Step(s), k) => j = k
  <2>. SUFFICES ASSUME NEW j \in 0 .. (m - 2), NEW k \in 0 .. (m - 2),
                       Avail(p, Step(s), j) = Avail(p, Step(s), k)
                PROVE  j = k
    OBVIOUS
  <2>1. j + 1 = k + 1
    BY <1>3, <1>4, <1>5
  <2>. QED
    BY <2>1
<1>11. \A j \in 0 .. n, k \in 0 .. (m - 2) : Used(p, j) # Avail(p, Step(s), k)
  BY <1>3, <1>4, <1>5, <1>8
<1>12. hold => /\ \A j \in 0 .. n : Used(p, j) # id
               /\ \A k \in 0 .. (m - 2) : Avail(p, Step(s), k) # id
  BY <1>3, <1>4, <1>5, <1>7
<1>13. Apart(p, Step(s), hold, id)
  <2>1. UsedCount(p) - 1 = n /\ AvailCount(p, Step(s)) - 1 = m - 2
    BY <1>4, <1>5
  <2>2. UsedCount(p) + AvailCount(p, Step(s)) + h <= QueueSize
    BY <1>3, <1>4, <1>5
  <2>. QED
    BY <1>3, <1>9, <1>10, <1>11, <1>12, <2>1, <2>2 DEF Apart
<1>. QED
  BY <1>4, <1>6, <1>7, <1>13 DEF Buffers, n

(* The drain takes the oldest completed buffer.                             *)
LEMMA PopIs ==
  ASSUME NEW q, NEW s, NEW id, Buffers(q, s, FALSE, id), HasUsed(q)
  PROVE  LET p == PopUsed(q)
         IN  /\ Buffers(p, s, TRUE, UsedId(q))
             /\ UsedCount(q) > 0 /\ UsedCount(p) = UsedCount(q) - 1
             /\ \A k \in 0 .. (UsedCount(q) - 2) : Used(p, k) = Used(q, k + 1)
             /\ UsedId(q) = Used(q, 0)
<1>. DEFINE p == PopUsed(q)
            n == UsedCount(q)
            m == AvailCount(q, s)
<1>1. /\ q \in QueueSet /\ s \in Idxs /\ q.avail_pub \in Idxs /\ q.used_idx \in Idxs
      /\ q.used_pub \in Idxs /\ q.avail_idx = q.avail_pub
  BY DEF Buffers, Indexed
<1>2. /\ n \in Nat /\ m \in Nat /\ n > 0 /\ UsedId(q) = Used(q, 0)
  BY Counts DEF Buffers, HasUsed
<1>3. /\ p \in QueueSet /\ p.avail = q.avail /\ p.avail_pub = q.avail_pub
      /\ p.avail_idx = q.avail_idx /\ p.used_idx = Step(q.used_idx)
      /\ p.used_pub = q.used_pub /\ p.used = q.used
  <2>1. 0 \in Slots
    BY SizeType DEF Slots
  <2>2. p \in QueueSet
    BY <1>1, <2>1, QueueSteps
  <2>. QED
    BY <1>1, <2>2 DEF PopUsed, QueueSet
<1>4. UsedId(q) \in Slots
  BY <1>1, QueueIds, IndexSizes DEF Idxs
<1>. HIDE DEF p
<1>5. Indexed(p, s)
  BY <1>1, <1>3, StepIdx DEF Indexed
<1>6. UsedCount(p) = n - 1 /\ AvailCount(p, s) = m
  BY <1>1, <1>3, BetweenStep DEF UsedCount, AvailCount, HasUsed
<1>7. /\ n + m <= QueueSize
      /\ \A j, k \in 0 .. (n - 1) : Used(q, j) = Used(q, k) => j = k
      /\ \A j, k \in 0 .. (m - 1) : Avail(q, s, j) = Avail(q, s, k) => j = k
      /\ \A j \in 0 .. (n - 1), k \in 0 .. (m - 1) : Used(q, j) # Avail(q, s, k)
  <2>1. n + m + 0 <= QueueSize
    BY DEF Buffers, Apart
  <2>. QED
    BY <1>2, <2>1, IndexSizes DEF Buffers, Apart
<1>. HIDE DEF n, m
<1>8. \A k \in 0 .. (n - 2) : Used(p, k) = Used(q, k + 1)
  <2>. SUFFICES ASSUME NEW k \in 0 .. (n - 2) PROVE Used(p, k) = Used(q, k + 1)
    OBVIOUS
  <2>1. k \in Nat /\ k < QueueSize
    BY <1>2, <1>7, IndexSizes
  <2>. QED
    BY <1>1, <1>3, <2>1, PosEnds DEF Used
<1>9. \A k \in 0 .. (m - 1) : Avail(p, s, k) = Avail(q, s, k)
  BY <1>3 DEF Avail
<1>10. /\ 0 \in 0 .. (n - 1) /\ (n - 1) - 1 = n - 2 /\ (n - 1) + m + 1 = n + m
       /\ \A k \in 0 .. (n - 2) : k + 1 \in 0 .. (n - 1) /\ k + 1 # 0
  BY <1>2
<1>11. \A j, k \in 0 .. (n - 2) : Used(p, j) = Used(p, k) => j = k
  <2>. SUFFICES ASSUME NEW j \in 0 .. (n - 2), NEW k \in 0 .. (n - 2),
                       Used(p, j) = Used(p, k)
                PROVE  j = k
    OBVIOUS
  <2>1. j + 1 = k + 1
    BY <1>7, <1>8, <1>10
  <2>. QED
    BY <2>1
<1>12. \A j \in 0 .. (n - 2), k \in 0 .. (m - 1) : Used(p, j) # Avail(p, s, k)
  BY <1>7, <1>8, <1>9, <1>10
<1>13. /\ \A j \in 0 .. (n - 2) : Used(p, j) # UsedId(q)
       /\ \A k \in 0 .. (m - 1) : Avail(p, s, k) # UsedId(q)
  BY <1>2, <1>7, <1>8, <1>9, <1>10
<1>14. \A j, k \in 0 .. (m - 1) : Avail(p, s, j) = Avail(p, s, k) => j = k
  BY <1>7, <1>9
<1>15. Apart(p, s, TRUE, UsedId(q))
  <2>1. UsedCount(p) - 1 = n - 2 /\ AvailCount(p, s) - 1 = m - 1
    BY <1>6, <1>10
  <2>2. UsedCount(p) + AvailCount(p, s) + 1 <= QueueSize
    BY <1>6, <1>7, <1>10
  <2>. QED
    BY <1>4, <1>11, <1>12, <1>13, <1>14, <2>1, <2>2 DEF Apart
<1>. QED
  BY <1>2, <1>5, <1>6, <1>8, <1>15 DEF Buffers, n, p

(* virtio_queue_recycle offers the drain's buffer again.                    *)
LEMMA RecycleIs ==
  ASSUME NEW q, NEW s, NEW id, Buffers(q, s, TRUE, id)
  PROVE  LET p == PublishIdx(WriteRing(q, id), id)
         IN  /\ Buffers(p, s, FALSE, id)
             /\ p.used = q.used /\ p.used_idx = q.used_idx /\ p.used_pub = q.used_pub
<1>. DEFINE p == PublishIdx(WriteRing(q, id), id)
            n == UsedCount(q)
            m == AvailCount(q, s)
<1>1. /\ q \in QueueSet /\ s \in Idxs /\ q.avail_pub \in Idxs /\ q.used_idx \in Idxs
      /\ q.used_pub \in Idxs /\ q.avail_idx = q.avail_pub /\ q.queue_size = QueueSize
      /\ q.avail \in [Slots -> Slots]
  BY DEF Buffers, Indexed, QueueSet
<1>2. n \in Nat /\ m \in Nat
  BY Counts DEF Buffers
<1>3. /\ n + m + 1 <= QueueSize /\ id \in Slots
      /\ \A j, k \in 0 .. (n - 1) : Used(q, j) = Used(q, k) => j = k
      /\ \A j, k \in 0 .. (m - 1) : Avail(q, s, j) = Avail(q, s, k) => j = k
      /\ \A j \in 0 .. (n - 1), k \in 0 .. (m - 1) : Used(q, j) # Avail(q, s, k)
      /\ \A j \in 0 .. (n - 1) : Used(q, j) # id
      /\ \A k \in 0 .. (m - 1) : Avail(q, s, k) # id
  BY DEF Buffers, Apart
<1>4. Known(q, id)
  BY <1>1, <1>3, SizeType DEF Known, Slots
<1>5. WriteRing(q, id) = [q EXCEPT !.avail[q.avail_idx % QueueSize] = id]
  BY <1>1, <1>4 DEF WriteRing
<1>6. /\ p.used = q.used /\ p.used_idx = q.used_idx /\ p.used_pub = q.used_pub
      /\ p.avail_pub = Step(q.avail_pub) /\ p.avail_idx = Step(q.avail_pub)
      /\ p.avail = [q.avail EXCEPT ![q.avail_pub % QueueSize] = id]
  <2>. DEFINE w == WriteRing(q, id)
  <2>1. /\ w \in QueueSet /\ w.queue_size = QueueSize /\ w.avail_idx = q.avail_pub
        /\ w.used = q.used /\ w.used_idx = q.used_idx /\ w.used_pub = q.used_pub
        /\ w.avail = [q.avail EXCEPT ![q.avail_pub % QueueSize] = id]
    <3>1. w \in QueueSet
      BY <1>1, <1>3, SizeType DEF WriteRing, Known, QueueSet
    <3>. QED
      BY <1>1, <1>5, <3>1 DEF QueueSet
  <2>. HIDE DEF w
  <2>2. Known(w, id)
    BY <1>4, <1>1, <2>1 DEF Known
  <2>3. p = PublishIdx(w, id)
    BY DEF w
  <2>. HIDE DEF p
  <2>4. p = [w EXCEPT !.avail_idx = Step(@), !.avail_pub = Step(w.avail_idx)]
    BY <2>2, <2>3 DEF PublishIdx
  <2>. QED
    BY <2>1, <2>4 DEF QueueSet
<1>7. p \in QueueSet
  BY <1>1, <1>3, QueueSteps
<1>8. q.avail_pub % QueueSize \in Slots
  <2>1. q.avail_pub \in Nat
    BY <1>1 DEF Idxs
  <2>2. QueueSize \in Nat /\ QueueSize > 0
    BY IndexSizes
  <2>. QED
    BY ONLY <2>1, <2>2, ModType DEF Slots
<1>. HIDE DEF p
<1>9. Indexed(p, s)
  BY <1>1, <1>6, <1>7, StepIdx DEF Indexed
<1>10. m < QueueSize /\ m + 1 < IdxMod
  <2>1. n + m + 1 <= QueueSize
    BY <1>3
  <2>. HIDE DEF n, m
  <2>. QED
    BY ONLY <1>2, <2>1, IndexSizes
<1>11. UsedCount(p) = n
  BY <1>6 DEF UsedCount
<1>12. AvailCount(p, s) = m + 1
  <2>. HIDE DEF m
  <2>1. Between(s, q.avail_pub) = m
    BY DEF m, AvailCount
  <2>2. Between(s, Step(q.avail_pub)) = Between(s, q.avail_pub) + 1
    BY <1>1, <1>10, <2>1, BetweenStep
  <2>. QED
    BY <1>6, <2>1, <2>2 DEF AvailCount
<1>13. Pos(s, m) = q.avail_pub % QueueSize
  BY <1>1, PosEnds DEF AvailCount
<1>. HIDE DEF n, m
<1>14. Avail(p, s, m) = id
  BY <1>1, <1>6, <1>8, <1>13 DEF Avail
<1>15. ASSUME NEW k \in 0 .. (m - 1) PROVE Avail(p, s, k) = Avail(q, s, k)
  <2>1. k \in Nat /\ k < m /\ k <= QueueSize
    BY <1>2, <1>10, IndexSizes
  <2>2. Pos(s, k) # Pos(s, m)
    BY <1>1, <1>2, <1>10, <2>1, PosDistinct
  <2>3. Pos(s, k) \in Slots
    BY <1>1, <2>1, PosType DEF Slots
  <2>. QED
    BY <1>1, <1>6, <1>13, <2>2, <2>3 DEF Avail
<1>16. \A k \in 0 .. (n - 1) : Used(p, k) = Used(q, k)
  BY <1>6 DEF Used
<1>17. /\ (m + 1) - 1 = m /\ n + (m + 1) + 0 = n + m + 1
       /\ \A k \in 0 .. m : k \in 0 .. (m - 1) \/ k = m
  BY <1>2
<1>18. \A j, k \in 0 .. m : Avail(p, s, j) = Avail(p, s, k) => j = k
  BY <1>3, <1>14, <1>15, <1>17
<1>19. \A j \in 0 .. (n - 1), k \in 0 .. m : Used(p, j) # Avail(p, s, k)
  BY <1>3, <1>14, <1>15, <1>16, <1>17
<1>20. \A j, k \in 0 .. (n - 1) : Used(p, j) = Used(p, k) => j = k
  BY <1>3, <1>16
<1>21. Apart(p, s, FALSE, id)
  <2>1. UsedCount(p) - 1 = n - 1 /\ AvailCount(p, s) - 1 = m
    BY <1>11, <1>12, <1>17
  <2>2. UsedCount(p) + AvailCount(p, s) + 0 <= QueueSize
    BY <1>3, <1>11, <1>12, <1>17
  <2>. QED
    BY <1>18, <1>19, <1>20, <2>1, <2>2 DEF Apart
<1>. QED
  BY <1>6, <1>9, <1>21 DEF Buffers, p


-----------------------------------------------------------------------------
(* The events a device has written and the driver has not handled, oldest   *)
(* first: the one in the drain's hands, when it has not been handled, then  *)
(* those of the used ring.                                                  *)
HeldCodes == {e.code : e \in {i \in Inputs : Held(i)}}
Hands     == [held : SUBSET HeldCodes, moved : Int]

\* todo: the drain has popped buffer id and not handled it.
Length(q, todo)     == UsedCount(q) + (IF todo THEN 1 ELSE 0)
Buf(q, todo, id, k) ==
  IF todo THEN (IF k = 0 THEN id ELSE Used(q, k - 1)) ELSE Used(q, k)

After(x, z) ==
  [held  |-> IF ~Held(z) THEN x.held
             ELSE IF z.value # 0 THEN x.held \cup {z.code} ELSE x.held \ {z.code},
   moved |-> IF z.kind = "rel" THEN x.moved + z.value ELSE x.moved]

\* z was written when the hand was as in x, and left it as in y.
Follows(x, z, y) ==
  /\ z \in EventSet /\ y = After(x, z)
  /\ Held(z) => z.code \in HeldCodes
  /\ z.kind = "button" => z.code >= 256
  /\ z.shifted <=> x.held \cap ShiftKeys # {}

(* KEY_RIGHT_SHIFT is bit 12 of a mask of 8 (ShiftBit is 0): what the       *)
(* driver makes of shift is right for keyboards that never send it.         *)
LeftShiftOnly == \A e \in Inputs : e.kind = "key" => e.code # KEY_RIGHT_SHIFT

\* The driver's state of a device is that of hand x.
Agrees(shift, buttons, motions, x) ==
  /\ buttons = x.held \ ShiftKeys
  /\ motions = x.moved
  /\ LeftShiftOnly => shift = IF KEY_LEFT_SHIFT \in x.held THEN 1 ELSE 0

\* From what the driver knows, the events left lead to what the hand does now.
Path(q, ev, todo, id, h) ==
  \A k \in 0 .. (Length(q, todo) - 1) : Follows(h[k], ev[Buf(q, todo, id, k)], h[k + 1])
Chain(q, ev, todo, id, shift, buttons, motions, now) ==
  \E h \in [Nat -> Hands] :
    /\ Agrees(shift, buttons, motions, h[0])
    /\ h[Length(q, todo)] = now
    /\ Path(q, ev, todo, id, h)

LEMMA LengthType ==
  ASSUME NEW q, NEW s, Indexed(q, s), NEW todo \in BOOLEAN
  PROVE  Length(q, todo) \in Nat /\ UsedCount(q) \in Nat
<1>1. UsedCount(q) \in Nat
  BY Counts
<1>. QED
  BY <1>1 DEF Length

LEMMA UsedType ==
  ASSUME NEW q, NEW s, NEW hold \in BOOLEAN, NEW id, Buffers(q, s, hold, id),
         NEW k \in 0 .. (UsedCount(q) - 1)
  PROVE  Used(q, k) \in Slots
<1>1. UsedCount(q) \in Nat /\ AvailCount(q, s) \in Nat
  BY Counts DEF Buffers
<1>2. UsedCount(q) + AvailCount(q, s) + (IF hold THEN 1 ELSE 0) <= QueueSize
  BY DEF Buffers, Apart
<1>3. k \in Nat /\ k <= QueueSize
  BY ONLY <1>1, <1>2, IndexSizes
<1>4. q.used_idx \in Idxs /\ q.used \in [Slots -> Slots]
  BY DEF Buffers, Indexed, QueueSet
<1>5. Pos(q.used_idx, k) \in Slots
  BY <1>3, <1>4, PosType DEF Slots
<1>. QED
  BY <1>4, <1>5 DEF Used

LEMMA EmitChain ==
  ASSUME NEW q, NEW p, NEW s, NEW o \in Slots, NEW hold \in BOOLEAN, NEW id,
         NEW todo \in BOOLEAN, todo => hold,
         Buffers(q, s, hold, id), Offered(q, s), o = OfferedId(q, s),
         Completed(q, p, s, o),
         NEW ev \in [Slots -> EventSet], NEW z,
         NEW shift, NEW buttons, NEW motions, NEW now, NEW next \in Hands,
         Chain(q, ev, todo, id, shift, buttons, motions, now),
         Follows(now, z, next)
  PROVE  Chain(p, [ev EXCEPT ![o] = z], todo, id, shift, buttons, motions, next)
<1>. DEFINE n  == Length(q, todo)
            u  == UsedCount(q)
            ew == [ev EXCEPT ![o] = z]
<1>1. PICK h \in [Nat -> Hands] :
        /\ Agrees(shift, buttons, motions, h[0]) /\ h[n] = now
        /\ Path(q, ev, todo, id, h)
  BY DEF Chain
<1>2. n \in Nat /\ u \in Nat /\ n = u + (IF todo THEN 1 ELSE 0)
  BY LengthType DEF Buffers, Length
<1>3. /\ \A k \in 0 .. (u - 1) : Used(q, k) # o
      /\ hold => id # o
  BY CompletedApart
<1>4. /\ UsedCount(p) = u + 1 /\ Used(p, u) = o
      /\ \A k \in 0 .. (u - 1) : Used(p, k) = Used(q, k)
  BY DEF Completed
<1>5. \A k \in 0 .. (n - 1) : Follows(h[k], ev[Buf(q, todo, id, k)], h[k + 1])
  BY <1>1 DEF Path
<1>0. /\ \A k \in 0 .. (u - 1) : Used(q, k) \in Slots
      /\ hold => id \in Slots
  BY UsedType DEF Buffers, Apart
<1>. HIDE DEF n, u
<1>6. Length(p, todo) = n + 1
  BY <1>2, <1>4 DEF Length
<1>7. ASSUME NEW k \in 0 .. (n - 1)
      PROVE  /\ Buf(p, todo, id, k) = Buf(q, todo, id, k)
             /\ Buf(p, todo, id, k) \in Slots \ {o}
  <2>1. CASE todo /\ k = 0
    BY <1>0, <1>3, <2>1 DEF Buf
  <2>2. CASE todo /\ k # 0
    <3>1. k - 1 \in 0 .. (u - 1)
      BY <1>2, <2>2
    <3>. QED
      BY <1>0, <1>3, <1>4, <2>2, <3>1 DEF Buf
  <2>3. CASE ~todo
    <3>1. k \in 0 .. (u - 1)
      BY <1>2, <2>3
    <3>. QED
      BY <1>0, <1>3, <1>4, <2>3, <3>1 DEF Buf
  <2>. QED
    BY <2>1, <2>2, <2>3
<1>8. Buf(p, todo, id, n) = o
  <2>1. CASE todo
    <3>1. n # 0 /\ n - 1 = u
      BY <1>2, <2>1
    <3>. QED
      BY <1>4, <2>1, <3>1 DEF Buf
  <2>2. CASE ~todo
    BY <1>2, <1>4, <2>2 DEF Buf
  <2>. QED
    BY <2>1, <2>2
<1>. DEFINE g == [h EXCEPT ![n + 1] = next]
<1>9. /\ g \in [Nat -> Hands] /\ g[n + 1] = next
      /\ \A k \in 0 .. n : g[k] = h[k]
  BY <1>2
<1>. HIDE DEF g
<1>10. /\ 0 \in 0 .. n /\ n \in 0 .. n /\ (n + 1) - 1 = n
       /\ \A k \in 0 .. n : k = n \/ (k \in 0 .. (n - 1) /\ k + 1 \in 0 .. n)
  BY <1>2
<1>11. ew[o] = z /\ \A i \in Slots \ {o} : ew[i] = ev[i]
  OBVIOUS
<1>. HIDE DEF ew
<1>12. ASSUME NEW k \in 0 .. n
       PROVE  Follows(g[k], ew[Buf(p, todo, id, k)], g[k + 1])
  <2>1. CASE k = n
    BY <1>1, <1>8, <1>9, <1>10, <1>11, <2>1
  <2>2. CASE k \in 0 .. (n - 1) /\ k + 1 \in 0 .. n
    <3>1. ew[Buf(p, todo, id, k)] = ev[Buf(q, todo, id, k)]
      BY <1>7, <1>11, <2>2
    <3>2. g[k] = h[k] /\ g[k + 1] = h[k + 1]
      BY <1>9, <2>2
    <3>3. Follows(h[k], ev[Buf(q, todo, id, k)], h[k + 1])
      BY <1>5, <2>2
    <3>. QED
      BY <3>1, <3>2, <3>3
  <2>. QED
    BY <1>10, <2>1, <2>2
<1>13. Path(p, ew, todo, id, g)
  BY <1>6, <1>10, <1>12 DEF Path
<1>14. Agrees(shift, buttons, motions, g[0]) /\ g[Length(p, todo)] = next
  BY <1>1, <1>6, <1>9, <1>10
<1>15. Chain(p, ew, todo, id, shift, buttons, motions, next)
  BY <1>9, <1>13, <1>14 DEF Chain
<1>. QED
  BY <1>15 DEF ew

LEMMA PopChain ==
  ASSUME NEW q, NEW s, NEW id, Buffers(q, s, FALSE, id), HasUsed(q),
         NEW ev, NEW shift, NEW buttons, NEW motions, NEW now,
         Chain(q, ev, FALSE, id, shift, buttons, motions, now)
  PROVE  Chain(PopUsed(q), ev, TRUE, UsedId(q), shift, buttons, motions, now)
<1>. DEFINE p == PopUsed(q)
            n == UsedCount(q)
            o == UsedId(q)
<1>1. PICK h \in [Nat -> Hands] :
        /\ Agrees(shift, buttons, motions, h[0]) /\ h[Length(q, FALSE)] = now
        /\ Path(q, ev, FALSE, id, h)
  BY DEF Chain
<1>2. /\ n > 0 /\ UsedCount(p) = n - 1 /\ o = Used(q, 0)
      /\ \A k \in 0 .. (n - 2) : Used(p, k) = Used(q, k + 1)
  BY PopIs
<1>3. n \in Nat
  BY LengthType DEF Buffers
<1>. HIDE DEF p, n, o
<1>4. Length(q, FALSE) = n /\ Length(p, TRUE) = n
  BY <1>2, <1>3 DEF Length, n
<1>5. ASSUME NEW k \in 0 .. (n - 1)
      PROVE  Buf(p, TRUE, o, k) = Buf(q, FALSE, id, k)
  <2>1. CASE k = 0
    BY <1>2, <2>1 DEF Buf
  <2>2. CASE k # 0
    <3>1. k - 1 \in 0 .. (n - 2) /\ (k - 1) + 1 = k
      BY <1>3, <2>2
    <3>2. Used(p, k - 1) = Used(q, k)
      BY <1>2, <3>1
    <3>. QED
      BY <2>2, <3>2 DEF Buf
  <2>. QED
    BY <2>1, <2>2
<1>6. Path(p, ev, TRUE, o, h)
  BY <1>1, <1>4, <1>5 DEF Path
<1>7. Chain(p, ev, TRUE, o, shift, buttons, motions, now)
  BY <1>1, <1>4, <1>6 DEF Chain
<1>. QED
  BY <1>7 DEF p, o

(* What the driver makes of one event, ... *)
Learns(z, shift, buttons, motions, shift2, buttons2, motions2) ==
  \A x \in Hands, y \in Hands :
    Follows(x, z, y) /\ Agrees(shift, buttons, motions, x) => Agrees(shift2, buttons2, motions2, y)

(* ... which moves it along the events left.                                *)
LEMMA HandleChain ==
  ASSUME NEW q, NEW s, NEW id, NEW hold, Buffers(q, s, hold, id),
         NEW ev, NEW shift, NEW buttons, NEW motions, NEW now,
         NEW shift2, NEW buttons2, NEW motions2,
         Chain(q, ev, TRUE, id, shift, buttons, motions, now),
         Learns(ev[id], shift, buttons, motions, shift2, buttons2, motions2)
  PROVE  Chain(q, ev, FALSE, id, shift2, buttons2, motions2, now)
<1>. DEFINE n == UsedCount(q)
<1>1. PICK h \in [Nat -> Hands] :
        /\ Agrees(shift, buttons, motions, h[0]) /\ h[Length(q, TRUE)] = now
        /\ Path(q, ev, TRUE, id, h)
  BY DEF Chain
<1>2. n \in Nat /\ Length(q, TRUE) = n + 1 /\ Length(q, FALSE) = n
  <2>1. n \in Nat
    BY Counts DEF Buffers
  <2>. QED
    BY <2>1 DEF Length
<1>. HIDE DEF n
<1>. DEFINE g == [k \in Nat |-> h[k + 1]]
<1>3. g \in [Nat -> Hands] /\ \A k \in Nat : g[k] = h[k + 1]
  <2>1. \A k \in Nat : h[k + 1] \in Hands
    BY <1>1
  <2>. QED
    BY <2>1
<1>. HIDE DEF g
<1>4. \A k \in 0 .. n : Follows(h[k], ev[Buf(q, TRUE, id, k)], h[k + 1])
  <2>. DEFINE len == Length(q, TRUE)
  <2>1. \A k \in 0 .. (len - 1) : Follows(h[k], ev[Buf(q, TRUE, id, k)], h[k + 1])
    BY <1>1 DEF Path
  <2>2. n \in Nat /\ len = n + 1
    BY <1>2
  <2>. HIDE DEF len
  <2>3. len - 1 = n
    BY ONLY <2>2
  <2>. QED
    BY <2>1, <2>3
<1>5. Follows(h[0], ev[id], h[1])
  <2>1. 0 \in 0 .. n /\ 0 + 1 = 1
    BY <1>2
  <2>. QED
    BY <1>4, <2>1 DEF Buf
<1>6. Agrees(shift2, buttons2, motions2, g[0])
  <2>1. h[0] \in Hands /\ h[1] \in Hands /\ g[0] = h[1]
    BY <1>1, <1>3
  <2>. QED
    BY <1>1, <1>5, <2>1 DEF Learns
<1>7. ASSUME NEW k \in 0 .. (n - 1)
      PROVE  Follows(g[k], ev[Buf(q, FALSE, id, k)], g[k + 1])
  <2>1. k + 1 \in 0 .. n /\ k + 1 # 0 /\ (k + 1) - 1 = k /\ k \in Nat /\ k + 1 \in Nat
    BY <1>2
  <2>2. Buf(q, TRUE, id, k + 1) = Buf(q, FALSE, id, k)
    BY <2>1 DEF Buf
  <2>3. Follows(h[k + 1], ev[Buf(q, TRUE, id, k + 1)], h[(k + 1) + 1])
    BY <1>4, <2>1
  <2>4. g[k] = h[k + 1] /\ g[k + 1] = h[(k + 1) + 1]
    BY <1>3, <2>1
  <2>. QED
    BY <2>2, <2>3, <2>4
<1>8. g[n] = now
  BY <1>1, <1>2, <1>3
<1>. QED
  BY <1>2, <1>3, <1>6, <1>7, <1>8 DEF Chain, Path

(* Only the used ring matters.                                              *)
LEMMA SameChain ==
  ASSUME NEW q, NEW p, p.used = q.used, p.used_idx = q.used_idx, p.used_pub = q.used_pub,
         NEW id, NEW i2, NEW ev, NEW shift, NEW buttons, NEW motions, NEW now,
         Chain(q, ev, FALSE, id, shift, buttons, motions, now)
  PROVE  Chain(p, ev, FALSE, i2, shift, buttons, motions, now)
<1>1. Length(p, FALSE) = Length(q, FALSE)
  BY DEF Length, UsedCount
<1>2. \A k : Buf(p, FALSE, i2, k) = Buf(q, FALSE, id, k)
  BY DEF Buf, Used
<1>. QED
  BY <1>1, <1>2 DEF Chain, Path

-----------------------------------------------------------------------------
(* The invariant: each device's buffers are apart, and, as long as none was *)
(* lost, its events left lead from what the driver knows to what is.        *)
Holding(d)  == draining.dev = d /\ draining.stage \in {"handle", "recycle"}
Handling(d) == draining.dev = d /\ draining.stage = "handle"

Typed ==
  /\ held \in [Devices -> SUBSET HeldCodes] /\ moved \in [Devices -> Int]
  /\ told \in [Devices -> Int] /\ motion \in [Devices -> Int]
  /\ shift_state = [d \in Devices |-> shift_state[d]]
  /\ mouse_buttons = [d \in Devices |-> mouse_buttons[d]]

Led(d) ==
  Chain(queue[d], events[d], Handling(d), draining.id, shift_state[d],
        mouse_buttons[d], told[d] + motion[d], [held |-> held[d], moved |-> moved[d]])

Kept == \A d \in Devices : Buffers(queue[d], seen[d], Holding(d), draining.id)
HandsInv == Inv /\ Typed /\ Kept /\ (~lost => \A d \in Devices : Led(d))

LEMMA HandType ==
  ASSUME Typed, NEW d \in Devices
  PROVE  [held |-> held[d], moved |-> moved[d]] \in Hands
  BY DEF Typed, Hands

(* What a device writes is what the hand then did.                          *)
LEMMA EventFollows ==
  ASSUME Inv, Typed, NEW e \in Inputs, NEW d \in Devices
  PROVE  LET x == [held |-> held[d], moved |-> moved[d]]
             y == [held |-> HeldAfter(d, e),
                   moved |-> IF e.kind = "rel" THEN moved[d] + e.value ELSE moved[d]]
         IN  y \in Hands /\ Follows(x, Event(d, e), y)
<1>. DEFINE x == [held |-> held[d], moved |-> moved[d]]
            y == [held |-> HeldAfter(d, e),
                  moved |-> IF e.kind = "rel" THEN moved[d] + e.value ELSE moved[d]]
            z == Event(d, e)
<1>1. /\ e.kind \in Kinds /\ e.code \in Nat /\ e.value \in Int
      /\ e.kind = "button" => e.code >= 256
  BY InputAssumption
<1>2. /\ z.kind = e.kind /\ z.code = e.code /\ z.value = e.value
      /\ z.shifted <=> held[d] \cap ShiftKeys # {}
  BY DEF Event
<1>3. z \in EventSet
  BY <1>1 DEF Event, EventSet, Codes
<1>4. Held(z) <=> Held(e)
  BY <1>2 DEF Held
<1>5. Held(e) => e.code \in HeldCodes
  BY DEF HeldCodes
<1>6. x \in Hands /\ x.held = held[d] /\ x.moved = moved[d]
  BY HandType
<1>. HIDE DEF z
<1>7. y = After(x, z)
  BY <1>2, <1>4 DEF After, HeldAfter
<1>8. HeldAfter(d, e) \in SUBSET HeldCodes
  BY <1>5 DEF HeldAfter, Typed
<1>9. y \in Hands
  BY <1>1, <1>8 DEF Hands, Typed
<1>10. Follows(x, z, y)
  <2>1. z.shifted <=> x.held \cap ShiftKeys # {}
    BY <1>2, <1>6
  <2>2. z.kind = "button" => z.code >= 256
    BY <1>1, <1>2
  <2>. HIDE DEF x, y
  <2>. QED
    BY <1>2, <1>3, <1>4, <1>5, <1>7, <2>1, <2>2 DEF Follows
<1>. QED
  BY <1>9, <1>10 DEF z

LEMMA EmitHands ==
  ASSUME HandsInv, NEW e \in Inputs, Emit(e.dev, e)
  PROVE  Typed' /\ Kept' /\ (~lost' => \A d \in Devices : Led(d)')
<1>. DEFINE d == e.dev
            x == [held |-> held[d], moved |-> moved[d]]
            y == [held |-> HeldAfter(d, e),
                  moved |-> IF e.kind = "rel" THEN moved[d] + e.value ELSE moved[d]]
<1>0. d \in Devices /\ e.value \in Int
  BY InputAssumption
<1>1. y \in Hands /\ Follows(x, Event(d, e), y)
  BY <1>0, EventFollows DEF HandsInv
<1>2. /\ UNCHANGED <<shift_state, mouse_buttons, motion, told, draining>>
      /\ held' = [held EXCEPT ![d] = HeldAfter(d, e)]
      /\ moved' = IF e.kind = "rel" THEN [moved EXCEPT ![d] = @ + e.value] ELSE moved
  BY DEF Emit, state
<1>3. Typed'
  <2>1. HeldAfter(d, e) \in SUBSET HeldCodes
    BY <1>1 DEF Hands
  <2>2. held' \in [Devices -> SUBSET HeldCodes]
    BY <1>2, <2>1 DEF HandsInv, Typed
  <2>3. moved' \in [Devices -> Int]
    BY <1>0, <1>2 DEF HandsInv, Typed
  <2>. QED
    BY <1>2, <2>2, <2>3 DEF HandsInv, Typed
<1>4. /\ held'[d] = HeldAfter(d, e)
      /\ moved'[d] = IF e.kind = "rel" THEN moved[d] + e.value ELSE moved[d]
      /\ \A c \in Devices \ {d} : held'[c] = held[c] /\ moved'[c] = moved[c]
  BY <1>0, <1>2 DEF HandsInv, Typed
<1>5. [held |-> held'[d], moved |-> moved'[d]] = y
  BY <1>4
<1>. HIDE DEF d, x, y
<1>6. CASE Offered(queue[d], seen[d]) /\ lost' = lost
           /\ LET id == OfferedId(queue[d], seen[d])
              IN  /\ events' = [events EXCEPT ![d][id] = Event(d, e)]
                  /\ queue' = [queue EXCEPT ![d] = PushUsed(@, id)]
           /\ seen' = [seen EXCEPT ![d] = Step(@)]
  <2>. DEFINE q == queue[d]
              s == seen[d]
              o == OfferedId(q, s)
              p == PushUsed(q, o)
  <2>1. Buffers(q, s, Holding(d), draining.id) /\ Holding(d) \in BOOLEAN
        /\ Handling(d) \in BOOLEAN /\ (Handling(d) => Holding(d))
    BY <1>0 DEF HandsInv, Kept, Holding, Handling
  <2>2. Offered(q, s)
    BY <1>6
  <2>3. queue \in [Devices -> QueueSet] /\ seen \in [Devices -> 0 .. (IdxMod - 1)]
        /\ events \in [Devices -> [Slots -> EventSet]]
    BY DEF HandsInv, Inv, QueuesInv
  <2>4. /\ queue'[d] = p /\ seen'[d] = Step(s)
        /\ events'[d] = [events[d] EXCEPT ![o] = Event(d, e)]
        /\ \A c \in Devices \ {d} : /\ queue'[c] = queue[c] /\ seen'[c] = seen[c]
                                    /\ events'[c] = events[c]
    BY <1>0, <1>6, <2>3
  <2>5. events[d] \in [Slots -> EventSet]
    BY <1>0, <2>3
  <2>. HIDE DEF q, s, p
  <2>6. Completed(q, p, s, o)
    BY <2>1, <2>2, CompletedIs DEF p
  <2>7. Buffers(p, Step(s), Holding(d), draining.id)
    BY <2>1, <2>2, <2>6, CompletedApart
  <2>8. o \in Slots
    <3>1. q \in QueueSet /\ s \in Nat
      BY <2>1, IndexSizes DEF Buffers, Indexed, Idxs
    <3>. QED
      BY <3>1, QueueIds
  <2>. HIDE DEF o
  <2>9. \A c \in Devices : Holding(c)' = Holding(c) /\ Handling(c)' = Handling(c)
    BY <1>2 DEF Holding, Handling
  <2>10. Kept'
    <3>. SUFFICES ASSUME NEW c \in Devices
                  PROVE  Buffers(queue'[c], seen'[c], Holding(c)', draining'.id)
      BY DEF Kept
    <3>1. CASE c = d
      BY <1>2, <2>4, <2>7, <2>9, <3>1
    <3>2. CASE c # d
      BY <1>2, <2>4, <2>9, <3>2 DEF HandsInv, Kept
    <3>. QED
      BY <3>1, <3>2
  <2>11. ASSUME ~lost', NEW c \in Devices PROVE Led(c)'
    <3>0. Led(c) /\ Led(d)
      BY <1>0, <1>6, <2>11 DEF HandsInv
    <3>1. CASE c = d
      <4>1. Chain(q, events[d], Handling(d), draining.id, shift_state[d],
                  mouse_buttons[d], told[d] + motion[d], x)
        BY <3>0 DEF Led, q, x
      <4>2. Chain(p, [events[d] EXCEPT ![o] = Event(d, e)], Handling(d), draining.id,
                  shift_state[d], mouse_buttons[d], told[d] + motion[d], y)
        BY <1>1, <2>1, <2>2, <2>5, <2>6, <2>8, <4>1, EmitChain DEF o
      <4>3. Chain(queue'[d], events'[d], Handling(d)', draining'.id, shift_state'[d],
                  mouse_buttons'[d], told'[d] + motion'[d],
                  [held |-> held'[d], moved |-> moved'[d]])
        BY <1>0, <1>2, <1>5, <2>4, <2>9, <4>2
      <4>. QED
        BY <3>1, <4>3 DEF Led
    <3>2. CASE c # d
      BY <1>2, <1>4, <2>4, <2>9, <3>0, <3>2 DEF Led
    <3>. QED
      BY <3>1, <3>2
  <2>. QED
    BY <1>3, <2>10, <2>11
<1>7. CASE lost' /\ UNCHANGED <<queue, seen, events>>
  <2>1. Kept'
    BY <1>2, <1>7 DEF HandsInv, Kept, Holding
  <2>. QED
    BY <1>3, <1>7, <2>1
<1>. QED
  BY <1>6, <1>7 DEF Emit, d

LEMMA PopHands ==
  ASSUME HandsInv, NEW d \in Devices, DrainPop(d)
  PROVE  Typed' /\ Kept' /\ (~lost' => \A c \in Devices : Led(c)')
<1>1. /\ UNCHANGED <<seen, events, shift_state, mouse_buttons, motion, held, moved, told, lost>>
      /\ draining = NoDrain \/ (draining.dev = d /\ draining.stage = "pop")
  BY DEF DrainPop, state, hands
<1>2. Typed'
  BY <1>1 DEF HandsInv, Typed
<1>3. \A c \in Devices : ~Holding(c) /\ ~Handling(c)
  BY <1>1 DEF Holding, Handling, NoDrain
<1>4. CASE ~HasUsed(queue[d]) /\ draining' = NoDrain /\ UNCHANGED queue
  <2>1. \A c \in Devices : Holding(c)' = FALSE /\ Handling(c)' = FALSE
    BY <1>4 DEF Holding, Handling, NoDrain
  <2>2. ASSUME NEW c \in Devices
        PROVE  Buffers(queue'[c], seen'[c], Holding(c)', draining'.id)
    <3>1. Buffers(queue[c], seen[c], FALSE, draining.id)
      <4>1. Holding(c) = FALSE
        BY <1>3
      <4>. QED
        BY <4>1 DEF HandsInv, Kept
    <3>2. Buffers(queue[c], seen[c], FALSE, draining'.id)
      BY <3>1 DEF Buffers, Apart
    <3>. QED
      BY <1>1, <1>4, <2>1, <3>2
  <2>3. ASSUME ~lost, NEW c \in Devices PROVE Led(c)'
    <3>. DEFINE now == [held |-> held[c], moved |-> moved[c]]
                sum == told[c] + motion[c]
    <3>1. Handling(c) = FALSE
      BY <1>3
    <3>2. Chain(queue[c], events[c], FALSE, draining.id, shift_state[c], mouse_buttons[c],
                sum, now)
      BY <2>3, <3>1 DEF HandsInv, Led
    <3>3. Chain(queue[c], events[c], FALSE, draining'.id, shift_state[c], mouse_buttons[c],
                sum, now)
      <4>. HIDE DEF now, sum
      <4>. QED
        BY <3>2, SameChain
    <3>. QED
      BY <1>1, <1>4, <2>1, <3>3 DEF Led
  <2>. QED
    BY <1>1, <1>2, <2>2, <2>3 DEF Kept
<1>5. CASE /\ HasUsed(queue[d])
           /\ draining' = [dev |-> d, stage |-> "handle", id |-> UsedId(queue[d])]
           /\ queue' = [queue EXCEPT ![d] = PopUsed(@)]
  <2>. DEFINE q == queue[d]
              o == UsedId(q)
              p == PopUsed(q)
  <2>1. queue \in [Devices -> QueueSet]
    BY DEF HandsInv, Inv, QueuesInv
  <2>2. queue'[d] = p /\ \A c \in Devices \ {d} : queue'[c] = queue[c]
    BY <1>5, <2>1
  <2>3. /\ draining'.id = o /\ Holding(d)' = TRUE /\ Handling(d)' = TRUE
        /\ \A c \in Devices \ {d} : Holding(c)' = FALSE /\ Handling(c)' = FALSE
    BY <1>5 DEF Holding, Handling
  <2>4. Holding(d) = FALSE /\ Handling(d) = FALSE
    BY <1>3
  <2>5. Buffers(q, seen[d], FALSE, draining.id) /\ HasUsed(q)
    BY <1>5, <2>4 DEF HandsInv, Kept
  <2>. HIDE DEF q
  <2>6. Buffers(p, seen[d], TRUE, o)
    BY <2>5, PopIs
  <2>7. ASSUME NEW c \in Devices
        PROVE  Buffers(queue'[c], seen'[c], Holding(c)', draining'.id)
    <3>1. CASE c = d
      BY <1>1, <2>2, <2>3, <2>6, <3>1
    <3>2. CASE c # d
      <4>1. Holding(c) = FALSE
        BY <1>3
      <4>2. Buffers(queue[c], seen[c], FALSE, draining.id)
        BY <4>1 DEF HandsInv, Kept
      <4>3. Buffers(queue[c], seen[c], FALSE, draining'.id)
        BY <4>2 DEF Buffers, Apart
      <4>. QED
        BY <1>1, <2>2, <2>3, <3>2, <4>3
    <3>. QED
      BY <3>1, <3>2
  <2>8. ASSUME ~lost, NEW c \in Devices PROVE Led(c)'
    <3>. DEFINE now == [held |-> held[c], moved |-> moved[c]]
                sum == told[c] + motion[c]
    <3>1. Handling(c) = FALSE
      BY <1>3
    <3>2. Chain(queue[c], events[c], FALSE, draining.id, shift_state[c], mouse_buttons[c],
                sum, now)
      BY <2>8, <3>1 DEF HandsInv, Led
    <3>. HIDE DEF now, sum
    <3>3. CASE c = d
      <4>1. Chain(q, events[c], FALSE, draining.id, shift_state[c], mouse_buttons[c], sum, now)
        BY <3>2, <3>3 DEF q
      <4>2. Chain(p, events[c], TRUE, o, shift_state[c], mouse_buttons[c], sum, now)
        BY <2>5, <4>1, PopChain
      <4>3. Chain(queue'[c], events'[c], Handling(c)', draining'.id, shift_state'[c],
                  mouse_buttons'[c], sum, now)
        BY <1>1, <2>2, <2>3, <3>3, <4>2
      <4>. QED
        BY <1>1, <4>3 DEF Led, now, sum
    <3>4. CASE c # d
      <4>1. Chain(queue[c], events[c], FALSE, draining'.id, shift_state[c], mouse_buttons[c],
                  sum, now)
        BY <3>2, SameChain
      <4>2. Chain(queue'[c], events'[c], Handling(c)', draining'.id, shift_state'[c],
                  mouse_buttons'[c], sum, now)
        BY <1>1, <2>2, <2>3, <3>4, <4>1
      <4>. QED
        BY <1>1, <4>2 DEF Led, now, sum
    <3>. QED
      BY <3>3, <3>4
  <2>. QED
    BY <1>1, <1>2, <2>7, <2>8 DEF Kept
<1>. QED
  BY <1>4, <1>5 DEF DrainPop

LEMMA RecycleHands ==
  ASSUME HandsInv, NEW d \in Devices, Recycle(d)
  PROVE  Typed' /\ Kept' /\ (~lost' => \A c \in Devices : Led(c)')
<1>. DEFINE q  == queue[d]
            id == draining.id
            p  == PublishIdx(WriteRing(q, id), id)
<1>1. /\ UNCHANGED <<seen, events, shift_state, mouse_buttons, motion, held, moved, told, lost>>
      /\ draining.dev = d /\ draining.stage = "recycle"
      /\ draining' = [draining EXCEPT !.stage = "pop"]
      /\ queue' = [queue EXCEPT ![d] = p]
  BY DEF Recycle, state, hands
<1>2. Typed'
  BY <1>1 DEF HandsInv, Typed
<1>3. draining'.dev = d /\ draining'.stage = "pop" /\ draining'.id = id
  BY <1>1 DEF HandsInv, Inv, QueuesInv
<1>4. /\ Holding(d) = TRUE /\ \A c \in Devices \ {d} : Holding(c) = FALSE
      /\ \A c \in Devices : Handling(c) = FALSE /\ Handling(c)' = FALSE /\ Holding(c)' = FALSE
  BY <1>1, <1>3 DEF Holding, Handling
<1>5. queue \in [Devices -> QueueSet]
  BY DEF HandsInv, Inv, QueuesInv
<1>6. queue'[d] = p /\ \A c \in Devices \ {d} : queue'[c] = queue[c]
  BY <1>1, <1>5
<1>7. Buffers(q, seen[d], TRUE, id)
  BY <1>4 DEF HandsInv, Kept
<1>. HIDE DEF q, id
<1>8. /\ Buffers(p, seen[d], FALSE, id)
      /\ p.used = q.used /\ p.used_idx = q.used_idx /\ p.used_pub = q.used_pub
  BY <1>7, RecycleIs
<1>. HIDE DEF p
<1>9. ASSUME NEW c \in Devices
      PROVE  Buffers(queue'[c], seen'[c], Holding(c)', draining'.id)
  <2>1. CASE c = d
    BY <1>1, <1>3, <1>4, <1>6, <1>8, <2>1
  <2>2. CASE c # d
    <3>1. Buffers(queue[c], seen[c], FALSE, draining.id)
      BY <1>4, <2>2 DEF HandsInv, Kept
    <3>. QED
      BY <1>1, <1>3, <1>4, <1>6, <2>2, <3>1 DEF id
  <2>. QED
    BY <2>1, <2>2
<1>10. ASSUME ~lost, NEW c \in Devices PROVE Led(c)'
  <2>. DEFINE now == [held |-> held[c], moved |-> moved[c]]
              sum == told[c] + motion[c]
  <2>1. Chain(queue[c], events[c], FALSE, draining.id, shift_state[c], mouse_buttons[c],
              sum, now)
    BY <1>4, <1>10 DEF HandsInv, Led
  <2>. HIDE DEF now, sum
  <2>2. /\ queue'[c].used = queue[c].used /\ queue'[c].used_idx = queue[c].used_idx
        /\ queue'[c].used_pub = queue[c].used_pub
    BY <1>6, <1>8 DEF q
  <2>3. Chain(queue'[c], events[c], FALSE, draining'.id, shift_state[c], mouse_buttons[c],
              sum, now)
    BY <2>1, <2>2, SameChain
  <2>. QED
    BY <1>1, <1>4, <2>3 DEF Led, now, sum
<1>. QED
  BY <1>1, <1>2, <1>9, <1>10 DEF Kept

(* Handling an event takes it into the driver's state of its device, ...    *)
LEMMA ShiftLearned ==
  ASSUME NEW z, NEW shift, NEW buttons, NEW motions,
         z.kind = "key" /\ z.code \in ShiftKeys
  PROVE  Learns(z, shift, buttons, motions,
                IF z.value # 0 THEN SetBit(shift, ShiftBit(z.code))
                               ELSE ClearBit(shift, ShiftBit(z.code)), buttons, motions)
<1>. DEFINE s == IF z.value # 0 THEN SetBit(shift, ShiftBit(z.code))
                                ELSE ClearBit(shift, ShiftBit(z.code))
<1>. SUFFICES ASSUME NEW x \in Hands, NEW y \in Hands, Follows(x, z, y),
                     Agrees(shift, buttons, motions, x)
              PROVE  Agrees(s, buttons, motions, y)
  BY DEF Learns
<1>1. Held(z) /\ z.kind # "rel"
  BY DEF Held
<1>2. /\ y.moved = x.moved
      /\ y.held = IF z.value # 0 THEN x.held \cup {z.code} ELSE x.held \ {z.code}
  BY <1>1 DEF Follows, After
<1>3. y.held \ ShiftKeys = x.held \ ShiftKeys
  BY <1>2
<1>4. ASSUME LeftShiftOnly
      PROVE  s = IF KEY_LEFT_SHIFT \in y.held THEN 1 ELSE 0
  <2>1. PICK e \in Inputs : Held(e) /\ z.code = e.code
    BY <1>1 DEF Follows, HeldCodes
  <2>2. e.kind = "key"
    BY <2>1, InputAssumption DEF Held, ShiftKeys, KEY_LEFT_SHIFT, KEY_RIGHT_SHIFT
  <2>3. z.code = KEY_LEFT_SHIFT
    BY <1>4, <2>1, <2>2 DEF LeftShiftOnly, ShiftKeys
  <2>4. ShiftBit(z.code) = 1
    <3>1. 2 ^ 0 = 1
      OBVIOUS
    <3>2. z.code - KEY_LEFT_SHIFT = 0 /\ 1 % 256 = 1
      BY <2>3 DEF KEY_LEFT_SHIFT
    <3>3. ShiftBit(z.code) = (2 ^ (z.code - KEY_LEFT_SHIFT)) % 256
      BY ONLY DEF ShiftBit
    <3>. QED
      BY ONLY <3>1, <3>2, <3>3, Zenon
  <2>5. shift = IF KEY_LEFT_SHIFT \in x.held THEN 1 ELSE 0
    BY <1>4 DEF Agrees
  <2>6. HasBit(shift, 1) <=> shift = 1
    BY <2>5 DEF HasBit
  <2>7. SetBit(shift, 1) = 1 /\ ClearBit(shift, 1) = 0
    BY <2>5, <2>6 DEF SetBit, ClearBit
  <2>. QED
    BY <1>2, <2>3, <2>4, <2>7
<1>. QED
  BY <1>2, <1>3, <1>4 DEF Agrees

LEMMA ButtonLearned ==
  ASSUME NEW z, NEW shift, NEW buttons, NEW motions, z.kind = "button"
  PROVE  Learns(z, shift, buttons, motions, shift,
                IF z.value # 0 THEN buttons \cup {z.code} ELSE buttons \ {z.code}, motions)
<1>. DEFINE b == IF z.value # 0 THEN buttons \cup {z.code} ELSE buttons \ {z.code}
<1>. SUFFICES ASSUME NEW x \in Hands, NEW y \in Hands, Follows(x, z, y),
                     Agrees(shift, buttons, motions, x)
              PROVE  Agrees(shift, b, motions, y)
  BY DEF Learns
<1>1. Held(z) /\ z.kind # "rel"
  BY DEF Held
<1>2. /\ y.moved = x.moved
      /\ y.held = IF z.value # 0 THEN x.held \cup {z.code} ELSE x.held \ {z.code}
  BY <1>1 DEF Follows, After
<1>3. z.code \notin ShiftKeys
  <2>1. z.code >= 256
    BY DEF Follows
  <2>2. ~(42 >= 256) /\ ~(54 >= 256)
    OBVIOUS
  <2>. QED
    BY <2>1, <2>2 DEF ShiftKeys, KEY_LEFT_SHIFT, KEY_RIGHT_SHIFT
<1>4. KEY_LEFT_SHIFT \in y.held <=> KEY_LEFT_SHIFT \in x.held
  BY <1>2, <1>3 DEF ShiftKeys
<1>5. buttons = x.held \ ShiftKeys
  BY DEF Agrees
<1>6. b = y.held \ ShiftKeys
  BY <1>2, <1>3, <1>5
<1>. QED
  BY <1>2, <1>4, <1>6 DEF Agrees

LEMMA RelLearned ==
  ASSUME NEW z, NEW shift, NEW buttons, NEW motions, z.kind = "rel"
  PROVE  Learns(z, shift, buttons, motions, shift, buttons, motions + z.value)
<1>. SUFFICES ASSUME NEW x \in Hands, NEW y \in Hands, Follows(x, z, y),
                     Agrees(shift, buttons, motions, x)
              PROVE  Agrees(shift, buttons, motions + z.value, y)
  BY DEF Learns
<1>1. ~Held(z)
  BY DEF Held
<1>2. y.held = x.held /\ y.moved = x.moved + z.value
  BY <1>1 DEF Follows, After
<1>. QED
  BY <1>2 DEF Agrees

LEMMA RestLearned ==
  ASSUME NEW z, NEW shift, NEW buttons, NEW motions, ~Held(z), z.kind # "rel"
  PROVE  Learns(z, shift, buttons, motions, shift, buttons, motions)
<1>. SUFFICES ASSUME NEW x \in Hands, NEW y \in Hands, Follows(x, z, y),
                     Agrees(shift, buttons, motions, x)
              PROVE  Agrees(shift, buttons, motions, y)
  BY DEF Learns
<1>1. y.held = x.held /\ y.moved = x.moved
  BY DEF Follows, After
<1>. QED
  BY <1>1 DEF Agrees

(* ... and of no other.                                                     *)
LEMMA HandleLearns ==
  ASSUME Inv, Typed, NEW d \in Devices, Handle(d)
  PROVE  /\ Typed'
         /\ Learns(events[d][draining.id], shift_state[d], mouse_buttons[d],
                   told[d] + motion[d], shift_state'[d], mouse_buttons'[d],
                   told'[d] + motion'[d])
         /\ \A c \in Devices \ {d} : /\ shift_state'[c] = shift_state[c]
                                     /\ mouse_buttons'[c] = mouse_buttons[c]
                                     /\ motion'[c] = motion[c]
<1>. DEFINE z == events[d][draining.id]
            s == shift_state[d]
            b == mouse_buttons[d]
            m == told[d] + motion[d]
<1>0. UNCHANGED <<held, moved, told>>
  BY DEF Handle, hands
<1>1. z \in EventSet
  BY DEF Inv, QueuesInv
<1>. HIDE DEF z
<1>2. CASE HandleShift(d, z)
  <2>1. /\ z.kind = "key" /\ z.code \in ShiftKeys
        /\ shift_state' = [shift_state EXCEPT
             ![d] = IF z.value # 0 THEN SetBit(@, ShiftBit(z.code))
                                   ELSE ClearBit(@, ShiftBit(z.code))]
        /\ UNCHANGED <<mouse_buttons, motion>>
    BY <1>2 DEF HandleShift
  <2>2. shift_state'[d] = IF z.value # 0 THEN SetBit(s, ShiftBit(z.code))
                                         ELSE ClearBit(s, ShiftBit(z.code))
    BY <2>1 DEF Typed
  <2>3. Learns(z, s, b, m, shift_state'[d], b, m)
    <3>. HIDE DEF s, b, m
    <3>1. Learns(z, s, b, m, IF z.value # 0 THEN SetBit(s, ShiftBit(z.code))
                                            ELSE ClearBit(s, ShiftBit(z.code)), b, m)
      BY <2>1, ShiftLearned
    <3>. QED
      BY <2>2, <3>1
  <2>4. Typed'
    BY <1>0, <2>1 DEF Typed
  <2>5. \A c \in Devices \ {d} : shift_state'[c] = shift_state[c]
    BY <2>1 DEF Typed
  <2>. QED
    BY <1>0, <2>1, <2>3, <2>4, <2>5 DEF z
<1>3. CASE HandleKey(d, z) \/ HandleRest(z)
  <2>1. UNCHANGED <<shift_state, mouse_buttons, motion>>
    BY <1>3 DEF HandleKey, HandleRest, state
  <2>2. ~Held(z) /\ z.kind # "rel"
    BY <1>3 DEF HandleKey, HandleRest, Held
  <2>3. Learns(z, s, b, m, s, b, m)
    <3>. HIDE DEF s, b, m
    <3>. QED
      BY <2>2, RestLearned
  <2>. QED
    BY <1>0, <2>1, <2>3 DEF z, Typed
<1>4. CASE HandleButton(d, z)
  <2>1. /\ z.kind = "button"
        /\ mouse_buttons' = [mouse_buttons EXCEPT
             ![d] = IF z.value # 0 THEN @ \cup {z.code} ELSE @ \ {z.code}]
        /\ UNCHANGED <<shift_state, motion>>
    BY <1>4 DEF HandleButton
  <2>2. mouse_buttons'[d] = IF z.value # 0 THEN b \cup {z.code} ELSE b \ {z.code}
    BY <2>1 DEF Typed
  <2>3. Learns(z, s, b, m, s, mouse_buttons'[d], m)
    <3>. HIDE DEF s, b, m
    <3>1. Learns(z, s, b, m, s, IF z.value # 0 THEN b \cup {z.code} ELSE b \ {z.code}, m)
      BY <2>1, ButtonLearned
    <3>. QED
      BY <2>2, <3>1
  <2>4. Typed'
    BY <1>0, <2>1 DEF Typed
  <2>5. \A c \in Devices \ {d} : mouse_buttons'[c] = mouse_buttons[c]
    BY <2>1 DEF Typed
  <2>. QED
    BY <1>0, <2>1, <2>3, <2>4, <2>5 DEF z
<1>5. CASE HandleRel(d, z)
  <2>1. /\ z.kind = "rel"
        /\ motion' = [motion EXCEPT ![d] = @ + z.value]
        /\ UNCHANGED <<shift_state, mouse_buttons>>
    BY <1>5 DEF HandleRel
  <2>2. z.value \in Int /\ motion[d] \in Int /\ told[d] \in Int
    BY <1>1 DEF EventSet, Typed
  <2>3. motion'[d] = motion[d] + z.value
    BY <2>1 DEF Typed
  <2>4. told[d] + motion'[d] = m + z.value
    BY <2>2, <2>3
  <2>5. Learns(z, s, b, m, s, b, told[d] + motion'[d])
    <3>. HIDE DEF s, b, m
    <3>1. Learns(z, s, b, m, s, b, m + z.value)
      BY <2>1, RelLearned
    <3>. QED
      BY <2>4, <3>1
  <2>6. Typed'
    BY <1>0, <2>1, <2>2 DEF Typed
  <2>7. \A c \in Devices \ {d} : motion'[c] = motion[c]
    BY <2>1 DEF Typed
  <2>. QED
    BY <1>0, <2>1, <2>5, <2>6, <2>7 DEF z
<1>. QED
  BY <1>2, <1>3, <1>4, <1>5 DEF Handle, z

LEMMA HandleHands ==
  ASSUME HandsInv, NEW d \in Devices, Handle(d)
  PROVE  Typed' /\ Kept' /\ (~lost' => \A c \in Devices : Led(c)')
<1>1. /\ UNCHANGED <<queue, seen, events, held, moved, told, lost>>
      /\ draining.dev = d /\ draining.stage = "handle"
      /\ draining' = [draining EXCEPT !.stage = "recycle"]
  BY DEF Handle, hands
<1>2. draining'.dev = d /\ draining'.stage = "recycle" /\ draining'.id = draining.id
  BY <1>1 DEF HandsInv, Inv, QueuesInv
<1>3. /\ Holding(d) = TRUE /\ Handling(d) = TRUE /\ Handling(d)' = FALSE
      /\ \A c \in Devices : Holding(c)' = Holding(c)
      /\ \A c \in Devices \ {d} : Handling(c) = FALSE /\ Handling(c)' = FALSE
  BY <1>1, <1>2 DEF Holding, Handling
<1>4. /\ Typed'
      /\ Learns(events[d][draining.id], shift_state[d], mouse_buttons[d],
                told[d] + motion[d], shift_state'[d], mouse_buttons'[d],
                told'[d] + motion'[d])
      /\ \A c \in Devices \ {d} : /\ shift_state'[c] = shift_state[c]
                                  /\ mouse_buttons'[c] = mouse_buttons[c]
                                  /\ motion'[c] = motion[c]
  BY HandleLearns DEF HandsInv
<1>5. Kept'
  BY <1>1, <1>2, <1>3 DEF HandsInv, Kept
<1>6. ASSUME ~lost, NEW c \in Devices PROVE Led(c)'
  <2>1. CASE c # d
    <3>. DEFINE now == [held |-> held[c], moved |-> moved[c]]
                sum == told[c] + motion[c]
    <3>1. Chain(queue[c], events[c], Handling(c), draining.id, shift_state[c],
                mouse_buttons[c], sum, now)
      BY <1>6 DEF HandsInv, Led
    <3>2. told'[c] + motion'[c] = sum /\ Handling(c)' = Handling(c)
      BY <1>1, <1>3, <1>4, <2>1
    <3>. HIDE DEF now, sum
    <3>3. Chain(queue'[c], events'[c], Handling(c)', draining'.id, shift_state'[c],
                mouse_buttons'[c], told'[c] + motion'[c], now)
      BY <1>1, <1>2, <1>4, <2>1, <3>1, <3>2
    <3>. QED
      BY <1>1, <3>3 DEF Led, now
  <2>2. CASE c = d
    <3>. DEFINE now == [held |-> held[d], moved |-> moved[d]]
                sum == told[d] + motion[d]
                sum2 == told'[d] + motion'[d]
                ev == events[d]
                id == draining.id
    <3>1. Chain(queue[d], ev, TRUE, id, shift_state[d], mouse_buttons[d], sum, now)
      BY <1>3, <1>6 DEF HandsInv, Led
    <3>2. Buffers(queue[d], seen[d], TRUE, id)
      BY <1>3 DEF HandsInv, Kept
    <3>3. Learns(ev[id], shift_state[d], mouse_buttons[d], sum,
                 shift_state'[d], mouse_buttons'[d], sum2)
      BY <1>4
    <3>. HIDE DEF now, sum, sum2, ev, id
    <3>4. Chain(queue[d], ev, FALSE, id, shift_state'[d], mouse_buttons'[d], sum2, now)
      BY <3>1, <3>2, <3>3, HandleChain
    <3>5. Chain(queue'[d], events'[d], Handling(d)', draining'.id, shift_state'[d],
                mouse_buttons'[d], sum2, now)
      BY <1>1, <1>2, <1>3, <3>4 DEF ev, id
    <3>. QED
      BY <1>1, <2>2, <3>5 DEF Led, now, sum2
  <2>. QED
    BY <2>1, <2>2
<1>. QED
  BY <1>1, <1>4, <1>5, <1>6

LEMMA DeltaHands ==
  ASSUME HandsInv, GetDelta
  PROVE  Typed' /\ Kept' /\ (~lost' => \A c \in Devices : Led(c)')
<1>1. /\ UNCHANGED <<queue, seen, events, shift_state, mouse_buttons, draining, held, moved, lost>>
      /\ told' = [d \in Devices |-> told[d] + motion[d]]
      /\ motion' = [d \in Devices |-> 0]
  BY DEF GetDelta, hands
<1>2. Typed'
  BY <1>1 DEF HandsInv, Typed
<1>3. \A d \in Devices : told'[d] + motion'[d] = told[d] + motion[d]
  BY <1>1 DEF HandsInv, Typed
<1>4. Kept'
  BY <1>1 DEF HandsInv, Kept, Holding
<1>5. ASSUME ~lost, NEW c \in Devices PROVE Led(c)'
  <2>. DEFINE now == [held |-> held[c], moved |-> moved[c]]
              sum == told[c] + motion[c]
  <2>1. Handling(c)' = Handling(c)
    BY <1>1 DEF Handling
  <2>2. told'[c] + motion'[c] = sum
    BY <1>3
  <2>3. Chain(queue[c], events[c], Handling(c), draining.id, shift_state[c],
              mouse_buttons[c], sum, now)
    BY <1>5 DEF HandsInv, Led
  <2>. HIDE DEF sum, now
  <2>4. Chain(queue'[c], events'[c], Handling(c)', draining'.id, shift_state'[c],
              mouse_buttons'[c], told'[c] + motion'[c], now)
    BY <1>1, <2>1, <2>2, <2>3
  <2>. QED
    BY <1>1, <2>4 DEF Led, now
<1>. QED
  BY <1>1, <1>2, <1>4, <1>5

LEMMA SameHands ==
  ASSUME HandsInv,
         UNCHANGED <<queue, seen, events, shift_state, mouse_buttons, motion, draining,
                     held, moved, told, lost>>
  PROVE  Typed' /\ Kept' /\ (~lost' => \A c \in Devices : Led(c)')
  BY DEF HandsInv, Typed, Kept, Holding, Handling, Led

(* All of a new queue's buffers are offered, each once.                     *)
LEMMA InitHands == Init => HandsInv
<1>. SUFFICES ASSUME Init PROVE HandsInv
  OBVIOUS
<1>1. Inv
  BY InitInv
<1>2. Typed
  BY DEF Init, Typed
<1>. DEFINE q == Seeded(QueueSize)
<1>3. /\ q.used_idx = 0 /\ q.used_pub = 0 /\ q.avail_pub = QueueSize
      /\ q.avail_idx = QueueSize /\ q.avail = [i \in Slots |-> i]
  BY DEF Seeded, Slots
<1>4. q \in QueueSet
  <2>1. Slots \subseteq Int /\ 0 \in Slots /\ Slots = 0 .. QueueSize - 1
    BY SizeType DEF Slots
  <2>. QED
    BY <2>1, SizeType DEF Seeded, QueueSet
<1>. HIDE DEF q
<1>5. 0 \in Idxs /\ QueueSize \in Idxs
  BY IndexSizes DEF Idxs
<1>6. Indexed(q, 0)
  BY <1>3, <1>4, <1>5 DEF Indexed
<1>7. UsedCount(q) = 0 /\ AvailCount(q, 0) = QueueSize
  <2>1. UsedCount(q) = 0
    BY <1>3, <1>6, Counts
  <2>2. Between(0, QueueSize) = QueueSize - 0
    BY <1>5, IndexSizes, BetweenType
  <2>. QED
    BY <1>3, <2>1, <2>2, IndexSizes DEF AvailCount
<1>8. ASSUME NEW k \in 0 .. (QueueSize - 1) PROVE Avail(q, 0, k) = k
  <2>1. k \in Nat /\ k < QueueSize /\ k < IdxMod
    BY IndexSizes
  <2>2. Pos(0, k) = k
    <3>1. k % IdxMod = k /\ k % QueueSize = k
      BY <2>1, IndexSizes, ModSmall
    <3>. QED
      BY <2>1, <3>1 DEF Pos
  <2>. QED
    BY <1>3, <2>2 DEF Avail, Slots
<1>9. Apart(q, 0, FALSE, 0)
  <2>1. UsedCount(q) + AvailCount(q, 0) + 0 <= QueueSize
    BY <1>7, IndexSizes
  <2>2. 0 .. (UsedCount(q) - 1) = {}
    BY <1>7
  <2>3. \A j, k \in 0 .. (AvailCount(q, 0) - 1) : Avail(q, 0, j) = Avail(q, 0, k) => j = k
    BY <1>7, <1>8
  <2>. QED
    BY <2>1, <2>2, <2>3 DEF Apart
<1>10. /\ draining.id = 0
       /\ \A d \in Devices : /\ Holding(d) = FALSE /\ Handling(d) = FALSE
                             /\ queue[d] = q /\ seen[d] = 0
  BY DEF Init, NoDrain, Holding, Handling, q
<1>11. Kept
  BY <1>6, <1>9, <1>10 DEF Kept, Buffers
<1>12. ASSUME NEW d \in Devices PROVE Led(d)
  <2>. DEFINE x == [held |-> {}, moved |-> 0]
              h == [k \in Nat |-> x]
  <2>1. /\ shift_state[d] = 0 /\ mouse_buttons[d] = {} /\ told[d] + motion[d] = 0
        /\ [held |-> held[d], moved |-> moved[d]] = x
    BY DEF Init
  <2>2. x \in Hands /\ x.held = {} /\ x.moved = 0
    BY DEF Hands
  <2>3. Agrees(0, {}, 0, x)
    BY <2>2 DEF Agrees
  <2>4. Length(q, FALSE) = 0
    BY <1>7 DEF Length
  <2>. HIDE DEF x
  <2>5. h \in [Nat -> Hands] /\ h[0] = x
    BY <2>2
  <2>. DEFINE len == Length(q, FALSE)
  <2>. HIDE DEF h
  <2>6. len = 0
    BY <2>4
  <2>7. Path(q, events[d], FALSE, 0, h)
    <3>1. \A k \in 0 .. (len - 1) :
            Follows(h[k], events[d][Buf(q, FALSE, 0, k)], h[k + 1])
      <4>. HIDE DEF len
      <4>1. 0 .. (len - 1) = {}
        BY <2>6
      <4>. QED
        BY <4>1
    <3>. QED
      BY <3>1 DEF Path
  <2>8. Chain(q, events[d], FALSE, 0, 0, {}, 0, x)
    BY <2>3, <2>4, <2>5, <2>7 DEF Chain
  <2>. QED
    BY <1>10, <2>1, <2>8 DEF Led
<1>. QED
  BY <1>1, <1>2, <1>11, <1>12 DEF HandsInv

LEMMA NextHands == HandsInv /\ [Next]_vars => HandsInv'
<1>. SUFFICES ASSUME HandsInv, [Next]_vars PROVE HandsInv'
  OBVIOUS
<1>0. Inv'
  BY NextInv DEF HandsInv
<1>1. CASE \E e \in Inputs : Emit(e.dev, e)
  BY <1>0, <1>1, EmitHands DEF HandsInv
<1>2. CASE \E d \in Devices : Drain(d)
  BY <1>0, <1>2, PopHands, HandleHands, RecycleHands DEF Drain, HandsInv
<1>3. CASE ReadChar
  <2>1. UNCHANGED <<queue, seen, events, shift_state, mouse_buttons, motion, draining,
                    held, moved, told, lost>>
    BY <1>3 DEF ReadChar, state, hands
  <2>. QED
    BY <1>0, <2>1, SameHands DEF HandsInv
<1>4. CASE GetDelta
  BY <1>0, <1>4, DeltaHands DEF HandsInv
<1>5. CASE UNCHANGED vars
  <2>1. UNCHANGED <<queue, seen, events, shift_state, mouse_buttons, motion, draining,
                    held, moved, told, lost>>
    BY <1>5 DEF vars, state, hands
  <2>. QED
    BY <1>0, <2>1, SameHands DEF HandsInv
<1>. QED
  BY <1>1, <1>2, <1>3, <1>4, <1>5 DEF Next

LEMMA HandsCase ==
  ASSUME HandsInv, LeftShiftOnly
  PROVE  CaseAsTyped
<1>. SUFFICES ASSUME NEW d \in Devices, ~lost, draining.dev = d, draining.stage = "handle"
              PROVE  shift_state[d] # 0 <=> events[d][draining.id].shifted
  BY DEF CaseAsTyped
<1>. DEFINE q   == queue[d]
            ev  == events[d]
            id  == draining.id
            now == [held |-> held[d], moved |-> moved[d]]
            len == Length(q, TRUE)
<1>1. Handling(d) = TRUE
  BY DEF Handling
<1>2. Chain(q, ev, TRUE, id, shift_state[d], mouse_buttons[d], told[d] + motion[d], now)
  BY <1>1 DEF HandsInv, Led
<1>3. PICK h \in [Nat -> Hands] :
        /\ Agrees(shift_state[d], mouse_buttons[d], told[d] + motion[d], h[0])
        /\ Path(q, ev, TRUE, id, h)
  BY <1>2 DEF Chain
<1>4. \A k \in 0 .. (len - 1) : Follows(h[k], ev[Buf(q, TRUE, id, k)], h[k + 1])
  BY <1>3 DEF Path
<1>5. len \in Nat /\ len >= 1
  <2>1. UsedCount(q) \in Nat
    BY Counts DEF HandsInv, Kept, Buffers
  <2>2. len = UsedCount(q) + 1
    BY DEF Length
  <2>. HIDE DEF len
  <2>. QED
    BY <2>1, <2>2
<1>. HIDE DEF len
<1>6. 0 \in 0 .. (len - 1)
  BY <1>5
<1>7. Follows(h[0], ev[id], h[0 + 1])
  BY <1>4, <1>6 DEF Buf
<1>8. ev[id].shifted <=> h[0].held \cap ShiftKeys # {}
  BY <1>7 DEF Follows
<1>9. KEY_RIGHT_SHIFT \notin h[0].held
  <2>1. h[0].held \in SUBSET HeldCodes
    BY <1>3 DEF Hands
  <2>2. KEY_RIGHT_SHIFT \notin HeldCodes
    <3>. SUFFICES ASSUME NEW e \in Inputs, Held(e), e.code = KEY_RIGHT_SHIFT PROVE FALSE
      BY DEF HeldCodes
    <3>1. e.kind = "button"
      BY DEF LeftShiftOnly, Held
    <3>2. e.code >= 256
      BY <3>1, InputAssumption
    <3>. QED
      BY <3>2 DEF KEY_RIGHT_SHIFT
  <2>. QED
    BY <2>1, <2>2
<1>10. shift_state[d] = IF KEY_LEFT_SHIFT \in h[0].held THEN 1 ELSE 0
  BY <1>3 DEF Agrees
<1>11. shift_state[d] # 0 <=> KEY_LEFT_SHIFT \in h[0].held
  BY <1>10
<1>12. h[0].held \cap ShiftKeys # {} <=> KEY_LEFT_SHIFT \in h[0].held
  BY <1>9 DEF ShiftKeys
<1>. QED
  BY <1>8, <1>11, <1>12

LEMMA HandsPointer ==
  ASSUME HandsInv
  PROVE  PointerExact
<1>. SUFFICES ASSUME NEW d \in Devices, ~lost, Pending(d) = {}
              PROVE  /\ mouse_buttons[d] = held[d] \ ShiftKeys
                     /\ moved[d] = told[d] + motion[d]
  BY DEF PointerExact
<1>. DEFINE q   == queue[d]
            ev  == events[d]
            id  == draining.id
            now == [held |-> held[d], moved |-> moved[d]]
            n   == UsedCount(q)
<1>1. Handling(d) = FALSE
  BY DEF Pending, Handling
<1>2. n \in Nat
  BY Counts DEF HandsInv, Kept, Buffers
<1>3. n = 0
  <2>1. UsedIds(q) = {}
    BY DEF Pending
  <2>2. \A k \in 0 .. (n - 1) :
          q.used[((q.used_idx + k) % IdxMod) % q.queue_size] \in UsedIds(q)
    BY DEF UsedIds, UsedCount
  <2>. HIDE DEF n
  <2>3. 0 \in 0 .. (n - 1) \/ n = 0
    BY <1>2
  <2>. QED
    BY <2>1, <2>2, <2>3
<1>4. Chain(q, ev, FALSE, id, shift_state[d], mouse_buttons[d], told[d] + motion[d], now)
  BY <1>1 DEF HandsInv, Led
<1>5. PICK h \in [Nat -> Hands] :
        /\ Agrees(shift_state[d], mouse_buttons[d], told[d] + motion[d], h[0])
        /\ h[Length(q, FALSE)] = now
  BY <1>4 DEF Chain
<1>6. Length(q, FALSE) = 0
  BY <1>3 DEF Length
<1>7. h[0] = now
  BY <1>5, <1>6
<1>. QED
  BY <1>5, <1>7 DEF Agrees

(* "Track shift modifier state" (virtio_input.c:261): on a keyboard whose    *)
(* only shift key is the left one, every key press is handled with shift as *)
(* it was when the key was pressed, however many events wait before it and  *)
(* however drains, new events and reads interleave.                         *)
THEOREM CaseCorrect ==
  ASSUME LeftShiftOnly
  PROVE  Spec => []CaseAsTyped
<1>1. HandsInv => CaseAsTyped
  BY HandsCase
<1>. QED
  BY <1>1, InitHands, NextHands, PTL DEF Spec

(* virtio_mouse_get_delta loses no motion, tells none twice, and the button *)
(* masks are the buttons held, once a device's events have been handled.    *)
THEOREM PointerCorrect == Spec => []PointerExact
<1>1. HandsInv => PointerExact
  BY HandsPointer
<1>. QED
  BY <1>1, InitHands, NextHands, PTL DEF Spec
=============================================================================
