---------------------------- MODULE VirtioInput ----------------------------
(***************************************************************************)
(* The keyboard and mouse driver,                                          *)
(* src/kernel/drivers/virtio/virtio_input.c: events the devices write are   *)
(* drained into a ring of characters shared by all keyboards and into       *)
(* motion totals and button masks of each device, which the main loop reads.*)
(*                                                                         *)
(* virtio_input_irq (behind an interrupt gate) and virtio_input_poll (cli   *)
(* to sti for each device) both drain one device with interrupts masked, so *)
(* drains never overlap and it does not matter which of the two began one.  *)
(* virtio_keyboard_read_char and virtio_mouse_get_delta mask interrupts from *)
(* end to end and touch nothing a device does: each is one step.            *)
(***************************************************************************)
EXTENDS Integers, Sequences, VirtQueue

CONSTANTS
  Devices,     \* initialised devices
  QueueSize,   \* event buffers of a device (VIRTIO_INPUT_MAX_QUEUE)
  RingSize,    \* VKEY_BUF_SIZE
  Inputs,      \* what may be done: [dev, kind, code, value]
  MaxInputs    \* bound: inputs in a behaviour

KEY_LEFT_SHIFT  == 42
KEY_RIGHT_SHIFT == 54
ShiftKeys       == {KEY_LEFT_SHIFT, KEY_RIGHT_SHIFT}

Kinds == {"key", "button", "rel", "short", "other"}

ASSUME InputAssumption ==
  /\ QueueSize \in Nat \ {0, 1} /\ RingSize \in Nat \ {0, 1}
  /\ IdxMod > QueueSize /\ IdxMod % QueueSize = 0
  /\ MaxInputs \in Nat
  /\ \A e \in Inputs : /\ e.dev \in Devices /\ e.kind \in Kinds
                       /\ e.code \in Nat /\ e.value \in Int
                       /\ e.kind = "button" => e.code >= 256

VARIABLES
  queue, seen,     \* each device's event queue, how far the device has read it
  events,          \* the event in each buffer of each device
  shift_state, mouse_buttons, motion,    \* of each device
  vkey_buf, vkey_head, vkey_tail,        \* the character ring
  draining,        \* the device being drained, its stage and descriptor
  held,            \* each device's shift keys and buttons physically down
  moved, told,     \* each device's motion made, and reported (history)
  inputs, lost,    \* inputs so far; whether one found no buffer (history)
  refused          \* keystrokes that found the ring full (history)

ring    == <<vkey_buf, vkey_head, vkey_tail, refused>>
state   == <<shift_state, mouse_buttons, motion>>
hands   == <<held, moved, inputs, lost>>
vars    == <<queue, seen, events, state, ring, draining, hands, told>>

Slots == 0 .. (QueueSize - 1)
NoDrain == [dev |-> "none", stage |-> "idle", id |-> 0]

\* keycode_to_char: modifiers and the keys past the arrows give no character,
\* and Esc, Backspace, Tab, Enter, space and arrows the same one with shift.
Mapped(code)      == code \in (1 .. 57 \cup 103 .. 109) \ {29, 42, 54, 55, 56, 107}
SameShifted       == {1, 14, 15, 28, 57} \cup 103 .. 109
Char(code, shift) ==
  [code |-> code, shifted |-> shift # 0 /\ code \notin SameShifted]
NUL == [code |-> 0, shifted |-> FALSE]

-----------------------------------------------------------------------------
(* The devices.  An event is what the hand did; shifted is whether a shift  *)
(* key of that keyboard was down at the time, for the properties to compare. *)

Event(d, e) == [kind |-> e.kind, code |-> e.code, value |-> e.value,
                shifted |-> held[d] \cap ShiftKeys # {}]

Held(e) == e.kind = "button" \/ (e.kind = "key" /\ e.code \in ShiftKeys)
HeldAfter(d, e) ==
  IF ~Held(e) THEN held[d]
  ELSE IF e.value # 0 THEN held[d] \cup {e.code} ELSE held[d] \ {e.code}

\* A device without a free buffer loses the event.
Emit(d, e) ==
  /\ inputs < MaxInputs
  /\ Held(e) => (e.value = 1 <=> e.code \notin held[d])
  /\ inputs' = inputs + 1
  /\ held' = [held EXCEPT ![d] = HeldAfter(d, e)]
  /\ moved' = IF e.kind = "rel" THEN [moved EXCEPT ![d] = @ + e.value] ELSE moved
  /\ \/ /\ Offered(queue[d], seen[d])
        /\ LET id == OfferedId(queue[d], seen[d])
           IN  /\ events' = [events EXCEPT ![d][id] = Event(d, e)]
               /\ queue' = [queue EXCEPT ![d] = PushUsed(@, id)]
        /\ seen' = [seen EXCEPT ![d] = Step(@)]
        /\ UNCHANGED lost
     \/ /\ ~Offered(queue[d], seen[d])
        /\ lost' = TRUE
        /\ UNCHANGED <<queue, seen, events>>
  /\ UNCHANGED <<state, ring, draining, told>>

-----------------------------------------------------------------------------
(* virtio_input_drain *)

\* The next used descriptor, or the end of the drain.
DrainPop(d) ==
  /\ draining = NoDrain \/ (draining.dev = d /\ draining.stage = "pop")
  /\ \/ /\ HasUsed(queue[d])
        /\ draining' = [dev |-> d, stage |-> "handle", id |-> UsedId(queue[d])]
        /\ queue' = [queue EXCEPT ![d] = PopUsed(@)]
     \/ /\ ~HasUsed(queue[d]) /\ draining # NoDrain
        /\ draining' = NoDrain
        /\ UNCHANGED queue
  /\ UNCHANGED <<seen, events, state, ring, hands, told>>

\* (uint8_t)(1u << (code - KEY_LEFT_SHIFT)), and setting or clearing it.
ShiftBit(code) == (2 ^ (code - KEY_LEFT_SHIFT)) % 256
HasBit(mask, bit)   == bit # 0 /\ (mask \div bit) % 2 = 1
SetBit(mask, bit)   == IF bit = 0 \/ HasBit(mask, bit) THEN mask ELSE mask + bit
\* Mutant: a release leaves the bit.
ClearBitNot(mask, bit) == mask
ClearBit(mask, bit) == IF HasBit(mask, bit) THEN mask - bit ELSE mask

Ahead(i) == (i + 1) % RingSize

\* Mutant: the ring is never full.
VkeyPushOver(c) ==
  /\ vkey_buf' = [vkey_buf EXCEPT ![vkey_head] = c]
  /\ vkey_head' = Ahead(vkey_head)
  /\ UNCHANGED <<vkey_tail, refused>>

\* vkey_push: a keystroke that finds the ring full is dropped.
VkeyPush(c) ==
  \/ /\ Ahead(vkey_head) = vkey_tail
     /\ refused' = refused + 1
     /\ UNCHANGED <<vkey_buf, vkey_head, vkey_tail>>
  \/ /\ Ahead(vkey_head) # vkey_tail
     /\ vkey_buf' = [vkey_buf EXCEPT ![vkey_head] = c]
     /\ vkey_head' = Ahead(vkey_head)
     /\ UNCHANGED <<vkey_tail, refused>>

HandleShift(d, e) ==
  /\ e.kind = "key" /\ e.code \in ShiftKeys
  /\ shift_state' = [shift_state EXCEPT
       ![d] = IF e.value # 0 THEN SetBit(@, ShiftBit(e.code))
                             ELSE ClearBit(@, ShiftBit(e.code))]
  /\ UNCHANGED <<mouse_buttons, motion, ring>>

\* Only the press itself (value 1) types; releases and autorepeat do not.
HandleKey(d, e) ==
  /\ e.kind = "key" /\ e.code \notin ShiftKeys
  /\ IF e.value = 1 /\ Mapped(e.code)
     THEN VkeyPush(Char(e.code, shift_state[d]))
     ELSE UNCHANGED ring
  /\ UNCHANGED state

\* The buttons of Inputs are those button_bit knows: it ignores others.
HandleButton(d, e) ==
  /\ e.kind = "button"
  /\ mouse_buttons' = [mouse_buttons EXCEPT
       ![d] = IF e.value # 0 THEN @ \cup {e.code} ELSE @ \ {e.code}]
  /\ UNCHANGED <<shift_state, motion, ring>>

\* Mutant: motion replaces the total.
HandleRelAssign(d, e) ==
  /\ e.kind = "rel"
  /\ motion' = [motion EXCEPT ![d] = e.value]
  /\ UNCHANGED <<shift_state, mouse_buttons, ring>>

HandleRel(d, e) ==
  /\ e.kind = "rel"
  /\ motion' = [motion EXCEPT ![d] = @ + e.value]
  /\ UNCHANGED <<shift_state, mouse_buttons, ring>>

\* Short and other events are only counted.
HandleRest(e) == e.kind \in {"short", "other"} /\ UNCHANGED <<state, ring>>

\* virtio_input_handle_event reads the event from the buffer itself.
Handle(d) ==
  /\ draining.dev = d /\ draining.stage = "handle"
  /\ draining' = [draining EXCEPT !.stage = "recycle"]
  /\ LET e == events[d][draining.id]
     IN  HandleShift(d, e) \/ HandleKey(d, e) \/ HandleButton(d, e)
         \/ HandleRel(d, e) \/ HandleRest(e)
  /\ UNCHANGED <<queue, seen, events, hands, told>>

Recycle(d) ==
  /\ draining.dev = d /\ draining.stage = "recycle"
  /\ draining' = [draining EXCEPT !.stage = "pop"]
  /\ queue' = [queue EXCEPT ![d] =
       PublishIdx(WriteRing(@, draining.id), draining.id)]
  /\ UNCHANGED <<seen, events, state, ring, hands, told>>

Drain(d) == DrainPop(d) \/ Handle(d) \/ Recycle(d)

-----------------------------------------------------------------------------
(* The main loop's side. *)

\* Mutant: the tail stays.
ReadCharStuck ==
  /\ draining = NoDrain
  /\ vkey_tail # vkey_head
  /\ UNCHANGED vars

\* virtio_keyboard_read_char
ReadChar ==
  /\ draining = NoDrain
  /\ vkey_tail # vkey_head
  /\ vkey_tail' = Ahead(vkey_tail)
  /\ UNCHANGED <<queue, seen, events, state, vkey_buf, vkey_head, refused,
                 draining, hands, told>>

\* virtio_mouse_get_delta: what it returns sums every device's motion.
GetDelta ==
  /\ draining = NoDrain
  /\ told' = [d \in Devices |-> told[d] + motion[d]]
  /\ motion' = [d \in Devices |-> 0]
  /\ UNCHANGED <<queue, seen, events, shift_state, mouse_buttons, ring,
                 draining, hands>>

-----------------------------------------------------------------------------
(* virtio_input_init. *)

NoEvent == [kind |-> "other", code |-> 0, value |-> 0, shifted |-> FALSE]

Init ==
  /\ queue = [d \in Devices |-> Seeded(QueueSize)]
  /\ seen = [d \in Devices |-> 0]
  /\ events = [d \in Devices |-> [i \in Slots |-> NoEvent]]
  /\ shift_state = [d \in Devices |-> 0]
  /\ mouse_buttons = [d \in Devices |-> {}] /\ motion = [d \in Devices |-> 0]
  /\ vkey_buf = [i \in 0 .. (RingSize - 1) |-> NUL]
  /\ vkey_head = 0 /\ vkey_tail = 0 /\ refused = 0
  /\ draining = NoDrain
  /\ held = [d \in Devices |-> {}] /\ inputs = 0 /\ lost = FALSE
  /\ moved = [d \in Devices |-> 0] /\ told = [d \in Devices |-> 0]

Next ==
  \/ \E e \in Inputs : Emit(e.dev, e)
  \/ \E d \in Devices : Drain(d)
  \/ ReadChar \/ GetDelta

(* desktop_poll polls every device, then reads the motion and every         *)
(* character, on each turn of the main loop.                                *)
Fairness ==
  /\ \A d \in Devices : SF_vars(Drain(d))
  /\ SF_vars(ReadChar) /\ SF_vars(GetDelta)

Spec == Init /\ [][Next]_vars /\ Fairness

-----------------------------------------------------------------------------
(* Types: ring indexes stay in the ring and a drain names a buffer.         *)
TypeOK ==
  /\ vkey_head \in 0 .. (RingSize - 1) /\ vkey_tail \in 0 .. (RingSize - 1)
  /\ seen \in [Devices -> 0 .. (IdxMod - 1)]
  /\ draining \in [dev : Devices \cup {"none"}, id : Slots,
                  stage : {"idle", "pop", "handle", "recycle"}]

\* Characters in the ring, oldest first.
Waiting ==
  [i \in 1 .. ((vkey_head - vkey_tail) % RingSize) |->
     vkey_buf[(vkey_tail + i - 1) % RingSize]]

(* The ring is a queue of RingSize - 1 characters: "Pops the oldest buffered *)
(* character" (virtio_input.h), and "full - drop the keystroke".             *)
Fifo == INSTANCE KeyFifo
  WITH Chars <- {Char(e.code, s) : e \in Inputs, s \in {0, 1}},
       Room <- RingSize - 1, waiting <- Waiting
ImplementsKeyFifo == Fifo!Spec

\* Events written by device d and not yet handled.
Pending(d) ==
  {events[d][i] : i \in UsedIds(queue[d]) \cup
                        IF draining.dev = d /\ draining.stage = "handle"
                        THEN {draining.id} ELSE {}}

(* "Track shift modifier state" (virtio_input.c:261): when a key press is    *)
(* handled, the driver thinks shift is down exactly if it was down when the *)
(* key was pressed, however late the event is handled.                      *)
CaseAsTyped ==
  \A d \in Devices :
    LET e == events[d][draining.id]
    IN  ~lost /\ draining.dev = d /\ draining.stage = "handle"
          /\ e.kind = "key" /\ e.code \notin ShiftKeys =>
            (shift_state[d] # 0 <=> e.shifted)

(* Once a device's events are all handled, its buttons are those held and   *)
(* its motion told and waiting is the motion it made: nothing is lost or    *)
(* counted twice by a read between two events.                              *)
PointerExact ==
  \A d \in Devices : ~lost /\ Pending(d) = {} =>
    /\ mouse_buttons[d] = held[d] \ ShiftKeys
    /\ moved[d] = told[d] + motion[d]

(* Events are drained and characters read in the end, interrupts or not.    *)
InputConsumed ==
  /\ \A d \in Devices : HasUsed(queue[d]) ~> ~HasUsed(queue[d])
  /\ Waiting # << >> ~> Waiting = << >>
=============================================================================
