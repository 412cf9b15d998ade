----------------------------- MODULE VirtioNet -----------------------------
(***************************************************************************)
(* The NIC driver, src/kernel/drivers/virtio/virtio_net.c, on its two      *)
(* virtqueues.  Three parties run: the main loop (net_poll, net_send,      *)
(* net_receive), the interrupt handler, which nests on it while IF is set, *)
(* and the device, which moves its ends of the rings at any time.          *)
(*                                                                         *)
(* Frames are numbered.  Frame n > 0 is the main loop's n-th send, frame   *)
(* -n the driver's automatic answer to arrival n.  The bytes of a frame,   *)
(* and counters no decision reads, are left out.                            *)
(***************************************************************************)
EXTENDS VirtQueue, Sequences

CONSTANTS
  RxSize, TxSize,  \* descriptors asked for per queue
  TxAccepted,      \* TX queue size the device accepts
  Inbox,           \* VIRTIO_NET_INBOX
  Kind,            \* arrivals: "plain", "ask" (ARP or ping for us), "runt"
  MaxSends         \* bound: frames the main loop sends

ASSUME NetAssumption ==
  /\ RxSize \in Nat \ {0, 1} /\ TxSize \in Nat \ {0, 1}
  /\ TxAccepted \in 1 .. TxSize
  /\ Inbox \in Nat \ {0} /\ MaxSends \in Nat
  /\ IdxMod > RxSize /\ IdxMod > TxSize
  /\ IdxMod % RxSize = 0 /\ IdxMod % TxAccepted = 0
  /\ \A n \in 1 .. Len(Kind) : Kind[n] \in {"plain", "ask", "runt"}

VARIABLES
  rx, tx,            \* vq[0] and vq[1]
  rx_seen, tx_seen,  \* how far the device has read each available ring
  tx_dev,            \* TX descriptors the device is transmitting
  rx_buf, tx_buf,    \* the frame in each descriptor's page
  inbox, inbox_head, inbox_count, rx_dropped,
  if,                \* the CPU's interrupt flag
  irq,               \* the device's ISR byte is set and its line raised
  at,                \* where each context runs
  loc,               \* its locals: rxid, id, frame, eflags, back
  arrived, staged, received,    \* last arrival, staged, received (history)
  sends, accepted, transmitted  \* frames sent, taken, on the wire (history)

queues  == <<rx, tx>>
devside == <<rx_seen, tx_seen, tx_dev>>
box     == <<inbox, inbox_head, inbox_count, rx_dropped>>
cpu     == <<if, irq, at, loc>>
hist    == <<arrived, staged, received, sends, accepted, transmitted>>
vars    == <<queues, devside, rx_buf, tx_buf, box, cpu, hist>>

Contexts == {"main", "irq"}
RxIds == 0 .. (RxSize - 1)
TxIds == 0 .. (TxSize - 1)

-----------------------------------------------------------------------------
(* net_init, up to present = 1: the RX pages are seeded in descriptor order *)
(* (rx_phys[n] is the page of descriptor n), the TX pool is untouched.      *)
NoLocals == [rxid |-> 0, id |-> 0, frame |-> 0, eflags |-> FALSE, back |-> "idle"]

Init ==
  /\ rx = Seeded(RxSize) /\ tx = QueueInit(TxSize, TxAccepted)
  /\ rx_seen = 0 /\ tx_seen = 0 /\ tx_dev = {}
  /\ rx_buf = [i \in RxIds |-> 0] /\ tx_buf = [i \in TxIds |-> 0]
  /\ inbox = [i \in 0 .. (Inbox - 1) |-> 0]
  /\ inbox_head = 0 /\ inbox_count = 0 /\ rx_dropped = 0
  /\ if = TRUE /\ irq = FALSE
  /\ at = [c \in Contexts |-> "idle"] /\ loc = [c \in Contexts |-> NoLocals]
  /\ arrived = 0 /\ staged = 0 /\ received = 0
  /\ sends = 0 /\ accepted = {} /\ transmitted = << >>

-----------------------------------------------------------------------------
(* The device.  Its interrupt may not get through: the line may be unrouted  *)
(* ("polling" in the log), or held off at the PIC.                           *)

\* A frame arrives and fills the next RX buffer; without one it is lost.
Arrive ==
  /\ arrived < Len(Kind) /\ Offered(rx, rx_seen)
  /\ LET id == OfferedId(rx, rx_seen)
     IN  /\ rx_buf' = [rx_buf EXCEPT ![id] = arrived + 1]
         /\ rx' = PushUsed(rx, id)
  /\ rx_seen' = Step(rx_seen)
  /\ arrived' = arrived + 1
  /\ irq' \in {irq, TRUE}
  /\ UNCHANGED <<tx, tx_seen, tx_dev, tx_buf, box, if, at, loc,
                 staged, received, sends, accepted, transmitted>>

TakeTx ==
  /\ Offered(tx, tx_seen)
  /\ tx_dev' = tx_dev \cup {OfferedId(tx, tx_seen)}
  /\ tx_seen' = Step(tx_seen)
  /\ UNCHANGED <<queues, rx_seen, rx_buf, tx_buf, box, cpu, hist>>

\* Transmission reads the buffer; descriptors complete in any order.
CompleteTx(id) ==
  /\ id \in tx_dev
  /\ tx_dev' = tx_dev \ {id}
  /\ transmitted' = Append(transmitted, tx_buf[tx.addr[id]])
  /\ tx' = PushUsed(tx, id)
  /\ irq' \in {irq, TRUE}
  /\ UNCHANGED <<rx, rx_seen, tx_seen, rx_buf, tx_buf, box, if, at, loc,
                 arrived, staged, received, sends, accepted>>

-----------------------------------------------------------------------------
(* Control: a context runs unless an interrupt is nested on it. *)

Runs(c) == c = "irq" \/ at["irq"] = "idle"
Goto(c, from, to) == Runs(c) /\ at[c] = from /\ at' = [at EXCEPT ![c] = to]
Local(c, field, v) == loc' = [loc EXCEPT ![c][field] = v]

\* net_irq_handler: the gate clears IF, reading the ISR byte clears it.
IrqEnter ==
  /\ if /\ irq /\ at["irq"] = "idle"
  /\ at' = [at EXCEPT !["irq"] = "drain_tx"]
  /\ if' = FALSE /\ irq' = FALSE
  /\ UNCHANGED <<queues, devside, rx_buf, tx_buf, box, loc, hist>>

\* net_poll: cli, then the same drain.
NetPoll ==
  /\ Goto("main", "idle", "drain_tx")
  /\ if' = FALSE
  /\ UNCHANGED <<queues, devside, rx_buf, tx_buf, box, irq, loc, hist>>

-----------------------------------------------------------------------------
(* net_drain_raw *)

DrainTx(c) ==
  /\ IF HasUsed(tx)
     THEN /\ Goto(c, "drain_tx", "drain_tx")
          /\ tx' = FreeDesc(PopUsed(tx), UsedId(tx))
     ELSE /\ Goto(c, "drain_tx", "drain_rx") /\ UNCHANGED tx
  /\ UNCHANGED <<rx, devside, rx_buf, tx_buf, box, if, irq, loc, hist>>

\* At the end, sti in net_poll and iret from the handler both set IF.
DrainRx(c) ==
  /\ IF HasUsed(rx)
     THEN /\ Goto(c, "drain_rx", "stage")
          /\ Local(c, "rxid", UsedId(rx))
          /\ rx' = PopUsed(rx) /\ UNCHANGED if
     ELSE /\ Goto(c, "drain_rx", "idle")
          /\ if' = TRUE /\ UNCHANGED <<rx, loc>>
  /\ UNCHANGED <<tx, devside, rx_buf, tx_buf, box, irq, hist>>

\* net_stage_rx, then net_handle_frame: an answer is sent before the slot is
\* recycled.  A full inbox drops its oldest frame.
Full == inbox_count = Inbox
\* Mutant: a full inbox overwrites its newest place instead of its oldest.
StageFrameOver(n) ==
  /\ inbox' = [inbox EXCEPT ![(inbox_head + inbox_count) % Inbox] = n]
  /\ inbox_count' = IF Full THEN inbox_count ELSE inbox_count + 1
  /\ rx_dropped' = IF Full THEN rx_dropped + 1 ELSE rx_dropped
  /\ UNCHANGED inbox_head

StageFrame(n) ==
  LET head  == IF Full THEN (inbox_head + 1) % Inbox ELSE inbox_head
      count == IF Full THEN inbox_count - 1 ELSE inbox_count
  IN  /\ inbox' = [inbox EXCEPT ![(head + count) % Inbox] = n]
      /\ inbox_head' = head /\ inbox_count' = count + 1
      /\ rx_dropped' = IF Full THEN rx_dropped + 1 ELSE rx_dropped

Stage(c) ==
  /\ at[c] = "stage"
  /\ LET n == rx_buf[loc[c].rxid]
     IN  /\ IF Kind[n] = "runt"
            THEN /\ rx_dropped' = rx_dropped + 1
                 /\ UNCHANGED <<inbox, inbox_head, inbox_count>>
            ELSE StageFrame(n)
         /\ \/ /\ Kind[n] = "ask" /\ Goto(c, "stage", "send")
               /\ loc' = [loc EXCEPT ![c].frame = -n, ![c].back = "recycle"]
            \/ /\ Kind[n] # "ask" /\ Goto(c, "stage", "recycle")
               /\ UNCHANGED loc
         /\ staged' = n
  /\ UNCHANGED <<queues, devside, rx_buf, tx_buf, if, irq,
                 arrived, received, sends, accepted, transmitted>>

Recycle(c) ==
  /\ \/ /\ Goto(c, "recycle", "republish")
        /\ rx' = WriteRing(rx, loc[c].rxid)
     \/ /\ Goto(c, "republish", "drain_rx")
        /\ rx' = PublishIdx(rx, loc[c].rxid)
  /\ UNCHANGED <<tx, devside, rx_buf, tx_buf, box, if, irq, loc, hist>>

-----------------------------------------------------------------------------
(* net_send *)

CallSend ==
  /\ sends < MaxSends
  /\ Goto("main", "idle", "send")
  /\ sends' = sends + 1
  /\ loc' = [loc EXCEPT !["main"].frame = sends + 1, !["main"].back = "idle"]
  /\ UNCHANGED <<queues, devside, rx_buf, tx_buf, box, if, irq,
                 arrived, staged, received, accepted, transmitted>>

\* Mutant: interrupts are not masked.
SendEnterUnmasked(c) ==
  /\ Goto(c, "send", "alloc")
  /\ Local(c, "eflags", if)
  /\ UNCHANGED <<if, queues, devside, rx_buf, tx_buf, box, irq, hist>>

\* The link, which the device reports and may change at any time, is checked;
\* then the flags are saved and interrupts masked.
SendEnter(c) ==
  /\ \/ /\ Goto(c, "send", loc[c].back)
        /\ UNCHANGED <<if, loc>>
     \/ /\ Goto(c, "send", "alloc")
        /\ Local(c, "eflags", if) /\ if' = FALSE
  /\ UNCHANGED <<queues, devside, rx_buf, tx_buf, box, irq, hist>>

SendAlloc(c) ==
  /\ \/ /\ PoolEmpty(tx)
        /\ Goto(c, "alloc", loc[c].back)
        /\ if' = loc[c].eflags
        /\ UNCHANGED loc
     \/ /\ ~PoolEmpty(tx)
        /\ Goto(c, "alloc", "unlink")
        /\ Local(c, "id", tx.free_head)
        /\ UNCHANGED if
  /\ UNCHANGED <<queues, devside, rx_buf, tx_buf, box, irq, hist>>

SendUnlink(c) ==
  /\ Goto(c, "unlink", "fill")
  /\ tx' = AllocDesc(tx, loc[c].id)
  /\ UNCHANGED <<rx, devside, rx_buf, tx_buf, box, if, irq, loc, hist>>

SendFill(c) ==
  /\ Goto(c, "fill", "ring")
  /\ tx_buf' = [tx_buf EXCEPT ![loc[c].id] = loc[c].frame]
  /\ tx' = DescFill(tx, loc[c].id, loc[c].id)
  /\ UNCHANGED <<rx, devside, rx_buf, box, if, irq, loc, hist>>

SendRing(c) ==
  /\ Goto(c, "ring", "publish")
  /\ tx' = WriteRing(tx, loc[c].id)
  /\ UNCHANGED <<rx, devside, rx_buf, tx_buf, box, if, irq, loc, hist>>

\* Publish, kick, restore the flags and return 0.
SendPublish(c) ==
  /\ Goto(c, "publish", loc[c].back)
  /\ tx' = PublishIdx(tx, loc[c].id)
  /\ if' = loc[c].eflags
  /\ accepted' = accepted \cup {loc[c].frame}
  /\ UNCHANGED <<rx, devside, rx_buf, tx_buf, box, irq, loc,
                 arrived, staged, received, sends, transmitted>>

Send(c) ==
  \/ SendEnter(c) \/ SendAlloc(c) \/ SendUnlink(c)
  \/ SendFill(c) \/ SendRing(c) \/ SendPublish(c)

-----------------------------------------------------------------------------
(* net_receive: cli and the empty check, then the copy and sti. *)

ReceiveBegin ==
  /\ Goto("main", "idle", "receive")
  /\ inbox_count # 0
  /\ if' = FALSE
  /\ Local("main", "id", inbox_head)
  /\ UNCHANGED <<queues, devside, rx_buf, tx_buf, box, irq, hist>>

ReceiveEnd ==
  /\ Goto("main", "receive", "idle")
  /\ received' = inbox[loc["main"].id]
  /\ inbox_head' = (inbox_head + 1) % Inbox
  /\ inbox_count' = inbox_count - 1
  /\ if' = TRUE
  /\ UNCHANGED <<queues, devside, rx_buf, tx_buf, inbox, rx_dropped, irq, loc,
                 arrived, staged, sends, accepted, transmitted>>

-----------------------------------------------------------------------------
Body(c) == DrainTx(c) \/ DrainRx(c) \/ Stage(c) \/ Recycle(c) \/ Send(c)

Next ==
  \/ Arrive \/ TakeTx
  \/ \E id \in TxIds : CompleteTx(id)
  \/ IrqEnter \/ NetPoll \/ CallSend \/ ReceiveBegin \/ ReceiveEnd
  \/ \E c \in Contexts : Body(c)

(* Code runs on; the main loop polls again and again (kmain calls net_poll  *)
(* on every turn); the device finishes what it is given.  No interrupt is   *)
(* promised.                                                                *)
Fairness ==
  /\ \A c \in Contexts : WF_vars(Body(c))
  /\ WF_vars(ReceiveEnd) /\ SF_vars(NetPoll)
  /\ WF_vars(TakeTx) /\ \A id \in TxIds : WF_vars(CompleteTx(id))

Spec == Init /\ [][Next]_vars /\ Fairness

-----------------------------------------------------------------------------
Idxs == 0 .. (IdxMod - 1)

(* Types: indexes fit their width, descriptors and inbox slots exist.       *)
TypeOK ==
  /\ rx_seen \in Idxs /\ tx_seen \in Idxs
  /\ tx.free_head \in TxIds /\ tx_dev \subseteq TxIds
  /\ {rx.avail_idx, rx.used_idx, tx.avail_idx, tx.used_idx} \subseteq Idxs
  /\ inbox_head \in 0 .. (Inbox - 1) /\ inbox_count \in 0 .. Inbox
  /\ \A c \in Contexts : loc[c].rxid \in RxIds /\ loc[c].id \in TxIds \cup 0 .. (Inbox - 1)

Holding(labels) == {c \in Contexts : at[c] \in labels}
TxHeld == {loc[c].id : c \in Holding({"fill", "ring", "publish"})}
RxHeld ==
  {loc[c].rxid : c \in {d \in Contexts :
     at[d] \in {"stage", "recycle", "republish"} \/
     (at[d] \in {"send", "alloc", "unlink", "fill", "ring", "publish"} /\ loc[d].back = "recycle")}}

Partition(parts, whole) ==
  /\ UNION {parts[i] : i \in DOMAIN parts} = whole
  /\ \A i, j \in DOMAIN parts : i # j => parts[i] \cap parts[j] = {}

(* Every TX descriptor is in exactly one place: the pool, a sender's hands, *)
(* the available ring, the device, or the used ring.  None is lost when the *)
(* queue runs full, and none is handed out twice.  And every RX buffer is   *)
(* with the device, completed, or being staged: reception never runs dry    *)
(* because a slot was not recycled.                                         *)
DescConserved ==
  /\ Partition(<<FreeIds(tx), TxHeld, OfferedIds(tx, tx_seen), tx_dev, UsedIds(tx)>>, TxIds)
  /\ Cardinality(FreeIds(tx)) = tx.free_count
  /\ Cardinality(UsedIds(tx)) = Between(tx.used_idx, tx.used_pub)
  /\ Partition(<<OfferedIds(rx, rx_seen), UsedIds(rx), RxHeld>>, RxIds)

(* The wire carries only frames net_send accepted, each once, and a frame   *)
(* it accepted is sent or still in the device's hands: no buffer is         *)
(* rewritten too early, and no frame is silently forgotten ("Returns 0 on   *)
(* success", net.h).                                                        *)
AcceptedSentOnce ==
  /\ \A i, j \in DOMAIN transmitted : i # j => transmitted[i] # transmitted[j]
  /\ \A i \in DOMAIN transmitted : transmitted[i] \in accepted
  /\ \A f \in accepted :
       \/ \E i \in DOMAIN transmitted : transmitted[i] = f
       \/ \E id \in OfferedIds(tx, tx_seen) \cup tx_dev : tx_buf[tx.addr[id]] = f

(* Interrupts stay masked from the first to the last step of a drain, also  *)
(* across the answer it may send: the handler never runs inside a drain.    *)
DrainNotReentered ==
  /\ \A c \in Contexts : at[c] \notin {"idle", "send"} => ~if
  /\ RxHeld # {} => ~if

\* Arrivals in the inbox, oldest first.
Queued == [i \in 1 .. inbox_count |-> inbox[(inbox_head + i - 1) % Inbox]]

(* The inbox keeps arrival order and the most recent frames: what is        *)
(* received next is newer than what was received, whatever was dropped.     *)
InboxInOrder ==
  /\ \A i, j \in DOMAIN Queued : i < j => Queued[i] < Queued[j]
  /\ \A i \in DOMAIN Queued : received < Queued[i] /\ Queued[i] <= staged

(* What the device completed is drained in the end, interrupts or not: every *)
(* arrival is staged, and a full TX queue does not stay full.               *)
DrainedInTheEnd ==
  /\ \A n \in 1 .. Len(Kind) : (arrived >= n) ~> (staged >= n)
  /\ PoolEmpty(tx) ~> ~PoolEmpty(tx)
=============================================================================
