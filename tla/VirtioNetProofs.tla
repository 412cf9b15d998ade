-------------------------- MODULE VirtioNetProofs --------------------------
(***************************************************************************)
(* Proofs about the NIC driver, for queues and an inbox of any size and any *)
(* arrivals and sends: a drain is never entered while one is under way,     *)
(* however the interrupt handler nests on the main loop, though both may    *)
(* send in the middle of one and restore the flags they saved; the rings,   *)
(* the pool and the inbox are indexed within their bounds; the inbox keeps  *)
(* arrivals in order; no descriptor and no reception buffer is ever lost or *)
(* in two places; and each frame net_send accepted is transmitted once.     *)
(*                                                                         *)
(* Lemmas come first on wrapped indexes, on the window of a ring between    *)
(* two of them, and on the pool's chain of free descriptors; then one part  *)
(* of the invariant after another, each with a lemma per kind of step.      *)
(***************************************************************************)
EXTENDS VirtioNet, TLAPS, FiniteSetTheorems, WellFoundedInduction

Sending == {"alloc", "unlink", "fill", "ring", "publish"}
Labels  == {"idle", "drain_tx", "drain_rx", "stage", "send", "recycle",
            "republish", "receive"} \cup Sending

Locals == [rxid : RxIds, id : TxIds \cup 0 .. (Inbox - 1), frame : Int,
           eflags : BOOLEAN, back : {"idle", "recycle"}]

(* The main loop is outside every masked section.                           *)
Outside == at["main"] = "idle" \/ (at["main"] = "send" /\ loc["main"].back = "idle")

(* Who masked interrupts, and what the flags it saved will restore.         *)
ControlInv ==
  /\ at \in [Contexts -> Labels] /\ if \in BOOLEAN /\ irq \in BOOLEAN
  /\ at["irq"] = "idle" => if = Outside
  /\ at["irq"] # "idle" => ~if /\ Outside
  /\ at["irq"] # "receive"
  /\ at["irq"] \in {"send"} \cup Sending => loc["irq"].back = "recycle"
  /\ \A c \in Contexts : at[c] \in Sending => (loc[c].eflags <=> loc[c].back = "idle")

QueueSet(ids, size) ==
  [queue_size : {size}, next : [ids -> ids], addr : [ids -> Int],
   free_head : ids, free_count : Int,
   avail_idx : Idxs, avail : [ids -> ids], avail_pub : Idxs,
   used_idx : Idxs, used : [ids -> ids], used_pub : Idxs]

DataInv ==
  /\ rx \in QueueSet(RxIds, RxSize) /\ tx \in QueueSet(TxIds, TxAccepted)
  /\ rx_seen \in Idxs /\ tx_seen \in Idxs /\ tx_dev \subseteq TxIds
  /\ inbox_head \in 0 .. (Inbox - 1) /\ inbox_count \in 0 .. Inbox
  /\ rx_buf \in [RxIds -> Int] /\ arrived \in Int /\ sends \in Int
  /\ loc \in [Contexts -> Locals]
  /\ \A c \in Contexts : at[c] \in Sending \ {"alloc"} => loc[c].id \in TxIds
  /\ at["main"] = "receive" => inbox_count > 0

Inv == ControlInv /\ DataInv

-----------------------------------------------------------------------------
LEMMA SizeFacts ==
  /\ RxSize \in Nat /\ RxSize > 1 /\ TxSize \in Nat /\ TxSize > 1
  /\ TxAccepted \in Nat /\ TxAccepted > 0 /\ TxAccepted <= TxSize
  /\ Inbox \in Nat /\ Inbox > 0 /\ IdxMod \in Nat /\ IdxMod > RxSize /\ IdxMod > TxSize
  BY NetAssumption, IdxAssumption

LEMMA ModType ==
  ASSUME NEW x \in Nat, NEW R \in Nat, R > 0
  PROVE  x % R \in 0 .. R - 1
  BY Z3

LEMMA StepType ==
  ASSUME NEW x \in Idxs
  PROVE  Step(x) \in Idxs
<1>1. x + 1 \in Nat
  BY SizeFacts DEF Idxs
<1>. QED
  BY <1>1, SizeFacts, ModType DEF Step, Idxs

(* Queue operations keep every index and descriptor within bounds.          *)
LEMMA QueueSteps ==
  ASSUME NEW S \in Nat, NEW size \in Nat, size > 0, size <= S,
         NEW q \in QueueSet(0 .. (S - 1), size), NEW id \in 0 .. (S - 1)
  PROVE  /\ UsedId(q) \in 0 .. (S - 1)
         /\ \A s \in Idxs : OfferedId(q, s) \in 0 .. (S - 1)
         /\ PushUsed(q, id) \in QueueSet(0 .. (S - 1), size)
         /\ PopUsed(q) \in QueueSet(0 .. (S - 1), size)
         /\ WriteRing(q, id) \in QueueSet(0 .. (S - 1), size)
         /\ PublishIdx(q, id) \in QueueSet(0 .. (S - 1), size)
         /\ AllocDesc(q, id) \in QueueSet(0 .. (S - 1), size)
         /\ DescFill(q, id, id) \in QueueSet(0 .. (S - 1), size)
         /\ FreeDesc(q, id) \in QueueSet(0 .. (S - 1), size)
<1>. DEFINE ids == 0 .. (S - 1)
<1>0. \A x \in Idxs : x % size \in ids /\ Step(x) \in Idxs
  <2>1. \A x \in Nat : x % size \in 0 .. (size - 1)
    BY ModType
  <2>2. Idxs \subseteq Nat
    BY SizeFacts DEF Idxs
  <2>. QED
    BY <2>1, <2>2, StepType
<1>1. /\ q.queue_size = size /\ q.used_idx \in Idxs /\ q.used_pub \in Idxs
      /\ q.avail_idx \in Idxs /\ q.used \in [ids -> ids] /\ q.avail \in [ids -> ids]
      /\ q.next \in [ids -> ids] /\ q.free_head \in ids /\ q.free_count \in Int
  BY DEF QueueSet
<1>b. 0 \in ids /\ ids \subseteq Int
  OBVIOUS
<1>c. q.free_count + 1 \in Int /\ q.free_count - 1 \in Int
  <2>1. \A k \in Int : k + 1 \in Int /\ k - 1 \in Int
    OBVIOUS
  <2>2. q.free_count \in Int
    BY <1>1
  <2>. HIDE DEF ids
  <2>. QED
    BY ONLY <2>1, <2>2
<1>. HIDE DEF ids
<1>a. q \in QueueSet(ids, size) /\ id \in ids
  BY DEF ids
<1>2. UsedId(q) \in ids /\ \A s \in Idxs : OfferedId(q, s) \in ids
  BY <1>0, <1>1 DEF UsedId, OfferedId
<1>3. PushUsed(q, id) \in QueueSet(ids, size)
  BY <1>0, <1>1, <1>a DEF PushUsed, QueueSet
<1>4. PopUsed(q) \in QueueSet(ids, size)
  BY <1>0, <1>1, <1>a DEF PopUsed, QueueSet
<1>5. WriteRing(q, id) \in QueueSet(ids, size)
  BY <1>0, <1>1, <1>a DEF WriteRing, QueueSet
<1>6. PublishIdx(q, id) \in QueueSet(ids, size)
  BY <1>0, <1>1, <1>a DEF PublishIdx, QueueSet
<1>7. AllocDesc(q, id) \in QueueSet(ids, size)
  <2>1. q.next[id] \in ids
    BY <1>1, <1>a
  <2>. QED
    BY <1>a, <1>c, <2>1 DEF AllocDesc, QueueSet
<1>8. DescFill(q, id, id) \in QueueSet(ids, size)
  BY <1>0, <1>1, <1>a, <1>b DEF DescFill, QueueSet
<1>9. FreeDesc(q, id) \in QueueSet(ids, size)
  <2>1. CASE Known(q, id)
    BY <1>1, <1>a, <1>c, <2>1 DEF FreeDesc, QueueSet
  <2>2. CASE ~Known(q, id)
    BY <1>a, <2>2 DEF FreeDesc
  <2>. QED
    BY <2>1, <2>2
<1>. QED
  BY <1>2, <1>3, <1>4, <1>5, <1>6, <1>7, <1>8, <1>9 DEF ids

LEMMA RxSteps ==
  ASSUME DataInv
  PROVE  /\ UsedId(rx) \in RxIds /\ OfferedId(rx, rx_seen) \in RxIds
         /\ PopUsed(rx) \in QueueSet(RxIds, RxSize)
         /\ \A id \in RxIds : /\ PushUsed(rx, id) \in QueueSet(RxIds, RxSize)
                              /\ WriteRing(rx, id) \in QueueSet(RxIds, RxSize)
                              /\ PublishIdx(rx, id) \in QueueSet(RxIds, RxSize)
<1>1. 0 \in RxIds
  BY SizeFacts DEF RxIds
<1>. QED
  <2>1. rx \in QueueSet(0 .. (RxSize - 1), RxSize) /\ rx_seen \in Idxs
    BY DEF DataInv, RxIds
  <2>. QED
    BY <1>1, <2>1, QueueSteps, SizeFacts DEF RxIds

LEMMA TxSteps ==
  ASSUME DataInv
  PROVE  /\ OfferedId(tx, tx_seen) \in TxIds
         /\ FreeDesc(PopUsed(tx), UsedId(tx)) \in QueueSet(TxIds, TxAccepted)
         /\ \A id \in TxIds : /\ PushUsed(tx, id) \in QueueSet(TxIds, TxAccepted)
                              /\ WriteRing(tx, id) \in QueueSet(TxIds, TxAccepted)
                              /\ PublishIdx(tx, id) \in QueueSet(TxIds, TxAccepted)
                              /\ AllocDesc(tx, id) \in QueueSet(TxIds, TxAccepted)
                              /\ DescFill(tx, id, id) \in QueueSet(TxIds, TxAccepted)
<1>1. 0 \in TxIds
  BY SizeFacts DEF TxIds
<1>2. UsedId(tx) \in TxIds /\ PopUsed(tx) \in QueueSet(TxIds, TxAccepted)
  BY <1>1, QueueSteps, SizeFacts DEF DataInv, TxIds
<1>. QED
  BY <1>1, <1>2, QueueSteps, SizeFacts DEF DataInv, TxIds

LEMMA InitInv == Init => Inv
<1>. SUFFICES ASSUME Init PROVE Inv
  OBVIOUS
<1>1. ControlInv
  BY DEF Init, ControlInv, Labels, Contexts, Sending, Outside
<1>2. 0 \in Idxs /\ RxSize \in Idxs /\ 0 \in RxIds /\ 0 \in TxIds
      /\ RxIds \subseteq Int /\ TxIds \subseteq Int
  BY SizeFacts DEF Idxs, RxIds, TxIds
<1>3. rx \in QueueSet(RxIds, RxSize)
  BY <1>2, SizeFacts DEF Init, Seeded, QueueSet, RxIds
<1>4. \A i \in TxIds : (i + 1) % TxSize \in TxIds
  BY SizeFacts, ModType DEF TxIds
<1>5. tx \in QueueSet(TxIds, TxAccepted)
  BY <1>2, <1>4, SizeFacts DEF Init, QueueInit, QueueSet, TxIds, NoBuffer
<1>6. loc \in [Contexts -> Locals]
  BY <1>2 DEF Init, NoLocals, Locals
<1>7. DataInv
  BY <1>2, <1>3, <1>5, <1>6, SizeFacts DEF Init, DataInv, Contexts, Sending
<1>. QED
  BY <1>1, <1>7 DEF Inv

-----------------------------------------------------------------------------
(* One lemma per part and action.  First who has masked interrupts.         *)
ControlSimple ==
  Arrive \/ TakeTx \/ (\E id \in TxIds : CompleteTx(id))

LEMMA ControlDevice ==
  ASSUME ControlInv, ControlSimple
  PROVE  ControlInv'
<1>1. at' = at /\ loc' = loc /\ if' = if /\ irq' \in {irq, TRUE}
  BY DEF ControlSimple, Arrive, TakeTx, CompleteTx, cpu
<1>. QED
  BY <1>1 DEF ControlInv, Outside

LEMMA ControlEnter ==
  ASSUME ControlInv, DataInv, IrqEnter \/ NetPoll \/ CallSend \/ ReceiveBegin \/ ReceiveEnd
  PROVE  ControlInv'
<1>. USE DEF ControlInv, Outside, Labels, Sending, Contexts
<1>1. CASE IrqEnter
  BY <1>1 DEF IrqEnter
<1>2. CASE NetPoll
  BY <1>2 DEF NetPoll, Goto, Runs
<1>3. CASE CallSend
  BY <1>3 DEF CallSend, Goto, Runs, DataInv, Locals
<1>4. CASE ReceiveBegin
  BY <1>4 DEF ReceiveBegin, Goto, Runs, Local, DataInv, Locals
<1>5. CASE ReceiveEnd
  BY <1>5 DEF ReceiveEnd, Goto, Runs
<1>. QED
  BY <1>1, <1>2, <1>3, <1>4, <1>5

LEMMA ControlDrain ==
  ASSUME ControlInv, DataInv, NEW c \in Contexts,
         DrainTx(c) \/ DrainRx(c) \/ Stage(c) \/ Recycle(c)
  PROVE  ControlInv'
<1>. USE DEF ControlInv, Outside, Labels, Sending, Contexts, Goto, Runs
<1>1. CASE DrainTx(c)
  BY <1>1 DEF DrainTx
<1>2. CASE DrainRx(c)
  <2>1. CASE HasUsed(rx) /\ c = "main"
    <3>1. loc'["irq"] = loc["irq"] /\ loc'[c].back = loc[c].back /\ loc'[c].eflags = loc[c].eflags
      BY <1>2, <2>1 DEF DrainRx, Local, DataInv, Locals
    <3>. QED
      BY <1>2, <2>1, <3>1 DEF DrainRx
  <2>2. CASE HasUsed(rx) /\ c = "irq"
    <3>1. loc'["main"] = loc["main"] /\ loc'[c].back = loc[c].back /\ loc'[c].eflags = loc[c].eflags
      BY <1>2, <2>2 DEF DrainRx, Local, DataInv, Locals
    <3>. QED
      BY <1>2, <2>2, <3>1 DEF DrainRx
  <2>3. CASE ~HasUsed(rx)
    <3>1. /\ if' = TRUE /\ loc' = loc /\ irq' = irq
          /\ at[c] = "drain_rx" /\ at' = [at EXCEPT ![c] = "idle"]
          /\ c = "irq" \/ at["irq"] = "idle"
      BY <1>2, <2>3 DEF DrainRx
    <3>2. CASE c = "irq"
      BY <3>1, <3>2
    <3>3. CASE c = "main"
      BY <3>1, <3>3
    <3>. QED
      BY <3>2, <3>3
  <2>. QED
    BY <2>1, <2>2, <2>3
<1>3. CASE Stage(c)
  BY <1>3 DEF Stage, DataInv, Locals
<1>4. CASE Recycle(c)
  BY <1>4 DEF Recycle
<1>. QED
  BY <1>1, <1>2, <1>3, <1>4

LEMMA ControlSend ==
  ASSUME ControlInv, DataInv, NEW c \in Contexts, Send(c)
  PROVE  ControlInv'
<1>. USE DEF ControlInv, Outside, Labels, Sending, Contexts, Goto, Runs, DataInv, Locals
<1>1. CASE SendEnter(c)
  <2>1. CASE Goto(c, "send", loc[c].back) /\ UNCHANGED <<if, loc>>
    BY <1>1, <2>1 DEF SendEnter
  <2>2. CASE Goto(c, "send", "alloc") /\ Local(c, "eflags", if) /\ if' = FALSE
    <3>1. /\ loc' \in [Contexts -> Locals]
          /\ \A d \in Contexts : loc'[d].back = loc[d].back
          /\ \A d \in Contexts : loc'[d].eflags = IF d = c THEN if ELSE loc[d].eflags
      BY <2>2 DEF Local
    <3>2. if <=> loc[c].back = "idle"
      BY <2>2
    <3>. QED
      BY <1>1, <2>2, <3>1, <3>2 DEF SendEnter
  <2>. QED
    BY <1>1, <2>1, <2>2 DEF SendEnter
<1>2. CASE SendAlloc(c)
  BY <1>2 DEF SendAlloc, Local
<1>3. CASE SendUnlink(c)
  BY <1>3 DEF SendUnlink
<1>4. CASE SendFill(c)
  BY <1>4 DEF SendFill
<1>5. CASE SendRing(c)
  BY <1>5 DEF SendRing
<1>6. CASE SendPublish(c)
  BY <1>6 DEF SendPublish
<1>. QED
  BY <1>1, <1>2, <1>3, <1>4, <1>5, <1>6 DEF Send

-----------------------------------------------------------------------------
(* Then the queues, the inbox and the locals.                               *)
LEMMA DataDevice ==
  ASSUME Inv, Arrive \/ TakeTx \/ \E id \in TxIds : CompleteTx(id)
  PROVE  DataInv'
<1>. USE DEF Inv, DataInv
<1>1. CASE Arrive
  <2>1. /\ rx' \in QueueSet(RxIds, RxSize) /\ rx_buf' \in [RxIds -> Int]
        /\ rx_seen' \in Idxs /\ arrived' \in Int
    BY <1>1, RxSteps, StepType DEF Arrive
  <2>. QED
    BY <1>1, <2>1 DEF Arrive, box
<1>2. CASE TakeTx
  <2>1. tx_seen' \in Idxs /\ tx_dev' \subseteq TxIds
    BY <1>2, TxSteps, StepType DEF TakeTx
  <2>. QED
    BY <1>2, <2>1 DEF TakeTx, queues, box, cpu, hist
<1>3. ASSUME NEW id \in TxIds, CompleteTx(id) PROVE DataInv'
  <2>1. tx' \in QueueSet(TxIds, TxAccepted) /\ tx_dev' \subseteq TxIds
    BY <1>3, TxSteps DEF CompleteTx
  <2>. QED
    BY <1>3, <2>1 DEF CompleteTx, box
<1>. QED
  BY <1>1, <1>2, <1>3

LEMMA DataEnter ==
  ASSUME Inv, IrqEnter \/ NetPoll \/ CallSend \/ ReceiveBegin \/ ReceiveEnd
  PROVE  DataInv'
<1>. USE DEF Inv, DataInv, ControlInv
<1>. USE DEF Contexts, Sending, queues, devside, box, hist
<1>1. CASE IrqEnter
  BY <1>1 DEF IrqEnter
<1>2. CASE NetPoll
  BY <1>2 DEF NetPoll, Goto
<1>3. CASE CallSend
  <2>0. sends + 1 \in Int
    <3>1. \A k \in Int : k + 1 \in Int
      OBVIOUS
    <3>. QED
      BY <3>1
  <2>1. sends' \in Int /\ loc' \in [Contexts -> Locals]
    BY <1>3, <2>0 DEF CallSend, Locals
  <2>2. loc'["irq"] = loc["irq"] /\ loc'["main"].id = loc["main"].id
    BY <1>3 DEF CallSend, Locals
  <2>. QED
    BY <1>3, <2>1, <2>2 DEF CallSend, Goto
<1>4. CASE ReceiveBegin
  <2>1. loc' \in [Contexts -> Locals] /\ loc'["irq"] = loc["irq"]
    BY <1>4 DEF ReceiveBegin, Local, Locals
  <2>. QED
    BY <1>4, <2>1, SizeFacts DEF ReceiveBegin, Goto
<1>5. CASE ReceiveEnd
  <2>1. inbox_count > 0
    BY <1>5 DEF ReceiveEnd, Goto
  <2>2. inbox_count' \in 0 .. Inbox
    BY <1>5, <2>1, SizeFacts DEF ReceiveEnd
  <2>3. inbox_head' \in 0 .. (Inbox - 1)
    BY <1>5, SizeFacts, ModType DEF ReceiveEnd
  <2>. QED
    BY <1>5, <2>2, <2>3 DEF ReceiveEnd, Goto
<1>. QED
  BY <1>1, <1>2, <1>3, <1>4, <1>5

(* Staging keeps the inbox within its size, full or not.                    *)
LEMMA StageType ==
  ASSUME inbox_head \in 0 .. (Inbox - 1), inbox_count \in 0 .. Inbox,
         NEW n, StageFrame(n)
  PROVE  inbox_head' \in 0 .. (Inbox - 1) /\ inbox_count' \in 0 .. Inbox
<1>1. (inbox_head + 1) % Inbox \in 0 .. (Inbox - 1)
  BY SizeFacts, ModType
<1>. QED
  BY <1>1, SizeFacts DEF StageFrame, Full

LEMMA DataDrain ==
  ASSUME Inv, NEW c \in Contexts,
         DrainTx(c) \/ DrainRx(c) \/ Stage(c) \/ Recycle(c)
  PROVE  DataInv'
<1>. USE DEF Inv, DataInv, ControlInv
<1>. USE DEF Contexts, Sending, queues, devside, box, hist
<1>1. CASE DrainTx(c)
  <2>1. tx' \in QueueSet(TxIds, TxAccepted)
    BY <1>1, TxSteps DEF DrainTx
  <2>. QED
    BY <1>1, <2>1 DEF DrainTx, Goto
<1>2. CASE DrainRx(c)
  <2>1. rx' \in QueueSet(RxIds, RxSize)
    BY <1>2, RxSteps DEF DrainRx
  <2>2. /\ loc' \in [Contexts -> Locals]
        /\ \A d \in Contexts : loc'[d].id = loc[d].id
    BY <1>2, RxSteps DEF DrainRx, Local, Locals
  <2>. QED
    BY <1>2, <2>1, <2>2 DEF DrainRx, Goto
<1>3. CASE Stage(c)
  <2>1. inbox_head' \in 0 .. (Inbox - 1) /\ inbox_count' \in 0 .. Inbox
    BY <1>3, StageType DEF Stage
  <2>2. rx_buf[loc[c].rxid] \in Int
    BY DEF Locals
  <2>3. /\ loc' \in [Contexts -> Locals]
        /\ \A d \in Contexts : loc'[d].id = loc[d].id
    BY <1>3, <2>2 DEF Stage, Locals
  <2>4. /\ at' \in [Contexts -> Labels] /\ at'[c] \in {"send", "recycle"}
        /\ \A d \in Contexts : d # c => at'[d] = at[d]
    BY <1>3 DEF Stage, Goto, Labels
  <2>5. UNCHANGED <<rx, tx, rx_seen, tx_seen, tx_dev, rx_buf, arrived, sends>>
    BY <1>3 DEF Stage
  <2>6. at'["main"] = "receive" => inbox_count' > 0
    BY <2>1, <2>4, <1>3, SizeFacts DEF Stage, Goto, Runs, Outside
  <2>. QED
    BY <2>1, <2>3, <2>4, <2>5, <2>6
<1>4. CASE Recycle(c)
  <2>1. rx' \in QueueSet(RxIds, RxSize)
    BY <1>4, RxSteps DEF Recycle, Locals
  <2>. QED
    BY <1>4, <2>1 DEF Recycle, Goto
<1>. QED
  BY <1>1, <1>2, <1>3, <1>4

LEMMA DataSend ==
  ASSUME Inv, NEW c \in Contexts, Send(c)
  PROVE  DataInv'
<1>. USE DEF Inv, DataInv, ControlInv
<1>. USE DEF Contexts, Sending, queues, devside, box, hist
<1>0. loc[c].back \in {"idle", "recycle"}
  BY DEF Locals
<1>1. CASE SendEnter(c)
  <2>1. /\ loc' \in [Contexts -> Locals]
        /\ \A d \in Contexts : loc'[d].id = loc[d].id
    BY <1>1 DEF SendEnter, Local, Locals
  <2>. QED
    BY <1>0, <1>1, <2>1 DEF SendEnter, Goto
<1>2. CASE SendAlloc(c)
  <2>1. tx.free_head \in TxIds
    BY DEF QueueSet
  <2>2. /\ loc' \in [Contexts -> Locals]
        /\ \A d \in Contexts : d # c => loc'[d].id = loc[d].id
        /\ at'[c] = "unlink" => loc'[c].id \in TxIds
    BY <1>0, <1>2, <2>1 DEF SendAlloc, Local, Locals, Goto
  <2>. QED
    BY <1>0, <1>2, <2>2 DEF SendAlloc, Goto
<1>3. CASE SendUnlink(c)
  <2>1. tx' \in QueueSet(TxIds, TxAccepted)
    BY <1>3, TxSteps DEF SendUnlink, Goto
  <2>. QED
    BY <1>3, <2>1 DEF SendUnlink, Goto
<1>4. CASE SendFill(c)
  <2>1. tx' \in QueueSet(TxIds, TxAccepted)
    BY <1>4, TxSteps DEF SendFill, Goto
  <2>. QED
    BY <1>4, <2>1 DEF SendFill, Goto
<1>5. CASE SendRing(c)
  <2>1. tx' \in QueueSet(TxIds, TxAccepted)
    BY <1>5, TxSteps DEF SendRing, Goto
  <2>. QED
    BY <1>5, <2>1 DEF SendRing, Goto
<1>6. CASE SendPublish(c)
  <2>1. tx' \in QueueSet(TxIds, TxAccepted)
    BY <1>6, TxSteps DEF SendPublish, Goto
  <2>. QED
    BY <1>0, <1>6, <2>1 DEF SendPublish, Goto
<1>. QED
  BY <1>1, <1>2, <1>3, <1>4, <1>5, <1>6 DEF Send

LEMMA NextInv == Inv /\ [Next]_vars => Inv'
<1>. SUFFICES ASSUME Inv, [Next]_vars PROVE Inv'
  OBVIOUS
<1>0. ControlInv /\ DataInv
  BY DEF Inv
<1>1. CASE Arrive \/ TakeTx \/ \E id \in TxIds : CompleteTx(id)
  BY <1>0, <1>1, ControlDevice, DataDevice DEF Inv, ControlSimple
<1>2. CASE IrqEnter \/ NetPoll \/ CallSend \/ ReceiveBegin \/ ReceiveEnd
  BY <1>0, <1>2, ControlEnter, DataEnter DEF Inv
<1>3. ASSUME NEW c \in Contexts, Body(c) PROVE Inv'
  <2>1. CASE Send(c)
    BY <1>0, <2>1, ControlSend, DataSend DEF Inv
  <2>2. CASE DrainTx(c) \/ DrainRx(c) \/ Stage(c) \/ Recycle(c)
    BY <1>0, <2>2, ControlDrain, DataDrain DEF Inv
  <2>. QED
    BY <1>3, <2>1, <2>2 DEF Body
<1>4. CASE UNCHANGED vars
  BY <1>0, <1>4
     DEF vars, queues, devside, box, cpu, hist, Inv, ControlInv, DataInv, Outside
<1>. QED
  BY <1>1, <1>2, <1>3, <1>4 DEF Next

-----------------------------------------------------------------------------
THEOREM InvCorrect == Spec => []Inv
  BY InitInv, NextInv, PTL DEF Spec

(* Every index the driver follows stays within its ring, pool or inbox,     *)
(* whatever the device and the two contexts do to the queues in between.    *)
THEOREM TypeCorrect == Spec => []TypeOK
<1>1. Inv => TypeOK
  BY DEF Inv, DataInv, QueueSet, Locals, TypeOK, Contexts
<1>. QED
  BY <1>1, InvCorrect, PTL

(* A drain runs with interrupts masked from its first step to its last,     *)
(* across the answers it sends and the flags they restore.                  *)
THEOREM ReentryCorrect == Spec => []DrainNotReentered
<1>1. Inv => DrainNotReentered
  BY DEF Inv, ControlInv, DataInv, DrainNotReentered, RxHeld, Outside, Labels,
         Sending, Contexts, Locals
<1>. QED
  BY <1>1, InvCorrect, PTL

-----------------------------------------------------------------------------
(* Division with remainder, and what the wrapped indexes need of it.        *)
LEMMA DivMod ==
  ASSUME NEW m \in Nat, m > 0, NEW a \in Nat
  PROVE  \E q \in Nat : a = m * q + (a % m)
<1>1. a \div m \in Nat /\ a = m * (a \div m) + (a % m)
  BY Z3
<1>. QED
  BY <1>1

LEMMA DivUnique ==
  ASSUME NEW m \in Nat, m > 0, NEW q \in Nat, NEW r \in Nat, r < m
  PROVE  (m * q + r) % m = r
  BY Z3

LEMMA MulMono ==
  ASSUME NEW m \in Nat, NEW q \in Int, q >= 1
  PROVE  m * q >= m
  BY Z3

LEMMA ModSmall ==
  ASSUME NEW m \in Nat, NEW x \in Nat, x < m
  PROVE  x % m = x
  BY Z3

LEMMA ModOnce ==
  ASSUME NEW m \in Nat, NEW x \in Nat, m <= x, x < 2 * m
  PROVE  x % m = x - m
  BY Z3

LEMMA ModNeg ==
  ASSUME NEW m \in Nat, NEW x \in Int, x < 0, -m <= x
  PROVE  x % m = x + m
  BY Z3

LEMMA ModDistinct ==
  ASSUME NEW m \in Nat, m > 0, NEW a \in Nat, NEW b \in Nat, a < b, b - a < m
  PROVE  a % m # b % m
<1>1. PICK q \in Nat : a = m * q + (a % m)
  BY DivMod
<1>2. PICK p \in Nat : b = m * p + (b % m)
  BY DivMod
<1>3. SUFFICES ASSUME a % m = b % m PROVE FALSE
  OBVIOUS
<1>4. b - a = m * (p - q)
  BY <1>1, <1>2, <1>3, Z3
<1>5. p - q >= 1
  BY <1>4, Z3
<1>6. m * (p - q) >= m
  BY <1>5, MulMono
<1>. QED
  BY <1>4, <1>6

LEMMA ModPeriod ==
  ASSUME NEW m \in Nat, m > 0, NEW M \in Nat, M % m = 0, NEW x \in Nat, x >= M
  PROVE  (x - M) % m = x % m
<1>. DEFINE r == (x - M) % m
<1>1. PICK q \in Nat : x - M = m * q + r
  BY DivMod
<1>2. PICK p \in Nat : M = m * p + 0
  BY DivMod
<1>3. x = m * (q + p) + r
  BY <1>1, <1>2, Z3
<1>4. r \in Nat /\ r < m /\ q + p \in Nat
  BY Z3
<1>. HIDE DEF r
<1>5. (m * (q + p) + r) % m = r
  BY <1>4, DivUnique
<1>. QED
  BY <1>3, <1>5 DEF r

-----------------------------------------------------------------------------
(* The k-th place of a ring window that starts at index s.                  *)
Pos(size, s, k) == ((s + k) % IdxMod) % size

RingSize(size) == size \in Nat /\ size > 0 /\ size < IdxMod /\ IdxMod % size = 0

LEMMA BetweenType ==
  ASSUME NEW s \in Idxs, NEW e \in Idxs
  PROVE  /\ Between(s, e) \in Nat /\ Between(s, e) < IdxMod
         /\ Between(s, e) = IF s <= e THEN e - s ELSE e - s + IdxMod
<1>1. s \in Nat /\ e \in Nat /\ s < IdxMod /\ e < IdxMod /\ IdxMod \in Nat
  BY SizeFacts DEF Idxs
<1>2. CASE s <= e
  <2>1. e - s \in Nat /\ e - s < IdxMod
    BY <1>1, <1>2
  <2>2. (e - s) % IdxMod = e - s
    BY <1>1, <2>1, ModSmall
  <2>. QED
    BY <1>2, <2>1, <2>2 DEF Between
<1>3. CASE ~(s <= e)
  <2>1. e - s \in Int /\ e - s < 0 /\ -IdxMod <= e - s
    BY <1>1, <1>3
  <2>2. (e - s) % IdxMod = e - s + IdxMod
    BY <1>1, <2>1, ModNeg
  <2>. QED
    BY <1>1, <1>3, <2>1, <2>2 DEF Between
<1>. QED
  BY <1>2, <1>3

LEMMA StepIs ==
  ASSUME NEW s \in Idxs
  PROVE  Step(s) = IF s + 1 = IdxMod THEN 0 ELSE s + 1
<1>1. s \in Nat /\ s < IdxMod /\ IdxMod \in Nat /\ s + 1 \in Nat /\ IdxMod > 1
  BY SizeFacts DEF Idxs
<1>2. CASE s + 1 = IdxMod
  <2>1. (s + 1) % IdxMod = s + 1 - IdxMod
    BY <1>1, <1>2, ModOnce
  <2>. QED
    BY <1>1, <1>2, <2>1 DEF Step
<1>3. CASE s + 1 # IdxMod
  BY <1>1, <1>3, ModSmall DEF Step
<1>. QED
  BY <1>2, <1>3

LEMMA BetweenStep ==
  ASSUME NEW s \in Idxs, NEW e \in Idxs
  PROVE  /\ Between(s, e) = 0 <=> s = e
         /\ Between(s, e) + 1 < IdxMod => Between(s, Step(e)) = Between(s, e) + 1
         /\ s # e => Between(Step(s), e) = Between(s, e) - 1
<1>1. s \in Nat /\ e \in Nat /\ s < IdxMod /\ e < IdxMod /\ IdxMod \in Nat
  BY SizeFacts DEF Idxs
<1>2. Step(s) \in Idxs /\ Step(e) \in Idxs
  BY StepType
<1>3. Between(s, e) = 0 <=> s = e
  BY <1>1, BetweenType
<1>4. ASSUME Between(s, e) + 1 < IdxMod
      PROVE  Between(s, Step(e)) = Between(s, e) + 1
  <2>1. Between(s, e) = IF s <= e THEN e - s ELSE e - s + IdxMod
    BY BetweenType
  <2>2. Between(s, Step(e)) = IF s <= Step(e) THEN Step(e) - s ELSE Step(e) - s + IdxMod
    BY <1>2, BetweenType
  <2>3. Step(e) = IF e + 1 = IdxMod THEN 0 ELSE e + 1
    BY StepIs
  <2>. QED
    BY <1>1, <1>4, <2>1, <2>2, <2>3
<1>5. ASSUME s # e
      PROVE  Between(Step(s), e) = Between(s, e) - 1
  <2>1. Between(s, e) = IF s <= e THEN e - s ELSE e - s + IdxMod
    BY BetweenType
  <2>2. Between(Step(s), e) = IF Step(s) <= e THEN e - Step(s) ELSE e - Step(s) + IdxMod
    BY <1>2, BetweenType
  <2>3. Step(s) = IF s + 1 = IdxMod THEN 0 ELSE s + 1
    BY StepIs
  <2>. QED
    BY <1>1, <1>5, <2>1, <2>2, <2>3
<1>. QED
  BY <1>3, <1>4, <1>5

(* Within a window, places do not wrap differently at the index width and   *)
(* at the ring size: the size divides the width.                            *)
LEMMA PosIs ==
  ASSUME NEW size, RingSize(size), NEW s \in Idxs, NEW k \in Nat, k <= size
  PROVE  Pos(size, s, k) = (s + k) % size
<1>1. /\ s + k \in Nat /\ s + k < 2 * IdxMod /\ IdxMod \in Nat /\ size \in Nat /\ size > 0
      /\ IdxMod % size = 0
  BY SizeFacts DEF Idxs, RingSize
<1>2. CASE s + k < IdxMod
  BY <1>1, <1>2, ModSmall DEF Pos
<1>3. CASE s + k >= IdxMod
  <2>. DEFINE x == s + k
  <2>0. x \in Nat /\ IdxMod <= x /\ x < 2 * IdxMod
    BY <1>1, <1>3
  <2>. HIDE DEF x
  <2>1. x % IdxMod = x - IdxMod
    BY <1>1, <2>0, ModOnce
  <2>2. (x - IdxMod) % size = x % size
    BY <1>1, <2>0, ModPeriod
  <2>. USE DEF x
  <2>. QED
    BY <2>1, <2>2 DEF Pos
<1>. QED
  BY <1>1, <1>2, <1>3

LEMMA PosType ==
  ASSUME NEW size, RingSize(size), NEW s \in Idxs, NEW k \in Nat, k <= size
  PROVE  Pos(size, s, k) \in 0 .. (size - 1)
<1>1. s + k \in Nat /\ size \in Nat /\ size > 0
  BY SizeFacts DEF Idxs, RingSize
<1>. QED
  BY <1>1, PosIs, ModType

LEMMA PosDistinct ==
  ASSUME NEW size, RingSize(size), NEW s \in Idxs,
         NEW j \in Nat, NEW k \in Nat, j < k, k < size
  PROVE  Pos(size, s, j) # Pos(size, s, k)
<1>1. /\ s + j \in Nat /\ s + k \in Nat /\ s + j < s + k /\ (s + k) - (s + j) < size
      /\ size \in Nat /\ size > 0
  BY SizeFacts DEF Idxs, RingSize
<1>2. (s + j) % size # (s + k) % size
  BY <1>1, ModDistinct
<1>3. j <= size /\ k <= size
  BY <1>1
<1>. QED
  BY <1>2, <1>3, PosIs

(* The window moves on by a place, and ends at its end.                     *)
LEMMA PosEnds ==
  ASSUME NEW size, RingSize(size), NEW s \in Idxs, NEW e \in Idxs
  PROVE  /\ Pos(size, s, 0) = s % size
         /\ Pos(size, s, Between(s, e)) = e % size
         /\ \A k \in Nat : k < size => Pos(size, Step(s), k) = Pos(size, s, k + 1)
<1>1. /\ s \in Nat /\ e \in Nat /\ s < IdxMod /\ e < IdxMod /\ IdxMod \in Nat
      /\ size \in Nat /\ size > 0 /\ size < IdxMod /\ IdxMod > 1
  BY SizeFacts DEF Idxs, RingSize
<1>2. Pos(size, s, 0) = s % size
  BY <1>1, ModSmall DEF Pos
<1>3. (s + Between(s, e)) % IdxMod = e
  <2>1. CASE s <= e
    <3>1. s + Between(s, e) = e
      BY <1>1, <2>1, BetweenType
    <3>. QED
      BY <1>1, <3>1, ModSmall
  <2>2. CASE ~(s <= e)
    <3>1. s + Between(s, e) = e + IdxMod
      BY <1>1, <2>2, BetweenType
    <3>2. (e + IdxMod) % IdxMod = (e + IdxMod) - IdxMod
      BY <1>1, ModOnce
    <3>. QED
      BY <1>1, <3>1, <3>2
  <2>. QED
    BY <2>1, <2>2
<1>4. ASSUME NEW k \in Nat, k < size
      PROVE  Pos(size, Step(s), k) = Pos(size, s, k + 1)
  <2>1. CASE s + 1 = IdxMod
    <3>1. Step(s) = 0
      BY <2>1, StepIs
    <3>2. (0 + k) % IdxMod = k
      BY <1>1, <1>4, ModSmall
    <3>3. s + (k + 1) = k + IdxMod
      BY <1>1, <2>1
    <3>4. (k + IdxMod) % IdxMod = (k + IdxMod) - IdxMod
      BY <1>1, <1>4, ModOnce
    <3>5. (k + IdxMod) - IdxMod = k
      BY <1>1
    <3>. QED
      BY <3>1, <3>2, <3>3, <3>4, <3>5 DEF Pos
  <2>2. CASE s + 1 # IdxMod
    <3>1. Step(s) = s + 1
      BY <2>2, StepIs
    <3>2. (s + 1) + k = s + (k + 1)
      BY <1>1
    <3>. QED
      BY <3>1, <3>2 DEF Pos
  <2>. QED
    BY <2>1, <2>2
<1>. QED
  BY <1>2, <1>3, <1>4 DEF Pos

(* A ring r holds a window of descriptors from index s up to index e.       *)
At(r, size, s, k) == r[Pos(size, s, k)]
Window(r, size, s, e) == {At(r, size, s, k) : k \in 0 .. (Between(s, e) - 1)}
(* The window fits in the ring, and no descriptor is in it twice.           *)
Fit(r, size, s, e) ==
  /\ Between(s, e) <= size
  /\ \A j, k \in 0 .. (Between(s, e) - 1) :
       At(r, size, s, j) = At(r, size, s, k) => j = k

LEMMA CountUpTo ==
  ASSUME NEW n \in Nat
  PROVE  IsFiniteSet(0 .. (n - 1)) /\ Cardinality(0 .. (n - 1)) = n
<1>1. 0 \in Int /\ n - 1 \in Int
  OBVIOUS
<1>2. Cardinality(0 .. (n - 1)) = IF 0 > n - 1 THEN 0 ELSE (n - 1) - 0 + 1
  BY <1>1, FS_Interval, Zenon
<1>3. IsFiniteSet(0 .. (n - 1))
  BY <1>1, FS_Interval, Zenon
<1>4. (IF 0 > n - 1 THEN 0 ELSE (n - 1) - 0 + 1) = n
  OBVIOUS
<1>. QED
  BY <1>2, <1>3, <1>4

LEMMA RingTake ==
  ASSUME NEW size, RingSize(size), NEW r, NEW s \in Idxs, NEW e \in Idxs,
         s # e, Fit(r, size, s, e)
  PROVE  /\ Step(s) \in Idxs /\ Between(Step(s), e) = Between(s, e) - 1
         /\ \A k \in 0 .. (Between(Step(s), e) - 1) :
              At(r, size, Step(s), k) = At(r, size, s, k + 1)
         /\ At(r, size, s, 0) = r[s % size]
         /\ r[s % size] \in Window(r, size, s, e)
         /\ Window(r, size, Step(s), e) = Window(r, size, s, e) \ {r[s % size]}
         /\ Fit(r, size, Step(s), e)
<1>. DEFINE n == Between(s, e)
<1>1. n \in Nat /\ n > 0 /\ n <= size /\ size \in Nat /\ size > 0
  BY BetweenType, BetweenStep DEF Fit, RingSize
<1>2. Step(s) \in Idxs /\ Between(Step(s), e) = n - 1
  BY StepType, BetweenStep
<1>. HIDE DEF n
<1>3. \A k \in 0 .. (n - 2) : At(r, size, Step(s), k) = At(r, size, s, k + 1)
  BY <1>1, PosEnds DEF At
<1>4. At(r, size, s, 0) = r[s % size]
  BY PosEnds DEF At
<1>5. \A j, k \in 0 .. (n - 1) : At(r, size, s, j) = At(r, size, s, k) => j = k
  BY DEF Fit, n
<1>6. Window(r, size, s, e) = {At(r, size, s, k) : k \in 0 .. (n - 1)}
  BY DEF Window, n
<1>7. Window(r, size, Step(s), e) = {At(r, size, Step(s), k) : k \in 0 .. (n - 2)}
  <2>1. (n - 1) - 1 = n - 2
    BY <1>1
  <2>. QED
    BY <1>2, <2>1 DEF Window
<1>8. r[s % size] \in Window(r, size, s, e)
  <2>1. 0 \in 0 .. (n - 1)
    BY <1>1
  <2>. QED
    BY <2>1, <1>4, <1>6
<1>9. Window(r, size, Step(s), e) = Window(r, size, s, e) \ {r[s % size]}
  <2>1. ASSUME NEW x \in Window(r, size, Step(s), e)
        PROVE  x \in Window(r, size, s, e) \ {r[s % size]}
    <3>1. PICK k \in 0 .. (n - 2) : x = At(r, size, Step(s), k)
      BY <1>7, <2>1
    <3>2. x = At(r, size, s, k + 1) /\ k + 1 \in 0 .. (n - 1) /\ k + 1 # 0 /\ 0 \in 0 .. (n - 1)
      BY <1>1, <1>3, <3>1
    <3>3. x # At(r, size, s, 0)
      BY <1>5, <3>2
    <3>. QED
      BY <1>4, <1>6, <3>2, <3>3
  <2>2. ASSUME NEW x \in Window(r, size, s, e) \ {r[s % size]}
        PROVE  x \in Window(r, size, Step(s), e)
    <3>1. PICK k \in 0 .. (n - 1) : x = At(r, size, s, k)
      BY <1>6, <2>2
    <3>2. k # 0
      BY <1>4, <2>2, <3>1
    <3>3. k - 1 \in 0 .. (n - 2) /\ (k - 1) + 1 = k
      BY <1>1, <3>2
    <3>4. At(r, size, Step(s), k - 1) = x
      BY <1>3, <3>1, <3>3
    <3>. QED
      BY <1>7, <3>3, <3>4
  <2>. QED
    BY <2>1, <2>2
<1>10. Fit(r, size, Step(s), e)
  <2>1. n - 1 <= size
    BY <1>1
  <2>2. ASSUME NEW j \in 0 .. ((n - 1) - 1), NEW k \in 0 .. ((n - 1) - 1),
               At(r, size, Step(s), j) = At(r, size, Step(s), k)
        PROVE  j = k
    <3>1. j \in 0 .. (n - 2) /\ k \in 0 .. (n - 2)
          /\ j + 1 \in 0 .. (n - 1) /\ k + 1 \in 0 .. (n - 1)
      BY <1>1
    <3>2. j + 1 = k + 1
      BY <1>3, <1>5, <2>2, <3>1
    <3>. QED
      BY <3>1, <3>2
  <2>. QED
    BY <1>2, <2>1, <2>2 DEF Fit
<1>11. (n - 1) - 1 = n - 2
  BY <1>1
<1>. QED
  BY <1>2, <1>3, <1>4, <1>8, <1>9, <1>10, <1>11 DEF n

(* Writing the slot past the window and, perhaps, moving its end over it.   *)
LEMMA RingPut ==
  ASSUME NEW size, RingSize(size), NEW r, NEW q, NEW s \in Idxs, NEW e \in Idxs,
         Fit(r, size, s, e), Between(s, e) < size, NEW id,
         id \notin Window(r, size, s, e),
         q[e % size] = id,
         \A i \in 0 .. (size - 1) : i # e % size => q[i] = r[i]
  PROVE  /\ Step(e) \in Idxs /\ Between(s, Step(e)) = Between(s, e) + 1
         /\ \A k \in 0 .. (Between(s, e) - 1) : At(q, size, s, k) = At(r, size, s, k)
         /\ At(q, size, s, Between(s, e)) = id
         /\ Window(q, size, s, e) = Window(r, size, s, e)
         /\ Fit(q, size, s, e)
         /\ Window(q, size, s, Step(e)) = Window(r, size, s, e) \cup {id}
         /\ Fit(q, size, s, Step(e))
<1>. DEFINE n == Between(s, e)
<1>1. n \in Nat /\ n < size /\ size \in Nat /\ size > 0 /\ size < IdxMod /\ IdxMod \in Nat
  BY BetweenType, SizeFacts DEF RingSize
<1>2. Step(e) \in Idxs /\ Between(s, Step(e)) = n + 1
  <2>1. n + 1 < IdxMod
    BY <1>1
  <2>. QED
    BY <2>1, StepType, BetweenStep
<1>3. Pos(size, s, n) = e % size
  BY PosEnds
<1>4. \A j, k \in 0 .. (n - 1) : At(r, size, s, j) = At(r, size, s, k) => j = k
  BY DEF Fit
<1>5. Window(r, size, s, e) = {At(r, size, s, k) : k \in 0 .. (n - 1)}
      /\ Window(q, size, s, e) = {At(q, size, s, k) : k \in 0 .. (n - 1)}
  BY DEF Window
<1>. HIDE DEF n
<1>6. ASSUME NEW k \in 0 .. (n - 1)
      PROVE  At(q, size, s, k) = At(r, size, s, k)
  <2>1. k \in Nat /\ k < n /\ k <= size
    BY <1>1
  <2>2. Pos(size, s, k) # e % size
    BY <1>1, <1>3, <2>1, PosDistinct
  <2>3. Pos(size, s, k) \in 0 .. (size - 1)
    BY <2>1, PosType
  <2>. QED
    BY <2>2, <2>3 DEF At
<1>7. At(q, size, s, n) = id
  BY <1>3 DEF At
<1>8. Window(q, size, s, e) = Window(r, size, s, e)
  BY <1>5, <1>6
<1>9. Fit(q, size, s, e)
  <2>1. Between(s, e) = n
    BY DEF n
  <2>2. n <= size
    BY <1>1
  <2>. QED
    BY <1>4, <1>6, <2>1, <2>2 DEF Fit
<1>10. /\ (n + 1) - 1 = n /\ n \in 0 .. n /\ 0 .. (n - 1) \subseteq 0 .. n
       /\ \A k \in 0 .. n : k # n => k \in 0 .. (n - 1)
  BY <1>1
<1>11. Window(q, size, s, Step(e)) = {At(q, size, s, k) : k \in 0 .. n}
  BY <1>2, <1>10 DEF Window
<1>12. Window(q, size, s, Step(e)) = Window(r, size, s, e) \cup {id}
  <2>1. ASSUME NEW x \in Window(q, size, s, Step(e))
        PROVE  x \in Window(r, size, s, e) \cup {id}
    <3>1. PICK k \in 0 .. n : x = At(q, size, s, k)
      BY <1>11, <2>1
    <3>. QED
      BY <3>1, <1>5, <1>6, <1>7, <1>10
  <2>2. ASSUME NEW x \in Window(r, size, s, e) \cup {id}
        PROVE  x \in Window(q, size, s, Step(e))
    <3>1. CASE x = id
      BY <3>1, <1>7, <1>10, <1>11
    <3>2. CASE x \in Window(r, size, s, e)
      <4>1. PICK k \in 0 .. (n - 1) : x = At(q, size, s, k)
        BY <3>2, <1>5, <1>6
      <4>. QED
        BY <4>1, <1>10, <1>11
    <3>. QED
      BY <2>2, <3>1, <3>2
  <2>. QED
    BY <2>1, <2>2
<1>13. Fit(q, size, s, Step(e))
  <2>1. n + 1 <= size
    BY <1>1
  <2>2. ASSUME NEW j \in 0 .. n, NEW k \in 0 .. n,
               At(q, size, s, j) = At(q, size, s, k)
        PROVE  j = k
    <3>1. \A i \in 0 .. (n - 1) : At(q, size, s, i) \in Window(r, size, s, e)
      BY <1>5, <1>6
    <3>2. \A i \in 0 .. (n - 1) : At(q, size, s, i) # id
      BY <3>1
    <3>. QED
      BY <1>4, <1>6, <1>7, <1>10, <2>2, <3>2
  <2>. QED
    BY <1>2, <1>10, <2>1, <2>2 DEF Fit
<1>. QED
  BY <1>2, <1>6, <1>7, <1>8, <1>9, <1>12, <1>13 DEF n

(* A descriptor outside the window leaves a slot for itself: counting.      *)
LEMMA RingRoom ==
  ASSUME NEW size, RingSize(size), NEW r, NEW s \in Idxs, NEW e \in Idxs,
         Fit(r, size, s, e), Window(r, size, s, e) \subseteq 0 .. (size - 1),
         NEW id \in 0 .. (size - 1), id \notin Window(r, size, s, e)
  PROVE  Between(s, e) < size
<1>. DEFINE n == Between(s, e)
            rest == (0 .. (size - 1)) \ {id}
            f == [k \in 0 .. (n - 1) |-> At(r, size, s, k)]
<1>1. n \in Nat /\ size \in Nat /\ size > 0
  BY BetweenType DEF RingSize
<1>2. IsFiniteSet(0 .. (size - 1)) /\ Cardinality(0 .. (size - 1)) = size
  BY <1>1, CountUpTo
<1>3. IsFiniteSet(rest) /\ Cardinality(rest) = size - 1
  BY <1>2, FS_RemoveElement
<1>4. IsFiniteSet(0 .. (n - 1)) /\ Cardinality(0 .. (n - 1)) = n
  BY <1>1, CountUpTo
<1>5. f \in Injection(0 .. (n - 1), rest)
  <2>1. f \in [0 .. (n - 1) -> rest]
    BY DEF Window
  <2>2. \A j, k \in 0 .. (n - 1) : f[j] = f[k] => j = k
    BY DEF Fit
  <2>. QED
    BY <2>1, <2>2 DEF Injection, IsInjective
<1>6. Cardinality(0 .. (n - 1)) <= Cardinality(rest)
  BY <1>3, <1>4, <1>5, FS_Injection
<1>. QED
  BY <1>1, <1>3, <1>4, <1>6

LEMMA WindowSize ==
  ASSUME NEW size, RingSize(size), NEW r, NEW s \in Idxs, NEW e \in Idxs,
         Fit(r, size, s, e)
  PROVE  Cardinality(Window(r, size, s, e)) = Between(s, e)
<1>. DEFINE n == Between(s, e)
            f == [k \in 0 .. (n - 1) |-> At(r, size, s, k)]
<1>1. n \in Nat
  BY BetweenType
<1>2. IsFiniteSet(0 .. (n - 1)) /\ Cardinality(0 .. (n - 1)) = n
  BY <1>1, CountUpTo
<1>3. f \in Bijection(0 .. (n - 1), Window(r, size, s, e))
  BY DEF Bijection, Injection, Surjection, IsInjective, Window, Fit
<1>4. ExistsBijection(0 .. (n - 1), Window(r, size, s, e))
  BY <1>3 DEF ExistsBijection
<1>. QED
  BY <1>2, <1>4, FS_Bijection

(* Induction on the natural numbers, for a set: a least counterexample.     *)
LEMMA LeastNat ==
  ASSUME NEW T \in SUBSET Nat, T # {}
  PROVE  \E m \in T : \A k \in T : m <= k
<1>. DEFINE Below(n) == 0 .. (n - 1)
            B == {Below(n) : n \in T}
<1>1. \A n \in Nat : IsFiniteSet(Below(n)) /\ Below(n) \in SUBSET Nat
  BY CountUpTo
<1>2. B \subseteq FiniteSubsetsOf(Nat) /\ B # {}
  BY <1>1 DEF FiniteSubsetsOf
<1>3. \E x \in B : \A y \in B : ~(<<y, x>> \in StrictSubsetOrdering(Nat))
  BY <1>2, FS_StrictSubsetOrderingWellFounded, WFMin
<1>4. PICK m \in T : \A k \in T : ~(<<Below(k), Below(m)>> \in StrictSubsetOrdering(Nat))
  BY <1>3
<1>5. ASSUME NEW k \in T, k < m PROVE FALSE
  <2>1. Below(k) \subseteq Below(m) /\ k \in Below(m) /\ k \notin Below(k)
    BY <1>5
  <2>2. Below(k) \in SUBSET Nat /\ Below(m) \in SUBSET Nat
    OBVIOUS
  <2>3. <<Below(k), Below(m)>> \in StrictSubsetOrdering(Nat)
    BY <2>1, <2>2, Zenon DEF StrictSubsetOrdering
  <2>. QED
    BY <2>3, <1>4
<1>. QED
  BY <1>5

LEMMA SetInduction ==
  ASSUME NEW P \in SUBSET Nat, 0 \in P, \A n \in P : n + 1 \in P
  PROVE  P = Nat
<1>1. SUFFICES ASSUME Nat \ P # {} PROVE FALSE
  OBVIOUS
<1>2. PICK m \in Nat \ P : \A k \in Nat \ P : m <= k
  BY <1>1, LeastNat
<1>3. m # 0 /\ m - 1 \in Nat
  BY <1>2
<1>4. m - 1 \in P
  BY <1>2, <1>3
<1>5. (m - 1) + 1 \in P
  BY <1>4
<1>. QED
  BY <1>2, <1>5

(* Following the links of a pool from a head: the walk exists, and any two  *)
(* walks agree while they meet the same links.                              *)
Path(next, h, p, n) == p[0] = h /\ \A i \in 1 .. n : p[i] = next[p[i - 1]]

LEMMA PathsExist ==
  ASSUME NEW ids, NEW next \in [ids -> ids], NEW h \in ids, NEW n \in Nat
  PROVE  \E p \in [0 .. n -> ids] : Path(next, h, p, n)
<1>. DEFINE P == {m \in Nat : \E p \in [0 .. m -> ids] : Path(next, h, p, m)}
<1>1. 0 \in P
  <2>1. [i \in 0 .. 0 |-> h] \in [0 .. 0 -> ids] /\ Path(next, h, [i \in 0 .. 0 |-> h], 0)
    BY DEF Path
  <2>. QED
    BY <2>1
<1>2. ASSUME NEW m \in P PROVE m + 1 \in P
  <2>1. PICK p \in [0 .. m -> ids] : Path(next, h, p, m)
    BY <1>2
  <2>. DEFINE r == [i \in 0 .. (m + 1) |-> IF i <= m THEN p[i] ELSE next[p[m]]]
  <2>2. r \in [0 .. (m + 1) -> ids]
    BY <1>2, <2>1
  <2>3. r[0] = h
    BY <1>2, <2>1 DEF Path
  <2>4. ASSUME NEW i \in 1 .. (m + 1) PROVE r[i] = next[r[i - 1]]
    <3>1. CASE i <= m
      BY <1>2, <2>1, <3>1 DEF Path
    <3>2. CASE i = m + 1
      BY <1>2, <3>2
    <3>. QED
      BY <1>2, <3>1, <3>2
  <2>5. Path(next, h, r, m + 1)
    BY <2>3, <2>4 DEF Path
  <2>6. m + 1 \in Nat
    BY <1>2
  <2>. HIDE DEF r
  <2>. QED
    BY <2>2, <2>5, <2>6
<1>3. P = Nat
  <2>. HIDE DEF P
  <2>1. P \in SUBSET Nat
    BY DEF P
  <2>. QED
    BY <1>1, <1>2, <2>1, SetInduction
<1>. QED
  BY <1>3

LEMMA PathsAgree ==
  ASSUME NEW ids, NEW next \in [ids -> ids], NEW h \in ids,
         NEW n \in Nat, NEW m \in Nat, n <= m,
         NEW p \in [0 .. n -> ids], Path(next, h, p, n),
         NEW r \in [0 .. m -> ids], Path(next, h, r, m)
  PROVE  p[n] = r[n]
<1>. DEFINE P == {k \in Nat : k <= n => p[k] = r[k]}
<1>1. 0 \in P
  BY DEF Path
<1>2. ASSUME NEW k \in P PROVE k + 1 \in P
  <2>1. ASSUME k + 1 <= n PROVE p[k + 1] = r[k + 1]
    <3>1. k \in Nat /\ k <= n /\ k + 1 \in 1 .. n /\ k + 1 \in 1 .. m /\ (k + 1) - 1 = k
      BY <1>2, <2>1
    <3>. QED
      BY <1>2, <3>1 DEF Path
  <2>. QED
    BY <1>2, <2>1
<1>3. P = Nat
  <2>. HIDE DEF P
  <2>1. P \in SUBSET Nat
    BY DEF P
  <2>. QED
    BY <1>1, <1>2, <2>1, SetInduction
<1>. QED
  BY <1>3

LEMMA WalkExists ==
  ASSUME NEW ids, NEW next \in [ids -> ids], NEW h \in ids
  PROVE  \E w : w = [n \in Nat |-> IF n = 0 THEN h ELSE next[w[n - 1]]]
<1>. DEFINE Chosen(n) == CHOOSE p \in [0 .. n -> ids] : Path(next, h, p, n)
            w == [n \in Nat |-> Chosen(n)[n]]
<1>1. ASSUME NEW n \in Nat PROVE Chosen(n) \in [0 .. n -> ids] /\ Path(next, h, Chosen(n), n)
  <2>1. \E p \in [0 .. n -> ids] : Path(next, h, p, n)
    BY PathsExist
  <2>. QED
    BY <2>1, Zenon
<1>2. ASSUME NEW n \in Nat PROVE w[n] = IF n = 0 THEN h ELSE next[w[n - 1]]
  <2>. HIDE DEF Chosen
  <2>1. CASE n = 0
    BY <1>1, <2>1 DEF Path
  <2>2. CASE n # 0
    <3>1. n - 1 \in Nat /\ n - 1 <= n /\ n \in 1 .. n
      BY <2>2
    <3>2. Chosen(n - 1) \in [0 .. (n - 1) -> ids] /\ Path(next, h, Chosen(n - 1), n - 1)
      BY <1>1, <3>1
    <3>a. Chosen(n) \in [0 .. n -> ids] /\ Path(next, h, Chosen(n), n)
      BY <1>1
    <3>3. Chosen(n - 1)[n - 1] = Chosen(n)[n - 1]
      BY <3>1, <3>2, <3>a, PathsAgree
    <3>. QED
      BY <1>1, <2>2, <3>1, <3>3 DEF Path
  <2>. QED
    BY <2>1, <2>2
<1>3. w = [n \in Nat |-> w[n]]
  OBVIOUS
<1>4. w = [n \in Nat |-> IF n = 0 THEN h ELSE next[w[n - 1]]]
  <2>. HIDE DEF w
  <2>. QED
    BY <1>2, <1>3
<1>. QED
  BY <1>4

(* The pool of a queue is a chain p of free_count different descriptors.    *)
Chained(q, p) ==
  /\ q.free_count > 0 => p[0] = q.free_head
  /\ \A n \in 1 .. (q.free_count - 1) : p[n] = q.next[p[n - 1]]
  /\ \A m, n \in 0 .. (q.free_count - 1) : p[m] = p[n] => m = n

LEMMA FreeIdsAre ==
  ASSUME NEW ids, NEW q, q.next \in [ids -> ids], q.free_head \in ids,
         q.free_count \in Nat, NEW p, Chained(q, p)
  PROVE  FreeIds(q) = {p[n] : n \in 0 .. (q.free_count - 1)}
<1>. DEFINE w == CHOOSE f : f = [n \in Nat |-> IF n = 0 THEN q.free_head ELSE q.next[f[n - 1]]]
            P == {k \in Nat : k < q.free_count => p[k] = w[k]}
<1>1. w = [n \in Nat |-> IF n = 0 THEN q.free_head ELSE q.next[w[n - 1]]]
  <2>1. \E f : f = [n \in Nat |-> IF n = 0 THEN q.free_head ELSE q.next[f[n - 1]]]
    BY WalkExists
  <2>. QED
    BY <2>1, Zenon
<1>2. FreeIds(q) = {w[n] : n \in 0 .. (q.free_count - 1)}
  BY Zenon DEF FreeIds
<1>. HIDE DEF w
<1>3. 0 \in P
  BY <1>1 DEF Chained
<1>4. ASSUME NEW k \in P PROVE k + 1 \in P
  <2>1. ASSUME k + 1 < q.free_count PROVE p[k + 1] = w[k + 1]
    <3>1. k \in Nat /\ k < q.free_count /\ k + 1 \in 1 .. (q.free_count - 1) /\ (k + 1) - 1 = k
          /\ k + 1 \in Nat /\ k + 1 # 0
      BY <1>4, <2>1
    <3>2. p[k + 1] = q.next[p[k]]
      BY <3>1 DEF Chained
    <3>3. w[k + 1] = q.next[w[k]]
      BY <1>1, <3>1
    <3>. QED
      BY <1>4, <3>1, <3>2, <3>3
  <2>. QED
    BY <1>4, <2>1
<1>5. P = Nat
  <2>. HIDE DEF P
  <2>1. P \in SUBSET Nat
    BY DEF P
  <2>. QED
    BY <1>3, <1>4, <2>1, SetInduction
<1>6. \A n \in 0 .. (q.free_count - 1) : p[n] = w[n]
  BY <1>5
<1>. QED
  BY <1>2, <1>6

PoolOK(ids, q) ==
  /\ q.next \in [ids -> ids] /\ q.free_head \in ids /\ q.free_count \in Nat
  /\ \E p \in [Nat -> ids] : Chained(q, p)

LEMMA PoolSame ==
  ASSUME NEW ids, NEW q, NEW r, PoolOK(ids, q),
         r.next = q.next, r.free_head = q.free_head, r.free_count = q.free_count
  PROVE  PoolOK(ids, r) /\ FreeIds(r) = FreeIds(q)
<1>1. PICK p \in [Nat -> ids] : Chained(q, p)
  BY DEF PoolOK
<1>2. Chained(r, p)
  BY <1>1 DEF Chained
<1>3. /\ q.next \in [ids -> ids] /\ q.free_head \in ids /\ q.free_count \in Nat
      /\ r.next \in [ids -> ids] /\ r.free_head \in ids /\ r.free_count \in Nat
  BY DEF PoolOK
<1>4. FreeIds(q) = {p[n] : n \in 0 .. (q.free_count - 1)}
  BY <1>1, <1>3, FreeIdsAre
<1>5. FreeIds(r) = {p[n] : n \in 0 .. (r.free_count - 1)}
  BY <1>2, <1>3, FreeIdsAre
<1>. QED
  BY <1>2, <1>3, <1>4, <1>5 DEF PoolOK

(* Taking the head of a pool that is not empty.                             *)
LEMMA PoolAlloc ==
  ASSUME NEW ids, NEW q, PoolOK(ids, q), q.free_count > 0, NEW r,
         r.next = q.next, r.free_head = q.next[q.free_head],
         r.free_count = q.free_count - 1
  PROVE  /\ q.free_head \in FreeIds(q)
         /\ PoolOK(ids, r) /\ FreeIds(r) = FreeIds(q) \ {q.free_head}
<1>. DEFINE n == q.free_count
<1>1. n \in Nat /\ n > 0 /\ q.next \in [ids -> ids] /\ q.free_head \in ids
  BY DEF PoolOK
<1>2. PICK p \in [Nat -> ids] : Chained(q, p)
  BY DEF PoolOK
<1>. HIDE DEF n
<1>3. /\ p[0] = q.free_head
      /\ \A i \in 1 .. (n - 1) : p[i] = q.next[p[i - 1]]
      /\ \A i, j \in 0 .. (n - 1) : p[i] = p[j] => i = j
  BY <1>1, <1>2 DEF Chained, n
<1>. DEFINE s == [i \in Nat |-> p[i + 1]]
<1>4. s \in [Nat -> ids] /\ \A i \in Nat : s[i] = p[i + 1]
  BY <1>2
<1>5. r.free_count = n - 1 /\ n - 1 \in Nat
  BY <1>1 DEF n
<1>6. Chained(r, s)
  <2>. HIDE DEF s
  <2>1. ASSUME n - 1 > 0 PROVE s[0] = r.free_head
    <3>1. 1 \in 1 .. (n - 1) /\ 0 + 1 = 1 /\ 1 - 1 = 0
      BY <1>1, <2>1
    <3>. QED
      BY <1>3, <1>4, <3>1
  <2>2. ASSUME NEW i \in 1 .. ((n - 1) - 1) PROVE s[i] = r.next[s[i - 1]]
    <3>1. i + 1 \in 1 .. (n - 1) /\ (i + 1) - 1 = i /\ i \in Nat /\ i - 1 \in Nat /\ (i - 1) + 1 = i
      BY <1>1
    <3>. QED
      BY <1>3, <1>4, <3>1
  <2>3. ASSUME NEW i \in 0 .. ((n - 1) - 1), NEW j \in 0 .. ((n - 1) - 1), s[i] = s[j]
        PROVE  i = j
    <3>1. i + 1 \in 0 .. (n - 1) /\ j + 1 \in 0 .. (n - 1) /\ i \in Nat /\ j \in Nat
      BY <1>1
    <3>2. i + 1 = j + 1
      BY <1>3, <1>4, <2>3, <3>1
    <3>. QED
      BY <3>1, <3>2
  <2>. QED
    BY <1>5, <2>1, <2>2, <2>3 DEF Chained
<1>7. PoolOK(ids, r)
  BY <1>1, <1>4, <1>5, <1>6 DEF PoolOK
<1>8. FreeIds(q) = {p[i] : i \in 0 .. (n - 1)}
  BY <1>1, <1>2, FreeIdsAre DEF n
<1>9. FreeIds(r) = {s[i] : i \in 0 .. ((n - 1) - 1)}
  <2>. HIDE DEF s
  <2>1. r.next \in [ids -> ids] /\ r.free_head \in ids /\ r.free_count \in Nat
    BY <1>7 DEF PoolOK
  <2>2. FreeIds(r) = {s[i] : i \in 0 .. (r.free_count - 1)}
    BY <1>6, <2>1, FreeIdsAre
  <2>. QED
    BY <1>5, <2>2
<1>10. \A i \in 0 .. ((n - 1) - 1) : s[i] = p[i + 1]
  BY <1>4
<1>11. 0 \in 0 .. (n - 1)
  BY <1>1
<1>12. FreeIds(r) = FreeIds(q) \ {q.free_head}
  <2>. HIDE DEF s
  <2>1. ASSUME NEW x \in FreeIds(r) PROVE x \in FreeIds(q) \ {q.free_head}
    <3>1. PICK i \in 0 .. ((n - 1) - 1) : x = s[i]
      BY <1>9
    <3>2. x = p[i + 1] /\ i + 1 \in 0 .. (n - 1) /\ i + 1 # 0
      BY <1>1, <1>10, <3>1
    <3>. QED
      BY <1>3, <1>8, <1>11, <3>2
  <2>2. ASSUME NEW x \in FreeIds(q) \ {q.free_head} PROVE x \in FreeIds(r)
    <3>1. PICK i \in 0 .. (n - 1) : x = p[i]
      BY <1>8
    <3>2. i # 0
      BY <1>3, <2>2, <3>1
    <3>3. i - 1 \in 0 .. ((n - 1) - 1) /\ (i - 1) + 1 = i
      BY <1>1, <3>2
    <3>4. x = s[i - 1]
      BY <1>10, <3>1, <3>3
    <3>. QED
      BY <1>9, <3>3, <3>4
  <2>. QED
    BY <2>1, <2>2
<1>. QED
  BY <1>3, <1>7, <1>8, <1>11, <1>12

(* The link of a descriptor outside the pool may change.                    *)
LEMMA PoolFill ==
  ASSUME NEW ids, NEW q, PoolOK(ids, q), NEW id \in ids, id \notin FreeIds(q), NEW v \in ids,
         NEW r, r.next = [q.next EXCEPT ![id] = v],
         r.free_head = q.free_head, r.free_count = q.free_count
  PROVE  PoolOK(ids, r) /\ FreeIds(r) = FreeIds(q)
<1>. DEFINE n == q.free_count
<1>1. n \in Nat /\ q.next \in [ids -> ids] /\ q.free_head \in ids
  BY DEF PoolOK
<1>2. PICK p \in [Nat -> ids] : Chained(q, p)
  BY DEF PoolOK
<1>3. FreeIds(q) = {p[i] : i \in 0 .. (n - 1)}
  BY <1>1, <1>2, FreeIdsAre
<1>4. Chained(r, p)
  <2>1. ASSUME NEW i \in 1 .. (n - 1) PROVE p[i] = r.next[p[i - 1]]
    <3>1. i - 1 \in 0 .. (n - 1) /\ i - 1 \in Nat
      BY <1>1
    <3>2. p[i - 1] # id /\ p[i - 1] \in ids
      BY <1>2, <1>3, <3>1
    <3>3. p[i] = q.next[p[i - 1]]
      BY <1>2 DEF Chained
    <3>. QED
      BY <1>1, <3>2, <3>3
  <2>. QED
    BY <1>2, <2>1 DEF Chained
<1>5. r.next \in [ids -> ids]
  BY <1>1
<1>6. FreeIds(r) = {p[i] : i \in 0 .. (n - 1)}
  BY <1>1, <1>4, <1>5, FreeIdsAre
<1>. QED
  BY <1>1, <1>3, <1>4, <1>5, <1>6 DEF PoolOK

(* A descriptor outside the pool becomes its head.                          *)
LEMMA PoolFree ==
  ASSUME NEW ids, NEW q, PoolOK(ids, q), NEW id \in ids, id \notin FreeIds(q),
         NEW r, r.next = [q.next EXCEPT ![id] = q.free_head],
         r.free_head = id, r.free_count = q.free_count + 1
  PROVE  PoolOK(ids, r) /\ FreeIds(r) = FreeIds(q) \cup {id}
<1>. DEFINE n == q.free_count
<1>1. n \in Nat /\ q.next \in [ids -> ids] /\ q.free_head \in ids
  BY DEF PoolOK
<1>2. PICK p \in [Nat -> ids] : Chained(q, p)
  BY DEF PoolOK
<1>3. FreeIds(q) = {p[i] : i \in 0 .. (n - 1)}
  BY <1>1, <1>2, FreeIdsAre
<1>. DEFINE s == [i \in Nat |-> IF i = 0 THEN id ELSE p[i - 1]]
<1>4. s \in [Nat -> ids] /\ s[0] = id /\ \A i \in 1 .. n : s[i] = p[i - 1]
  BY <1>1, <1>2
<1>5. r.next \in [ids -> ids] /\ r.next[id] = q.free_head
      /\ \A x \in ids : x # id => r.next[x] = q.next[x]
  BY <1>1
<1>a. r.free_count = n + 1 /\ (n + 1) - 1 = n /\ n + 1 \in Nat /\ r.free_head = id
  BY <1>1
<1>b. /\ n > 0 => p[0] = q.free_head
      /\ \A i \in 1 .. (n - 1) : p[i] = q.next[p[i - 1]]
      /\ \A i, j \in 0 .. (n - 1) : p[i] = p[j] => i = j
      /\ \A i \in 0 .. (n - 1) : p[i] \in ids /\ p[i] # id
  BY <1>2, <1>3 DEF Chained
<1>. HIDE DEF n, s
<1>6. Chained(r, s)
  <2>1. ASSUME NEW i \in 1 .. n PROVE s[i] = r.next[s[i - 1]]
    <3>1. CASE i = 1
      BY <1>1, <1>4, <1>5, <1>b, <3>1
    <3>2. CASE i # 1
      <4>1. i - 1 \in 1 .. n /\ i - 1 \in 1 .. (n - 1) /\ (i - 1) - 1 \in 0 .. (n - 1)
        BY <1>1, <3>2
      <4>2. s[i] = p[i - 1] /\ s[i - 1] = p[(i - 1) - 1]
        BY <1>4, <4>1
      <4>. QED
        BY <1>5, <1>b, <4>1, <4>2
    <3>. QED
      BY <3>1, <3>2
  <2>2. ASSUME NEW i \in 0 .. n, NEW j \in 0 .. n, s[i] = s[j] PROVE i = j
    <3>1. \A k \in 0 .. n : k # 0 => k \in 1 .. n /\ k - 1 \in 0 .. (n - 1)
      BY <1>1
    <3>2. CASE i = 0 \/ j = 0
      BY <1>4, <1>b, <2>2, <3>1, <3>2
    <3>3. CASE i # 0 /\ j # 0
      <4>1. p[i - 1] = p[j - 1]
        BY <1>4, <2>2, <3>1, <3>3
      <4>2. i - 1 = j - 1
        BY <1>b, <3>1, <3>3, <4>1
      <4>. QED
        BY <1>1, <4>2
    <3>. QED
      BY <3>2, <3>3
  <2>. QED
    BY <1>4, <1>a, <2>1, <2>2 DEF Chained
<1>7. PoolOK(ids, r)
  BY <1>4, <1>5, <1>6, <1>a DEF PoolOK
<1>8. FreeIds(r) = {s[i] : i \in 0 .. n}
  <2>1. FreeIds(r) = {s[i] : i \in 0 .. (r.free_count - 1)}
    BY <1>5, <1>6, <1>a, FreeIdsAre
  <2>. QED
    BY <1>a, <2>1
<1>9. FreeIds(r) = FreeIds(q) \cup {id}
  <2>0. /\ 0 \in 0 .. n
        /\ \A k \in 0 .. n : k # 0 => k \in 1 .. n /\ k - 1 \in 0 .. (n - 1)
        /\ \A k \in 0 .. (n - 1) : k + 1 \in 0 .. n /\ k + 1 \in 1 .. n /\ (k + 1) - 1 = k
    BY <1>1
  <2>1. ASSUME NEW x \in FreeIds(r) PROVE x \in FreeIds(q) \cup {id}
    <3>1. PICK i \in 0 .. n : x = s[i]
      BY <1>8
    <3>2. CASE i = 0
      BY <1>4, <3>1, <3>2
    <3>3. CASE i # 0
      BY <1>3, <1>4, <2>0, <3>1, <3>3 DEF n
    <3>. QED
      BY <3>2, <3>3
  <2>2. id \in FreeIds(r)
    BY <1>4, <1>8, <2>0
  <2>3. ASSUME NEW x \in FreeIds(q) PROVE x \in FreeIds(r)
    <3>1. PICK i \in 0 .. (n - 1) : x = p[i]
      BY <1>3 DEF n
    <3>2. x = s[i + 1] /\ i + 1 \in 0 .. n
      BY <1>4, <2>0, <3>1
    <3>. QED
      BY <1>8, <3>2
  <2>. QED
    BY <2>1, <2>2, <2>3
<1>. QED
  BY <1>7, <1>9

LEMMA PoolCount ==
  ASSUME NEW ids, NEW q, PoolOK(ids, q)
  PROVE  FreeIds(q) \subseteq ids /\ Cardinality(FreeIds(q)) = q.free_count
<1>. DEFINE n == q.free_count
<1>1. n \in Nat /\ q.next \in [ids -> ids] /\ q.free_head \in ids
  BY DEF PoolOK
<1>2. PICK p \in [Nat -> ids] : Chained(q, p)
  BY DEF PoolOK
<1>3. FreeIds(q) = {p[i] : i \in 0 .. (n - 1)}
  BY <1>1, <1>2, FreeIdsAre
<1>. DEFINE f == [i \in 0 .. (n - 1) |-> p[i]]
<1>4. f \in Bijection(0 .. (n - 1), FreeIds(q))
  BY <1>2, <1>3 DEF Chained, Bijection, Injection, Surjection, IsInjective
<1>5. ExistsBijection(0 .. (n - 1), FreeIds(q))
  BY <1>4 DEF ExistsBijection
<1>6. IsFiniteSet(0 .. (n - 1)) /\ Cardinality(0 .. (n - 1)) = n
  BY <1>1, CountUpTo
<1>7. \A i \in 0 .. (n - 1) : p[i] \in ids
  BY <1>2
<1>. QED
  BY <1>3, <1>5, <1>6, <1>7, FS_Bijection

(* A pool linked in order, as a new queue's, holds every descriptor.        *)
LEMMA PoolNew ==
  ASSUME NEW size \in Nat, size > 0, NEW q,
         q.next = [i \in 0 .. (size - 1) |-> (i + 1) % size],
         q.free_head = 0, q.free_count = size
  PROVE  PoolOK(0 .. (size - 1), q) /\ FreeIds(q) = 0 .. (size - 1)
<1>. DEFINE ids == 0 .. (size - 1)
            p == [n \in Nat |-> IF n < size THEN n ELSE 0]
<1>1. \A i \in ids : (i + 1) % size \in ids
  BY ModType
<1>2. q.next \in [ids -> ids] /\ q.free_head \in ids
  BY <1>1
<1>3. p \in [Nat -> ids] /\ \A n \in ids : p[n] = n
  OBVIOUS
<1>4. ASSUME NEW n \in 1 .. (size - 1) PROVE p[n] = q.next[p[n - 1]]
  <2>1. n - 1 \in ids /\ n \in ids /\ (n - 1) + 1 = n /\ n < size /\ n \in Nat
    OBVIOUS
  <2>2. n % size = n
    BY <2>1, ModSmall
  <2>. QED
    BY <1>3, <2>1, <2>2
<1>5. Chained(q, p)
  <2>. HIDE DEF p
  <2>1. 0 \in ids
    OBVIOUS
  <2>2. p[0] = q.free_head
    BY <1>3, <2>1
  <2>3. \A i, j \in 0 .. (q.free_count - 1) : p[i] = p[j] => i = j
    BY <1>3
  <2>. QED
    BY <1>4, <2>2, <2>3 DEF Chained
<1>6. FreeIds(q) = {p[n] : n \in ids}
  <2>. HIDE DEF p, ids
  <2>1. q.free_count \in Nat
    OBVIOUS
  <2>2. FreeIds(q) = {p[n] : n \in 0 .. (q.free_count - 1)}
    BY <1>2, <1>5, <2>1, FreeIdsAre
  <2>. QED
    BY <2>2 DEF ids
<1>. QED
  BY <1>2, <1>3, <1>5, <1>6 DEF PoolOK

(* What each context holds.  At most one is busy: the handler nests on the  *)
(* main loop only outside its masked sections.                              *)
Answering(c) == at[c] \in {"send"} \cup Sending /\ loc[c].back = "recycle"
Staging(c) == at[c] \in {"stage", "recycle", "republish"} \/ Answering(c)
Busy(c) == at[c] \in {"drain_tx", "drain_rx", "receive"} \cup Sending \/ Staging(c)

TxOffered == OfferedIds(tx, tx_seen)
RxOffered == OfferedIds(rx, rx_seen)
TxPlaces == <<FreeIds(tx), TxHeld, TxOffered, tx_dev, UsedIds(tx)>>
RxPlaces == <<RxOffered, UsedIds(rx), RxHeld>>

(* The receive queue: the windows of its rings, the index the driver keeps  *)
(* with the one it published, and each buffer in one place.                 *)
RxInv ==
  /\ Fit(rx.avail, RxSize, rx_seen, rx.avail_pub) /\ rx.avail_idx = rx.avail_pub
  /\ Fit(rx.used, RxSize, rx.used_idx, rx.used_pub)
  /\ Partition(RxPlaces, RxIds)
  /\ \A c \in Contexts :
       at[c] = "republish" => rx.avail[rx.avail_idx % RxSize] = loc[c].rxid

(* The transmit queue: the same, and its pool.                              *)
TxInv ==
  /\ PoolOK(TxIds, tx)
  /\ Fit(tx.avail, TxSize, tx_seen, tx.avail_pub) /\ tx.avail_idx = tx.avail_pub
  /\ Fit(tx.used, TxSize, tx.used_idx, tx.used_pub)
  /\ Partition(TxPlaces, TxIds)
  /\ \A c \in Contexts :
       /\ at[c] = "unlink" => loc[c].id = tx.free_head /\ tx.free_count > 0
       /\ at[c] = "publish" => tx.avail[tx.avail_idx % TxSize] = loc[c].id

(* The frames on the wire, with the device, and in the senders' hands.      *)
InFlight == TxOffered \cup tx_dev
OnWire(f) == \E i \in DOMAIN transmitted : transmitted[i] = f

FlightInv ==
  /\ tx_buf \in [TxIds -> Int] /\ transmitted \in Seq(Int)
  /\ \A id \in InFlight :
       tx.addr[id] = id /\ tx_buf[id] \in accepted /\ ~OnWire(tx_buf[id])
  /\ \A a, b \in InFlight : tx_buf[a] = tx_buf[b] => a = b
  /\ \A i, j \in DOMAIN transmitted : i # j => transmitted[i] # transmitted[j]
  /\ \A i \in DOMAIN transmitted : transmitted[i] \in accepted
  /\ \A f \in accepted : OnWire(f) \/ \E id \in InFlight : tx_buf[id] = f
  /\ \A c \in Contexts : at[c] \in {"ring", "publish"} =>
       tx.addr[loc[c].id] = loc[c].id /\ tx_buf[loc[c].id] = loc[c].frame

NumberInv ==
  /\ sends \in Nat /\ staged \in Nat
  /\ \A f \in accepted : f \in Int /\ f <= sends /\ -staged <= f
  /\ \A c \in Contexts : at[c] \in {"send"} \cup Sending =>
       /\ loc[c].frame \notin accepted
       /\ loc[c].back = "idle" => loc[c].frame = sends /\ sends > 0
       /\ loc[c].back = "recycle" => loc[c].frame = -staged /\ staged > 0

(* Completed RX buffers hold arrivals in order, newer than what was staged. *)
RxCount == Between(rx.used_idx, rx.used_pub)
Waiting(k) == rx_buf[At(rx.used, RxSize, rx.used_idx, k)]
ArrivalInv ==
  /\ arrived \in Nat /\ staged \in Nat /\ staged <= arrived
  /\ \A k \in 0 .. (RxCount - 1) : staged < Waiting(k) /\ Waiting(k) <= arrived
  /\ \A j, k \in 0 .. (RxCount - 1) : j < k => Waiting(j) < Waiting(k)
  /\ \A c \in Contexts : at[c] = "stage" =>
       /\ staged < rx_buf[loc[c].rxid] /\ rx_buf[loc[c].rxid] <= arrived
       /\ \A k \in 0 .. (RxCount - 1) : rx_buf[loc[c].rxid] < Waiting(k)

InboxInv ==
  /\ inbox \in [0 .. (Inbox - 1) -> Int] /\ received \in Int /\ received <= staged
  /\ staged \in Nat
  /\ InboxInOrder
  /\ at["main"] = "receive" => loc["main"].id = inbox_head

-----------------------------------------------------------------------------
LEMMA Part3 ==
  ASSUME NEW a, NEW b, NEW d, NEW W
  PROVE  Partition(<<a, b, d>>, W) <=>
           a \cup b \cup d = W /\ a \cap b = {} /\ a \cap d = {} /\ b \cap d = {}
<1>. DEFINE p == <<a, b, d>>
<1>1. DOMAIN p = {1, 2, 3} /\ p[1] = a /\ p[2] = b /\ p[3] = d
  OBVIOUS
<1>. HIDE DEF p
<1>2. UNION {p[i] : i \in DOMAIN p} = a \cup b \cup d
  BY <1>1
<1>3. (\A i, j \in DOMAIN p : i # j => p[i] \cap p[j] = {})
        <=> a \cap b = {} /\ a \cap d = {} /\ b \cap d = {}
  BY <1>1
<1>. QED
  BY <1>2, <1>3 DEF Partition, p

LEMMA Part5 ==
  ASSUME NEW a, NEW b, NEW d, NEW e, NEW f, NEW W
  PROVE  Partition(<<a, b, d, e, f>>, W) <=>
           /\ a \cup b \cup d \cup e \cup f = W
           /\ a \cap b = {} /\ a \cap d = {} /\ a \cap e = {} /\ a \cap f = {}
           /\ b \cap d = {} /\ b \cap e = {} /\ b \cap f = {}
           /\ d \cap e = {} /\ d \cap f = {} /\ e \cap f = {}
<1>. DEFINE p == <<a, b, d, e, f>>
<1>1. /\ DOMAIN p = {1, 2, 3, 4, 5}
      /\ p[1] = a /\ p[2] = b /\ p[3] = d /\ p[4] = e /\ p[5] = f
  OBVIOUS
<1>. HIDE DEF p
<1>2. UNION {p[i] : i \in DOMAIN p} = a \cup b \cup d \cup e \cup f
  BY <1>1
<1>3. (\A i, j \in DOMAIN p : i # j => p[i] \cap p[j] = {})
        <=> /\ a \cap b = {} /\ a \cap d = {} /\ a \cap e = {} /\ a \cap f = {}
            /\ b \cap d = {} /\ b \cap e = {} /\ b \cap f = {}
            /\ d \cap e = {} /\ d \cap f = {} /\ e \cap f = {}
  BY <1>1
<1>. QED
  BY <1>2, <1>3 DEF Partition, p

LEMMA Alone ==
  Inv => \A c, d \in Contexts : Busy(c) /\ Busy(d) => c = d
BY DEF Inv, ControlInv, DataInv, Busy, Staging, Answering, Outside, Sending, Contexts, Labels, Locals

HeldBy(c) ==
  /\ RxHeld = IF Staging(c) THEN {loc[c].rxid} ELSE {}
  /\ TxHeld = IF at[c] \in {"fill", "ring", "publish"} THEN {loc[c].id} ELSE {}
OneHolds == \A c \in Contexts : Busy(c) => HeldBy(c)

LEMMA HeldOne == Inv => OneHolds
<1>. SUFFICES ASSUME Inv, NEW c \in Contexts, Busy(c) PROVE HeldBy(c)
  BY DEF OneHolds
<1>1. \A d \in Contexts : Busy(d) => d = c
  BY Alone
<1>2. RxHeld = {loc[d].rxid : d \in {b \in Contexts : Staging(b)}}
  BY DEF RxHeld, Staging, Answering, Sending
<1>3. TxHeld = {loc[d].id : d \in {b \in Contexts : at[b] \in {"fill", "ring", "publish"}}}
  BY DEF TxHeld, Holding
<1>4. \A d \in Contexts : Staging(d) \/ at[d] \in {"fill", "ring", "publish"} => Busy(d)
  BY DEF Busy, Sending
<1>5. RxHeld = IF Staging(c) THEN {loc[c].rxid} ELSE {}
  BY <1>1, <1>2, <1>4
<1>6. TxHeld = IF at[c] \in {"fill", "ring", "publish"} THEN {loc[c].id} ELSE {}
  BY <1>1, <1>3, <1>4
<1>. QED
  BY <1>5, <1>6 DEF HeldBy

LEMMA HeldOneNext == Inv' => OneHolds'
  BY HeldOne, PTL

-----------------------------------------------------------------------------
(* The receive queue.                                                       *)
LEMMA RxRingSize == RingSize(RxSize)
  BY SizeFacts, NetAssumption DEF RingSize

LEMMA WindowsAre ==
  ASSUME NEW q, NEW size, q.queue_size = size, NEW s
  PROVE  /\ OfferedIds(q, s) = Window(q.avail, size, s, q.avail_pub)
         /\ UsedIds(q) = Window(q.used, size, q.used_idx, q.used_pub)
  BY DEF OfferedIds, UsedIds, Window, At, Pos

LEMMA RxView ==
  ASSUME Inv, RxInv
  PROVE  /\ rx \in QueueSet(RxIds, RxSize) /\ rx_seen \in Idxs
         /\ rx.queue_size = RxSize /\ rx.avail_idx \in Idxs /\ rx.avail_pub \in Idxs
         /\ rx.used_idx \in Idxs /\ rx.used_pub \in Idxs
         /\ rx.avail \in [RxIds -> RxIds] /\ rx.used \in [RxIds -> RxIds]
         /\ RxOffered = Window(rx.avail, RxSize, rx_seen, rx.avail_pub)
         /\ UsedIds(rx) = Window(rx.used, RxSize, rx.used_idx, rx.used_pub)
         /\ RxOffered \cup UsedIds(rx) \cup RxHeld = RxIds
         /\ RxOffered \cap UsedIds(rx) = {} /\ RxOffered \cap RxHeld = {}
         /\ UsedIds(rx) \cap RxHeld = {}
<1>1. rx \in QueueSet(RxIds, RxSize) /\ rx_seen \in Idxs
  BY DEF Inv, DataInv
<1>2. rx.queue_size = RxSize
  BY <1>1 DEF QueueSet
<1>3. Partition(<<RxOffered, UsedIds(rx), RxHeld>>, RxIds)
  BY DEF RxInv, RxPlaces
<1>. QED
  BY <1>1, <1>2, <1>3, Part3, WindowsAre DEF QueueSet, RxOffered

(* The same of the state after a step.                                      *)
LEMMA RxBuild ==
  ASSUME NEW O, NEW U, NEW H, rx'.queue_size = RxSize,
         Window(rx'.avail, RxSize, rx_seen', rx'.avail_pub) = O,
         Window(rx'.used, RxSize, rx'.used_idx, rx'.used_pub) = U,
         RxHeld' = H,
         O \cup U \cup H = RxIds, O \cap U = {}, O \cap H = {}, U \cap H = {}
  PROVE  Partition(RxPlaces, RxIds)'
<1>1. RxOffered' = O /\ UsedIds(rx)' = U
  BY WindowsAre DEF RxOffered
<1>2. Partition(<<O, U, H>>, RxIds)
  BY Part3
<1>3. RxPlaces' = <<O, U, H>> /\ RxIds' = RxIds
  BY <1>1 DEF RxPlaces, RxIds
<1>. QED
  BY <1>2, <1>3 DEF Partition

RxRest == \A c \in Contexts :
  at'[c] = "republish" => at[c] = "republish" /\ loc'[c].rxid = loc[c].rxid

LEMMA RxKeep ==
  ASSUME Inv, RxInv, rx' = rx, rx_seen' = rx_seen, RxHeld' = RxHeld, RxRest
  PROVE  RxInv'
<1>1. Partition(RxPlaces, RxIds)'
  BY RxView, RxBuild
<1>. QED
  BY <1>1 DEF RxInv, RxRest, Contexts

(* Staging goes on with the same buffer, or does not go on at all.          *)
SameStaging ==
  \A c \in Contexts : /\ Staging(c)' <=> Staging(c)
                      /\ Staging(c) => loc'[c].rxid = loc[c].rxid

LEMMA StagingKeeps ==
  ASSUME SameStaging
  PROVE  RxHeld' = RxHeld
<1>1. RxHeld = {loc[d].rxid : d \in {b \in Contexts : Staging(b)}}
  BY DEF RxHeld, Staging, Answering, Sending
<1>2. RxHeld' = {loc'[d].rxid : d \in {b \in Contexts : Staging(b)'}}
  BY DEF RxHeld, Staging, Answering, Sending
<1>. QED
  BY <1>1, <1>2 DEF SameStaging

LEMMA RxArrive ==
  ASSUME Inv, RxInv, Arrive
  PROVE  /\ RxInv'
         /\ rx_seen # rx.avail_pub
         /\ OfferedId(rx, rx_seen) \in RxOffered
         /\ rx'.used_idx = rx.used_idx /\ RxCount' = RxCount + 1
         /\ \A k \in 0 .. (RxCount - 1) :
              At(rx'.used, RxSize, rx'.used_idx, k) = At(rx.used, RxSize, rx.used_idx, k)
         /\ At(rx'.used, RxSize, rx'.used_idx, RxCount) = OfferedId(rx, rx_seen)
<1>. DEFINE id == rx.avail[rx_seen % RxSize]
            O == Window(rx.avail, RxSize, rx_seen, rx.avail_pub)
            U == Window(rx.used, RxSize, rx.used_idx, rx.used_pub)
<1>1. /\ rx \in QueueSet(RxIds, RxSize) /\ rx_seen \in Idxs
      /\ rx.queue_size = RxSize /\ rx.avail_pub \in Idxs
      /\ rx.used_idx \in Idxs /\ rx.used_pub \in Idxs
      /\ rx.avail \in [RxIds -> RxIds] /\ rx.used \in [RxIds -> RxIds]
      /\ RxOffered = O /\ UsedIds(rx) = U
      /\ O \cup U \cup RxHeld = RxIds /\ O \cap U = {} /\ O \cap RxHeld = {} /\ U \cap RxHeld = {}
  BY RxView
<1>2. /\ Fit(rx.avail, RxSize, rx_seen, rx.avail_pub)
      /\ Fit(rx.used, RxSize, rx.used_idx, rx.used_pub)
      /\ rx.avail_idx = rx.avail_pub
  BY DEF RxInv
<1>3. OfferedId(rx, rx_seen) = id /\ rx_seen # rx.avail_pub
  BY <1>1 DEF OfferedId, Arrive, Offered
<1>4. /\ rx'.queue_size = RxSize /\ rx'.avail = rx.avail /\ rx'.avail_pub = rx.avail_pub
      /\ rx'.avail_idx = rx.avail_idx /\ rx'.used_idx = rx.used_idx
      /\ rx'.used = [rx.used EXCEPT ![rx.used_pub % RxSize] = id]
      /\ rx'.used_pub = Step(rx.used_pub)
      /\ rx_seen' = Step(rx_seen) /\ at' = at /\ loc' = loc
  BY <1>1, <1>3 DEF Arrive, PushUsed, QueueSet
<1>5. /\ id \in O /\ Window(rx.avail, RxSize, Step(rx_seen), rx.avail_pub) = O \ {id}
      /\ Fit(rx.avail, RxSize, Step(rx_seen), rx.avail_pub)
  BY <1>1, <1>2, <1>3, RxRingSize, RingTake
<1>6. id \in RxIds /\ id \notin U /\ U \subseteq RxIds
  BY <1>1, <1>5
<1>7. Between(rx.used_idx, rx.used_pub) < RxSize
  BY <1>1, <1>2, <1>6, RxRingSize, RingRoom DEF RxIds
<1>8. /\ rx'.used[rx.used_pub % RxSize] = id
      /\ \A i \in 0 .. (RxSize - 1) : i # rx.used_pub % RxSize => rx'.used[i] = rx.used[i]
  <2>1. rx.used_pub % RxSize \in RxIds
    BY <1>1, SizeFacts, ModType DEF RxIds, Idxs
  <2>. QED
    BY <1>1, <1>4, <2>1 DEF RxIds
<1>. HIDE DEF id, O, U
<1>9. /\ Between(rx.used_idx, Step(rx.used_pub)) = Between(rx.used_idx, rx.used_pub) + 1
      /\ \A k \in 0 .. (Between(rx.used_idx, rx.used_pub) - 1) :
           At(rx'.used, RxSize, rx.used_idx, k) = At(rx.used, RxSize, rx.used_idx, k)
      /\ At(rx'.used, RxSize, rx.used_idx, Between(rx.used_idx, rx.used_pub)) = id
      /\ Window(rx'.used, RxSize, rx.used_idx, Step(rx.used_pub)) = U \cup {id}
      /\ Fit(rx'.used, RxSize, rx.used_idx, Step(rx.used_pub))
  BY <1>1, <1>2, <1>6, <1>7, <1>8, RxRingSize, RingPut DEF U
<1>10. RxHeld' = RxHeld
  BY <1>4, StagingKeeps DEF SameStaging, Staging, Answering
<1>11. Partition(RxPlaces, RxIds)'
  <2>1. /\ (O \ {id}) \cup (U \cup {id}) \cup RxHeld = RxIds
        /\ (O \ {id}) \cap (U \cup {id}) = {} /\ (O \ {id}) \cap RxHeld = {}
        /\ (U \cup {id}) \cap RxHeld = {}
    BY <1>1, <1>5
  <2>2. /\ rx'.queue_size = RxSize /\ RxHeld' = RxHeld
        /\ Window(rx'.avail, RxSize, rx_seen', rx'.avail_pub) = O \ {id}
        /\ Window(rx'.used, RxSize, rx'.used_idx, rx'.used_pub) = U \cup {id}
    BY <1>4, <1>5, <1>9, <1>10
  <2>. QED
    BY <2>1, <2>2, RxBuild
<1>12. RxInv'
  <2>1. \A c \in Contexts : at'[c] = "republish" =>
          rx'.avail[rx'.avail_idx % RxSize] = loc'[c].rxid
    BY <1>4 DEF RxInv
  <2>. QED
    BY <1>2, <1>4, <1>5, <1>9, <1>11, <2>1 DEF RxInv
<1>. QED
  BY <1>1, <1>3, <1>4, <1>5, <1>9, <1>12 DEF RxCount

LEMMA RxDrain ==
  ASSUME Inv, Inv', RxInv, NEW c \in Contexts, DrainRx(c), HasUsed(rx)
  PROVE  /\ RxInv'
         /\ RxCount > 0 /\ RxCount' = RxCount - 1
         /\ \A k \in 0 .. (RxCount' - 1) :
              At(rx'.used, RxSize, rx'.used_idx, k) = At(rx.used, RxSize, rx.used_idx, k + 1)
         /\ loc'[c].rxid = At(rx.used, RxSize, rx.used_idx, 0)
<1>. DEFINE id == rx.used[rx.used_idx % RxSize]
            O == Window(rx.avail, RxSize, rx_seen, rx.avail_pub)
            U == Window(rx.used, RxSize, rx.used_idx, rx.used_pub)
<1>1. /\ rx \in QueueSet(RxIds, RxSize) /\ rx_seen \in Idxs
      /\ rx.queue_size = RxSize /\ rx.avail_pub \in Idxs
      /\ rx.used_idx \in Idxs /\ rx.used_pub \in Idxs
      /\ RxOffered = O /\ UsedIds(rx) = U
      /\ O \cup U \cup RxHeld = RxIds /\ O \cap U = {} /\ O \cap RxHeld = {} /\ U \cap RxHeld = {}
  BY RxView
<1>2. /\ Fit(rx.avail, RxSize, rx_seen, rx.avail_pub)
      /\ Fit(rx.used, RxSize, rx.used_idx, rx.used_pub)
      /\ rx.avail_idx = rx.avail_pub
  BY DEF RxInv
<1>3. UsedId(rx) = id /\ rx.used_idx # rx.used_pub
  BY <1>1 DEF UsedId, HasUsed
<1>4. /\ rx'.queue_size = RxSize /\ rx'.avail = rx.avail /\ rx'.avail_pub = rx.avail_pub
      /\ rx'.avail_idx = rx.avail_idx /\ rx'.used_pub = rx.used_pub /\ rx'.used = rx.used
      /\ rx'.used_idx = Step(rx.used_idx) /\ rx_seen' = rx_seen
  BY <1>1 DEF DrainRx, PopUsed, QueueSet, devside
<1>5. /\ at[c] = "drain_rx" /\ at'[c] = "stage" /\ loc'[c].rxid = id
      /\ \A d \in Contexts : d # c => at'[d] = at[d] /\ loc'[d] = loc[d]
  BY <1>3 DEF DrainRx, Goto, Local, Inv, ControlInv, DataInv, Locals
<1>6. RxHeld = {} /\ RxHeld' = {id}
  <2>1. Busy(c) /\ ~Staging(c) /\ Busy(c)' /\ Staging(c)'
    BY <1>5 DEF Busy, Staging, Answering, Sending
  <2>. QED
    BY <1>5, <2>1, HeldOne, HeldOneNext DEF OneHolds, HeldBy
<1>7. /\ Between(Step(rx.used_idx), rx.used_pub) = Between(rx.used_idx, rx.used_pub) - 1
      /\ \A k \in 0 .. (Between(Step(rx.used_idx), rx.used_pub) - 1) :
           At(rx.used, RxSize, Step(rx.used_idx), k) = At(rx.used, RxSize, rx.used_idx, k + 1)
      /\ At(rx.used, RxSize, rx.used_idx, 0) = id
      /\ id \in U /\ Window(rx.used, RxSize, Step(rx.used_idx), rx.used_pub) = U \ {id}
      /\ Fit(rx.used, RxSize, Step(rx.used_idx), rx.used_pub)
  BY <1>1, <1>2, <1>3, RxRingSize, RingTake
<1>8. Between(rx.used_idx, rx.used_pub) > 0
  BY <1>1, <1>3, BetweenType, BetweenStep
<1>. HIDE DEF id, O, U
<1>9. Partition(RxPlaces, RxIds)'
  <2>1. /\ O \cup (U \ {id}) \cup {id} = RxIds
        /\ O \cap (U \ {id}) = {} /\ O \cap {id} = {} /\ (U \ {id}) \cap {id} = {}
    BY <1>1, <1>6, <1>7
  <2>2. /\ rx'.queue_size = RxSize /\ RxHeld' = {id}
        /\ Window(rx'.avail, RxSize, rx_seen', rx'.avail_pub) = O
        /\ Window(rx'.used, RxSize, rx'.used_idx, rx'.used_pub) = U \ {id}
    BY <1>4, <1>6, <1>7 DEF O
  <2>. QED
    BY <2>1, <2>2, RxBuild
<1>10. RxInv'
  <2>1. \A d \in Contexts : at'[d] = "republish" =>
          rx'.avail[rx'.avail_idx % RxSize] = loc'[d].rxid
    BY <1>4, <1>5 DEF RxInv
  <2>. QED
    BY <1>2, <1>4, <1>7, <1>9, <2>1 DEF RxInv
<1>. QED
  BY <1>4, <1>5, <1>7, <1>8, <1>10 DEF RxCount

LEMMA RxRecycle ==
  ASSUME Inv, Inv', RxInv, NEW c \in Contexts, Recycle(c)
  PROVE  /\ RxInv'
         /\ rx'.used = rx.used /\ rx'.used_idx = rx.used_idx /\ rx'.used_pub = rx.used_pub
<1>. DEFINE id == loc[c].rxid
            e == rx.avail_pub
            O == Window(rx.avail, RxSize, rx_seen, e)
            U == Window(rx.used, RxSize, rx.used_idx, rx.used_pub)
<1>1. /\ rx \in QueueSet(RxIds, RxSize) /\ rx_seen \in Idxs
      /\ rx.queue_size = RxSize /\ e \in Idxs
      /\ rx.used_idx \in Idxs /\ rx.used_pub \in Idxs
      /\ rx.avail \in [RxIds -> RxIds]
      /\ RxOffered = O /\ UsedIds(rx) = U
      /\ O \cup U \cup RxHeld = RxIds /\ O \cap U = {} /\ O \cap RxHeld = {} /\ U \cap RxHeld = {}
  BY RxView
<1>2. /\ Fit(rx.avail, RxSize, rx_seen, e)
      /\ Fit(rx.used, RxSize, rx.used_idx, rx.used_pub)
      /\ rx.avail_idx = e
  BY DEF RxInv
<1>3. id \in RxIds /\ Known(rx, id)
  <2>1. id \in RxIds
    BY DEF Inv, DataInv, Locals
  <2>. QED
    BY <1>1, <2>1, SizeFacts DEF RxIds, Known
<1>4. /\ at[c] \in {"recycle", "republish"} /\ loc' = loc /\ rx_seen' = rx_seen
      /\ \A d \in Contexts : d # c => at'[d] = at[d]
      /\ at'[c] = IF at[c] = "recycle" THEN "republish" ELSE "drain_rx"
  BY DEF Recycle, Goto, Inv, ControlInv, devside
<1>5. Busy(c) /\ Staging(c) /\ Busy(c)' /\ (Staging(c)' <=> at[c] = "recycle")
  BY <1>4 DEF Busy, Staging, Answering, Sending
<1>6. RxHeld = {id} /\ RxHeld' = IF at[c] = "recycle" THEN {id} ELSE {}
  BY <1>4, <1>5, HeldOne, HeldOneNext DEF OneHolds, HeldBy
<1>7. Between(rx_seen, e) < RxSize
  BY <1>1, <1>2, <1>3, <1>6, RxRingSize, RingRoom DEF RxIds
<1>8. e % RxSize \in RxIds
  BY <1>1, SizeFacts, ModType DEF RxIds, Idxs
<1>a. \A d \in Contexts : at'[d] = "republish" => d = c
  <2>1. \A d \in Contexts : at[d] = "republish" => d = c
    BY <1>5, Alone DEF Busy, Staging
  <2>. QED
    BY <1>4, <2>1
<1>. HIDE DEF id, e, O, U
<1>9. CASE at[c] = "recycle"
  <2>1. rx' = WriteRing(rx, id)
    BY <1>9 DEF Recycle, Goto, id
  <2>2. /\ rx'.queue_size = RxSize /\ rx'.avail_pub = e /\ rx'.avail_idx = e
        /\ rx'.used = rx.used /\ rx'.used_idx = rx.used_idx /\ rx'.used_pub = rx.used_pub
        /\ rx'.avail = [rx.avail EXCEPT ![e % RxSize] = id]
    BY <1>1, <1>2, <1>3, <2>1 DEF WriteRing, QueueSet, e
  <2>3. /\ rx'.avail[e % RxSize] = id
        /\ \A i \in 0 .. (RxSize - 1) : i # e % RxSize => rx'.avail[i] = rx.avail[i]
    BY <1>1, <1>8, <2>2 DEF RxIds
  <2>4. /\ Window(rx'.avail, RxSize, rx_seen, e) = O
        /\ Fit(rx'.avail, RxSize, rx_seen, e)
    BY <1>1, <1>2, <1>3, <1>6, <1>7, <2>3, RxRingSize, RingPut DEF O
  <2>5. Partition(RxPlaces, RxIds)'
    <3>1. /\ rx'.queue_size = RxSize /\ RxHeld' = RxHeld
          /\ Window(rx'.avail, RxSize, rx_seen', rx'.avail_pub) = O
          /\ Window(rx'.used, RxSize, rx'.used_idx, rx'.used_pub) = U
      BY <1>4, <1>6, <1>9, <2>2, <2>4 DEF U
    <3>. QED
      BY <1>1, <3>1, RxBuild
  <2>6. \A d \in Contexts : at'[d] = "republish" =>
          rx'.avail[rx'.avail_idx % RxSize] = loc'[d].rxid
    BY <1>4, <1>a, <2>2, <2>3 DEF id
  <2>. QED
    BY <1>2, <1>4, <2>2, <2>4, <2>5, <2>6 DEF RxInv
<1>10. CASE at[c] = "republish"
  <2>1. rx' = PublishIdx(rx, id)
    BY <1>10 DEF Recycle, Goto, id
  <2>2. /\ rx'.queue_size = RxSize /\ rx'.avail_pub = Step(e) /\ rx'.avail_idx = Step(e)
        /\ rx'.used = rx.used /\ rx'.used_idx = rx.used_idx /\ rx'.used_pub = rx.used_pub
        /\ rx'.avail = rx.avail
    BY <1>1, <1>2, <1>3, <2>1 DEF PublishIdx, QueueSet, e
  <2>3. rx.avail[e % RxSize] = id
    BY <1>2, <1>10 DEF RxInv, id
  <2>4. /\ Window(rx.avail, RxSize, rx_seen, Step(e)) = O \cup {id}
        /\ Fit(rx.avail, RxSize, rx_seen, Step(e))
    BY <1>1, <1>2, <1>3, <1>6, <1>7, <2>3, RxRingSize, RingPut DEF O
  <2>5. Partition(RxPlaces, RxIds)'
    <3>1. /\ rx'.queue_size = RxSize /\ RxHeld' = {}
          /\ Window(rx'.avail, RxSize, rx_seen', rx'.avail_pub) = O \cup {id}
          /\ Window(rx'.used, RxSize, rx'.used_idx, rx'.used_pub) = U
      BY <1>4, <1>6, <1>10, <2>2, <2>4 DEF U
    <3>2. /\ (O \cup {id}) \cup U \cup {} = RxIds /\ (O \cup {id}) \cap U = {}
          /\ (O \cup {id}) \cap {} = {} /\ U \cap {} = {}
      BY <1>1, <1>6
    <3>. QED
      BY <3>1, <3>2, RxBuild
  <2>6. \A d \in Contexts : at'[d] # "republish"
    BY <1>4, <1>10, <1>a
  <2>. QED
    BY <1>2, <1>4, <2>2, <2>4, <2>5, <2>6 DEF RxInv
<1>. QED
  BY <1>4, <1>9, <1>10

(* Every other step leaves the receive queue and what is staged alone.      *)
LEMMA StageStep ==
  ASSUME Inv, NEW c \in Contexts, Stage(c)
  PROVE  /\ at[c] = "stage" /\ at'[c] \in {"send", "recycle"}
         /\ \A d \in Contexts : d # c => at'[d] = at[d] /\ loc'[d] = loc[d]
         /\ loc'[c].rxid = loc[c].rxid /\ loc'[c].id = loc[c].id
         /\ at'[c] = "send" => loc'[c].back = "recycle" /\ loc'[c].frame = -rx_buf[loc[c].rxid]
  BY DEF Inv, ControlInv, DataInv, Stage, Goto, Locals, Contexts

LEMMA SendStep ==
  ASSUME Inv, NEW c \in Contexts, Send(c)
  PROVE  /\ at[c] \in {"send"} \cup Sending
         /\ at'[c] \in {loc[c].back} \cup Sending
         /\ \A d \in Contexts : d # c => at'[d] = at[d] /\ loc'[d] = loc[d]
         /\ loc'[c].rxid = loc[c].rxid /\ loc'[c].back = loc[c].back
         /\ loc'[c].frame = loc[c].frame
<1>. USE DEF Inv, ControlInv, DataInv, Goto, Local, Locals, Contexts, Sending
<1>1. CASE SendEnter(c)
  BY <1>1 DEF SendEnter
<1>2. CASE SendAlloc(c)
  BY <1>2 DEF SendAlloc
<1>3. CASE SendUnlink(c) \/ SendFill(c) \/ SendRing(c) \/ SendPublish(c)
  BY <1>3 DEF SendUnlink, SendFill, SendRing, SendPublish
<1>. QED
  BY <1>1, <1>2, <1>3 DEF Send

LEMMA EnterStep ==
  ASSUME Inv, IrqEnter \/ NetPoll \/ CallSend \/ ReceiveBegin \/ ReceiveEnd
  PROVE  /\ \A d \in Contexts : loc'[d].rxid = loc[d].rxid
         /\ \A d \in Contexts : at'[d] # at[d] =>
              \/ at[d] = "idle" /\ at'[d] \in {"drain_tx", "receive"}
              \/ at[d] = "idle" /\ at'[d] = "send" /\ loc'[d].back = "idle"
              \/ at[d] = "receive" /\ at'[d] = "idle"
         /\ \A d \in Contexts : at'[d] = at[d] => loc'[d] = loc[d]
<1>. USE DEF Inv, ControlInv, DataInv, Goto, Local, Locals, Contexts
<1>1. CASE IrqEnter
  BY <1>1 DEF IrqEnter
<1>2. CASE NetPoll
  BY <1>2 DEF NetPoll
<1>3. CASE CallSend
  BY <1>3 DEF CallSend
<1>4. CASE ReceiveBegin
  BY <1>4 DEF ReceiveBegin
<1>5. CASE ReceiveEnd
  BY <1>5 DEF ReceiveEnd
<1>. QED
  BY <1>1, <1>2, <1>3, <1>4, <1>5

LEMMA RxOthers ==
  ASSUME Inv, RxInv,
         \/ TakeTx \/ \E id \in TxIds : CompleteTx(id)
         \/ IrqEnter \/ NetPoll \/ CallSend \/ ReceiveBegin \/ ReceiveEnd
         \/ \E c \in Contexts : Send(c) \/ Stage(c) \/ DrainTx(c) \/ (DrainRx(c) /\ ~HasUsed(rx))
         \/ UNCHANGED vars
  PROVE  RxInv' /\ UNCHANGED rx
<1>1. SUFFICES rx' = rx /\ rx_seen' = rx_seen /\ SameStaging /\ RxRest
  BY RxKeep, StagingKeeps
<1>. USE DEF SameStaging, RxRest, Staging, Answering, Sending
<1>2. CASE TakeTx \/ (\E id \in TxIds : CompleteTx(id)) \/ UNCHANGED vars
  BY <1>2 DEF TakeTx, CompleteTx, vars, queues, devside, cpu
<1>3. CASE IrqEnter \/ NetPoll \/ CallSend \/ ReceiveBegin \/ ReceiveEnd
  <2>1. rx' = rx /\ rx_seen' = rx_seen
    BY <1>3 DEF IrqEnter, NetPoll, CallSend, ReceiveBegin, ReceiveEnd, queues, devside
  <2>. QED
    BY <1>3, <2>1, EnterStep
<1>4. ASSUME NEW c \in Contexts, Send(c)
      PROVE  rx' = rx /\ rx_seen' = rx_seen /\ SameStaging /\ RxRest
  <2>1. rx' = rx /\ rx_seen' = rx_seen
    BY <1>4 DEF Send, SendEnter, SendAlloc, SendUnlink, SendFill, SendRing, SendPublish, queues, devside
  <2>2. loc[c].back \in {"idle", "recycle"}
    BY DEF Inv, DataInv, Locals
  <2>. QED
    BY <1>4, <2>1, <2>2, SendStep
<1>5. ASSUME NEW c \in Contexts, Stage(c)
      PROVE  rx' = rx /\ rx_seen' = rx_seen /\ SameStaging /\ RxRest
  <2>1. rx' = rx /\ rx_seen' = rx_seen
    BY <1>5 DEF Stage, queues, devside
  <2>. QED
    BY <1>5, <2>1, StageStep
<1>6. ASSUME NEW c \in Contexts, DrainTx(c) \/ (DrainRx(c) /\ ~HasUsed(rx))
      PROVE  rx' = rx /\ rx_seen' = rx_seen /\ SameStaging /\ RxRest
  <2>1. rx' = rx /\ rx_seen' = rx_seen /\ loc' = loc
    BY <1>6 DEF DrainTx, DrainRx, devside
  <2>2. /\ \A d \in Contexts : d # c => at'[d] = at[d]
        /\ at[c] \in {"drain_tx", "drain_rx"} /\ at'[c] \in {"drain_tx", "drain_rx", "idle"}
    BY <1>6 DEF DrainTx, DrainRx, Goto, Inv, ControlInv
  <2>. QED
    BY <2>1, <2>2
<1>. QED
  BY <1>2, <1>3, <1>4, <1>5, <1>6

-----------------------------------------------------------------------------
(* Arrivals: completed buffers are in order of arrival, and staged in it.   *)
LEMMA CountIsNat ==
  ASSUME Inv
  PROVE  RxCount \in Nat
  BY BetweenType DEF Inv, DataInv, QueueSet, RxCount

LEMMA UsedAt ==
  ASSUME Inv, RxInv, NEW k \in 0 .. (RxCount - 1)
  PROVE  /\ At(rx.used, RxSize, rx.used_idx, k) \in UsedIds(rx)
         /\ UsedIds(rx) \subseteq RxIds
         /\ Waiting(k) \in Int
<1>1. At(rx.used, RxSize, rx.used_idx, k) \in UsedIds(rx)
  BY RxView DEF Window, RxCount
<1>2. UsedIds(rx) \subseteq RxIds
  BY RxView
<1>. QED
  BY <1>1, <1>2 DEF Waiting, Inv, DataInv

LEMMA ArrivalArrive ==
  ASSUME Inv, RxInv, ArrivalInv, Arrive
  PROVE  ArrivalInv'
<1>. DEFINE id == OfferedId(rx, rx_seen)
            n == RxCount
<1>1. /\ id \in RxOffered /\ rx'.used_idx = rx.used_idx /\ RxCount' = n + 1
      /\ \A k \in 0 .. (n - 1) :
           At(rx'.used, RxSize, rx'.used_idx, k) = At(rx.used, RxSize, rx.used_idx, k)
      /\ At(rx'.used, RxSize, rx'.used_idx, n) = id
  BY RxArrive
<1>2. /\ n \in Nat /\ id \in RxIds /\ id \notin UsedIds(rx) /\ id \notin RxHeld
  BY <1>1, RxView, CountIsNat
<1>3. /\ rx_buf' = [rx_buf EXCEPT ![id] = arrived + 1] /\ arrived' = arrived + 1
      /\ staged' = staged /\ at' = at /\ loc' = loc /\ rx_buf \in [RxIds -> Int]
  BY DEF Arrive, Inv, DataInv
<1>4. ASSUME NEW k \in 0 .. (n - 1) PROVE Waiting(k)' = Waiting(k) /\ Waiting(k) \in Int
  <2>1. At(rx.used, RxSize, rx.used_idx, k) # id /\ Waiting(k) \in Int
    BY <1>2, UsedAt
  <2>. QED
    BY <1>1, <1>3, <2>1 DEF Waiting
<1>5. \A k : k = n => Waiting(k)' = arrived + 1
  BY <1>1, <1>2, <1>3 DEF Waiting
<1>. HIDE DEF n, id
<1>6. /\ arrived \in Nat /\ staged \in Nat
      /\ \A k \in 0 .. (n - 1) : staged < Waiting(k) /\ Waiting(k) <= arrived
      /\ \A j, k \in 0 .. (n - 1) : j < k => Waiting(j) < Waiting(k)
      /\ staged <= arrived
  <2>1. ArrivalInv /\ staged <= arrived
    BY DEF ArrivalInv
  <2>. QED
    BY <2>1 DEF ArrivalInv, n
<1>7. (n + 1) - 1 = n /\ \A k \in 0 .. n : k = n \/ k \in 0 .. (n - 1)
  BY <1>2
<1>8. ASSUME NEW k \in 0 .. n PROVE staged' < Waiting(k)' /\ Waiting(k)' <= arrived'
  BY <1>3, <1>4, <1>5, <1>6, <1>7
<1>9. ASSUME NEW j \in 0 .. n, NEW k \in 0 .. n, j < k PROVE Waiting(j)' < Waiting(k)'
  <2>1. j \in 0 .. (n - 1)
    BY <1>2, <1>9
  <2>2. CASE k = n
    BY <1>4, <1>5, <1>6, <2>1, <2>2
  <2>3. CASE k \in 0 .. (n - 1)
    BY <1>4, <1>6, <1>9, <2>1, <2>3
  <2>. QED
    BY <1>7, <2>2, <2>3
<1>10. ASSUME NEW c \in Contexts, at'[c] = "stage"
       PROVE  /\ staged' < rx_buf'[loc'[c].rxid] /\ rx_buf'[loc'[c].rxid] <= arrived'
              /\ \A k \in 0 .. n : rx_buf'[loc'[c].rxid] < Waiting(k)'
  <2>1. loc[c].rxid \in RxHeld /\ loc[c].rxid \in RxIds
    BY <1>3, <1>10 DEF RxHeld, Inv, DataInv, Locals
  <2>2. rx_buf'[loc'[c].rxid] = rx_buf[loc[c].rxid] /\ rx_buf[loc[c].rxid] \in Int
    BY <1>2, <1>3, <2>1
  <2>3. /\ staged < rx_buf[loc[c].rxid] /\ rx_buf[loc[c].rxid] <= arrived
        /\ \A k \in 0 .. (n - 1) : rx_buf[loc[c].rxid] < Waiting(k)
    BY <1>3, <1>10 DEF ArrivalInv, n
  <2>. QED
    BY <1>3, <1>4, <1>5, <1>6, <1>7, <2>2, <2>3
<1>11. arrived' \in Nat /\ staged' \in Nat /\ staged' <= arrived'
  BY <1>3, <1>6
<1>. QED
  BY <1>1, <1>7, <1>8, <1>9, <1>10, <1>11 DEF ArrivalInv

LEMMA ArrivalDrain ==
  ASSUME Inv, Inv', RxInv, ArrivalInv, NEW c \in Contexts, DrainRx(c), HasUsed(rx)
  PROVE  ArrivalInv'
<1>. DEFINE n == RxCount
<1>1. /\ n > 0 /\ RxCount' = n - 1
      /\ \A k \in 0 .. (RxCount' - 1) :
           At(rx'.used, RxSize, rx'.used_idx, k) = At(rx.used, RxSize, rx.used_idx, k + 1)
      /\ loc'[c].rxid = At(rx.used, RxSize, rx.used_idx, 0)
  BY RxDrain
<1>2. n \in Nat
  BY CountIsNat
<1>3. /\ rx_buf' = rx_buf /\ arrived' = arrived /\ staged' = staged
      /\ \A d \in Contexts : at'[d] = "stage" => d = c
  <2>1. Busy(c)
    BY DEF DrainRx, Goto, Busy
  <2>2. \A d \in Contexts : at[d] = "stage" => d = c
    BY <2>1, Alone DEF Busy, Staging
  <2>. QED
    BY <2>2 DEF DrainRx, Goto, hist, Inv, ControlInv
<1>. HIDE DEF n
<1>4. \A k \in 0 .. ((n - 1) - 1) : k + 1 \in 0 .. (n - 1) /\ Waiting(k)' = Waiting(k + 1)
  BY <1>1, <1>2, <1>3 DEF Waiting
<1>5. rx_buf'[loc'[c].rxid] = Waiting(0) /\ 0 \in 0 .. (n - 1)
  BY <1>1, <1>2, <1>3 DEF Waiting
<1>6. /\ arrived \in Nat /\ staged \in Nat
      /\ \A k \in 0 .. (n - 1) : staged < Waiting(k) /\ Waiting(k) <= arrived
      /\ \A j, k \in 0 .. (n - 1) : j < k => Waiting(j) < Waiting(k)
  BY DEF ArrivalInv, n
<1>7. \A k \in 0 .. ((n - 1) - 1) : staged' < Waiting(k)' /\ Waiting(k)' <= arrived'
  BY <1>3, <1>4, <1>6
<1>8. ASSUME NEW j \in 0 .. ((n - 1) - 1), NEW k \in 0 .. ((n - 1) - 1), j < k
      PROVE  Waiting(j)' < Waiting(k)'
  <2>1. j + 1 < k + 1
    BY <1>8
  <2>. QED
    BY <1>4, <1>6, <2>1
<1>9. /\ staged' < rx_buf'[loc'[c].rxid] /\ rx_buf'[loc'[c].rxid] <= arrived'
      /\ \A k \in 0 .. ((n - 1) - 1) : rx_buf'[loc'[c].rxid] < Waiting(k)'
  <2>1. \A k \in 0 .. ((n - 1) - 1) : 0 < k + 1
    BY <1>2
  <2>. QED
    BY <1>3, <1>4, <1>5, <1>6, <2>1
<1>. QED
  BY <1>1, <1>3, <1>6, <1>7, <1>8, <1>9 DEF ArrivalInv

LEMMA ArrivalStage ==
  ASSUME Inv, Inv', RxInv, ArrivalInv, NEW c \in Contexts, Stage(c)
  PROVE  ArrivalInv' /\ staged' = rx_buf[loc[c].rxid] /\ staged < staged'
<1>1. /\ rx' = rx /\ rx_buf' = rx_buf /\ arrived' = arrived /\ staged' = rx_buf[loc[c].rxid]
      /\ at[c] = "stage" /\ at'[c] \in {"send", "recycle"}
      /\ \A d \in Contexts : d # c => at'[d] = at[d]
  BY StageStep DEF Stage, queues
<1>2. \A d \in Contexts : at'[d] # "stage"
  <2>1. Busy(c)
    BY <1>1 DEF Busy, Staging
  <2>2. \A d \in Contexts : at[d] = "stage" => d = c
    BY <2>1, Alone DEF Busy, Staging
  <2>. QED
    BY <1>1, <2>2
<1>3. RxCount' = RxCount /\ \A k : Waiting(k)' = Waiting(k)
  BY <1>1 DEF RxCount, Waiting
<1>4. /\ staged < staged' /\ staged' <= arrived /\ staged' \in Int
      /\ \A k \in 0 .. (RxCount - 1) : staged' < Waiting(k)
  BY <1>1 DEF ArrivalInv, Inv, DataInv, Locals
<1>5. staged' \in Nat
  BY <1>4 DEF ArrivalInv
<1>. QED
  BY <1>1, <1>2, <1>3, <1>4, <1>5 DEF ArrivalInv

LEMMA ArrivalKeep ==
  ASSUME ArrivalInv, UNCHANGED <<rx_buf, arrived, staged>>,
         rx'.used = rx.used, rx'.used_idx = rx.used_idx, rx'.used_pub = rx.used_pub,
         \A c \in Contexts : at'[c] = "stage" => at[c] = "stage" /\ loc'[c].rxid = loc[c].rxid
  PROVE  ArrivalInv'
<1>1. RxCount' = RxCount /\ \A k : Waiting(k)' = Waiting(k)
  BY DEF RxCount, Waiting
<1>. QED
  BY <1>1 DEF ArrivalInv

-----------------------------------------------------------------------------
(* The inbox, a ring of its own.                                            *)
Slot(h, i) == (h + i - 1) % Inbox

LEMMA SlotFacts ==
  ASSUME NEW h \in 0 .. (Inbox - 1)
  PROVE  /\ Slot(h, 1) = h
         /\ \A i \in 1 .. Inbox : Slot(h, i) \in 0 .. (Inbox - 1)
         /\ \A i, j \in 1 .. Inbox : i < j => Slot(h, i) # Slot(h, j)
         /\ (h + 1) % Inbox \in 0 .. (Inbox - 1)
         /\ \A i \in 1 .. Inbox : Slot((h + 1) % Inbox, i) = Slot(h, i + 1)
<1>1. h \in Nat /\ h < Inbox /\ Inbox \in Nat /\ Inbox > 0
  BY SizeFacts
<1>2. Slot(h, 1) = h
  <2>1. h + 1 - 1 = h
    BY <1>1
  <2>. QED
    BY <1>1, <2>1, ModSmall DEF Slot
<1>3. ASSUME NEW i \in 1 .. Inbox PROVE h + i - 1 \in Nat
  BY <1>1
<1>4. \A i \in 1 .. Inbox : Slot(h, i) \in 0 .. (Inbox - 1)
  BY <1>1, <1>3, ModType DEF Slot
<1>5. ASSUME NEW i \in 1 .. Inbox, NEW j \in 1 .. Inbox, i < j PROVE Slot(h, i) # Slot(h, j)
  <2>. DEFINE a == h + i - 1
              b == h + j - 1
  <2>1. a \in Nat /\ b \in Nat /\ a < b /\ b - a < Inbox
    BY <1>1, <1>5
  <2>. HIDE DEF a, b
  <2>2. a % Inbox # b % Inbox
    BY <1>1, <2>1, ModDistinct
  <2>. QED
    BY <2>2 DEF Slot, a, b
<1>6. ASSUME NEW i \in 1 .. Inbox PROVE Slot((h + 1) % Inbox, i) = Slot(h, i + 1)
  <2>1. CASE h + 1 < Inbox
    <3>1. (h + 1) % Inbox = h + 1
      BY <1>1, <2>1, ModSmall
    <3>2. (h + 1) + i - 1 = h + (i + 1) - 1
      BY <1>1
    <3>. QED
      BY <3>1, <3>2 DEF Slot
  <2>2. CASE h + 1 = Inbox
    <3>. DEFINE x == h + (i + 1) - 1
    <3>1. h + 1 \in Nat /\ Inbox <= h + 1 /\ h + 1 < 2 * Inbox /\ (h + 1) - Inbox = 0
      BY <1>1, <2>2
    <3>2. (h + 1) % Inbox = 0
      BY <1>1, <3>1, ModOnce
    <3>3. x \in Nat /\ Inbox <= x /\ x < 2 * Inbox /\ x - Inbox = i - 1
          /\ 0 + i - 1 = i - 1 /\ i - 1 \in Nat /\ i - 1 < Inbox
      BY <1>1, <2>2
    <3>. HIDE DEF x
    <3>4. x % Inbox = x - Inbox /\ (i - 1) % Inbox = i - 1
      BY <1>1, <3>3, ModOnce, ModSmall
    <3>. QED
      BY <3>2, <3>3, <3>4 DEF Slot, x
  <2>. QED
    BY <1>1, <2>1, <2>2
<1>7. (h + 1) % Inbox \in 0 .. (Inbox - 1)
  BY <1>1, ModType
<1>. QED
  BY <1>2, <1>4, <1>5, <1>6, <1>7

(* InboxInOrder, slot by slot.                                              *)
Ordered(box_, h, n, low, high) ==
  /\ \A i, j \in 1 .. n : i < j => box_[Slot(h, i)] < box_[Slot(h, j)]
  /\ \A i \in 1 .. n : low < box_[Slot(h, i)] /\ box_[Slot(h, i)] <= high

LEMMA OrderedIs ==
  ASSUME inbox_count \in Nat
  PROVE  InboxInOrder <=> Ordered(inbox, inbox_head, inbox_count, received, staged)
<1>1. /\ DOMAIN Queued = 1 .. inbox_count
      /\ \A i \in 1 .. inbox_count : Queued[i] = inbox[Slot(inbox_head, i)]
  BY DEF Queued, Slot
<1>. QED
  BY <1>1 DEF InboxInOrder, Ordered

LEMMA OrderedIsNext ==
  ASSUME inbox_count' \in Nat
  PROVE  InboxInOrder' <=> Ordered(inbox', inbox_head', inbox_count', received', staged')
<1>1. /\ DOMAIN Queued' = 1 .. inbox_count'
      /\ \A i \in 1 .. inbox_count' : Queued'[i] = inbox'[Slot(inbox_head', i)]
  BY DEF Queued, Slot
<1>. QED
  BY <1>1 DEF InboxInOrder, Ordered

(* A newer frame goes behind the others, and the first goes out.            *)
LEMMA OrderedPut ==
  ASSUME NEW h \in 0 .. (Inbox - 1), NEW n \in 0 .. (Inbox - 1),
         NEW b \in [0 .. (Inbox - 1) -> Int], NEW low \in Int, NEW high \in Int,
         Ordered(b, h, n, low, high), low <= high, NEW f \in Int, high < f,
         NEW q, q = [b EXCEPT ![(h + n) % Inbox] = f]
  PROVE  Ordered(q, h, n + 1, low, f)
<1>1. /\ n \in Nat /\ n + 1 \in 1 .. Inbox /\ 1 .. n \subseteq 1 .. Inbox
      /\ h + (n + 1) - 1 = h + n
  BY SizeFacts
<1>a. \A i \in 1 .. (n + 1) : i = n + 1 \/ i \in 1 .. n
  BY <1>1
<1>2. Slot(h, n + 1) = (h + n) % Inbox
  BY <1>1 DEF Slot
<1>3. ASSUME NEW i \in 1 .. n
      PROVE  q[Slot(h, i)] = b[Slot(h, i)] /\ b[Slot(h, i)] \in Int
  <2>1. i \in 1 .. Inbox /\ i < n + 1
    BY <1>1
  <2>2. Slot(h, i) \in 0 .. (Inbox - 1) /\ Slot(h, i) # Slot(h, n + 1)
    BY <1>1, <2>1, SlotFacts
  <2>. QED
    BY <1>2, <2>2
<1>4. q[Slot(h, n + 1)] = f
  <2>1. Slot(h, n + 1) \in 0 .. (Inbox - 1)
    BY <1>1, SlotFacts
  <2>. QED
    BY <1>2, <2>1
<1>5. /\ \A i, j \in 1 .. n : i < j => b[Slot(h, i)] < b[Slot(h, j)]
      /\ \A i \in 1 .. n : low < b[Slot(h, i)] /\ b[Slot(h, i)] <= high
  BY DEF Ordered
<1>6. \A i \in 1 .. (n + 1) : low < q[Slot(h, i)] /\ q[Slot(h, i)] <= f
  BY <1>3, <1>4, <1>5, <1>a
<1>7. ASSUME NEW i \in 1 .. (n + 1), NEW j \in 1 .. (n + 1), i < j
      PROVE  q[Slot(h, i)] < q[Slot(h, j)]
  <2>1. i \in 1 .. n
    BY <1>1, <1>7
  <2>2. CASE j = n + 1
    BY <1>3, <1>4, <1>5, <2>1, <2>2
  <2>3. CASE j \in 1 .. n
    BY <1>3, <1>5, <1>7, <2>1, <2>3
  <2>. QED
    BY <1>a, <2>2, <2>3
<1>. QED
  BY <1>6, <1>7 DEF Ordered

LEMMA OrderedTake ==
  ASSUME NEW h \in 0 .. (Inbox - 1), NEW n \in 1 .. Inbox,
         NEW b, NEW low, NEW high, Ordered(b, h, n, low, high)
  PROVE  /\ low < b[h] /\ b[h] <= high
         /\ Ordered(b, (h + 1) % Inbox, n - 1, b[h], high)
<1>1. /\ 1 \in 1 .. n /\ 1 .. (n - 1) \subseteq 1 .. Inbox
      /\ \A i \in 1 .. (n - 1) : i + 1 \in 1 .. n /\ 1 < i + 1
  BY SizeFacts
<1>2. Slot(h, 1) = h /\ \A i \in 1 .. (n - 1) : Slot((h + 1) % Inbox, i) = Slot(h, i + 1)
  BY <1>1, SlotFacts
<1>3. /\ \A i, j \in 1 .. n : i < j => b[Slot(h, i)] < b[Slot(h, j)]
      /\ \A i \in 1 .. n : low < b[Slot(h, i)] /\ b[Slot(h, i)] <= high
  BY DEF Ordered
<1>4. \A i \in 1 .. (n - 1) : b[h] < b[Slot(h, i + 1)] /\ b[Slot(h, i + 1)] <= high
  BY <1>1, <1>2, <1>3
<1>5. \A i, j \in 1 .. (n - 1) : i < j => b[Slot(h, i + 1)] < b[Slot(h, j + 1)]
  <2>1. \A i, j \in 1 .. (n - 1) : i < j => i + 1 < j + 1
    OBVIOUS
  <2>. QED
    BY <1>1, <1>3, <2>1
<1>. QED
  BY <1>1, <1>2, <1>3, <1>4, <1>5 DEF Ordered

LEMMA InboxStage ==
  ASSUME Inv, Inv', RxInv, ArrivalInv, InboxInv, NEW c \in Contexts, Stage(c)
  PROVE  InboxInv'
<1>. DEFINE n == rx_buf[loc[c].rxid]
<1>1. /\ staged' = n /\ staged < n /\ staged \in Nat /\ n \in Int /\ staged' \in Nat
  BY ArrivalStage DEF ArrivalInv, Inv, DataInv, Locals
<1>2. /\ inbox \in [0 .. (Inbox - 1) -> Int] /\ received \in Int /\ received <= staged
      /\ inbox_head \in 0 .. (Inbox - 1) /\ inbox_count \in 0 .. Inbox
      /\ Inbox \in Nat /\ Inbox > 0 /\ inbox_count \in Nat
      /\ Ordered(inbox, inbox_head, inbox_count, received, staged)
  BY OrderedIs, SizeFacts DEF InboxInv, Inv, DataInv
<1>3. inbox_head' \in 0 .. (Inbox - 1) /\ inbox_count' \in Nat
  BY SizeFacts DEF Inv, DataInv
<1>4. received' = received /\ at'["main"] # "receive"
  <2>1. at[c] = "stage" /\ at'[c] \in {"send", "recycle"}
        /\ \A d \in Contexts : d # c => at'[d] = at[d]
    BY StageStep
  <2>2. \A d \in Contexts : at[d] = "receive" => d = c
    BY <2>1, Alone DEF Busy, Staging
  <2>. QED
    BY <2>1, <2>2 DEF Stage, Contexts
<1>. HIDE DEF n
<1>5. /\ inbox' \in [0 .. (Inbox - 1) -> Int]
      /\ Ordered(inbox', inbox_head', inbox_count', received, n)
  <2>1. CASE Kind[n] = "runt"
    <3>1. UNCHANGED <<inbox, inbox_head, inbox_count>>
      BY <2>1 DEF Stage, n
    <3>2. Ordered(inbox, inbox_head, inbox_count, received, n)
      <4>0. \A i \in 1 .. inbox_count : i \in 1 .. Inbox
        BY <1>2
      <4>1. \A i \in 1 .. inbox_count : inbox[Slot(inbox_head, i)] \in Int
        BY <1>2, <4>0, SlotFacts
      <4>. QED
        BY <1>1, <1>2, <4>1 DEF Ordered
    <3>. QED
      BY <1>2, <3>1, <3>2
  <2>2. CASE Kind[n] # "runt"
    <3>1. StageFrame(n)
      BY <2>2 DEF Stage, n
    <3>2. CASE Full
      <4>. DEFINE h == (inbox_head + 1) % Inbox
                  m == inbox_count - 1
                  low == inbox[inbox_head]
      <4>1. inbox_count \in 1 .. Inbox /\ m \in 0 .. (Inbox - 1) /\ h \in 0 .. (Inbox - 1)
        BY <1>2, <3>2, SlotFacts DEF Full
      <4>2. /\ received < low /\ low <= staged /\ low \in Int
            /\ Ordered(inbox, h, m, low, staged)
        BY <1>2, <4>1, OrderedTake
      <4>3. /\ inbox' = [inbox EXCEPT ![(h + m) % Inbox] = n]
            /\ inbox_head' = h /\ inbox_count' = m + 1
        BY <3>1, <3>2 DEF StageFrame
      <4>. HIDE DEF h, m, low
      <4>4. Ordered(inbox', h, m + 1, low, n)
        <5>1. /\ staged \in Int /\ low <= staged /\ low \in Int /\ n \in Int /\ staged < n
              /\ inbox \in [0 .. (Inbox - 1) -> Int]
          BY <1>1, <1>2, <4>2
        <5>. QED
          BY <4>1, <4>2, <4>3, <5>1, OrderedPut, Zenon
      <4>5. inbox' \in [0 .. (Inbox - 1) -> Int]
        BY <1>1, <1>2, <4>3
      <4>6. Ordered(inbox', h, m + 1, received, n)
        <5>1. \A i \in 1 .. (m + 1) : i \in 1 .. Inbox
          BY <1>2, <4>1
        <5>2. \A i \in 1 .. (m + 1) : inbox'[Slot(h, i)] \in Int
          BY <4>1, <4>5, <5>1, SlotFacts
        <5>. QED
          BY <1>2, <4>2, <4>4, <5>2 DEF Ordered
      <4>. QED
        BY <4>3, <4>5, <4>6
    <3>3. CASE ~Full
      <4>1. inbox_count \in 0 .. (Inbox - 1)
        BY <1>2, <3>3 DEF Full
      <4>2. /\ inbox' = [inbox EXCEPT ![(inbox_head + inbox_count) % Inbox] = n]
            /\ inbox_head' = inbox_head /\ inbox_count' = inbox_count + 1
        BY <3>1, <3>3 DEF StageFrame
      <4>3. Ordered(inbox', inbox_head, inbox_count + 1, received, n)
        <5>1. /\ staged \in Int /\ received <= staged /\ received \in Int /\ n \in Int
              /\ staged < n /\ inbox \in [0 .. (Inbox - 1) -> Int]
          BY <1>1, <1>2
        <5>. QED
          BY <1>2, <4>1, <4>2, <5>1, OrderedPut, Zenon
      <4>. QED
        BY <1>1, <1>2, <4>2, <4>3
    <3>. QED
      BY <3>2, <3>3
  <2>. QED
    BY <2>1, <2>2
<1>6. InboxInOrder'
  BY <1>1, <1>3, <1>4, <1>5, OrderedIsNext
<1>. QED
  BY <1>1, <1>2, <1>4, <1>5, <1>6 DEF InboxInv

LEMMA InboxReceive ==
  ASSUME Inv, Inv', InboxInv, ReceiveEnd
  PROVE  InboxInv'
<1>1. /\ inbox \in [0 .. (Inbox - 1) -> Int] /\ received \in Int /\ received <= staged
      /\ staged \in Nat
      /\ inbox_head \in 0 .. (Inbox - 1) /\ inbox_count \in 1 .. Inbox
      /\ Ordered(inbox, inbox_head, inbox_count, received, staged)
      /\ loc["main"].id = inbox_head
  <2>1. at["main"] = "receive" /\ inbox_count \in Nat
    BY SizeFacts DEF ReceiveEnd, Goto, Inv, DataInv
  <2>. QED
    BY <2>1, OrderedIs, SizeFacts DEF InboxInv, Inv, DataInv
<1>2. /\ received' = inbox[inbox_head] /\ inbox' = inbox /\ staged' = staged
      /\ inbox_head' = (inbox_head + 1) % Inbox /\ inbox_count' = inbox_count - 1
      /\ at'["main"] = "idle"
  BY <1>1 DEF ReceiveEnd, Goto, Inv, ControlInv, Contexts
<1>3. /\ received' \in Int /\ received' <= staged
      /\ Ordered(inbox, inbox_head', inbox_count', received', staged)
  BY <1>1, <1>2, OrderedTake
<1>4. InboxInOrder'
  <2>1. inbox_count' \in Nat
    BY <1>1, <1>2
  <2>. QED
    BY <1>2, <1>3, <2>1, OrderedIsNext
<1>. QED
  BY <1>1, <1>2, <1>3, <1>4 DEF InboxInv

LEMMA InboxKeep ==
  ASSUME InboxInv, UNCHANGED <<inbox, inbox_head, inbox_count, received, staged>>,
         at'["main"] = "receive" => loc'["main"].id = inbox_head
  PROVE  InboxInv'
<1>1. InboxInOrder'
  BY DEF InboxInv, InboxInOrder, Queued
<1>. QED
  BY <1>1 DEF InboxInv

-----------------------------------------------------------------------------
ReceiveInv == Inv /\ RxInv /\ ArrivalInv /\ InboxInv

(* Nobody moves in or out of the copy in net_receive but net_receive.       *)
LEMMA MainReceive ==
  ASSUME Inv, NEW c \in Contexts, Body(c)
  PROVE  at'["main"] = "receive" =>
           at["main"] = "receive" /\ loc'["main"].id = loc["main"].id
<1>1. \A d \in Contexts : d # c => at'[d] = at[d] /\ loc'[d] = loc[d]
  BY StageStep, SendStep
     DEF Body, DrainTx, DrainRx, Recycle, Goto, Local, Inv, ControlInv, DataInv, Locals
<1>2. at'[c] # "receive"
  <2>1. CASE Send(c)
    BY <2>1, SendStep DEF Inv, DataInv, Locals, Sending
  <2>2. CASE Stage(c)
    BY <2>2, StageStep
  <2>3. CASE DrainTx(c) \/ DrainRx(c) \/ Recycle(c)
    BY <2>3 DEF DrainTx, DrainRx, Recycle, Goto, Inv, ControlInv
  <2>. QED
    BY <2>1, <2>2, <2>3 DEF Body
<1>. QED
  BY <1>1, <1>2 DEF Contexts

LEMMA NextReceive == ReceiveInv /\ [Next]_vars => ReceiveInv'
<1>. SUFFICES ASSUME ReceiveInv, [Next]_vars PROVE ReceiveInv'
  OBVIOUS
<1>0. Inv /\ Inv' /\ RxInv /\ ArrivalInv /\ InboxInv
  BY NextInv DEF ReceiveInv
<1>. SUFFICES RxInv' /\ ArrivalInv' /\ InboxInv'
  BY <1>0 DEF ReceiveInv
<1>1. CASE Arrive
  <2>1. RxInv' /\ ArrivalInv'
    BY <1>0, <1>1, RxArrive, ArrivalArrive
  <2>2. InboxInv'
    BY <1>0, <1>1, InboxKeep DEF Arrive, box, InboxInv
  <2>. QED
    BY <2>1, <2>2
<1>2. CASE TakeTx \/ (\E id \in TxIds : CompleteTx(id)) \/ UNCHANGED vars
  <2>1. RxInv' /\ rx' = rx
    BY <1>0, <1>2, RxOthers
  <2>2. /\ UNCHANGED <<rx_buf, arrived, staged, at, loc>>
        /\ UNCHANGED <<inbox, inbox_head, inbox_count, received>>
    BY <1>2 DEF TakeTx, CompleteTx, vars, box, cpu, hist
  <2>3. ArrivalInv'
    BY <1>0, <2>1, <2>2, ArrivalKeep
  <2>4. InboxInv'
    BY <1>0, <2>2, InboxKeep DEF InboxInv
  <2>. QED
    BY <2>1, <2>3, <2>4
<1>3. CASE IrqEnter \/ NetPoll \/ CallSend \/ ReceiveBegin
  <2>1. RxInv' /\ rx' = rx
    BY <1>0, <1>3, RxOthers
  <2>2. /\ UNCHANGED <<rx_buf, arrived, staged>>
        /\ UNCHANGED <<inbox, inbox_head, inbox_count, received>>
    BY <1>3 DEF IrqEnter, NetPoll, CallSend, ReceiveBegin, box, hist
  <2>3. ArrivalInv'
    BY <1>0, <1>3, <2>1, <2>2, EnterStep, ArrivalKeep
  <2>4. at'["main"] = "receive" => loc'["main"].id = inbox_head
    <3>1. CASE ReceiveBegin
      BY <1>0, <3>1 DEF ReceiveBegin, Local, Inv, DataInv, Contexts, Locals
    <3>2. CASE IrqEnter \/ NetPoll \/ CallSend
      <4>1. at'["main"] # "receive" \/ at'["main"] = at["main"]
        BY <1>0, <3>2 DEF IrqEnter, NetPoll, CallSend, Goto, Inv, ControlInv, Contexts
      <4>2. "main" \in Contexts
        BY DEF Contexts
      <4>3. at'["main"] = at["main"] => loc'["main"] = loc["main"]
        BY <1>0, <1>3, <4>2, EnterStep
      <4>4. at'["main"] = "receive" => at["main"] = "receive"
        BY <4>1
      <4>. QED
        BY <1>0, <4>1, <4>3, <4>4 DEF InboxInv
    <3>. QED
      BY <1>3, <3>1, <3>2
  <2>5. InboxInv'
    BY <1>0, <2>2, <2>4, InboxKeep
  <2>. QED
    BY <2>1, <2>3, <2>5
<1>4. CASE ReceiveEnd
  <2>1. RxInv' /\ rx' = rx
    BY <1>0, <1>4, RxOthers
  <2>2. UNCHANGED <<rx_buf, arrived, staged>>
    BY <1>4 DEF ReceiveEnd
  <2>3. ArrivalInv'
    BY <1>0, <1>4, <2>1, <2>2, EnterStep, ArrivalKeep
  <2>. QED
    BY <1>0, <1>4, <2>1, <2>3, InboxReceive
<1>5. ASSUME NEW c \in Contexts, Body(c) PROVE RxInv' /\ ArrivalInv' /\ InboxInv'
  <2>1. CASE Stage(c)
    BY <1>0, <2>1, RxOthers, ArrivalStage, InboxStage
  <2>2. CASE ~Stage(c)
    <3>1. UNCHANGED <<inbox, inbox_head, inbox_count, received, staged, rx_buf, arrived>>
      BY <1>5, <2>2 DEF Body, DrainTx, DrainRx, Recycle, Send, SendEnter, SendAlloc, SendUnlink,
                        SendFill, SendRing, SendPublish, box, hist
    <3>2. InboxInv'
      BY <1>0, <1>5, <3>1, MainReceive, InboxKeep DEF InboxInv
    <3>3. CASE DrainRx(c) /\ HasUsed(rx)
      BY <1>0, <3>2, <3>3, RxDrain, ArrivalDrain
    <3>4. CASE Recycle(c)
      <4>1. RxInv' /\ rx'.used = rx.used /\ rx'.used_idx = rx.used_idx /\ rx'.used_pub = rx.used_pub
        BY <1>0, <3>4, RxRecycle
      <4>2. loc' = loc /\ \A d \in Contexts : at'[d] = "stage" => at[d] = "stage"
        BY <1>0, <3>4 DEF Recycle, Goto, Inv, ControlInv
      <4>. QED
        BY <1>0, <3>1, <3>2, <4>1, <4>2, ArrivalKeep
    <3>5. CASE Send(c)
      <4>1. RxInv' /\ rx' = rx
        BY <1>0, <3>5, RxOthers
      <4>2. \A d \in Contexts : at'[d] = "stage" => at[d] = "stage" /\ loc'[d].rxid = loc[d].rxid
        BY <1>0, <3>5, SendStep DEF Inv, DataInv, Locals, Sending
      <4>. QED
        BY <1>0, <3>1, <3>2, <4>1, <4>2, ArrivalKeep
    <3>6. CASE DrainTx(c) \/ (DrainRx(c) /\ ~HasUsed(rx))
      <4>1. RxInv' /\ rx' = rx
        BY <1>0, <3>6, RxOthers
      <4>2. loc' = loc /\ \A d \in Contexts : at'[d] = "stage" => at[d] = "stage"
        BY <1>0, <3>6 DEF DrainTx, DrainRx, Goto, Inv, ControlInv
      <4>. QED
        BY <1>0, <3>1, <3>2, <4>1, <4>2, ArrivalKeep
    <3>. QED
      BY <1>5, <2>2, <3>3, <3>4, <3>5, <3>6 DEF Body
  <2>. QED
    BY <2>1, <2>2
<1>. QED
  BY <1>1, <1>2, <1>3, <1>4, <1>5 DEF Next

LEMMA EmptyWindow ==
  ASSUME NEW r, NEW size, RingSize(size), NEW s \in Idxs
  PROVE  Window(r, size, s, s) = {} /\ Fit(r, size, s, s)
<1>1. Between(s, s) = 0 /\ 0 <= size
  BY BetweenStep DEF RingSize
<1>2. 0 .. (Between(s, s) - 1) = {}
  BY <1>1
<1>. QED
  BY <1>1, <1>2, Zenon DEF Window, Fit

LEMMA InitReceive == Init => ReceiveInv
<1>. SUFFICES ASSUME Init PROVE ReceiveInv
  OBVIOUS
<1>. DEFINE ids == 0 .. (RxSize - 1)
            same == [i \in ids |-> i]
<1>1. /\ rx.queue_size = RxSize /\ rx.avail = same /\ rx.avail_idx = RxSize
      /\ rx.avail_pub = RxSize /\ rx.used_idx = 0 /\ rx.used_pub = 0
      /\ rx_seen = 0 /\ at = [c \in Contexts |-> "idle"] /\ loc = [c \in Contexts |-> NoLocals]
  BY DEF Init, Seeded
<1>2. 0 \in Idxs /\ RxSize \in Idxs /\ RxSize \in Nat /\ RxSize > 0
  BY SizeFacts DEF Idxs
<1>3. Between(0, RxSize) = RxSize /\ Between(0, 0) = 0
  BY <1>2, BetweenType, BetweenStep
<1>4. \A k \in ids : At(same, RxSize, 0, k) = k
  <2>. TAKE k \in ids
  <2>1. k \in Nat /\ k <= RxSize /\ k < RxSize /\ 0 + k = k
    BY <1>2
  <2>2. Pos(RxSize, 0, k) = (0 + k) % RxSize
    BY <1>2, <2>1, RxRingSize, PosIs
  <2>3. k % RxSize = k
    BY <1>2, <2>1, ModSmall
  <2>. QED
    BY <2>1, <2>2, <2>3 DEF At
<1>5. Window(same, RxSize, 0, RxSize) = ids /\ Fit(same, RxSize, 0, RxSize)
  <2>1. Window(same, RxSize, 0, RxSize) = {At(same, RxSize, 0, k) : k \in ids}
    BY <1>3 DEF Window
  <2>. HIDE DEF same
  <2>2. Window(same, RxSize, 0, RxSize) = ids
    BY <1>4, <2>1
  <2>. QED
    BY <1>2, <1>3, <1>4, <2>2 DEF Fit
<1>6. Window(rx.used, RxSize, 0, 0) = {} /\ Fit(rx.used, RxSize, 0, 0)
  BY <1>2, RxRingSize, EmptyWindow
<1>7. RxHeld = {}
  BY <1>1 DEF RxHeld, Contexts
<1>8. RxOffered = ids /\ UsedIds(rx) = {}
  BY <1>1, <1>5, <1>6, WindowsAre DEF RxOffered
<1>9. Partition(RxPlaces, RxIds)
  BY <1>7, <1>8, Part3 DEF RxPlaces, RxIds
<1>10. RxInv
  BY <1>1, <1>5, <1>6, <1>9 DEF RxInv, Contexts
<1>11. RxCount = 0
  BY <1>1, <1>3 DEF RxCount
<1>12. ArrivalInv
  BY <1>1, <1>11 DEF ArrivalInv, Init, Contexts
<1>13. InboxInv
  BY <1>1 DEF InboxInv, Init, InboxInOrder, Queued, Contexts
<1>. QED
  BY <1>10, <1>12, <1>13, InitInv DEF ReceiveInv

(* The inbox keeps arrivals in order, newest ones, through overflow, runts   *)
(* and whatever nesting of the handler on net_poll, net_send, net_receive.   *)
THEOREM InboxCorrect == Spec => []InboxInOrder
<1>1. ReceiveInv => InboxInOrder
  BY DEF ReceiveInv, InboxInv
<1>. QED
  BY <1>1, InitReceive, NextReceive, PTL DEF Spec

-----------------------------------------------------------------------------
(* The transmit queue, when the device accepts all the descriptors it was   *)
(* asked for: a smaller ring would strand those past its end.               *)
AllAccepted == TxAccepted = TxSize

LEMMA TxRingSize ==
  ASSUME AllAccepted
  PROVE  RingSize(TxSize)
  BY SizeFacts, NetAssumption DEF RingSize, AllAccepted

LEMMA TxView ==
  ASSUME AllAccepted, Inv, TxInv
  PROVE  /\ tx \in QueueSet(TxIds, TxSize) /\ tx_seen \in Idxs
         /\ tx.queue_size = TxSize /\ tx.avail_idx \in Idxs /\ tx.avail_pub \in Idxs
         /\ tx.used_idx \in Idxs /\ tx.used_pub \in Idxs
         /\ tx.avail \in [TxIds -> TxIds] /\ tx.used \in [TxIds -> TxIds]
         /\ tx.next \in [TxIds -> TxIds]
         /\ TxOffered = Window(tx.avail, TxSize, tx_seen, tx.avail_pub)
         /\ UsedIds(tx) = Window(tx.used, TxSize, tx.used_idx, tx.used_pub)
         /\ FreeIds(tx) \cup TxHeld \cup TxOffered \cup tx_dev \cup UsedIds(tx) = TxIds
         /\ FreeIds(tx) \cap TxHeld = {} /\ FreeIds(tx) \cap TxOffered = {}
         /\ FreeIds(tx) \cap tx_dev = {} /\ FreeIds(tx) \cap UsedIds(tx) = {}
         /\ TxHeld \cap TxOffered = {} /\ TxHeld \cap tx_dev = {}
         /\ TxHeld \cap UsedIds(tx) = {} /\ TxOffered \cap tx_dev = {}
         /\ TxOffered \cap UsedIds(tx) = {} /\ tx_dev \cap UsedIds(tx) = {}
<1>1. tx \in QueueSet(TxIds, TxSize) /\ tx_seen \in Idxs
  BY DEF Inv, DataInv, AllAccepted
<1>2. /\ tx.queue_size = TxSize /\ tx.avail_idx \in Idxs /\ tx.avail_pub \in Idxs
      /\ tx.used_idx \in Idxs /\ tx.used_pub \in Idxs
      /\ tx.avail \in [TxIds -> TxIds] /\ tx.used \in [TxIds -> TxIds]
      /\ tx.next \in [TxIds -> TxIds]
  BY <1>1 DEF QueueSet
<1>3. /\ TxOffered = Window(tx.avail, TxSize, tx_seen, tx.avail_pub)
      /\ UsedIds(tx) = Window(tx.used, TxSize, tx.used_idx, tx.used_pub)
  BY <1>2, WindowsAre DEF TxOffered
<1>4. Partition(<<FreeIds(tx), TxHeld, TxOffered, tx_dev, UsedIds(tx)>>, TxIds)
  BY DEF TxInv, TxPlaces
<1>. QED
  BY <1>1, <1>2, <1>3, <1>4, Part5

LEMMA TxBuild ==
  ASSUME NEW F, NEW H, NEW O, NEW D, NEW U, tx'.queue_size = TxSize,
         Window(tx'.avail, TxSize, tx_seen', tx'.avail_pub) = O,
         Window(tx'.used, TxSize, tx'.used_idx, tx'.used_pub) = U,
         FreeIds(tx') = F, TxHeld' = H, tx_dev' = D,
         F \cup H \cup O \cup D \cup U = TxIds,
         F \cap H = {}, F \cap O = {}, F \cap D = {}, F \cap U = {},
         H \cap O = {}, H \cap D = {}, H \cap U = {},
         O \cap D = {}, O \cap U = {}, D \cap U = {}
  PROVE  /\ Partition(TxPlaces, TxIds)'
         /\ TxOffered' = O /\ UsedIds(tx)' = U /\ FreeIds(tx)' = F
<1>1. TxOffered' = O /\ UsedIds(tx)' = U /\ FreeIds(tx)' = F
  BY WindowsAre DEF TxOffered
<1>2. Partition(<<F, H, O, D, U>>, TxIds)
  BY Part5
<1>3. TxPlaces' = <<F, H, O, D, U>> /\ TxIds' = TxIds
  BY <1>1 DEF TxPlaces, TxIds
<1>. QED
  BY <1>1, <1>2, <1>3 DEF Partition

Handing == {"fill", "ring", "publish"}
SameHolding ==
  \A c \in Contexts : /\ at'[c] \in Handing <=> at[c] \in Handing
                      /\ at[c] \in Handing => loc'[c].id = loc[c].id

LEMMA HoldingKeeps ==
  ASSUME SameHolding
  PROVE  TxHeld' = TxHeld
<1>1. TxHeld = {loc[d].id : d \in {b \in Contexts : at[b] \in Handing}}
  BY DEF TxHeld, Holding, Handing
<1>2. TxHeld' = {loc'[d].id : d \in {b \in Contexts : at'[b] \in Handing}}
  BY DEF TxHeld, Holding, Handing
<1>. QED
  BY <1>1, <1>2 DEF SameHolding

TxRest == \A c \in Contexts : at'[c] \in {"unlink", "publish"} =>
            at'[c] = at[c] /\ loc'[c].id = loc[c].id

LEMMA TxKeep ==
  ASSUME AllAccepted, Inv, TxInv, tx' = tx, tx_seen' = tx_seen, tx_dev' = tx_dev,
         SameHolding, TxRest
  PROVE  TxInv' /\ TxOffered' = TxOffered
<1>1. TxHeld' = TxHeld
  BY HoldingKeeps
<1>2. Partition(TxPlaces, TxIds)' /\ TxOffered' = TxOffered
  BY <1>1, TxView, TxBuild
<1>3. PoolOK(TxIds, tx)'
  BY DEF TxInv, PoolOK, TxIds, Chained
<1>. QED
  BY <1>2, <1>3 DEF TxInv, TxRest, Contexts

LEMMA TxTake ==
  ASSUME AllAccepted, Inv, TxInv, TakeTx
  PROVE  /\ TxInv'
         /\ OfferedId(tx, tx_seen) \in TxOffered
         /\ TxOffered' = TxOffered \ {OfferedId(tx, tx_seen)}
<1>. DEFINE id == tx.avail[tx_seen % TxSize]
            O == Window(tx.avail, TxSize, tx_seen, tx.avail_pub)
            U == Window(tx.used, TxSize, tx.used_idx, tx.used_pub)
<1>1. /\ tx.queue_size = TxSize /\ tx_seen \in Idxs /\ tx.avail_pub \in Idxs
      /\ TxOffered = O /\ UsedIds(tx) = U
  BY TxView
<1>2. OfferedId(tx, tx_seen) = id /\ tx_seen # tx.avail_pub
  BY <1>1 DEF OfferedId, TakeTx, Offered
<1>3. /\ tx' = tx /\ tx_seen' = Step(tx_seen) /\ tx_dev' = tx_dev \cup {id}
      /\ at' = at /\ loc' = loc
  BY <1>2 DEF TakeTx, queues, cpu
<1>4. /\ id \in O /\ Window(tx.avail, TxSize, Step(tx_seen), tx.avail_pub) = O \ {id}
      /\ Fit(tx.avail, TxSize, Step(tx_seen), tx.avail_pub)
  BY <1>1, <1>2, TxRingSize, RingTake DEF TxInv
<1>5. TxHeld' = TxHeld
  BY <1>3, HoldingKeeps DEF SameHolding
<1>. HIDE DEF id, O, U
<1>6. Partition(TxPlaces, TxIds)' /\ TxOffered' = O \ {id}
  <2>. DEFINE Q == O \ {id}
              D == tx_dev \cup {id}
  <2>1. /\ tx'.queue_size = TxSize /\ FreeIds(tx') = FreeIds(tx) /\ TxHeld' = TxHeld /\ tx_dev' = D
        /\ Window(tx'.avail, TxSize, tx_seen', tx'.avail_pub) = Q
        /\ Window(tx'.used, TxSize, tx'.used_idx, tx'.used_pub) = U
    BY <1>1, <1>3, <1>4, <1>5 DEF U
  <2>2. /\ FreeIds(tx) \cup TxHeld \cup Q \cup D \cup U = TxIds
        /\ FreeIds(tx) \cap TxHeld = {} /\ FreeIds(tx) \cap Q = {}
        /\ FreeIds(tx) \cap D = {} /\ FreeIds(tx) \cap U = {}
        /\ TxHeld \cap Q = {} /\ TxHeld \cap D = {} /\ TxHeld \cap U = {}
        /\ Q \cap D = {} /\ Q \cap U = {} /\ D \cap U = {}
    BY <1>1, <1>4, TxView
  <2>. HIDE DEF Q, D
  <2>3. Partition(TxPlaces, TxIds)' /\ TxOffered' = Q
    BY <2>1, <2>2, TxBuild
  <2>. QED
    BY <2>3 DEF Q
<1>7. PoolOK(TxIds, tx)'
  BY <1>3 DEF TxInv, PoolOK, TxIds, Chained
<1>. QED
  BY <1>1, <1>2, <1>3, <1>4, <1>6, <1>7 DEF TxInv

LEMMA TxComplete ==
  ASSUME AllAccepted, Inv, TxInv, NEW id \in TxIds, CompleteTx(id)
  PROVE  TxInv' /\ TxOffered' = TxOffered /\ tx_dev' = tx_dev \ {id}
<1>. DEFINE O == Window(tx.avail, TxSize, tx_seen, tx.avail_pub)
            U == Window(tx.used, TxSize, tx.used_idx, tx.used_pub)
<1>1. /\ tx \in QueueSet(TxIds, TxSize) /\ tx.queue_size = TxSize
      /\ tx.used_idx \in Idxs /\ tx.used_pub \in Idxs /\ tx.used \in [TxIds -> TxIds]
      /\ TxOffered = O /\ UsedIds(tx) = U
  BY TxView
<1>2. id \in tx_dev /\ id \notin U /\ U \subseteq TxIds
  BY <1>1, TxView DEF CompleteTx
<1>3. /\ tx'.queue_size = TxSize /\ tx'.avail = tx.avail /\ tx'.avail_pub = tx.avail_pub
      /\ tx'.avail_idx = tx.avail_idx /\ tx'.used_idx = tx.used_idx
      /\ tx'.used = [tx.used EXCEPT ![tx.used_pub % TxSize] = id]
      /\ tx'.used_pub = Step(tx.used_pub) /\ tx'.next = tx.next
      /\ tx'.free_head = tx.free_head /\ tx'.free_count = tx.free_count
      /\ tx_seen' = tx_seen /\ tx_dev' = tx_dev \ {id} /\ at' = at /\ loc' = loc
  BY <1>1 DEF CompleteTx, PushUsed, QueueSet
<1>4. Fit(tx.used, TxSize, tx.used_idx, tx.used_pub)
  BY DEF TxInv
<1>5. Between(tx.used_idx, tx.used_pub) < TxSize
  BY <1>1, <1>2, <1>4, TxRingSize, RingRoom DEF TxIds
<1>6. /\ tx'.used[tx.used_pub % TxSize] = id
      /\ \A i \in 0 .. (TxSize - 1) : i # tx.used_pub % TxSize => tx'.used[i] = tx.used[i]
  <2>1. tx.used_pub % TxSize \in TxIds
    BY <1>1, SizeFacts, ModType DEF TxIds, Idxs
  <2>. QED
    BY <1>1, <1>3, <2>1 DEF TxIds
<1>. HIDE DEF O, U
<1>7. /\ Window(tx'.used, TxSize, tx.used_idx, Step(tx.used_pub)) = U \cup {id}
      /\ Fit(tx'.used, TxSize, tx.used_idx, Step(tx.used_pub))
  BY <1>1, <1>2, <1>4, <1>5, <1>6, TxRingSize, RingPut DEF U
<1>8. PoolOK(TxIds, tx') /\ FreeIds(tx') = FreeIds(tx)
  BY <1>3, PoolSame DEF TxInv
<1>9. TxHeld' = TxHeld
  BY <1>3, HoldingKeeps DEF SameHolding
<1>10. Partition(TxPlaces, TxIds)' /\ TxOffered' = O
  <2>. DEFINE D == tx_dev \ {id}
              V == U \cup {id}
  <2>1. /\ tx'.queue_size = TxSize /\ FreeIds(tx') = FreeIds(tx) /\ TxHeld' = TxHeld /\ tx_dev' = D
        /\ Window(tx'.avail, TxSize, tx_seen', tx'.avail_pub) = O
        /\ Window(tx'.used, TxSize, tx'.used_idx, tx'.used_pub) = V
    BY <1>3, <1>7, <1>8, <1>9 DEF O
  <2>2. /\ FreeIds(tx) \cup TxHeld \cup O \cup D \cup V = TxIds
        /\ FreeIds(tx) \cap TxHeld = {} /\ FreeIds(tx) \cap O = {}
        /\ FreeIds(tx) \cap D = {} /\ FreeIds(tx) \cap V = {}
        /\ TxHeld \cap O = {} /\ TxHeld \cap D = {} /\ TxHeld \cap V = {}
        /\ O \cap D = {} /\ O \cap V = {} /\ D \cap V = {}
    BY <1>1, <1>2, TxView
  <2>. HIDE DEF D, V
  <2>. QED
    BY <2>1, <2>2, TxBuild
<1>11. PoolOK(TxIds, tx)'
  BY <1>8 DEF PoolOK, TxIds, Chained
<1>. QED
  BY <1>1, <1>3, <1>7, <1>10, <1>11 DEF TxInv

LEMMA TxDrain ==
  ASSUME AllAccepted, Inv, Inv', TxInv, NEW c \in Contexts, DrainTx(c), HasUsed(tx)
  PROVE  TxInv' /\ TxOffered' = TxOffered /\ tx_dev' = tx_dev /\ tx'.addr = tx.addr
<1>. DEFINE id == tx.used[tx.used_idx % TxSize]
            O == Window(tx.avail, TxSize, tx_seen, tx.avail_pub)
            U == Window(tx.used, TxSize, tx.used_idx, tx.used_pub)
<1>1. /\ tx \in QueueSet(TxIds, TxSize) /\ tx.queue_size = TxSize
      /\ tx.used_idx \in Idxs /\ tx.used_pub \in Idxs /\ tx.next \in [TxIds -> TxIds]
      /\ TxOffered = O /\ UsedIds(tx) = U
  BY TxView
<1>2. UsedId(tx) = id /\ tx.used_idx # tx.used_pub
  BY <1>1 DEF UsedId, HasUsed
<1>3. /\ id \in U /\ Window(tx.used, TxSize, Step(tx.used_idx), tx.used_pub) = U \ {id}
      /\ Fit(tx.used, TxSize, Step(tx.used_idx), tx.used_pub)
  BY <1>1, <1>2, TxRingSize, RingTake DEF TxInv
<1>4. id \in TxIds /\ id \notin FreeIds(tx)
  BY <1>1, <1>3, TxView
<1>5. Known(PopUsed(tx), id)
  BY <1>1, <1>4, SizeFacts DEF Known, PopUsed, QueueSet, TxIds
<1>6. tx' = FreeDesc(PopUsed(tx), id)
  BY <1>2 DEF DrainTx
<1>7. /\ tx'.queue_size = TxSize /\ tx'.avail = tx.avail /\ tx'.avail_pub = tx.avail_pub
      /\ tx'.avail_idx = tx.avail_idx /\ tx'.used = tx.used /\ tx'.used_pub = tx.used_pub
      /\ tx'.used_idx = Step(tx.used_idx) /\ tx'.addr = tx.addr
      /\ tx'.next = [tx.next EXCEPT ![id] = tx.free_head] /\ tx'.free_head = id
      /\ tx'.free_count = tx.free_count + 1
  BY <1>1, <1>5, <1>6 DEF FreeDesc, PopUsed, QueueSet
<1>8. /\ tx_seen' = tx_seen /\ tx_dev' = tx_dev /\ loc' = loc /\ at[c] = "drain_tx"
      /\ at' = at
  BY <1>2 DEF DrainTx, devside, Goto, Inv, ControlInv
<1>9. PoolOK(TxIds, tx') /\ FreeIds(tx') = FreeIds(tx) \cup {id}
  BY <1>4, <1>7, PoolFree DEF TxInv
<1>10. TxHeld' = TxHeld
  BY <1>8, HoldingKeeps DEF SameHolding
<1>. HIDE DEF id, O, U
<1>11. Partition(TxPlaces, TxIds)' /\ TxOffered' = O
  <2>. DEFINE F == FreeIds(tx) \cup {id}
              V == U \ {id}
  <2>1. /\ tx'.queue_size = TxSize /\ FreeIds(tx') = F /\ TxHeld' = TxHeld /\ tx_dev' = tx_dev
        /\ Window(tx'.avail, TxSize, tx_seen', tx'.avail_pub) = O
        /\ Window(tx'.used, TxSize, tx'.used_idx, tx'.used_pub) = V
    BY <1>3, <1>7, <1>8, <1>9, <1>10 DEF O
  <2>2. /\ F \cup TxHeld \cup O \cup tx_dev \cup V = TxIds
        /\ F \cap TxHeld = {} /\ F \cap O = {} /\ F \cap tx_dev = {} /\ F \cap V = {}
        /\ TxHeld \cap O = {} /\ TxHeld \cap tx_dev = {} /\ TxHeld \cap V = {}
        /\ O \cap tx_dev = {} /\ O \cap V = {} /\ tx_dev \cap V = {}
    BY <1>1, <1>3, TxView
  <2>. HIDE DEF F, V
  <2>. QED
    BY <2>1, <2>2, TxBuild
<1>12. \A d \in Contexts : at[d] \notin {"unlink", "publish"}
  <2>1. Busy(c)
    BY <1>8 DEF Busy
  <2>2. \A d \in Contexts : at[d] \in {"unlink", "publish"} => d = c
    BY <2>1, Alone DEF Busy, Sending
  <2>. QED
    BY <1>8, <2>2
<1>13. PoolOK(TxIds, tx)'
  BY <1>9 DEF PoolOK, TxIds, Chained
<1>. QED
  BY <1>1, <1>3, <1>7, <1>8, <1>11, <1>12, <1>13 DEF TxInv

LEMMA TxAlloc ==
  ASSUME AllAccepted, Inv, TxInv, NEW c \in Contexts, SendAlloc(c)
  PROVE  TxInv' /\ TxOffered' = TxOffered /\ tx_dev' = tx_dev
<1>1. /\ tx' = tx /\ tx_seen' = tx_seen /\ tx_dev' = tx_dev /\ at[c] = "alloc"
      /\ at'[c] \in {"idle", "recycle", "unlink"}
      /\ \A d \in Contexts : d # c => at'[d] = at[d] /\ loc'[d] = loc[d]
      /\ at'[c] = "unlink" => loc'[c].id = tx.free_head /\ ~PoolEmpty(tx)
  BY DEF SendAlloc, Goto, Local, queues, devside, Inv, ControlInv, DataInv, Locals
<1>2. SameHolding
  BY <1>1 DEF SameHolding, Handing
<1>3. TxHeld' = TxHeld
  BY <1>2, HoldingKeeps
<1>4. Partition(TxPlaces, TxIds)' /\ TxOffered' = TxOffered
  BY <1>1, <1>3, TxView, TxBuild
<1>5. PoolOK(TxIds, tx)'
  BY <1>1 DEF TxInv, PoolOK, TxIds, Chained
<1>6. ASSUME NEW d \in Contexts
      PROVE  /\ at'[d] = "unlink" => loc'[d].id = tx'.free_head /\ tx'.free_count > 0
             /\ at'[d] = "publish" => tx'.avail[tx'.avail_idx % TxSize] = loc'[d].id
  <2>1. ~PoolEmpty(tx) => tx.free_count > 0
    BY DEF PoolEmpty, TxInv, PoolOK
  <2>. QED
    BY <1>1, <2>1 DEF TxInv
<1>. QED
  BY <1>1, <1>4, <1>5, <1>6 DEF TxInv

(* What the other four steps of net_send share.                             *)
LEMMA SendLate ==
  ASSUME Inv, Inv', NEW c \in Contexts,
         SendUnlink(c) \/ SendFill(c) \/ SendRing(c) \/ SendPublish(c)
  PROVE  /\ at[c] \in {"unlink", "fill", "ring", "publish"}
         /\ at'[c] = CASE at[c] = "unlink" -> "fill" [] at[c] = "fill" -> "ring"
                       [] at[c] = "ring" -> "publish" [] at[c] = "publish" -> loc[c].back
         /\ loc[c].back \in {"idle", "recycle"} /\ loc' = loc
         /\ tx_seen' = tx_seen /\ tx_dev' = tx_dev
         /\ loc[c].id \in TxIds
         /\ TxHeld = IF at[c] = "unlink" THEN {} ELSE {loc[c].id}
         /\ TxHeld' = IF at[c] = "publish" THEN {} ELSE {loc[c].id}
         /\ \A d \in Contexts : d # c => at'[d] = at[d]
         /\ \A d \in Contexts : at'[d] \in {"unlink", "publish"} => d = c /\ at[c] = "ring"
<1>1. /\ at[c] \in {"unlink", "fill", "ring", "publish"}
      /\ at'[c] = CASE at[c] = "unlink" -> "fill" [] at[c] = "fill" -> "ring"
                    [] at[c] = "ring" -> "publish" [] at[c] = "publish" -> loc[c].back
      /\ loc[c].back \in {"idle", "recycle"} /\ loc' = loc
      /\ tx_seen' = tx_seen /\ tx_dev' = tx_dev
      /\ \A d \in Contexts : d # c => at'[d] = at[d]
  BY DEF SendUnlink, SendFill, SendRing, SendPublish, Goto, devside, Inv, ControlInv, DataInv, Locals
<1>2. loc[c].id \in TxIds
  BY <1>1 DEF Inv, DataInv, Sending
<1>3. Busy(c)
  BY <1>1 DEF Busy, Sending
<1>4. TxHeld = IF at[c] = "unlink" THEN {} ELSE {loc[c].id}
  BY <1>1, <1>3, HeldOne DEF OneHolds, HeldBy
<1>5. \A d \in Contexts : at[d] \in Sending => d = c
  BY <1>3, Alone DEF Busy
<1>6. \A d \in Contexts : at'[d] \in {"unlink", "publish"} => d = c /\ at[c] = "ring"
  BY <1>1, <1>5 DEF Sending
<1>7. TxHeld' = IF at[c] = "publish" THEN {} ELSE {loc[c].id}
  <2>1. CASE at[c] # "publish"
    <3>1. Busy(c)' /\ at'[c] \in {"fill", "ring", "publish"}
      BY <1>1, <2>1 DEF Busy, Sending
    <3>. QED
      BY <1>1, <2>1, <3>1, HeldOneNext DEF OneHolds, HeldBy
  <2>2. CASE at[c] = "publish"
    <3>1. \A d \in Contexts : at'[d] \notin Handing
      BY <1>1, <1>5, <2>2 DEF Handing, Sending
    <3>2. TxHeld' = {loc'[d].id : d \in {b \in Contexts : at'[b] \in Handing}}
      BY DEF TxHeld, Holding, Handing
    <3>. QED
      BY <2>2, <3>1, <3>2
  <2>. QED
    BY <2>1, <2>2
<1>. QED
  BY <1>1, <1>2, <1>4, <1>6, <1>7

LEMMA TxUnlink ==
  ASSUME AllAccepted, Inv, Inv', TxInv, NEW c \in Contexts, SendUnlink(c)
  PROVE  TxInv' /\ TxOffered' = TxOffered /\ tx_dev' = tx_dev /\ tx'.addr = tx.addr
<1>. DEFINE id == loc[c].id
            O == Window(tx.avail, TxSize, tx_seen, tx.avail_pub)
            U == Window(tx.used, TxSize, tx.used_idx, tx.used_pub)
<1>1. /\ tx \in QueueSet(TxIds, TxSize) /\ tx.queue_size = TxSize
      /\ TxOffered = O /\ UsedIds(tx) = U
  BY TxView
<1>2. at[c] = "unlink" /\ tx' = AllocDesc(tx, id)
  BY DEF SendUnlink, Goto
<1>3. id = tx.free_head /\ tx.free_count > 0
  BY <1>2 DEF TxInv
<1>4. /\ tx'.queue_size = TxSize /\ tx'.avail = tx.avail /\ tx'.avail_pub = tx.avail_pub
      /\ tx'.avail_idx = tx.avail_idx /\ tx'.used = tx.used /\ tx'.used_pub = tx.used_pub
      /\ tx'.used_idx = tx.used_idx /\ tx'.addr = tx.addr /\ tx'.next = tx.next
      /\ tx'.free_head = tx.next[tx.free_head] /\ tx'.free_count = tx.free_count - 1
  BY <1>1, <1>2, <1>3 DEF AllocDesc, QueueSet
<1>5. /\ id \in FreeIds(tx) /\ PoolOK(TxIds, tx') /\ FreeIds(tx') = FreeIds(tx) \ {id}
  BY <1>3, <1>4, PoolAlloc DEF TxInv
<1>6. /\ TxHeld = {} /\ TxHeld' = {id} /\ tx_seen' = tx_seen /\ tx_dev' = tx_dev
      /\ \A d \in Contexts : at'[d] \notin {"unlink", "publish"}
  BY <1>2, SendLate
<1>. HIDE DEF id, O, U
<1>7. Partition(TxPlaces, TxIds)' /\ TxOffered' = O
  <2>. DEFINE F == FreeIds(tx) \ {id}
              H == {id}
  <2>1. /\ tx'.queue_size = TxSize /\ FreeIds(tx') = F /\ TxHeld' = H /\ tx_dev' = tx_dev
        /\ Window(tx'.avail, TxSize, tx_seen', tx'.avail_pub) = O
        /\ Window(tx'.used, TxSize, tx'.used_idx, tx'.used_pub) = U
    BY <1>4, <1>5, <1>6 DEF O, U
  <2>2. /\ F \cup H \cup O \cup tx_dev \cup U = TxIds
        /\ F \cap H = {} /\ F \cap O = {} /\ F \cap tx_dev = {} /\ F \cap U = {}
        /\ H \cap O = {} /\ H \cap tx_dev = {} /\ H \cap U = {}
        /\ O \cap tx_dev = {} /\ O \cap U = {} /\ tx_dev \cap U = {}
    BY <1>1, <1>5, <1>6, TxView
  <2>. HIDE DEF F, H
  <2>. QED
    BY <2>1, <2>2, TxBuild
<1>8. PoolOK(TxIds, tx)'
  BY <1>5 DEF PoolOK, TxIds, Chained
<1>. QED
  BY <1>1, <1>4, <1>6, <1>7, <1>8 DEF TxInv

LEMMA TxFill ==
  ASSUME AllAccepted, Inv, Inv', TxInv, NEW c \in Contexts, SendFill(c)
  PROVE  /\ TxInv' /\ TxOffered' = TxOffered /\ tx_dev' = tx_dev
         /\ tx'.addr = [tx.addr EXCEPT ![loc[c].id] = loc[c].id]
<1>. DEFINE id == loc[c].id
            O == Window(tx.avail, TxSize, tx_seen, tx.avail_pub)
            U == Window(tx.used, TxSize, tx.used_idx, tx.used_pub)
<1>1. /\ tx \in QueueSet(TxIds, TxSize) /\ tx.queue_size = TxSize
      /\ TxOffered = O /\ UsedIds(tx) = U
  BY TxView
<1>2. at[c] = "fill" /\ tx' = DescFill(tx, id, id)
  BY DEF SendFill, Goto
<1>3. /\ TxHeld = {id} /\ TxHeld' = {id} /\ tx_seen' = tx_seen /\ tx_dev' = tx_dev
      /\ id \in TxIds /\ \A d \in Contexts : at'[d] \notin {"unlink", "publish"}
  BY <1>2, SendLate
<1>4. Known(tx, id)
  BY <1>1, <1>3, SizeFacts DEF Known, TxIds
<1>5. /\ tx'.queue_size = TxSize /\ tx'.avail = tx.avail /\ tx'.avail_pub = tx.avail_pub
      /\ tx'.avail_idx = tx.avail_idx /\ tx'.used = tx.used /\ tx'.used_pub = tx.used_pub
      /\ tx'.used_idx = tx.used_idx /\ tx'.addr = [tx.addr EXCEPT ![id] = id]
      /\ tx'.next = [tx.next EXCEPT ![id] = 0]
      /\ tx'.free_head = tx.free_head /\ tx'.free_count = tx.free_count
  BY <1>1, <1>2, <1>4 DEF DescFill, QueueSet
<1>6. id \notin FreeIds(tx) /\ 0 \in TxIds
  BY <1>3, TxView, SizeFacts DEF TxIds
<1>7. PoolOK(TxIds, tx') /\ FreeIds(tx') = FreeIds(tx)
  BY <1>3, <1>5, <1>6, PoolFill DEF TxInv
<1>. HIDE DEF id, O, U
<1>8. Partition(TxPlaces, TxIds)' /\ TxOffered' = O
  <2>1. /\ tx'.queue_size = TxSize /\ FreeIds(tx') = FreeIds(tx) /\ TxHeld' = TxHeld
        /\ tx_dev' = tx_dev
        /\ Window(tx'.avail, TxSize, tx_seen', tx'.avail_pub) = O
        /\ Window(tx'.used, TxSize, tx'.used_idx, tx'.used_pub) = U
    BY <1>3, <1>5, <1>7 DEF O, U
  <2>. QED
    BY <1>1, <2>1, TxView, TxBuild
<1>9. PoolOK(TxIds, tx)'
  BY <1>7 DEF PoolOK, TxIds, Chained
<1>. QED
  BY <1>1, <1>3, <1>5, <1>8, <1>9 DEF TxInv, id

LEMMA TxRing ==
  ASSUME AllAccepted, Inv, Inv', TxInv, NEW c \in Contexts, SendRing(c) \/ SendPublish(c)
  PROVE  /\ TxInv' /\ tx_dev' = tx_dev /\ tx'.addr = tx.addr
         /\ TxOffered' = IF at[c] = "ring" THEN TxOffered ELSE TxOffered \cup {loc[c].id}
         /\ TxHeld = {loc[c].id}
<1>. DEFINE id == loc[c].id
            e == tx.avail_pub
            O == Window(tx.avail, TxSize, tx_seen, e)
            U == Window(tx.used, TxSize, tx.used_idx, tx.used_pub)
<1>1. /\ tx \in QueueSet(TxIds, TxSize) /\ tx.queue_size = TxSize
      /\ tx_seen \in Idxs /\ e \in Idxs /\ tx.avail \in [TxIds -> TxIds]
      /\ TxOffered = O /\ UsedIds(tx) = U
  BY TxView
<1>2. Fit(tx.avail, TxSize, tx_seen, e) /\ tx.avail_idx = e
  BY DEF TxInv
<1>3. at[c] \in {"ring", "publish"}
  BY DEF SendRing, SendPublish, Goto
<1>4. /\ TxHeld = {id} /\ tx_seen' = tx_seen /\ tx_dev' = tx_dev /\ loc' = loc
      /\ TxHeld' = IF at[c] = "publish" THEN {} ELSE {id}
      /\ id \in TxIds
      /\ \A d \in Contexts : at'[d] \in {"unlink", "publish"} => d = c /\ at[c] = "ring"
      /\ at[c] = "ring" => at'[c] = "publish"
  BY <1>3, SendLate
<1>5. Known(tx, id)
  BY <1>1, <1>4, SizeFacts DEF Known, TxIds
<1>6. id \notin O /\ O \subseteq TxIds
  BY <1>1, <1>4, TxView
<1>7. Between(tx_seen, e) < TxSize
  BY <1>1, <1>2, <1>4, <1>6, TxRingSize, RingRoom DEF TxIds
<1>8. e % TxSize \in TxIds
  BY <1>1, SizeFacts, ModType DEF TxIds, Idxs
<1>. HIDE DEF id, e, O, U
<1>9. CASE at[c] = "ring"
  <2>1. tx' = WriteRing(tx, id)
    BY <1>9 DEF SendRing, SendPublish, Goto, id
  <2>2. /\ tx'.queue_size = TxSize /\ tx'.avail_pub = e /\ tx'.avail_idx = e
        /\ tx'.used = tx.used /\ tx'.used_idx = tx.used_idx /\ tx'.used_pub = tx.used_pub
        /\ tx'.avail = [tx.avail EXCEPT ![e % TxSize] = id] /\ tx'.addr = tx.addr
        /\ tx'.next = tx.next /\ tx'.free_head = tx.free_head /\ tx'.free_count = tx.free_count
    BY <1>1, <1>2, <1>5, <2>1 DEF WriteRing, QueueSet, e
  <2>3. /\ tx'.avail[e % TxSize] = id
        /\ \A i \in 0 .. (TxSize - 1) : i # e % TxSize => tx'.avail[i] = tx.avail[i]
    BY <1>1, <1>8, <2>2 DEF TxIds
  <2>4. Window(tx'.avail, TxSize, tx_seen, e) = O /\ Fit(tx'.avail, TxSize, tx_seen, e)
    BY <1>1, <1>2, <1>4, <1>6, <1>7, <2>3, TxRingSize, RingPut DEF O
  <2>5. PoolOK(TxIds, tx') /\ FreeIds(tx') = FreeIds(tx)
    BY <2>2, PoolSame DEF TxInv
  <2>6. Partition(TxPlaces, TxIds)' /\ TxOffered' = O
    <3>1. /\ tx'.queue_size = TxSize /\ FreeIds(tx') = FreeIds(tx) /\ TxHeld' = TxHeld
          /\ tx_dev' = tx_dev
          /\ Window(tx'.avail, TxSize, tx_seen', tx'.avail_pub) = O
          /\ Window(tx'.used, TxSize, tx'.used_idx, tx'.used_pub) = U
      BY <1>4, <1>9, <2>2, <2>4, <2>5 DEF U
    <3>. QED
      BY <1>1, <3>1, TxView, TxBuild
  <2>7. PoolOK(TxIds, tx)'
    BY <2>5 DEF PoolOK, TxIds, Chained
  <2>8. ASSUME NEW d \in Contexts
        PROVE  /\ at'[d] # "unlink"
               /\ at'[d] = "publish" => tx'.avail[tx'.avail_idx % TxSize] = loc'[d].id
    BY <1>4, <2>2, <2>3 DEF id
  <2>9. TxInv'
    BY <1>4, <2>2, <2>4, <2>6, <2>7, <2>8 DEF TxInv
  <2>. QED
    BY <1>1, <1>4, <1>9, <2>2, <2>6, <2>9 DEF id
<1>10. CASE at[c] = "publish"
  <2>1. tx' = PublishIdx(tx, id)
    BY <1>10 DEF SendRing, SendPublish, Goto, id
  <2>2. /\ tx'.queue_size = TxSize /\ tx'.avail_pub = Step(e) /\ tx'.avail_idx = Step(e)
        /\ tx'.used = tx.used /\ tx'.used_idx = tx.used_idx /\ tx'.used_pub = tx.used_pub
        /\ tx'.avail = tx.avail /\ tx'.addr = tx.addr
        /\ tx'.next = tx.next /\ tx'.free_head = tx.free_head /\ tx'.free_count = tx.free_count
    BY <1>1, <1>2, <1>5, <2>1 DEF PublishIdx, QueueSet, e
  <2>3. tx.avail[e % TxSize] = id
    BY <1>2, <1>10 DEF TxInv, id
  <2>4. /\ Window(tx.avail, TxSize, tx_seen, Step(e)) = O \cup {id}
        /\ Fit(tx.avail, TxSize, tx_seen, Step(e))
    BY <1>1, <1>2, <1>4, <1>6, <1>7, <2>3, TxRingSize, RingPut DEF O
  <2>5. PoolOK(TxIds, tx') /\ FreeIds(tx') = FreeIds(tx)
    BY <2>2, PoolSame DEF TxInv
  <2>6. Partition(TxPlaces, TxIds)' /\ TxOffered' = O \cup {id}
    <3>. DEFINE Q == O \cup {id}
                H == {}
    <3>1. /\ tx'.queue_size = TxSize /\ FreeIds(tx') = FreeIds(tx) /\ TxHeld' = H
          /\ tx_dev' = tx_dev
          /\ Window(tx'.avail, TxSize, tx_seen', tx'.avail_pub) = Q
          /\ Window(tx'.used, TxSize, tx'.used_idx, tx'.used_pub) = U
      BY <1>4, <1>10, <2>2, <2>4, <2>5 DEF U
    <3>2. /\ FreeIds(tx) \cup H \cup Q \cup tx_dev \cup U = TxIds
          /\ FreeIds(tx) \cap H = {} /\ FreeIds(tx) \cap Q = {}
          /\ FreeIds(tx) \cap tx_dev = {} /\ FreeIds(tx) \cap U = {}
          /\ H \cap Q = {} /\ H \cap tx_dev = {} /\ H \cap U = {}
          /\ Q \cap tx_dev = {} /\ Q \cap U = {} /\ tx_dev \cap U = {}
      BY <1>1, <1>4, TxView
    <3>. HIDE DEF Q, H
    <3>3. Partition(TxPlaces, TxIds)' /\ TxOffered' = Q
      BY <3>1, <3>2, TxBuild
    <3>. QED
      BY <3>3 DEF Q
  <2>7. PoolOK(TxIds, tx)'
    BY <2>5 DEF PoolOK, TxIds, Chained
  <2>8. \A d \in Contexts : at'[d] \notin {"unlink", "publish"}
    BY <1>4, <1>10
  <2>9. TxInv'
    BY <1>2, <1>4, <2>2, <2>4, <2>6, <2>7, <2>8 DEF TxInv
  <2>. QED
    BY <1>1, <1>4, <1>10, <2>2, <2>6, <2>9 DEF id
<1>. QED
  BY <1>3, <1>9, <1>10

LEMMA TxOthers ==
  ASSUME AllAccepted, Inv, TxInv,
         \/ Arrive \/ IrqEnter \/ NetPoll \/ CallSend \/ ReceiveBegin \/ ReceiveEnd
         \/ \E c \in Contexts : \/ DrainRx(c) \/ Stage(c) \/ Recycle(c) \/ SendEnter(c)
                                \/ (DrainTx(c) /\ ~HasUsed(tx))
         \/ UNCHANGED vars
  PROVE  /\ TxInv' /\ TxOffered' = TxOffered
         /\ UNCHANGED <<tx, tx_dev, tx_buf, accepted, transmitted>>
         /\ \A d \in Contexts : at'[d] \in {"ring", "publish"} =>
              at[d] = at'[d] /\ loc'[d].id = loc[d].id /\ loc'[d].frame = loc[d].frame
<1>. DEFINE Same == /\ UNCHANGED <<tx, tx_seen, tx_dev, tx_buf, accepted, transmitted>>
                    /\ SameHolding /\ TxRest
                    /\ \A d \in Contexts : at'[d] \in {"ring", "publish"} =>
                         at[d] = at'[d] /\ loc'[d].id = loc[d].id /\ loc'[d].frame = loc[d].frame
<1>1. SUFFICES Same
  BY TxKeep
<1>. USE DEF SameHolding, TxRest, Handing
<1>2. CASE Arrive \/ UNCHANGED vars
  BY <1>2 DEF Arrive, vars, queues, devside, cpu, hist
<1>3. CASE IrqEnter \/ NetPoll \/ CallSend \/ ReceiveBegin \/ ReceiveEnd
  <2>1. UNCHANGED <<tx, tx_seen, tx_dev, tx_buf, accepted, transmitted>>
    BY <1>3 DEF IrqEnter, NetPoll, CallSend, ReceiveBegin, ReceiveEnd, queues, devside, hist
  <2>. QED
    BY <1>3, <2>1, EnterStep
<1>4. ASSUME NEW c \in Contexts, Stage(c) PROVE Same
  <2>1. UNCHANGED <<tx, tx_seen, tx_dev, tx_buf, accepted, transmitted>>
    BY <1>4 DEF Stage, queues, devside
  <2>. QED
    BY <1>4, <2>1, StageStep
<1>5. ASSUME NEW c \in Contexts, SendEnter(c) PROVE Same
  <2>1. UNCHANGED <<tx, tx_seen, tx_dev, tx_buf, accepted, transmitted>>
    BY <1>5 DEF SendEnter, queues, devside, hist
  <2>2. /\ at[c] = "send" /\ at'[c] \in {"idle", "recycle", "alloc"}
        /\ \A d \in Contexts : d # c => at'[d] = at[d] /\ loc'[d] = loc[d]
    BY <1>5 DEF SendEnter, Goto, Local, Inv, ControlInv, DataInv, Locals
  <2>. QED
    BY <2>1, <2>2
<1>6. ASSUME NEW c \in Contexts, DrainRx(c) \/ Recycle(c) \/ (DrainTx(c) /\ ~HasUsed(tx))
      PROVE  Same
  <2>1. UNCHANGED <<tx, tx_seen, tx_dev, tx_buf, accepted, transmitted>>
    BY <1>6 DEF DrainRx, Recycle, DrainTx, devside, hist
  <2>2. /\ \A d \in Contexts : d # c => at'[d] = at[d] /\ loc'[d] = loc[d]
        /\ at[c] \in {"drain_tx", "drain_rx", "recycle", "republish"}
        /\ at'[c] \in {"drain_tx", "drain_rx", "recycle", "republish", "stage", "idle"}
    BY <1>6 DEF DrainRx, Recycle, DrainTx, Goto, Local, Inv, ControlInv, DataInv, Locals
  <2>. QED
    BY <2>1, <2>2
<1>. QED
  BY <1>2, <1>3, <1>4, <1>5, <1>6

-----------------------------------------------------------------------------
(* The frames in flight.                                                    *)
LEMMA FlightTake ==
  ASSUME AllAccepted, Inv, TxInv, FlightInv, TakeTx
  PROVE  FlightInv'
<1>1. /\ OfferedId(tx, tx_seen) \in TxOffered
      /\ TxOffered' = TxOffered \ {OfferedId(tx, tx_seen)}
  BY TxTake
<1>2. /\ tx' = tx /\ tx_dev' = tx_dev \cup {OfferedId(tx, tx_seen)} /\ at' = at /\ loc' = loc
      /\ UNCHANGED <<tx_buf, accepted, transmitted>>
  BY DEF TakeTx, queues, cpu, hist
<1>3. InFlight' = InFlight
  BY <1>1, <1>2 DEF InFlight
<1>4. \A f : OnWire(f)' <=> OnWire(f)
  BY <1>2 DEF OnWire
<1>. QED
  BY <1>2, <1>3, <1>4 DEF FlightInv, TxIds

LEMMA FlightComplete ==
  ASSUME AllAccepted, Inv, TxInv, FlightInv, NEW id \in TxIds, CompleteTx(id)
  PROVE  FlightInv'
<1>. DEFINE f == tx_buf[id]
            n == Len(transmitted)
<1>1. TxOffered' = TxOffered /\ tx_dev' = tx_dev \ {id}
  BY TxComplete
<1>2. id \in tx_dev /\ id \notin TxOffered
  BY TxView DEF CompleteTx
<1>3. id \in InFlight /\ InFlight' = InFlight \ {id}
  BY <1>1, <1>2 DEF InFlight
<1>4. tx.addr[id] = id /\ f \in accepted /\ ~OnWire(f) /\ f \in Int
  BY <1>3 DEF FlightInv
<1>5. /\ transmitted' = Append(transmitted, f) /\ transmitted \in Seq(Int)
      /\ tx'.addr = tx.addr /\ at' = at /\ loc' = loc
      /\ UNCHANGED <<tx_buf, accepted>> /\ tx_buf \in [TxIds -> Int]
  BY <1>4, TxView DEF CompleteTx, PushUsed, QueueSet, FlightInv
<1>. HIDE DEF f
<1>6. /\ n \in Nat /\ DOMAIN transmitted = 1 .. n /\ DOMAIN transmitted' = 1 .. (n + 1)
      /\ \A i \in 1 .. n : transmitted'[i] = transmitted[i]
      /\ transmitted'[n + 1] = f /\ transmitted' \in Seq(Int)
  BY <1>4, <1>5
<1>. HIDE DEF n
<1>7. \A i \in 1 .. (n + 1) : i \in 1 .. n \/ i = n + 1
  BY <1>6
<1>8. \A g : OnWire(g)' <=> (OnWire(g) \/ g = f)
  BY <1>6, <1>7 DEF OnWire
<1>9. \A i, j \in 1 .. (n + 1) : i # j => transmitted'[i] # transmitted'[j]
  <2>1. \A i \in 1 .. n : transmitted[i] # f
    BY <1>4, <1>6 DEF OnWire
  <2>2. \A i, j \in 1 .. n : i # j => transmitted[i] # transmitted[j]
    BY <1>6 DEF FlightInv
  <2>. QED
    BY <1>6, <1>7, <2>1, <2>2
<1>10. \A i \in 1 .. (n + 1) : transmitted'[i] \in accepted
  BY <1>4, <1>6, <1>7 DEF FlightInv
<1>11. \A x \in InFlight' : tx'.addr[x] = x /\ tx_buf[x] \in accepted /\ ~OnWire(tx_buf[x])'
  BY <1>3, <1>5, <1>8 DEF FlightInv, f
<1>12. \A a, b \in InFlight' : tx_buf[a] = tx_buf[b] => a = b
  BY <1>3 DEF FlightInv
<1>13. \A g \in accepted : OnWire(g)' \/ \E x \in InFlight' : tx_buf[x] = g
  BY <1>3, <1>8 DEF FlightInv, f
<1>. QED
  BY <1>5, <1>6, <1>9, <1>10, <1>11, <1>12, <1>13 DEF FlightInv, TxIds

LEMMA FlightKeep ==
  ASSUME FlightInv, TxOffered' = TxOffered,
         UNCHANGED <<tx_dev, tx_buf, accepted, transmitted>>, tx'.addr = tx.addr,
         \A d \in Contexts : at'[d] \in {"ring", "publish"} =>
           /\ at[d] \in {"ring", "publish"}
           /\ loc'[d].id = loc[d].id /\ loc'[d].frame = loc[d].frame
  PROVE  FlightInv'
<1>1. InFlight' = InFlight
  BY DEF InFlight
<1>2. \A f : OnWire(f)' <=> OnWire(f)
  BY DEF OnWire
<1>. QED
  BY <1>1, <1>2 DEF FlightInv, TxIds

LEMMA FlightFill ==
  ASSUME AllAccepted, Inv, Inv', TxInv, FlightInv, NEW c \in Contexts, SendFill(c)
  PROVE  FlightInv'
<1>. DEFINE id == loc[c].id
<1>1. /\ TxOffered' = TxOffered /\ tx_dev' = tx_dev
      /\ tx'.addr = [tx.addr EXCEPT ![id] = id]
  BY TxFill
<1>2. /\ at[c] = "fill" /\ at'[c] = "ring" /\ loc' = loc /\ TxHeld = {id} /\ id \in TxIds
      /\ \A d \in Contexts : d # c => at'[d] = at[d]
  BY SendLate DEF SendFill, Goto
<1>3. /\ tx_buf' = [tx_buf EXCEPT ![id] = loc[c].frame] /\ tx_buf \in [TxIds -> Int]
      /\ UNCHANGED <<accepted, transmitted>> /\ loc[c].frame \in Int
      /\ tx.addr \in [TxIds -> Int]
  BY TxView DEF SendFill, hist, FlightInv, Inv, DataInv, Locals, QueueSet
<1>4. InFlight' = InFlight /\ id \notin InFlight
  BY <1>1, <1>2, TxView DEF InFlight
<1>5. \A f : OnWire(f)' <=> OnWire(f)
  BY <1>3 DEF OnWire
<1>. HIDE DEF id
<1>6. \A x \in InFlight : tx_buf'[x] = tx_buf[x] /\ tx'.addr[x] = tx.addr[x]
  <2>1. InFlight \subseteq TxIds
    BY TxView DEF InFlight
  <2>. QED
    BY <1>1, <1>3, <1>4, <2>1
<1>7. tx_buf'[id] = loc[c].frame /\ tx'.addr[id] = id /\ tx_buf' \in [TxIds -> Int]
  BY <1>1, <1>2, <1>3
<1>8. \A d \in Contexts : at[d] \in {"ring", "publish"} => d = c
  <2>1. Busy(c)
    BY <1>2 DEF Busy, Sending
  <2>. QED
    BY <2>1, Alone DEF Busy, Sending
<1>9. \A d \in Contexts : at'[d] \in {"ring", "publish"} =>
        tx'.addr[loc'[d].id] = loc'[d].id /\ tx_buf'[loc'[d].id] = loc'[d].frame
  BY <1>2, <1>7, <1>8 DEF id
<1>10. /\ \A x \in InFlight' : tx'.addr[x] = x /\ tx_buf'[x] \in accepted /\ ~OnWire(tx_buf'[x])
       /\ \A a, b \in InFlight' : tx_buf'[a] = tx_buf'[b] => a = b
       /\ \A f \in accepted : OnWire(f) \/ \E x \in InFlight' : tx_buf'[x] = f
  BY <1>4, <1>6 DEF FlightInv
<1>. QED
  BY <1>3, <1>5, <1>7, <1>9, <1>10 DEF FlightInv, TxIds

LEMMA FlightPublish ==
  ASSUME AllAccepted, Inv, Inv', TxInv, FlightInv, NumberInv, NEW c \in Contexts, SendPublish(c)
  PROVE  FlightInv'
<1>. DEFINE id == loc[c].id
            f == loc[c].frame
<1>1. at[c] = "publish"
  BY DEF SendPublish, Goto
<1>2. /\ TxOffered' = TxOffered \cup {id} /\ tx_dev' = tx_dev /\ tx'.addr = tx.addr
      /\ TxHeld = {id}
  BY <1>1, TxRing
<1>3. /\ loc' = loc /\ id \in TxIds
      /\ UNCHANGED <<tx_buf, transmitted>> /\ accepted' = accepted \cup {f}
  BY <1>1, SendLate DEF SendPublish
<1>4. InFlight' = InFlight \cup {id} /\ id \notin InFlight
  BY <1>2, TxView DEF InFlight
<1>5. tx.addr[id] = id /\ tx_buf[id] = f /\ f \notin accepted
  BY <1>1 DEF FlightInv, NumberInv, Sending
<1>6. \A g : OnWire(g)' <=> OnWire(g)
  BY <1>3 DEF OnWire
<1>7. ~OnWire(f)
  BY <1>5 DEF FlightInv, OnWire
<1>8. \A d \in Contexts : at'[d] \notin {"ring", "publish"}
  <2>1. Busy(c)
    BY <1>1 DEF Busy, Sending
  <2>2. \A d \in Contexts : at[d] \in {"ring", "publish"} => d = c
    BY <2>1, Alone DEF Busy, Sending
  <2>3. at'[c] \in {"idle", "recycle"} /\ \A d \in Contexts : d # c => at'[d] = at[d]
    BY <1>1, SendLate
  <2>. QED
    BY <2>2, <2>3
<1>. HIDE DEF id, f
<1>9. \A x \in InFlight' : tx'.addr[x] = x /\ tx_buf[x] \in accepted' /\ ~OnWire(tx_buf[x])
  BY <1>2, <1>3, <1>4, <1>5, <1>7 DEF FlightInv
<1>10. \A a, b \in InFlight' : tx_buf[a] = tx_buf[b] => a = b
  <2>1. \A x \in InFlight : tx_buf[x] # f
    BY <1>5 DEF FlightInv
  <2>2. \A a, b \in InFlight : tx_buf[a] = tx_buf[b] => a = b
    BY DEF FlightInv
  <2>. QED
    BY <1>4, <1>5, <2>1, <2>2
<1>11. \A g \in accepted' : OnWire(g) \/ \E x \in InFlight' : tx_buf[x] = g
  BY <1>3, <1>4, <1>5 DEF FlightInv
<1>. QED
  BY <1>3, <1>6, <1>8, <1>9, <1>10, <1>11 DEF FlightInv, TxIds

-----------------------------------------------------------------------------
(* The numbers of the frames: sends count up, answers down.                 *)
Hands == {"send"} \cup Sending

LEMMA NumberKeep ==
  ASSUME NumberInv, UNCHANGED <<sends, staged, accepted>>,
         \A d \in Contexts : at'[d] \in Hands =>
           at[d] \in Hands /\ loc'[d].frame = loc[d].frame /\ loc'[d].back = loc[d].back
  PROVE  NumberInv'
  BY DEF NumberInv, Hands, Sending

LEMMA NumberCall ==
  ASSUME Inv, NumberInv, CallSend
  PROVE  NumberInv'
<1>1. /\ at["main"] = "idle" /\ at["irq"] = "idle" /\ at' = [at EXCEPT !["main"] = "send"]
      /\ sends' = sends + 1 /\ UNCHANGED <<staged, accepted>>
      /\ loc' = [loc EXCEPT !["main"].frame = sends + 1, !["main"].back = "idle"]
  BY DEF CallSend, Goto, Runs
<1>2. /\ at' \in [Contexts -> Labels] /\ at'["irq"] = "idle"
      /\ loc'["main"].frame = sends + 1 /\ loc'["main"].back = "idle"
  BY <1>1 DEF Inv, ControlInv, DataInv, Locals, Contexts, Labels
<1>3. /\ sends \in Nat /\ \A f \in accepted : f \in Int /\ f <= sends /\ -staged <= f
  BY DEF NumberInv
<1>4. \A f \in accepted : f \in Int /\ f <= sends + 1 /\ -staged <= f /\ f # sends + 1
  BY <1>3
<1>. QED
  BY <1>1, <1>2, <1>3, <1>4 DEF NumberInv, Contexts, Sending

LEMMA NumberStage ==
  ASSUME Inv, Inv', RxInv, ArrivalInv, NumberInv, NEW c \in Contexts, Stage(c)
  PROVE  NumberInv'
<1>1. /\ staged' = rx_buf[loc[c].rxid] /\ staged < staged' /\ staged' \in Nat /\ staged \in Nat
  BY ArrivalStage DEF ArrivalInv
<1>2. /\ at[c] = "stage" /\ at'[c] \in {"send", "recycle"}
      /\ \A d \in Contexts : d # c => at'[d] = at[d] /\ loc'[d] = loc[d]
      /\ at'[c] = "send" => loc'[c].back = "recycle" /\ loc'[c].frame = -staged'
  BY <1>1, StageStep
<1>3. UNCHANGED <<sends, accepted>>
  BY DEF Stage
<1>4. \A d \in Contexts : d # c => at[d] \notin Sending /\ ~Answering(d)
  <2>1. Busy(c)
    BY <1>2 DEF Busy, Staging
  <2>. QED
    BY <2>1, Alone DEF Busy, Staging
<1>5. /\ sends \in Nat /\ \A f \in accepted : f \in Int /\ f <= sends /\ -staged <= f
  BY DEF NumberInv
<1>6. \A f \in accepted : -staged' <= f /\ f # -staged'
  BY <1>1, <1>5
<1>7. ASSUME NEW d \in Contexts, at'[d] \in {"send"} \cup Sending
      PROVE  /\ loc'[d].frame \notin accepted'
             /\ loc'[d].back = "idle" => loc'[d].frame = sends' /\ sends' > 0
             /\ loc'[d].back = "recycle" => loc'[d].frame = -staged' /\ staged' > 0
  <2>1. CASE d = c
    BY <1>1, <1>2, <1>3, <1>6, <1>7, <2>1 DEF Sending
  <2>2. CASE d # c
    <3>1. at[d] = "send" /\ loc[d].back # "recycle"
      BY <1>2, <1>4, <1>7, <2>2 DEF Answering
    <3>. QED
      BY <1>2, <1>3, <2>2, <3>1 DEF NumberInv
  <2>. QED
    BY <2>1, <2>2
<1>. QED
  BY <1>1, <1>3, <1>5, <1>6, <1>7 DEF NumberInv

LEMMA NumberPublish ==
  ASSUME Inv, Inv', NumberInv, NEW c \in Contexts, SendPublish(c)
  PROVE  NumberInv'
<1>. DEFINE f == loc[c].frame
<1>1. /\ at[c] = "publish" /\ at'[c] \in {"idle", "recycle"} /\ loc' = loc
      /\ \A d \in Contexts : d # c => at'[d] = at[d]
  BY SendLate DEF SendPublish, Goto
<1>2. UNCHANGED <<sends, staged>> /\ accepted' = accepted \cup {f}
  BY DEF SendPublish
<1>3. /\ sends \in Nat /\ staged \in Nat
      /\ \A g \in accepted : g \in Int /\ g <= sends /\ -staged <= g
      /\ loc[c].back = "idle" => f = sends /\ sends > 0
      /\ loc[c].back = "recycle" => f = -staged /\ staged > 0
  BY <1>1 DEF NumberInv, Sending
<1>4. loc[c].back \in {"idle", "recycle"}
  BY DEF Inv, DataInv, Locals
<1>5. f \in Int /\ f <= sends /\ -staged <= f
  BY <1>3, <1>4
<1>6. ASSUME NEW d \in Contexts, at'[d] \in {"send"} \cup Sending
      PROVE  /\ loc'[d].frame \notin accepted'
             /\ loc'[d].back = "idle" => loc'[d].frame = sends' /\ sends' > 0
             /\ loc'[d].back = "recycle" => loc'[d].frame = -staged' /\ staged' > 0
  <2>1. d # c /\ at[d] = at'[d]
    BY <1>1, <1>6 DEF Sending
  <2>2. Busy(c)
    BY <1>1 DEF Busy, Sending
  <2>3. ~Busy(d)
    BY <2>1, <2>2, Alone
  <2>4. at[d] = "send" /\ loc[d].back = "idle"
    BY <1>6, <2>1, <2>3 DEF Busy, Staging, Answering, Inv, DataInv, Locals
  <2>5. c = "irq" /\ loc[c].back = "recycle"
    BY <1>1, <2>1, <2>4 DEF Inv, ControlInv, Contexts, Sending
  <2>6. /\ loc[d].frame \notin accepted /\ loc[d].frame = sends /\ sends > 0
    BY <2>4 DEF NumberInv
  <2>7. sends # f
    BY <1>3, <2>5, <2>6
  <2>. QED
    BY <1>1, <1>2, <2>4, <2>6, <2>7
<1>. HIDE DEF f
<1>. QED
  BY <1>2, <1>3, <1>5, <1>6 DEF NumberInv

-----------------------------------------------------------------------------
(* Transmission as a whole.  ReceiveInv comes with it: the number of an     *)
(* answer is that of the arrival it answers.                                *)
TransmitInv == ReceiveInv /\ TxInv /\ FlightInv /\ NumberInv

LEMMA InitTransmit ==
  ASSUME AllAccepted, Init
  PROVE  TransmitInv
<1>1. /\ tx = QueueInit(TxSize, TxSize) /\ tx_seen = 0 /\ tx_dev = {}
      /\ tx_buf = [i \in TxIds |-> 0] /\ accepted = {} /\ transmitted = << >>
      /\ sends = 0 /\ staged = 0 /\ at = [c \in Contexts |-> "idle"]
  BY DEF Init, AllAccepted
<1>2. /\ tx.queue_size = TxSize /\ tx.next = [i \in 0 .. (TxSize - 1) |-> (i + 1) % TxSize]
      /\ tx.free_head = 0 /\ tx.free_count = TxSize
      /\ tx.avail_idx = 0 /\ tx.avail_pub = 0 /\ tx.used_idx = 0 /\ tx.used_pub = 0
  BY <1>1 DEF QueueInit
<1>3. PoolOK(TxIds, tx) /\ FreeIds(tx) = TxIds
  <2>1. TxSize \in Nat /\ TxSize > 0
    BY SizeFacts
  <2>. QED
    BY <1>2, <2>1, PoolNew DEF TxIds
<1>4. 0 \in Idxs
  BY SizeFacts DEF Idxs
<1>5. /\ Window(tx.avail, TxSize, 0, 0) = {} /\ Fit(tx.avail, TxSize, 0, 0)
      /\ Window(tx.used, TxSize, 0, 0) = {} /\ Fit(tx.used, TxSize, 0, 0)
  BY <1>4, TxRingSize, EmptyWindow
<1>6. TxOffered = {} /\ UsedIds(tx) = {}
  BY <1>1, <1>2, <1>5, WindowsAre DEF TxOffered
<1>7. TxHeld = {}
  BY <1>1 DEF TxHeld, Holding
<1>8. Partition(TxPlaces, TxIds)
  BY <1>1, <1>3, <1>6, <1>7, Part5 DEF TxPlaces
<1>9. TxInv
  BY <1>1, <1>2, <1>3, <1>5, <1>8 DEF TxInv
<1>10. FlightInv
  BY <1>1, <1>6 DEF FlightInv, InFlight, OnWire
<1>11. NumberInv
  BY <1>1 DEF NumberInv, Sending
<1>. QED
  BY <1>9, <1>10, <1>11, InitReceive DEF TransmitInv

LEMMA SendTransmit ==
  ASSUME AllAccepted, Inv, Inv', TxInv, FlightInv, NumberInv, NEW c \in Contexts, Send(c)
  PROVE  TxInv' /\ FlightInv' /\ NumberInv'
<1>1. CASE ~SendPublish(c)
  <2>1. UNCHANGED <<sends, staged, accepted, transmitted>>
    BY <1>1 DEF Send, SendEnter, SendAlloc, SendUnlink, SendFill, SendRing, hist
  <2>2. NumberInv'
    <3>1. \A d \in Contexts : at'[d] \in Hands =>
            at[d] \in Hands /\ loc'[d].frame = loc[d].frame /\ loc'[d].back = loc[d].back
      BY SendStep DEF Hands
    <3>. QED
      BY <2>1, <3>1, NumberKeep
  <2>3. CASE SendEnter(c)
    BY <2>2, <2>3, TxOthers, FlightKeep
  <2>4. CASE SendAlloc(c)
    <3>1. TxInv' /\ TxOffered' = TxOffered /\ tx_dev' = tx_dev
      BY <2>4, TxAlloc
    <3>2. UNCHANGED <<tx, tx_buf>>
      BY <2>4 DEF SendAlloc, queues
    <3>3. \A d \in Contexts : at'[d] \in {"ring", "publish"} =>
            /\ at[d] \in {"ring", "publish"}
            /\ loc'[d].id = loc[d].id /\ loc'[d].frame = loc[d].frame
      BY <2>4 DEF SendAlloc, Goto, Local, Inv, ControlInv, DataInv, Locals
    <3>. QED
      BY <2>1, <2>2, <3>1, <3>2, <3>3, FlightKeep
  <2>5. CASE SendUnlink(c)
    <3>1. TxInv' /\ TxOffered' = TxOffered /\ tx_dev' = tx_dev /\ tx'.addr = tx.addr
      BY <2>5, TxUnlink
    <3>2. UNCHANGED tx_buf
      BY <2>5 DEF SendUnlink
    <3>3. \A d \in Contexts : at'[d] \in {"ring", "publish"} =>
            /\ at[d] \in {"ring", "publish"}
            /\ loc'[d].id = loc[d].id /\ loc'[d].frame = loc[d].frame
      BY <2>5 DEF SendUnlink, Goto, Inv, ControlInv
    <3>. QED
      BY <2>1, <2>2, <3>1, <3>2, <3>3, FlightKeep
  <2>6. CASE SendFill(c)
    BY <2>2, <2>6, TxFill, FlightFill
  <2>7. CASE SendRing(c)
    <3>1. at[c] = "ring"
      BY <2>7 DEF SendRing, Goto
    <3>2. TxInv' /\ TxOffered' = TxOffered /\ tx_dev' = tx_dev /\ tx'.addr = tx.addr
      BY <2>7, <3>1, TxRing
    <3>3. UNCHANGED tx_buf
      BY <2>7 DEF SendRing
    <3>4. \A d \in Contexts : at'[d] \in {"ring", "publish"} =>
            /\ at[d] \in {"ring", "publish"}
            /\ loc'[d].id = loc[d].id /\ loc'[d].frame = loc[d].frame
      BY <2>7, <3>1 DEF SendRing, Goto, Inv, ControlInv
    <3>. QED
      BY <2>1, <2>2, <3>2, <3>3, <3>4, FlightKeep
  <2>. QED
    BY <1>1, <2>3, <2>4, <2>5, <2>6, <2>7 DEF Send
<1>2. CASE SendPublish(c)
  BY <1>2, TxRing, FlightPublish, NumberPublish
<1>. QED
  BY <1>1, <1>2

LEMMA NextTransmit ==
  ASSUME AllAccepted, TransmitInv, [Next]_vars
  PROVE  TransmitInv'
<1>0. /\ Inv /\ Inv' /\ RxInv /\ ArrivalInv /\ TxInv /\ FlightInv /\ NumberInv
      /\ ReceiveInv'
  BY NextReceive, NextInv DEF TransmitInv, ReceiveInv
<1>. SUFFICES TxInv' /\ FlightInv' /\ NumberInv'
  BY <1>0 DEF TransmitInv
<1>1. CASE TakeTx
  <2>1. UNCHANGED <<sends, staged, accepted, at, loc>>
    BY <1>1 DEF TakeTx, cpu, hist
  <2>2. NumberInv'
    BY <1>0, <2>1, NumberKeep DEF Hands
  <2>. QED
    BY <1>0, <1>1, <2>2, TxTake, FlightTake
<1>2. ASSUME NEW id \in TxIds, CompleteTx(id) PROVE TxInv' /\ FlightInv' /\ NumberInv'
  <2>1. UNCHANGED <<sends, staged, accepted, at, loc>>
    BY <1>2 DEF CompleteTx
  <2>2. NumberInv'
    BY <1>0, <2>1, NumberKeep DEF Hands
  <2>. QED
    BY <1>0, <1>2, <2>2, TxComplete, FlightComplete
<1>3. CASE \/ Arrive \/ IrqEnter \/ NetPoll \/ CallSend \/ ReceiveBegin \/ ReceiveEnd
           \/ UNCHANGED vars
  <2>1. TxInv' /\ FlightInv'
    BY <1>0, <1>3, TxOthers, FlightKeep
  <2>2. CASE CallSend
    BY <1>0, <2>1, <2>2, NumberCall
  <2>3. CASE Arrive \/ UNCHANGED vars
    <3>1. UNCHANGED <<sends, staged, accepted, at, loc>>
      BY <2>3 DEF Arrive, vars, cpu, hist
    <3>. QED
      BY <1>0, <2>1, <3>1, NumberKeep DEF Hands
  <2>4. CASE IrqEnter \/ NetPoll \/ ReceiveBegin \/ ReceiveEnd
    <3>1. UNCHANGED <<sends, staged, accepted>>
      BY <2>4 DEF IrqEnter, NetPoll, ReceiveBegin, ReceiveEnd, hist
    <3>2. \A d \in Contexts : at'[d] # "send" \/ at[d] = "send"
      BY <1>0, <2>4 DEF IrqEnter, NetPoll, ReceiveBegin, ReceiveEnd, Goto, Inv, ControlInv
    <3>3. \A d \in Contexts : at'[d] \in Hands =>
            at[d] \in Hands /\ loc'[d].frame = loc[d].frame /\ loc'[d].back = loc[d].back
      BY <1>0, <2>4, <3>2, EnterStep DEF Hands, Sending
    <3>. QED
      BY <1>0, <2>1, <3>1, <3>3, NumberKeep
  <2>. QED
    BY <1>3, <2>2, <2>3, <2>4
<1>4. ASSUME NEW c \in Contexts, Body(c) PROVE TxInv' /\ FlightInv' /\ NumberInv'
  <2>1. CASE Stage(c)
    BY <1>0, <2>1, TxOthers, FlightKeep, NumberStage
  <2>2. CASE Send(c)
    BY <1>0, <2>2, SendTransmit
  <2>3. CASE DrainTx(c) \/ DrainRx(c) \/ Recycle(c)
    <3>1. UNCHANGED <<sends, staged, accepted, transmitted, tx_buf>>
      BY <2>3 DEF DrainTx, DrainRx, Recycle, hist
    <3>2. /\ \A d \in Contexts : d # c => at'[d] = at[d] /\ loc'[d] = loc[d]
          /\ at'[c] \in {"drain_tx", "drain_rx", "republish", "stage", "idle"}
      BY <1>0, <2>3 DEF DrainRx, Recycle, DrainTx, Goto, Local, Inv, ControlInv, DataInv, Locals
    <3>3. NumberInv'
      BY <1>0, <3>1, <3>2, NumberKeep DEF Hands, Sending
    <3>4. CASE DrainTx(c) /\ HasUsed(tx)
      <4>1. TxInv' /\ TxOffered' = TxOffered /\ tx_dev' = tx_dev /\ tx'.addr = tx.addr
        BY <1>0, <3>4, TxDrain
      <4>. QED
        BY <1>0, <3>1, <3>2, <3>3, <4>1, FlightKeep
    <3>5. CASE ~(DrainTx(c) /\ HasUsed(tx))
      BY <1>0, <2>3, <3>3, <3>5, TxOthers, FlightKeep
    <3>. QED
      BY <3>4, <3>5
  <2>. QED
    BY <1>4, <2>1, <2>2, <2>3 DEF Body
<1>. QED
  BY <1>1, <1>2, <1>3, <1>4 DEF Next

LEMMA Conserved ==
  ASSUME AllAccepted, TransmitInv
  PROVE  DescConserved
<1>1. Inv /\ RxInv /\ TxInv
  BY DEF TransmitInv, ReceiveInv
<1>2. Cardinality(FreeIds(tx)) = tx.free_count
  BY <1>1, PoolCount DEF TxInv
<1>3. Cardinality(UsedIds(tx)) = Between(tx.used_idx, tx.used_pub)
  BY <1>1, TxView, TxRingSize, WindowSize DEF TxInv
<1>. QED
  BY <1>1, <1>2, <1>3 DEF DescConserved, RxInv, TxInv, RxPlaces, TxPlaces, RxOffered, TxOffered

LEMMA SentOnce ==
  ASSUME TransmitInv
  PROVE  AcceptedSentOnce
  BY DEF TransmitInv, FlightInv, AcceptedSentOnce, InFlight, OnWire, TxOffered

(* No descriptor is lost or handed out twice, and no reception buffer fails *)
(* to be given back, through every interleaving of the device, the handler  *)
(* and the main loop, at any depth of the rings and after any number of     *)
(* wraps of their indexes: when the device accepted the queue it was asked. *)
THEOREM DescCorrect ==
  ASSUME AllAccepted
  PROVE  Spec => []DescConserved
<1>1. Init => TransmitInv
  BY InitTransmit
<1>2. TransmitInv /\ [Next]_vars => TransmitInv'
  BY NextTransmit
<1>3. TransmitInv => DescConserved
  BY Conserved
<1>. QED
  BY <1>1, <1>2, <1>3, PTL DEF Spec

(* Each frame net_send accepted goes on the wire once, or is in the device's *)
(* hands in a buffer nobody rewrites.                                       *)
THEOREM SentCorrect ==
  ASSUME AllAccepted
  PROVE  Spec => []AcceptedSentOnce
<1>1. Init => TransmitInv
  BY InitTransmit
<1>2. TransmitInv /\ [Next]_vars => TransmitInv'
  BY NextTransmit
<1>3. TransmitInv => AcceptedSentOnce
  BY SentOnce
<1>. QED
  BY <1>1, <1>2, <1>3, PTL DEF Spec
=============================================================================
