--------------------------- MODULE NetStackProofs ---------------------------
(***************************************************************************)
(* Proofs about the internet client, for any number of requests, callers,   *)
(* responses, hosts and retries, and sequence numbers of any width: each    *)
(* callback comes once, a success is the whole body, retransmission stops   *)
(* on delivery only, and the ARP cache keeps what frames are sent by.       *)
(***************************************************************************)
EXTENDS NetStack, TLAPS

(* A remainder of a number already in range is the number.                  *)
LEMMA ModSmall ==
  ASSUME NEW M \in Nat \ {0}, NEW x \in 0 .. (M - 1)
  PROVE  x % M = x
  BY SMT

LEMMA PlusType ==
  ASSUME NEW seq \in Nat, NEW n \in Nat
  PROVE  Plus(seq, n) \in 0 .. SeqMod - 1
<1>1. \A M \in Nat \ {0}, x \in Nat : x % M \in 0 .. M - 1
  BY SMT
<1>. QED
  BY <1>1, NetStackAssumption DEF Plus

LEMMA InitType == Init => TypeOK
  BY NetStackAssumption DEF Init, TypeOK, Conns, Idle, NoResponse, NoResult,
     Reqs, Hosts, Statuses, NONE

LEMMA IdleType == Idle \in Conns
  BY NetStackAssumption DEF Idle, Conns, NONE

(* What ns_finish leaves is typed.                                          *)
LEMMA FinishType ==
  ASSUME TypeOK, ns_conn.active, NEW status \in Statuses, NEW len \in Int,
         Finish(status, len), UNCHANGED <<made, dropped>>
  PROVE  /\ ns_conn' \in Conns /\ ns_conn'.req = 0 /\ ~ns_conn'.active
         /\ calls' \in [Reqs -> Nat]
         /\ result' \in [Reqs -> [status : Statuses \cup {NONE}, len : Int]]
<1>1. ns_conn.req \in Reqs
  BY NetStackAssumption DEF TypeOK, Conns, Reqs
<1>2. ns_conn' = Idle
  BY DEF Finish
<1>3. calls' \in [Reqs -> Nat]
  BY <1>1 DEF Finish, TypeOK
<1>4. result' \in [Reqs -> [status : Statuses \cup {NONE}, len : Int]]
  BY <1>1 DEF Finish, TypeOK
<1>. QED
  BY <1>2, <1>3, <1>4, IdleType DEF Idle

LEMMA SendsType ==
  ASSUME TypeOK, ns_conn.active, NEW what \in {"query", "syn", "request"}, Sends(what)
  PROVE  heard' \in [Reqs -> SUBSET {"query", "syn", "request"}]
<1>1. ns_conn.req \in Reqs
  BY NetStackAssumption DEF TypeOK, Conns, Reqs
<1>2. heard \in [Reqs -> SUBSET {"query", "syn", "request"}]
  BY DEF TypeOK
<1>3. heard[ns_conn.req] \cup {what} \in SUBSET {"query", "syn", "request"}
  BY <1>1, <1>2
<1>4. CASE heard' = [heard EXCEPT ![ns_conn.req] = heard[ns_conn.req] \cup {what}]
  BY <1>1, <1>2, <1>3, <1>4
<1>5. CASE UNCHANGED heard
  BY <1>2, <1>5
<1>. QED
  BY <1>4, <1>5 DEF Sends

(* What a segment may hold.                                                 *)
LEMMA SegmentFacts ==
  ASSUME TypeOK, ns_conn.active, NEW s \in Segments(ns_conn)
  PROVE  /\ ns_conn.req \in Reqs
         /\ resp[ns_conn.req] \in [hdr : Nat, body : Nat, status : Nat]
         /\ Total(resp[ns_conn.req]) \in Nat
         /\ s.len \in Nat /\ s.off \in Nat /\ s.fin \in BOOLEAN
         /\ s.off + s.len <= Total(resp[ns_conn.req])
         /\ s.fin => s.off + s.len = Total(resp[ns_conn.req])
         /\ s.fin /\ s.len = 0 /\ ~EarlyFin => s.off <= ns_conn.got
         /\ s.ack \in Acks(ns_conn)
<1>1. ns_conn.req \in Reqs
  BY NetStackAssumption DEF TypeOK, Conns, Reqs
<1>2. resp[ns_conn.req] \in [hdr : Nat, body : Nat, status : Nat]
  BY <1>1 DEF TypeOK
<1>3. Total(resp[ns_conn.req]) \in Nat
  BY <1>2 DEF Total
<1>. DEFINE n == Total(resp[ns_conn.req])
<1>. DEFINE control == [kind : {"synack", "rst", "ack"}, ack : Acks(ns_conn),
                        off : {0}, len : {0}, fin : {FALSE}]
            data == {z \in [kind : {"data"}, ack : {ns_conn.snd_nxt},
                            off : 0 .. n, len : 0 .. 2, fin : BOOLEAN] :
                       /\ z.off + z.len <= n
                       /\ z.fin <=> z.off + z.len = n
                       /\ z.fin /\ z.len = 0 => EarlyFin \/ z.off <= ns_conn.got}
<1>4. s \in control \/ ("request" \in heard[ns_conn.req] /\ s \in data)
  <2>. HIDE DEF control, data
  <2>1. Segments(ns_conn) =
          IF "syn" \notin heard[ns_conn.req] THEN {}
          ELSE control \cup IF "request" \in heard[ns_conn.req] THEN data ELSE {}
    BY DEF Segments, control, data
  <2>. QED
    BY <2>1
<1>5. CASE s \in control
  <2>1. s.len = 0 /\ s.off = 0 /\ s.fin = FALSE /\ s.ack \in Acks(ns_conn)
    BY <1>5
  <2>2. s.off + s.len = 0 /\ s.len \in Nat /\ s.off \in Nat
    BY <2>1
  <2>3. 0 <= Total(resp[ns_conn.req])
    BY <1>3
  <2>. QED
    BY <1>1, <1>2, <1>3, <2>1, <2>2, <2>3
<1>6. CASE "request" \in heard[ns_conn.req] /\ s \in data
  <2>1. /\ s.len \in Nat /\ s.off \in Nat /\ s.fin \in BOOLEAN /\ s.ack = ns_conn.snd_nxt
        /\ s.off + s.len <= n
        /\ s.fin => s.off + s.len = n
        /\ s.fin /\ s.len = 0 => EarlyFin \/ s.off <= ns_conn.got
    <3>. HIDE DEF n
    <3>. QED
      BY <1>3, <1>6
  <2>2. s.ack \in Acks(ns_conn)
    BY <1>6, <2>1 DEF Acks
  <2>. QED
    BY <1>1, <1>2, <1>3, <2>1, <2>2
<1>. QED
  BY <1>4, <1>5, <1>6

LEMMA TypeStep == TypeOK /\ [Next]_vars => TypeOK'
<1>. SUFFICES ASSUME TypeOK, [Next]_vars PROVE TypeOK'
  OBVIOUS
<1>0. /\ ns_conn \in Conns /\ made \in 0 .. MaxReqs /\ MaxReqs \in Nat
      /\ calls \in [Reqs -> Nat]
      /\ result \in [Reqs -> [status : Statuses \cup {NONE}, len : Int]]
      /\ dropped \subseteq 1 .. made
  BY NetStackAssumption DEF TypeOK
<1>1. ASSUME NEW w \in Windows, NEW isn \in Isns, NEW r \in Responses,
             NEW since \in 0 .. Retry, HttpGet(w, isn, r, since)
      PROVE  TypeOK'
  <2>1. /\ isn \in 0 .. SeqMod - 1 /\ Plus(isn, 1) \in 0 .. SeqMod - 1
        /\ made' = made + 1 /\ made' \in 1 .. MaxReqs
    BY <1>0, <1>1, PlusType, NetStackAssumption DEF HttpGet
  <2>2. /\ ns_conn' = [Idle EXCEPT !.active = TRUE, !.req = made + 1, !.ctx = w,
                             !.isn = isn, !.snd_nxt = Plus(isn, 1),
                             !.idle = since, !.left = Deadline]
    BY <1>1 DEF HttpGet
  <2>3. ns_conn' \in Conns /\ ns_conn'.req = made' /\ ns_conn'.active
    <3>1. Deadline \in 0 .. Deadline /\ made + 1 \in 0 .. MaxReqs
          /\ w \in Windows \cup {NONE} /\ since \in 0 .. Retry
      BY <1>0, <2>1, NetStackAssumption
    <3>. QED
      BY <2>1, <2>2, <3>1, IdleType DEF Conns, Idle
  <2>4. resp' \in [Reqs -> [hdr : Nat, body : Nat, status : Nat]]
    <3>1. r \in [hdr : Nat, body : Nat, status : Nat]
      BY NetStackAssumption
    <3>2. resp' = [resp EXCEPT ![made + 1] = r]
      BY <1>1 DEF HttpGet
    <3>. QED
      BY <3>1, <3>2 DEF TypeOK
  <2>5. dropped' \subseteq 1 .. made'
    BY <1>0, <1>1, <2>1 DEF HttpGet, history
  <2>6. UNCHANGED <<ns_arp, heard, calls, result>>
    BY <1>1 DEF HttpGet, history
  <2>. QED
    BY <2>1, <2>3, <2>4, <2>5, <2>6 DEF TypeOK
<1>2. CASE HttpGetRejected
  <2>1. made' = made + 1 /\ made + 1 \in Reqs /\ made' \in 0 .. MaxReqs
    BY <1>0, <1>2 DEF HttpGetRejected, Reqs
  <2>2. calls' \in [Reqs -> Nat]
    BY <1>0, <1>2, <2>1 DEF HttpGetRejected
  <2>3. result' \in [Reqs -> [status : Statuses \cup {NONE}, len : Int]]
    BY <1>0, <1>2, <2>1 DEF HttpGetRejected, Statuses
  <2>4. UNCHANGED <<ns_conn, ns_arp, resp, heard, dropped>>
    BY <1>2 DEF HttpGetRejected
  <2>5. dropped' \subseteq 1 .. made' /\ ns_conn'.req <= made'
    BY <1>0, <2>1, <2>4 DEF TypeOK, Conns
  <2>. QED
    BY <2>1, <2>2, <2>3, <2>4, <2>5 DEF TypeOK
<1>3. ASSUME NEW w \in Windows, Abort(w) PROVE TypeOK'
  <2>1. ns_conn' = Idle /\ dropped' = dropped \cup {ns_conn.req} /\ ns_conn.req # 0
        /\ UNCHANGED <<ns_arp, made, resp, heard, calls, result>>
    BY <1>3 DEF Abort, TypeOK
  <2>2. ns_conn' \in Conns /\ ns_conn'.req = 0 /\ ~ns_conn'.active
    BY <2>1, IdleType DEF Idle
  <2>3. dropped' \subseteq 1 .. made'
    <3>1. ns_conn.req \in 1 .. made
      BY <1>0, <2>1 DEF TypeOK, Conns
    <3>. QED
      BY <1>0, <2>1, <3>1
  <2>. QED
    BY <1>0, <2>1, <2>2, <2>3 DEF TypeOK
<1>4. ASSUME NEW host \in Hosts, RxArp(host) PROVE TypeOK'
  <2>1. ns_arp' \in [1 .. ArpSlots -> Hosts \cup {NONE}]
    BY <1>4 DEF RxArp, ArpUpdate, TypeOK
  <2>. QED
    BY <1>4, <2>1 DEF RxArp, TypeOK, history
<1>5. ASSUME NEW answer \in {"address", "error"}, RxDns(answer) PROVE TypeOK'
  <2>1. CASE answer = "address"
    <3>1. /\ ns_conn' = [ns_conn EXCEPT !.phase = "CONNECT"]
          /\ UNCHANGED <<calls, result, ns_arp, made, resp, heard, dropped>>
      BY <1>5, <2>1 DEF RxDns, Quiet
    <3>2. ns_conn' \in Conns /\ ns_conn'.active = ns_conn.active /\ ns_conn'.req = ns_conn.req
      BY <1>0, <3>1 DEF Conns
    <3>. QED
      BY <3>1, <3>2 DEF TypeOK
  <2>2. CASE answer = "error"
    <3>1. /\ Finish("DNS", 0) /\ ns_conn.active
          /\ UNCHANGED <<ns_arp, made, resp, heard, dropped>>
      BY <1>5, <2>2 DEF RxDns, Fail
    <3>. QED
      BY <1>0, <3>1, FinishType DEF TypeOK, Statuses
  <2>. QED
    BY <2>1, <2>2
<1>6. ASSUME ns_conn.active, NEW s \in Segments(ns_conn),
             RxSynAck(s) \/ RxReset(s) \/ RxSegment(s)
      PROVE  TypeOK'
  <2>1. CASE RxSynAck(s)
    <3>1. /\ ns_conn' = [ns_conn EXCEPT !.tcp_state = "ESTAB", !.phase = "TRANSFER",
                                        !.snd_nxt = Plus(@, ReqLen),
                                        !.req_sent = TRUE, !.idle = 0]
          /\ Sends("request") /\ UNCHANGED <<calls, result, ns_arp, made, resp, dropped>>
      BY <2>1 DEF RxSynAck, Quiet
    <3>2. Plus(ns_conn.snd_nxt, ReqLen) \in 0 .. SeqMod - 1 /\ 0 \in 0 .. Retry
      <4>1. ns_conn.snd_nxt \in Nat /\ ReqLen \in Nat /\ 0 \in 0 .. Retry
        BY <1>0, NetStackAssumption DEF Conns
      <4>. QED
        BY <4>1, PlusType
    <3>3. ns_conn' \in Conns /\ ns_conn'.active = ns_conn.active /\ ns_conn'.req = ns_conn.req
      BY <1>0, <3>1, <3>2 DEF Conns
    <3>. QED
      BY <1>6, <3>1, <3>3, SendsType DEF TypeOK
  <2>2. CASE RxReset(s)
    BY <1>0, <1>6, <2>2, FinishType DEF RxReset, Fail, TypeOK, Statuses
  <2>3. CASE RxSegment(s)
    <3>. DEFINE r == resp[ns_conn.req]
                got == ns_conn.got + Take(s)
    <3>1. /\ ns_conn.req \in Reqs /\ r.hdr \in Nat /\ r.body \in Nat /\ Total(r) \in Nat
      <4>1. ns_conn.req \in Reqs
        BY <1>0, <1>6 DEF TypeOK, Conns, Reqs
      <4>2. r \in [hdr : Nat, body : Nat, status : Nat]
        BY <4>1 DEF TypeOK
      <4>. QED
        BY <4>1, <4>2 DEF Total
    <3>2. s.len \in Nat
      BY <1>6, SegmentFacts
    <3>3. got \in 0 .. Cap /\ ns_conn.got \in 0 .. Cap
      BY <1>0, <3>2, NetStackAssumption DEF Take, Conns
    <3>4. UNCHANGED <<ns_arp, made, resp, heard, dropped>>
      BY <2>3 DEF RxSegment
    <3>5. ASSUME NEW status \in Statuses, NEW len \in Int, Finish(status, len) PROVE TypeOK'
      BY <1>0, <1>6, <3>4, <3>5, FinishType DEF TypeOK
    <3>6. ASSUME ns_conn' \in Conns, ns_conn'.active = ns_conn.active,
                 ns_conn'.req = ns_conn.req, Quiet
          PROVE  TypeOK'
      BY <3>4, <3>6 DEF TypeOK, Quiet
    <3>7. HttpStatus(r, got) \in Statuses /\ BodyLen(r, got) \in Int
      BY <3>1, <3>3 DEF HttpStatus, BodyLen, Statuses
    <3>8. AckedBy(s) \in BOOLEAN
      BY <1>0 DEF AckedBy, Conns
    <3>9. \/ \E len \in Int : Finish(HttpStatus(r, got), len)
          \/ /\ ns_conn' = [ns_conn EXCEPT !.req_acked = AckedBy(s), !.got = got]
             /\ Quiet
          \/ /\ ns_conn' = [ns_conn EXCEPT !.req_acked = AckedBy(s)]
             /\ Quiet
      BY <2>3, <3>7 DEF RxSegment
    <3>10. CASE ns_conn' = [ns_conn EXCEPT !.req_acked = AckedBy(s), !.got = got] /\ Quiet
      <4>. HIDE DEF got
      <4>. QED
        BY <1>0, <3>3, <3>6, <3>8, <3>10 DEF Conns
    <3>11. CASE ns_conn' = [ns_conn EXCEPT !.req_acked = AckedBy(s)] /\ Quiet
      BY <1>0, <3>6, <3>8, <3>11 DEF Conns
    <3>. QED
      BY <3>5, <3>7, <3>9, <3>10, <3>11
  <2>. QED
    BY <1>6, <2>1, <2>2, <2>3
<1>7. CASE Poll
  <2>1. UNCHANGED <<ns_arp, made, resp, dropped>>
    BY <1>7 DEF Poll
  <2>2. ASSUME ns_conn.active, NEW status \in Statuses, Fail(status), UNCHANGED heard PROVE TypeOK'
    BY <1>0, <2>1, <2>2, FinishType DEF Fail, TypeOK
  <2>3. ASSUME ns_conn' \in Conns, ns_conn'.active = ns_conn.active,
               ns_conn'.req = ns_conn.req, Quiet,
               heard' \in [Reqs -> SUBSET {"query", "syn", "request"}]
        PROVE  TypeOK'
    BY <2>1, <2>3 DEF TypeOK, Quiet
  <2>4. /\ 0 \in 0 .. Retry /\ 0 \in Nat /\ 1 \in Nat
        /\ UNCHANGED heard => heard' \in [Reqs -> SUBSET {"query", "syn", "request"}]
    BY NetStackAssumption DEF TypeOK
  <2>5. CASE PollDeadline
    BY <2>2, <2>5 DEF PollDeadline, Statuses
  <2>6. CASE PollArp
    <3>1. ns_conn' = Sent(Reset) /\ Quiet /\ UNCHANGED heard
      BY <2>6 DEF PollArp
    <3>. QED
      BY <1>0, <2>3, <2>4, <3>1 DEF Sent, Reset, Conns
  <2>7. CASE PollDns
    <3>1. ns_conn.active /\ Quiet /\ Sends("query")
      BY <2>7 DEF PollDns, InTime
    <3>2. \/ ns_conn' = [Sent(Reset) EXCEPT !.dns_sent = TRUE]
          \/ ns_conn' = [Sent(Reset) EXCEPT !.retries = 1]
      BY <2>7 DEF PollDns
    <3>3. ns_conn' \in Conns /\ ns_conn'.active = ns_conn.active /\ ns_conn'.req = ns_conn.req
      <4>1. /\ Sent(Reset) \in Conns
            /\ Sent(Reset).active = ns_conn.active /\ Sent(Reset).req = ns_conn.req
        BY <1>0, <2>4 DEF Sent, Reset, Conns
      <4>2. ASSUME NEW c \in Conns
            PROVE  /\ [c EXCEPT !.dns_sent = TRUE] \in Conns
                   /\ [c EXCEPT !.dns_sent = TRUE].active = c.active
                   /\ [c EXCEPT !.dns_sent = TRUE].req = c.req
        BY DEF Conns
      <4>3. ASSUME NEW c \in Conns
            PROVE  /\ [c EXCEPT !.retries = 1] \in Conns
                   /\ [c EXCEPT !.retries = 1].active = c.active
                   /\ [c EXCEPT !.retries = 1].req = c.req
        BY DEF Conns
      <4>. QED
        BY ONLY <3>2, <4>1, <4>2, <4>3
    <3>. QED
      BY <2>3, <3>1, <3>3, SendsType
  <2>8. CASE PollConnect
    <3>1. ns_conn.active /\ Quiet /\ Sends("syn")
      BY <2>8 DEF PollConnect, InTime
    <3>2. \/ ns_conn' = [Sent(Reset) EXCEPT !.tcp_state = "SYN_SENT"]
          \/ ns_conn' = [Sent(Reset) EXCEPT !.retries = 1]
      BY <2>8 DEF PollConnect
    <3>3. ns_conn' \in Conns /\ ns_conn'.active = ns_conn.active /\ ns_conn'.req = ns_conn.req
      <4>1. /\ Sent(Reset) \in Conns
            /\ Sent(Reset).active = ns_conn.active /\ Sent(Reset).req = ns_conn.req
        BY <1>0, <2>4 DEF Sent, Reset, Conns
      <4>2. ASSUME NEW c \in Conns
            PROVE  /\ [c EXCEPT !.tcp_state = "SYN_SENT"] \in Conns
                   /\ [c EXCEPT !.tcp_state = "SYN_SENT"].active = c.active
                   /\ [c EXCEPT !.tcp_state = "SYN_SENT"].req = c.req
        BY DEF Conns
      <4>3. ASSUME NEW c \in Conns
            PROVE  /\ [c EXCEPT !.retries = 1] \in Conns
                   /\ [c EXCEPT !.retries = 1].active = c.active
                   /\ [c EXCEPT !.retries = 1].req = c.req
        BY DEF Conns
      <4>. QED
        BY ONLY <3>2, <4>1, <4>2, <4>3
    <3>. QED
      BY <2>3, <3>1, <3>3, SendsType
  <2>9. CASE PollTransfer
    <3>1. CASE Fail("CONN") /\ UNCHANGED heard
      BY <2>2, <2>9, <3>1 DEF PollTransfer, InTime, Statuses
    <3>2. CASE ns_conn' = [Sent(ns_conn) EXCEPT !.retries = @ + 1] /\ Sends("request") /\ Quiet
      <4>1. ns_conn' \in Conns /\ ns_conn'.active = ns_conn.active /\ ns_conn'.req = ns_conn.req
        <5>1. ns_conn.retries \in Nat /\ ns_conn.retries + 1 \in Nat
          BY <1>0 DEF Conns
        <5>. QED
          BY <1>0, <2>4, <3>2, <5>1 DEF Sent, Conns
      <4>. QED
        BY <2>3, <2>9, <3>2, <4>1, SendsType DEF PollTransfer, InTime
    <3>. QED
      BY <2>9, <3>1, <3>2 DEF PollTransfer
  <2>. QED
    BY <1>7, <2>5, <2>6, <2>7, <2>8, <2>9 DEF Poll
<1>8. CASE Tick
  <2>1. ns_conn' \in Conns /\ ns_conn'.active = ns_conn.active /\ ns_conn'.req = ns_conn.req
    <3>1. /\ ns_conn' = [ns_conn EXCEPT !.left = @ - 1,
                                        !.idle = IF @ < Retry THEN @ + 1 ELSE @]
          /\ ns_conn.left > 0 /\ ns_conn.left \in 0 .. Deadline
          /\ ns_conn.idle \in 0 .. Retry
      BY <1>0, <1>8 DEF Tick, InTime, Conns
    <3>2. /\ ns_conn.left - 1 \in 0 .. Deadline
          /\ (IF ns_conn.idle < Retry THEN ns_conn.idle + 1 ELSE ns_conn.idle) \in 0 .. Retry
      BY <3>1, NetStackAssumption
    <3>. QED
      BY <1>0, <3>1, <3>2 DEF Conns
  <2>. QED
    BY <1>8, <2>1 DEF Tick, TypeOK, history
<1>9. CASE UNCHANGED vars
  BY <1>9 DEF vars, history, TypeOK
<1>. QED
  BY <1>1, <1>2, <1>3, <1>4, <1>5, <1>6, <1>7, <1>8, <1>9 DEF Next, RxTcp

(* What a step does to the requests: one is made, refused, aborted, fails,  *)
(* succeeds on the segment that completes it, or goes on.                   *)
Succeeds ==
  \E s \in Segments(ns_conn) :
    LET r == resp[ns_conn.req]
        got == ns_conn.got + Take(s)
    IN  /\ InOrder(s) /\ (Take(s) < s.len \/ s.fin)
        /\ HdrDone(r, got) /\ Finish("OK", BodyLen(r, got))

Ends ==
  /\ ns_conn.active /\ UNCHANGED <<made, resp, dropped>>
  /\ (\E status \in Statuses \ {"OK"} : Fail(status)) \/ Succeeds

Continues ==
  /\ ns_conn'.active = ns_conn.active /\ ns_conn'.req = ns_conn.req
  /\ UNCHANGED <<made, resp, calls, result, dropped>>
  /\ \/ ns_conn'.got = ns_conn.got
     \/ /\ ns_conn.active
        /\ \E s \in Segments(ns_conn) :
             InOrder(s) /\ ns_conn'.got = ns_conn.got + Take(s)

LEMMA StepShape ==
  ASSUME TypeOK, [Next]_vars
  PROVE  \/ \E w \in Windows, isn \in Isns, r \in Responses, since \in 0 .. Retry :
              HttpGet(w, isn, r, since)
         \/ HttpGetRejected
         \/ \E w \in Windows : Abort(w)
         \/ Ends \/ Continues
<1>0. ns_conn \in Conns
  BY DEF TypeOK
<1>1. CASE \E host \in Hosts : RxArp(host)
  BY <1>1 DEF RxArp, Continues, history
<1>2. CASE \E answer \in {"address", "error"} : RxDns(answer)
  <2>1. CASE Fail("DNS")
    BY <1>2, <2>1 DEF RxDns, Ends, Statuses
  <2>2. CASE ns_conn' = [ns_conn EXCEPT !.phase = "CONNECT"] /\ Quiet
    BY <1>0, <1>2, <2>2 DEF RxDns, Quiet, Continues, Conns
  <2>. QED
    BY <1>2, <2>1, <2>2 DEF RxDns
<1>3. ASSUME ns_conn.active, NEW s \in Segments(ns_conn),
             RxSynAck(s) \/ RxReset(s) \/ RxSegment(s)
      PROVE  Ends \/ Continues
  <2>1. CASE RxSynAck(s)
    BY <1>0, <2>1 DEF RxSynAck, Quiet, Continues, Conns
  <2>2. CASE RxReset(s)
    BY <1>3, <2>2 DEF RxReset, Ends, Statuses
  <2>3. CASE RxSegment(s)
    <3>. DEFINE r == resp[ns_conn.req]
                got == ns_conn.got + Take(s)
                st == HttpStatus(r, got)
    <3>1. UNCHANGED <<made, resp, dropped>>
      BY <2>3 DEF RxSegment
    <3>2. \/ /\ InOrder(s) /\ (Take(s) < s.len \/ s.fin)
             /\ Finish(st, IF st = "OK" THEN BodyLen(r, got) ELSE 0)
          \/ /\ InOrder(s)
             /\ ns_conn' = [ns_conn EXCEPT !.req_acked = AckedBy(s), !.got = got] /\ Quiet
          \/ ns_conn' = [ns_conn EXCEPT !.req_acked = AckedBy(s)] /\ Quiet
      BY <2>3 DEF RxSegment
    <3>3. (st = "OK" /\ HdrDone(r, got)) \/ st = "HTTP"
      BY DEF HttpStatus
    <3>4. CASE /\ InOrder(s) /\ (Take(s) < s.len \/ s.fin)
               /\ Finish(st, IF st = "OK" THEN BodyLen(r, got) ELSE 0)
      <4>1. CASE st = "OK" /\ HdrDone(r, got)
        BY <1>3, <3>1, <3>4, <4>1 DEF Ends, Succeeds
      <4>2. CASE st = "HTTP"
        BY <1>3, <3>1, <3>4, <4>2 DEF Ends, Fail, Statuses
      <4>. QED
        BY <3>3, <4>1, <4>2
    <3>5. CASE /\ InOrder(s)
               /\ ns_conn' = [ns_conn EXCEPT !.req_acked = AckedBy(s), !.got = got] /\ Quiet
      <4>. HIDE DEF got
      <4>1. ns_conn'.active = ns_conn.active /\ ns_conn'.req = ns_conn.req /\ ns_conn'.got = got
        BY <1>0, <3>5 DEF Conns
      <4>. QED
        BY <1>3, <3>1, <3>5, <4>1 DEF Continues, Quiet, got
    <3>6. CASE ns_conn' = [ns_conn EXCEPT !.req_acked = AckedBy(s)] /\ Quiet
      BY <1>0, <3>1, <3>6 DEF Continues, Quiet, Conns
    <3>. QED
      BY <3>2, <3>4, <3>5, <3>6
  <2>. QED
    BY <1>3, <2>1, <2>2, <2>3
<1>4. CASE Poll
  <2>1. UNCHANGED <<ns_arp, made, resp, dropped>>
    BY <1>4 DEF Poll
  <2>2. CASE PollDeadline
    BY <2>1, <2>2 DEF PollDeadline, Ends, Statuses
  <2>3. CASE PollArp
    BY <1>0, <2>1, <2>3 DEF PollArp, Sent, Reset, Quiet, Continues, Conns
  <2>4. CASE PollDns
    BY <1>0, <2>1, <2>4 DEF PollDns, Sent, Reset, Quiet, Continues, Conns
  <2>5. CASE PollConnect
    BY <1>0, <2>1, <2>5 DEF PollConnect, Sent, Reset, Quiet, Continues, Conns
  <2>6. CASE PollTransfer
    <3>1. CASE Fail("CONN")
      BY <2>1, <2>6, <3>1 DEF PollTransfer, InTime, Ends, Statuses
    <3>2. CASE ns_conn' = [Sent(ns_conn) EXCEPT !.retries = @ + 1] /\ Quiet
      BY <1>0, <2>1, <3>2 DEF Sent, Quiet, Continues, Conns
    <3>. QED
      BY <2>6, <3>1, <3>2 DEF PollTransfer
  <2>. QED
    BY <1>4, <2>2, <2>3, <2>4, <2>5, <2>6 DEF Poll
<1>5. CASE Tick
  BY <1>0, <1>5 DEF Tick, Continues, Conns, history
<1>6. CASE UNCHANGED vars
  BY <1>6 DEF vars, history, Continues
<1>. QED
  BY <1>1, <1>2, <1>3, <1>4, <1>5, <1>6 DEF Next, RxTcp

(* A callback has been made for every request that was made, but for the    *)
(* aborted ones and, if there is one, the one in progress.                  *)
CallsInv ==
  /\ \A r \in Reqs : r > made => calls[r] = 0 /\ result[r].status = NONE
  /\ ns_conn.req \notin dropped
  /\ ~Overlap => CallbackExactlyOnce

LEMMA CallsStep ==
  ASSUME TypeOK, CallsInv, [Next]_vars
  PROVE  CallsInv'
<1>0. /\ made \in Nat /\ ns_conn.req \in Nat /\ ns_conn.req <= made
      /\ ns_conn.active => ns_conn.req \in Reqs /\ ns_conn.req \in 1 .. made
      /\ ~ns_conn.active => ns_conn.req = 0
      /\ dropped \subseteq 1 .. made /\ \A r \in 1 .. made : r \in Reqs
      /\ 0 \notin dropped
      /\ calls \in [Reqs -> Nat]
      /\ result \in [Reqs -> [status : Statuses \cup {NONE}, len : Int]]
      /\ \A r \in Reqs : r \in Nat
  <2>1. /\ MaxReqs \in Nat /\ ns_conn.req \in Nat /\ ns_conn.active \in BOOLEAN
        /\ made \in 0 .. MaxReqs /\ ns_conn.req <= made
        /\ ns_conn.active <=> ns_conn.req # 0
    BY NetStackAssumption DEF TypeOK, Conns
  <2>2. /\ dropped \subseteq 1 .. made
        /\ calls \in [Reqs -> Nat]
        /\ result \in [Reqs -> [status : Statuses \cup {NONE}, len : Int]]
    BY DEF TypeOK
  <2>3. \A r \in 1 .. made : r \in Reqs
    BY <2>1 DEF Reqs
  <2>4. \A r \in Reqs : r \in Nat
    BY DEF Reqs
  <2>5. ns_conn.active => ns_conn.req \in Reqs /\ ns_conn.req \in 1 .. made
    BY <2>1 DEF Reqs
  <2>. QED
    BY <2>1, <2>2, <2>3, <2>4, <2>5
<1>1. ASSUME NEW w \in Windows, NEW isn \in Isns, NEW r \in Responses,
             NEW since \in 0 .. Retry, HttpGet(w, isn, r, since)
      PROVE  CallsInv'
  <2>1. /\ made' = made + 1 /\ made + 1 \in Reqs
        /\ ~Overlap => ns_conn.req = 0
        /\ UNCHANGED <<calls, result, dropped>>
    <3>1. /\ made' = made + 1 /\ made < MaxReqs /\ (Overlap \/ ~ns_conn.active)
          /\ UNCHANGED <<calls, result, dropped>>
      BY <1>1 DEF HttpGet, history
    <3>2. made + 1 \in Reqs
      BY <1>0, <3>1, NetStackAssumption DEF Reqs
    <3>. QED
      BY <1>0, <3>1, <3>2
  <2>2. ns_conn'.req = made + 1
    BY <1>1 DEF HttpGet, Idle
  <2>3. made + 1 \notin dropped /\ calls[made + 1] = 0
    <3>1. made + 1 > made /\ made + 1 \notin 1 .. made
      BY <1>0
    <3>2. made + 1 \notin dropped
      BY <1>0, <3>1
    <3>. QED
      BY <2>1, <3>1, <3>2 DEF CallsInv
  <2>4. ~Overlap => \A q \in 1 .. made' :
          calls[q] = IF q = ns_conn'.req \/ q \in dropped THEN 0 ELSE 1
    <3>. SUFFICES ASSUME ~Overlap, NEW q \in 1 .. made'
                  PROVE  calls[q] = IF q = ns_conn'.req \/ q \in dropped THEN 0 ELSE 1
      OBVIOUS
    <3>1. CASE q = made + 1
      BY <2>2, <2>3, <3>1
    <3>2. CASE q \in 1 .. made
      BY <1>0, <2>1, <2>2, <3>2 DEF CallsInv, CallbackExactlyOnce
    <3>. QED
      BY <1>0, <2>1, <3>1, <3>2
  <2>5. \A q \in Reqs : q > made + 1 => calls[q] = 0 /\ result[q].status = NONE
    BY <1>0 DEF CallsInv
  <2>. QED
    BY <2>1, <2>2, <2>3, <2>4, <2>5 DEF CallsInv, CallbackExactlyOnce
<1>2. CASE HttpGetRejected
  <2>1. /\ made' = made + 1 /\ made + 1 \in Reqs
        /\ calls' = [calls EXCEPT ![made + 1] = @ + 1]
        /\ result' = [result EXCEPT ![made + 1] = [status |-> "NONET", len |-> 0]]
        /\ UNCHANGED <<ns_conn, dropped>>
    BY <1>0, <1>2, NetStackAssumption DEF HttpGetRejected, Reqs
  <2>2. /\ calls'[made + 1] = 1 /\ made + 1 # ns_conn.req /\ made + 1 \notin dropped
        /\ \A q \in Reqs : q # made + 1 => calls'[q] = calls[q] /\ result'[q] = result[q]
    BY <1>0, <2>1 DEF CallsInv
  <2>3. \A q \in Reqs : q > made' => calls'[q] = 0 /\ result'[q].status = NONE
    BY <1>0, <2>1, <2>2 DEF CallsInv, Reqs
  <2>4. ~Overlap => \A q \in 1 .. made' :
          calls'[q] = IF q = ns_conn.req \/ q \in dropped THEN 0 ELSE 1
    BY <1>0, <2>1, <2>2 DEF CallsInv, CallbackExactlyOnce
  <2>. QED
    BY <2>1, <2>3, <2>4 DEF CallsInv, CallbackExactlyOnce
<1>3. ASSUME NEW w \in Windows, Abort(w) PROVE CallsInv'
  <2>1. /\ ns_conn'.req = 0 /\ dropped' = dropped \cup {ns_conn.req}
        /\ ns_conn.req \in 1 .. made /\ UNCHANGED <<made, calls, result>>
    BY <1>0, <1>3 DEF Abort, Idle
  <2>. QED
    BY <1>0, <2>1 DEF CallsInv, CallbackExactlyOnce
<1>4. CASE Ends
  <2>1. ns_conn.active /\ \E status, len : Finish(status, len)
    BY <1>4, Zenon DEF Ends, Fail, Succeeds
  <2>2. /\ ns_conn'.req = 0 /\ ns_conn.req \in 1 .. made /\ ns_conn.req \in Reqs
        /\ calls' = [calls EXCEPT ![ns_conn.req] = @ + 1]
        /\ \A q \in Reqs : q # ns_conn.req => result'[q] = result[q]
        /\ UNCHANGED <<made, dropped>>
    <3>1. PICK status, len : Finish(status, len)
      BY <2>1
    <3>. QED
      BY <1>0, <1>4, <2>1, <3>1 DEF Ends, Finish, Idle
  <2>3. ~Overlap => calls[ns_conn.req] = 0
    BY <2>2 DEF CallsInv, CallbackExactlyOnce
  <2>4. \A q \in Reqs : q > made => calls'[q] = 0 /\ result'[q].status = NONE
    BY <1>0, <2>2 DEF CallsInv, Reqs
  <2>5. ~Overlap => \A q \in 1 .. made :
          calls'[q] = IF q = 0 \/ q \in dropped THEN 0 ELSE 1
    BY <1>0, <2>2, <2>3 DEF CallsInv, CallbackExactlyOnce
  <2>. QED
    BY <1>0, <2>2, <2>4, <2>5 DEF CallsInv, CallbackExactlyOnce
<1>5. CASE Continues
  BY <1>5 DEF Continues, CallsInv, CallbackExactlyOnce
<1>. QED
  BY <1>1, <1>2, <1>3, <1>4, <1>5, StepShape

LEMMA CallsInit == Init => CallsInv
  BY DEF Init, CallsInv, CallbackExactlyOnce, Idle, NoResult, Reqs, NONE

(* Types and requests, together for every reachable state.                  *)
THEOREM TypeCorrect == Spec => []TypeOK
  BY InitType, TypeStep, PTL DEF Spec

(* Unless a request is made while another runs, the callback of each comes   *)
(* exactly once when it completes, and never after its caller aborted it.    *)
THEOREM CallbackCorrect == Spec => [](~Overlap => CallbackExactlyOnce)
<1>1. CallsInv => (~Overlap => CallbackExactlyOnce)
  BY DEF CallsInv
<1>2. TypeOK /\ CallsInv /\ [Next]_vars => CallsInv'
  BY CallsStep
<1>. QED
  BY <1>1, <1>2, CallsInit, TypeCorrect, PTL DEF Spec

-----------------------------------------------------------------------------
(* A request in progress has no more than the response in its buffer.       *)
BodyInv ==
  /\ ns_conn.active => ns_conn.got <= Total(resp[ns_conn.req])
  /\ OkMeansWholeBody

(* Data in order is inside the response.                                    *)
LEMMA TakeFacts ==
  ASSUME TypeOK, BodyInv, ns_conn.active, NEW s \in Segments(ns_conn), InOrder(s)
  PROVE  /\ ns_conn.got + Take(s) \in 0 .. Cap
         /\ ns_conn.got + Take(s) <= Total(resp[ns_conn.req])
         /\ Take(s) < s.len =>
              ns_conn.got + Take(s) = Cap /\ Cap < Total(resp[ns_conn.req])
         /\ Take(s) = s.len /\ s.fin /\ ~EarlyFin =>
              ns_conn.got + Take(s) = Total(resp[ns_conn.req])
         /\ Take(s) <= s.len
<1>. DEFINE n == Total(resp[ns_conn.req])
<1>1. /\ s.len \in Nat /\ s.off \in Nat /\ s.fin \in BOOLEAN /\ n \in Nat
      /\ s.off + s.len <= n
      /\ s.fin => s.off + s.len = n
      /\ s.fin /\ s.len = 0 /\ ~EarlyFin => s.off <= ns_conn.got
  BY SegmentFacts
<1>2. ns_conn.got \in 0 .. Cap /\ Cap \in Nat /\ ns_conn.got <= n
  BY NetStackAssumption DEF TypeOK, Conns, BodyInv
<1>3. s.len = 0 \/ s.off = ns_conn.got
  BY DEF InOrder
<1>4. Take(s) = IF s.len > Cap - ns_conn.got THEN Cap - ns_conn.got ELSE s.len
  BY DEF Take
<1>. HIDE DEF n
<1>5. CASE s.len > Cap - ns_conn.got
  BY <1>1, <1>2, <1>3, <1>4, <1>5 DEF n
<1>6. CASE ~(s.len > Cap - ns_conn.got)
  BY <1>1, <1>2, <1>3, <1>4, <1>6 DEF n
<1>. QED
  BY <1>5, <1>6

LEMMA BodyStep ==
  ASSUME TypeOK, CallsInv, BodyInv, ~EarlyFin, [Next]_vars
  PROVE  BodyInv'
<1>0. /\ made \in Nat /\ ns_conn.req \in Nat
      /\ ns_conn.active => ns_conn.req \in Reqs
      /\ resp \in [Reqs -> [hdr : Nat, body : Nat, status : Nat]]
      /\ result \in [Reqs -> [status : Statuses \cup {NONE}, len : Int]]
      /\ Reqs \subseteq Nat
  <2>1. MaxReqs \in Nat /\ ns_conn \in Conns /\ made \in 0 .. MaxReqs
    BY NetStackAssumption DEF TypeOK
  <2>2. ns_conn.req \in 0 .. MaxReqs /\ (ns_conn.active => ns_conn.req # 0)
    BY <2>1 DEF TypeOK, Conns
  <2>3. Reqs \subseteq Nat /\ made \in Nat /\ ns_conn.req \in Nat
    BY <2>1, <2>2 DEF Reqs
  <2>4. ns_conn.active => ns_conn.req \in Reqs
    BY <2>1, <2>2 DEF Reqs
  <2>. QED
    BY <2>3, <2>4 DEF TypeOK
<1>1. ASSUME NEW w \in Windows, NEW isn \in Isns, NEW r \in Responses,
             NEW since \in 0 .. Retry, HttpGet(w, isn, r, since)
      PROVE  BodyInv'
  <2>1. /\ made < MaxReqs /\ resp' = [resp EXCEPT ![made + 1] = r] /\ result' = result
        /\ ns_conn'.req = made + 1 /\ ns_conn'.got = 0
    BY <1>1 DEF HttpGet, Idle, history
  <2>2. made + 1 \in Reqs /\ made + 1 > made
    BY <1>0, <2>1, NetStackAssumption DEF Reqs
  <2>3. r \in [hdr : Nat, body : Nat, status : Nat]
    BY NetStackAssumption
  <2>4. resp'[made + 1] = r /\ \A q \in Reqs : q # made + 1 => resp'[q] = resp[q]
    BY <1>0, <2>1, <2>2
  <2>5. 0 <= Total(resp'[made + 1])
    BY <2>3, <2>4 DEF Total
  <2>6. result[made + 1].status # "OK"
    BY <2>2 DEF CallsInv, NONE
  <2>7. OkMeansWholeBody'
    BY <2>1, <2>4, <2>6 DEF BodyInv, OkMeansWholeBody
  <2>. QED
    BY <2>1, <2>5, <2>7 DEF BodyInv
<1>2. CASE HttpGetRejected
  <2>1. /\ made + 1 \in Reqs /\ UNCHANGED <<ns_conn, resp>>
        /\ result' = [result EXCEPT ![made + 1] = [status |-> "NONET", len |-> 0]]
    BY <1>0, <1>2, NetStackAssumption DEF HttpGetRejected, Reqs
  <2>2. result'[made + 1].status = "NONET" /\ \A q \in Reqs : q # made + 1 => result'[q] = result[q]
    BY <1>0, <2>1
  <2>3. OkMeansWholeBody'
    BY <2>1, <2>2 DEF BodyInv, OkMeansWholeBody
  <2>. QED
    BY <2>1, <2>3 DEF BodyInv
<1>3. ASSUME NEW w \in Windows, Abort(w) PROVE BodyInv'
  BY <1>3 DEF Abort, Idle, BodyInv, OkMeansWholeBody
<1>4. CASE Ends
  <2>1. ns_conn.active /\ ns_conn.req \in Reqs /\ resp' = resp
    BY <1>0, <1>4 DEF Ends
  <2>2. ASSUME NEW status, NEW len, Finish(status, len),
               status # "OK" \/ len = IF Total(resp[ns_conn.req]) <= Cap
                                       THEN resp[ns_conn.req].body
                                       ELSE Cap - resp[ns_conn.req].hdr
        PROVE  BodyInv'
    <3>1. ~ns_conn'.active
      BY <2>2 DEF Finish, Idle
    <3>2. /\ result'[ns_conn.req] = [status |-> status, len |-> len]
          /\ \A q \in Reqs : q # ns_conn.req => result'[q] = result[q]
      BY <1>0, <2>1, <2>2 DEF Finish
    <3>3. OkMeansWholeBody'
      BY <2>1, <2>2, <3>2 DEF BodyInv, OkMeansWholeBody
    <3>. QED
      BY <3>1, <3>3 DEF BodyInv
  <2>3. CASE \E status \in Statuses \ {"OK"} : Fail(status)
    BY <2>2, <2>3 DEF Fail
  <2>4. CASE Succeeds
    <3>. DEFINE r == resp[ns_conn.req]
    <3>1. PICK s \in Segments(ns_conn) :
                 /\ InOrder(s) /\ (Take(s) < s.len \/ s.fin)
                 /\ HdrDone(r, ns_conn.got + Take(s))
                 /\ Finish("OK", BodyLen(r, ns_conn.got + Take(s)))
      BY <2>4 DEF Succeeds
    <3>. DEFINE got == ns_conn.got + Take(s)
    <3>2. BodyLen(r, got) = got - r.hdr
      BY <3>1 DEF BodyLen
    <3>3. r.hdr \in Nat /\ r.body \in Nat /\ Total(r) = r.hdr + r.body
      BY <2>1, SegmentFacts DEF Total
    <3>4. s.len \in Nat /\ Take(s) <= s.len /\ got \in 0 .. Cap /\ Cap \in Nat
      BY <2>1, <3>1, SegmentFacts, TakeFacts, NetStackAssumption
    <3>5. \/ got = Cap /\ Cap < Total(r)
          \/ got = Total(r)
      <4>1. CASE Take(s) < s.len
        BY <2>1, <3>1, <4>1, TakeFacts
      <4>2. CASE Take(s) = s.len /\ s.fin
        BY <2>1, <3>1, <4>2, TakeFacts
      <4>3. Take(s) \in Int
        BY <3>4, NetStackAssumption DEF Take, TypeOK, Conns
      <4>. QED
        BY <3>1, <3>4, <4>1, <4>2, <4>3
    <3>. HIDE DEF got, r
    <3>6. got - r.hdr = IF Total(r) <= Cap THEN r.body ELSE Cap - r.hdr
      BY <3>3, <3>4, <3>5
    <3>. QED
      BY <2>2, <3>1, <3>2, <3>6 DEF got, r
  <2>. QED
    BY <1>4, <2>3, <2>4 DEF Ends
<1>5. CASE Continues
  <2>1. /\ UNCHANGED <<resp, result>>
        /\ ns_conn'.active = ns_conn.active /\ ns_conn'.req = ns_conn.req
    BY <1>5 DEF Continues
  <2>2. ns_conn'.active => ns_conn'.got <= Total(resp[ns_conn.req])
    <3>1. CASE ns_conn'.got = ns_conn.got
      BY <2>1, <3>1 DEF BodyInv
    <3>2. ASSUME ns_conn.active, NEW s \in Segments(ns_conn), InOrder(s),
                 ns_conn'.got = ns_conn.got + Take(s)
          PROVE  ns_conn'.got <= Total(resp[ns_conn.req])
      BY <3>2, TakeFacts
    <3>. QED
      BY <1>5, <2>1, <3>1, <3>2 DEF Continues
  <2>. QED
    BY <2>1, <2>2 DEF BodyInv, OkMeansWholeBody
<1>. QED
  BY <1>1, <1>2, <1>3, <1>4, <1>5, StepShape

(* Unless a FIN overtakes data, a request that ended with NS_OK gave its     *)
(* caller the whole body, or as much of it as the buffer holds, however the  *)
(* segments were lost, repeated and reordered.                              *)
THEOREM OkCorrect == Spec => [](~EarlyFin => OkMeansWholeBody)
<1>. SUFFICES ASSUME ~EarlyFin PROVE Spec => []OkMeansWholeBody
  <2>1. CASE EarlyFin
    BY <2>1, PTL
  <2>2. CASE ~EarlyFin
    BY <2>2, PTL
  <2>. QED
    BY <2>1, <2>2
<1>1. Init => BodyInv
  BY DEF Init, BodyInv, OkMeansWholeBody, Idle, NoResult, NONE
<1>2. TypeOK /\ CallsInv /\ BodyInv /\ [Next]_vars => BodyInv'
  BY BodyStep
<1>3. TypeOK /\ CallsInv /\ [Next]_vars => CallsInv'
  BY CallsStep
<1>4. BodyInv => OkMeansWholeBody
  BY DEF BodyInv
<1>. QED
  BY <1>1, <1>2, <1>3, <1>4, CallsInit, TypeCorrect, PTL DEF Spec

-----------------------------------------------------------------------------
(* No request ends at the top of the sequence space.                        *)
NoWrap == \A i \in Isns : i + 1 + ReqLen < SeqMod

(* Where the connection is in its sequence space, and what has been heard.   *)
TcpInv ==
  /\ ~ns_conn.active => ~ns_conn.req_acked
  /\ ns_conn.active =>
       /\ ns_conn.isn \in Isns
       /\ ns_conn.snd_nxt = IF ns_conn.tcp_state = "ESTAB"
                            THEN ns_conn.isn + 1 + ReqLen ELSE ns_conn.isn + 1
       /\ ns_conn.req_acked => "request" \in heard[ns_conn.req]

LEMMA PlusSmall ==
  ASSUME NEW a \in Nat, NEW b \in Nat, a + b < SeqMod
  PROVE  Plus(a, b) = a + b
<1>1. SeqMod \in Nat \ {0} /\ a + b \in 0 .. (SeqMod - 1)
  BY NetStackAssumption
<1>. QED
  BY <1>1, ModSmall DEF Plus

(* Nothing heard is forgotten.                                              *)
LEMMA SendsKeeps ==
  ASSUME TypeOK, ns_conn.active, NEW what, Sends(what)
  PROVE  heard[ns_conn.req] \subseteq heard'[ns_conn.req]
<1>1. ns_conn.req \in Reqs
  BY NetStackAssumption DEF TypeOK, Conns, Reqs
<1>. QED
  BY <1>1 DEF Sends, TypeOK

LEMMA TcpStep ==
  ASSUME TypeOK, TcpInv, NoWrap, [Next]_vars
  PROVE  TcpInv'
<1>0. /\ ns_conn \in Conns /\ heard \in [Reqs -> SUBSET {"query", "syn", "request"}]
      /\ ReqLen \in Nat /\ \A i \in Isns : i \in Nat /\ i + 1 + ReqLen < SeqMod
      /\ SeqMod \in Nat
  BY NetStackAssumption DEF TypeOK, NoWrap
<1>1. ASSUME ns_conn' = Idle PROVE TcpInv'
  BY <1>1 DEF Idle, TcpInv
<1>2. ASSUME ns_conn'.active = ns_conn.active, ns_conn'.req = ns_conn.req,
             ns_conn'.isn = ns_conn.isn, ns_conn'.snd_nxt = ns_conn.snd_nxt,
             ns_conn'.req_acked = ns_conn.req_acked,
             ns_conn'.tcp_state = "ESTAB" <=> ns_conn.tcp_state = "ESTAB",
             ns_conn.active => heard[ns_conn.req] \subseteq heard'[ns_conn.req]
      PROVE  TcpInv'
  BY <1>2 DEF TcpInv
<1>3. ASSUME NEW w \in Windows, NEW isn \in Isns, NEW r \in Responses,
             NEW since \in 0 .. Retry, HttpGet(w, isn, r, since)
      PROVE  TcpInv'
  <2>1. /\ ns_conn'.active /\ ns_conn'.isn = isn /\ ns_conn'.tcp_state = "CLOSED"
        /\ ns_conn'.snd_nxt = Plus(isn, 1) /\ ~ns_conn'.req_acked
    BY <1>3 DEF HttpGet, Idle
  <2>2. Plus(isn, 1) = isn + 1
    <3>1. isn \in Nat /\ isn + 1 < SeqMod
      BY <1>0
    <3>. QED
      BY <3>1, PlusSmall
  <2>. QED
    BY <2>1, <2>2 DEF TcpInv
<1>4. CASE HttpGetRejected
  BY <1>2, <1>4 DEF HttpGetRejected
<1>5. ASSUME NEW w \in Windows, Abort(w) PROVE TcpInv'
  BY <1>1, <1>5 DEF Abort
<1>6. ASSUME NEW host \in Hosts, RxArp(host) PROVE TcpInv'
  BY <1>2, <1>6 DEF RxArp
<1>7. ASSUME NEW answer \in {"address", "error"}, RxDns(answer) PROVE TcpInv'
  <2>1. CASE Fail("DNS")
    BY <1>1, <2>1 DEF Fail, Finish
  <2>2. CASE ns_conn' = [ns_conn EXCEPT !.phase = "CONNECT"]
    BY <1>0, <1>2, <1>7, <2>2 DEF RxDns, Conns
  <2>. QED
    BY <1>7, <2>1, <2>2 DEF RxDns
<1>8. ASSUME ns_conn.active, NEW s \in Segments(ns_conn),
             RxSynAck(s) \/ RxReset(s) \/ RxSegment(s)
      PROVE  TcpInv'
  <2>0. /\ ns_conn.isn \in Isns /\ ns_conn.isn \in Nat
        /\ ns_conn.isn + 1 + ReqLen < SeqMod
    BY <1>0, <1>8 DEF TcpInv
  <2>1. CASE RxSynAck(s)
    <3>1. /\ ns_conn.tcp_state = "SYN_SENT" /\ Sends("request")
          /\ ns_conn' = [ns_conn EXCEPT !.tcp_state = "ESTAB", !.phase = "TRANSFER",
                                        !.snd_nxt = Plus(@, ReqLen),
                                        !.req_sent = TRUE, !.idle = 0]
      BY <2>1 DEF RxSynAck
    <3>2. /\ ns_conn'.tcp_state = "ESTAB" /\ ns_conn'.snd_nxt = Plus(ns_conn.snd_nxt, ReqLen)
          /\ ns_conn'.active = ns_conn.active /\ ns_conn'.req = ns_conn.req
          /\ ns_conn'.isn = ns_conn.isn /\ ns_conn'.req_acked = ns_conn.req_acked
      BY <1>0, <3>1 DEF Conns
    <3>3. ns_conn.snd_nxt = ns_conn.isn + 1
      BY <1>8, <3>1 DEF TcpInv
    <3>4. Plus(ns_conn.snd_nxt, ReqLen) = ns_conn.isn + 1 + ReqLen
      <4>1. ns_conn.isn + 1 \in Nat /\ (ns_conn.isn + 1) + ReqLen < SeqMod
        BY <1>0, <2>0
      <4>. QED
        BY <1>0, <3>3, <4>1, PlusSmall
    <3>5. heard[ns_conn.req] \subseteq heard'[ns_conn.req]
      BY <1>8, <3>1, SendsKeeps
    <3>. QED
      BY <1>8, <2>0, <3>2, <3>4, <3>5 DEF TcpInv
  <2>2. CASE RxReset(s)
    BY <1>1, <2>2 DEF RxReset, Fail, Finish
  <2>3. CASE RxSegment(s)
    <3>1. heard' = heard /\ ns_conn.tcp_state = "ESTAB"
      BY <2>3 DEF RxSegment
    <3>2. \/ ns_conn' = Idle
          \/ ns_conn' = [ns_conn EXCEPT !.req_acked = AckedBy(s), !.got = ns_conn.got + Take(s)]
          \/ ns_conn' = [ns_conn EXCEPT !.req_acked = AckedBy(s)]
      BY <2>3 DEF RxSegment, Finish
    <3>3. ns_conn' = Idle \/
             /\ ns_conn'.active = ns_conn.active /\ ns_conn'.req = ns_conn.req
             /\ ns_conn'.isn = ns_conn.isn /\ ns_conn'.snd_nxt = ns_conn.snd_nxt
             /\ ns_conn'.tcp_state = ns_conn.tcp_state /\ ns_conn'.req_acked = AckedBy(s)
      BY <1>0, <3>2 DEF Conns
    <3>4. AckedBy(s) => "request" \in heard[ns_conn.req]
      <4>1. Plus(ns_conn.isn, 1) = ns_conn.isn + 1
        BY <1>0, <2>0, PlusSmall
      <4>2. ns_conn.snd_nxt = ns_conn.isn + 1 + ReqLen
        BY <1>8, <3>1 DEF TcpInv
      <4>3. s.ack = Plus(ns_conn.isn, 1) \/ "request" \in heard[ns_conn.req]
        BY <1>8, SegmentFacts DEF Acks
      <4>4. ReqLen > 0
        BY NetStackAssumption
      <4>5. s.ack = ns_conn.isn + 1 => ~(s.ack >= ns_conn.snd_nxt)
        BY <1>0, <2>0, <4>2, <4>4
      <4>6. ns_conn.req_acked => "request" \in heard[ns_conn.req]
        BY <1>8 DEF TcpInv
      <4>. QED
        BY <4>1, <4>3, <4>5, <4>6 DEF AckedBy
    <3>. QED
      BY <1>1, <1>8, <3>1, <3>3, <3>4 DEF TcpInv
  <2>. QED
    BY <1>8, <2>1, <2>2, <2>3
<1>9. CASE Poll
  <2>1. CASE PollDeadline
    BY <1>1, <2>1 DEF PollDeadline, Fail, Finish
  <2>2. CASE PollArp
    BY <1>0, <1>2, <2>2 DEF PollArp, Sent, Reset, Conns
  <2>3. CASE PollDns
    <3>1. ns_conn.active /\ Sends("query")
      BY <2>3 DEF PollDns, InTime
    <3>2. heard[ns_conn.req] \subseteq heard'[ns_conn.req]
      BY <3>1, SendsKeeps
    <3>. QED
      BY <1>0, <1>2, <2>3, <3>2 DEF PollDns, Sent, Reset, Conns
  <2>4. CASE PollConnect
    <3>1. ns_conn.active /\ Sends("syn")
      BY <2>4 DEF PollConnect, InTime
    <3>2. heard[ns_conn.req] \subseteq heard'[ns_conn.req]
      BY <3>1, SendsKeeps
    <3>. QED
      BY <1>0, <1>2, <2>4, <3>2 DEF PollConnect, Sent, Reset, Conns
  <2>5. CASE PollTransfer
    <3>1. CASE Fail("CONN")
      BY <1>1, <3>1 DEF Fail, Finish
    <3>2. CASE ns_conn' = [Sent(ns_conn) EXCEPT !.retries = @ + 1] /\ Sends("request")
      <4>1. heard[ns_conn.req] \subseteq heard'[ns_conn.req]
        BY <2>5, <3>2, SendsKeeps DEF PollTransfer, InTime
      <4>. QED
        BY <1>0, <1>2, <3>2, <4>1 DEF Sent, Conns
    <3>. QED
      BY <2>5, <3>1, <3>2 DEF PollTransfer
  <2>. QED
    BY <1>9, <2>1, <2>2, <2>3, <2>4, <2>5 DEF Poll
<1>10. CASE Tick
  BY <1>0, <1>2, <1>10 DEF Tick, Conns
<1>11. CASE UNCHANGED vars
  BY <1>2, <1>11 DEF vars
<1>. QED
  BY <1>3, <1>4, <1>5, <1>6, <1>7, <1>8, <1>9, <1>10, <1>11 DEF Next, RxTcp

(* Unless its sequence numbers wrap, a request is no longer sent again only  *)
(* when the server has it: no ACK of the SYN, and no old one, ends it.       *)
THEOREM AckCorrect == Spec => [](NoWrap => AckProvesDelivery)
<1>. SUFFICES ASSUME NoWrap PROVE Spec => []AckProvesDelivery
  <2>1. CASE ~NoWrap
    BY <2>1, PTL
  <2>2. CASE NoWrap
    BY <2>2, PTL
  <2>. QED
    BY <2>1, <2>2
<1>1. Init => TcpInv
  BY DEF Init, TcpInv, Idle
<1>2. TypeOK /\ TcpInv /\ [Next]_vars => TcpInv'
  BY TcpStep
<1>3. TcpInv => AckProvesDelivery
  BY DEF TcpInv, AckProvesDelivery
<1>. QED
  BY <1>1, <1>2, <1>3, TypeCorrect, PTL DEF Spec

-----------------------------------------------------------------------------
(* Where the hosts that answered are: the first ArpSlots of them took the   *)
(* slots in order, and whoever came to a full cache went to slot 1.         *)
InSlot(k) == k <= Len(answered) /\ (k # 1 \/ Len(answered) <= ArpSlots)

Placed ==
  /\ answered \in Seq(Hosts)
  /\ \A i \in 1 .. ArpSlots : ns_arp[i] = NONE <=> Len(answered) < i
  /\ \A i \in 1 .. ArpSlots : ns_arp[i] # NONE => HasAnswered(ns_arp[i])
  /\ \A k \in 1 .. ArpSlots : InSlot(k) => ns_arp[k] = answered[k]

MacInv == Placed /\ MacKnown

(* The slot an unknown host gets: the one after those that answered, or     *)
(* slot 1 when the cache is full.                                           *)
LEMMA NextSlot ==
  ASSUME TypeOK, Placed, NEW host
  PROVE  ArpSlot(host) = IF Len(answered) < ArpSlots THEN Len(answered) + 1 ELSE 1
<1>. DEFINE n == Len(answered) + 1
            empty == {i \in DOMAIN ns_arp : ns_arp[i] = NONE}
<1>1. Len(answered) \in Nat /\ ArpSlots \in Nat /\ DOMAIN ns_arp = 1 .. ArpSlots
  BY NetStackAssumption DEF Placed, TypeOK
<1>2. \A i \in 1 .. ArpSlots : i \in empty <=> n <= i
  BY <1>1 DEF Placed
<1>3. empty \subseteq 1 .. ArpSlots
  BY <1>1
<1>4. ArpSlot(host) = IF empty = {} THEN 1
                      ELSE CHOOSE i \in empty : \A j \in empty : i <= j
  BY Zenon DEF ArpSlot
<1>5. n \in Nat \ {0}
  BY <1>1
<1>. HIDE DEF empty, n
<1>6. CASE n <= ArpSlots
  <2>1. n \in empty /\ \A j \in empty : n <= j
    BY <1>1, <1>2, <1>3, <1>5, <1>6
  <2>2. \A i \in empty : (\A j \in empty : i <= j) => i = n
    BY <1>1, <1>3, <1>5, <2>1
  <2>3. ArpSlot(host) = n
    BY <1>4, <2>1, <2>2
  <2>. QED
    BY <1>1, <1>6, <2>3 DEF n
<1>7. CASE ~(n <= ArpSlots)
  <2>1. empty = {}
    BY <1>1, <1>2, <1>3, <1>5, <1>7
  <2>. QED
    BY <1>1, <1>4, <1>7, <2>1 DEF n
<1>. QED
  BY <1>6, <1>7

(* An answer puts its host where its turn says, and forgets nobody but the  *)
(* host in slot 1 of a full cache.                                          *)
LEMMA ArpKeeps ==
  ASSUME TypeOK, Placed, NEW host \in Hosts, RxArp(host)
  PROVE  /\ Placed'
         /\ \A k \in DOMAIN answered : k \in DOMAIN answered' /\ answered'[k] = answered[k]
         /\ \A k \in DOMAIN answered' \ DOMAIN answered : k <= ArpSlots => Known(host)'
         /\ \A i \in 1 .. ArpSlots : i # 1 /\ ns_arp[i] # NONE => ns_arp'[i] = ns_arp[i]
<1>1. /\ ns_arp \in [1 .. ArpSlots -> Hosts \cup {NONE}] /\ DOMAIN ns_arp = 1 .. ArpSlots
      /\ answered \in Seq(Hosts) /\ Len(answered) \in Nat
      /\ DOMAIN answered = 1 .. Len(answered)
      /\ ArpSlots \in Nat \ {0} /\ host # NONE
  BY NetStackAssumption DEF TypeOK, Placed, Hosts, NONE
<1>2. /\ ns_arp' = IF Known(host) THEN ns_arp ELSE [ns_arp EXCEPT ![ArpSlot(host)] = host]
      /\ answered' = IF HasAnswered(host) THEN answered ELSE Append(answered, host)
  BY DEF RxArp, ArpUpdate
<1>3. /\ answered' \in Seq(Hosts) /\ DOMAIN answered' = 1 .. Len(answered')
      /\ \A k \in DOMAIN answered : k \in DOMAIN answered' /\ answered'[k] = answered[k]
      /\ Len(answered') = IF HasAnswered(host) THEN Len(answered) ELSE Len(answered) + 1
      /\ ~HasAnswered(host) => answered'[Len(answered) + 1] = host
      /\ \E k \in DOMAIN answered' : answered'[k] = host
  <2>1. CASE HasAnswered(host)
    BY <1>1, <1>2, <2>1 DEF HasAnswered
  <2>2. CASE ~HasAnswered(host)
    <3>1. answered' = Append(answered, host)
      BY <1>2, <2>2
    <3>. QED
      BY <1>1, <2>2, <3>1
  <2>. QED
    BY <2>1, <2>2
<1>4. \A h : HasAnswered(h) => HasAnswered(h)'
  BY <1>3 DEF HasAnswered
<1>5. HasAnswered(host)'
  BY <1>3 DEF HasAnswered
<1>6. CASE Known(host)
  <2>1. HasAnswered(host)
    BY <1>1, <1>6 DEF Known, Placed
  <2>2. ns_arp' = ns_arp /\ answered' = answered
    BY <1>2, <1>6, <2>1
  <2>3. Placed'
    BY <2>2 DEF Placed, HasAnswered, InSlot
  <2>. QED
    BY <2>2, <2>3
<1>7. CASE ~Known(host)
  <2>. DEFINE n == IF Len(answered) < ArpSlots THEN Len(answered) + 1 ELSE 1
  <2>1. ns_arp' = [ns_arp EXCEPT ![n] = host] /\ n \in 1 .. ArpSlots
    <3>1. ArpSlot(host) = n
      BY NextSlot
    <3>2. ns_arp' = [ns_arp EXCEPT ![ArpSlot(host)] = host]
      BY <1>2, <1>7, Zenon
    <3>3. n \in 1 .. ArpSlots
      BY <1>1
    <3>. QED
      BY <3>1, <3>2, <3>3, Zenon
  <2>2. HasAnswered(host) => Len(answered) > ArpSlots
    <3>. SUFFICES ASSUME NEW k \in DOMAIN answered, answered[k] = host,
                         ~(Len(answered) > ArpSlots)
                  PROVE  FALSE
      BY DEF HasAnswered
    <3>1. k \in 1 .. ArpSlots /\ InSlot(k)
      BY <1>1 DEF InSlot
    <3>. QED
      BY <1>1, <1>7, <3>1 DEF Placed, Known
  <2>3. /\ ns_arp'[n] = host /\ DOMAIN ns_arp' = 1 .. ArpSlots
        /\ \A i \in 1 .. ArpSlots : i # n => ns_arp'[i] = ns_arp[i]
    BY <1>1, <2>1
  <2>4. CASE Len(answered) < ArpSlots
    <3>1. n = Len(answered) + 1 /\ Len(answered') = n /\ answered'[n] = host
      BY <1>1, <1>3, <2>2, <2>4
    <3>. HIDE DEF n
    <3>2. \A i \in 1 .. ArpSlots : ns_arp'[i] = NONE <=> Len(answered') < i
      BY <1>1, <2>1, <2>3, <3>1 DEF Placed
    <3>3. ASSUME NEW i \in 1 .. ArpSlots, ns_arp'[i] # NONE PROVE HasAnswered(ns_arp[i])'
      BY <1>4, <1>5, <2>3, <3>3 DEF Placed
    <3>4. ASSUME NEW k \in 1 .. ArpSlots, k <= n PROVE ns_arp'[k] = answered'[k]
      <4>1. CASE k = n
        BY <2>3, <3>1, <4>1
      <4>2. CASE k # n
        <5>1. InSlot(k) /\ k \in DOMAIN answered
          BY <1>1, <2>4, <3>1, <3>4, <4>2 DEF InSlot
        <5>. QED
          BY <1>3, <2>3, <4>2, <5>1 DEF Placed
      <4>. QED
        BY <4>1, <4>2
    <3>5. Placed'
      BY <1>3, <3>1, <3>2, <3>3, <3>4 DEF Placed, InSlot
    <3>6. Known(host)'
      BY <2>1, <2>3 DEF Known
    <3>7. \A i \in 1 .. ArpSlots : ns_arp[i] # NONE => i # n
      BY <1>1, <3>1 DEF Placed
    <3>. QED
      BY <1>3, <2>3, <3>5, <3>6, <3>7
  <2>5. CASE ~(Len(answered) < ArpSlots)
    <3>1. n = 1 /\ Len(answered') > ArpSlots /\ Len(answered') \in Nat
      BY <1>1, <1>3, <2>2, <2>5
    <3>. HIDE DEF n
    <3>2. \A i \in 1 .. ArpSlots : ns_arp'[i] = NONE <=> Len(answered') < i
      BY <1>1, <2>1, <2>3, <2>5, <3>1 DEF Placed
    <3>3. ASSUME NEW i \in 1 .. ArpSlots, ns_arp'[i] # NONE PROVE HasAnswered(ns_arp[i])'
      BY <1>4, <1>5, <2>3, <3>3 DEF Placed
    <3>4. ASSUME NEW k \in 1 .. ArpSlots, k # 1 PROVE ns_arp'[k] = answered'[k]
      <4>1. InSlot(k) /\ k \in DOMAIN answered
        BY <1>1, <2>5, <3>4 DEF InSlot
      <4>. QED
        BY <1>3, <2>3, <3>1, <3>4, <4>1 DEF Placed
    <3>5. Placed'
      BY <1>1, <1>3, <3>1, <3>2, <3>3, <3>4 DEF Placed, InSlot
    <3>6. \A k \in DOMAIN answered' \ DOMAIN answered : ~(k <= ArpSlots)
      BY <1>1, <1>3, <2>5, <3>1
    <3>. QED
      BY <1>3, <2>3, <3>1, <3>5, <3>6
  <2>. QED
    BY <2>4, <2>5
<1>. QED
  BY <1>6, <1>7

(* A host that is known and answered in time is known for good.             *)
LEMMA StaysKnown ==
  ASSUME TypeOK, Placed, NEW host \in Hosts, RxArp(host), MacKnown,
         ns_conn' = ns_conn
  PROVE  MacKnown'
<1>. SUFFICES ASSUME NEW h \in Addressed
              PROVE  \E k \in DOMAIN answered' :
                       answered'[k] = h /\ (k \in 2 .. ArpSlots => Known(h)')
  BY DEF MacKnown, Addressed, Known
<1>1. PICK k \in DOMAIN answered : answered[k] = h
  BY DEF MacKnown
<1>2. k \in DOMAIN answered' /\ answered'[k] = h
  BY <1>1, ArpKeeps
<1>3. ASSUME k \in 2 .. ArpSlots PROVE Known(h)'
  <2>1. /\ k \in 1 .. ArpSlots /\ k # 1 /\ InSlot(k)
        /\ answered \in Seq(Hosts) /\ DOMAIN answered = 1 .. Len(answered)
    BY <1>1, <1>3, NetStackAssumption DEF Placed, InSlot
  <2>2. ns_arp[k] = h /\ h # NONE
    BY <1>1, <2>1, NetStackAssumption DEF Placed, Hosts, NONE
  <2>3. ns_arp'[k] = h
    BY <2>1, <2>2, ArpKeeps
  <2>4. DOMAIN ns_arp' = 1 .. ArpSlots
    BY DEF RxArp, ArpUpdate, TypeOK
  <2>. QED
    BY <2>1, <2>3, <2>4 DEF Known
<1>. QED
  BY <1>2, <1>3

(* A host the cache knows has answered.                                     *)
LEMMA KnownAnswered ==
  ASSUME TypeOK, Placed, NEW h \in Hosts, Known(h)
  PROVE  \E k \in DOMAIN answered :
           answered[k] = h /\ (k \in 2 .. ArpSlots => Known(h))
  BY NetStackAssumption DEF TypeOK, Placed, Known, HasAnswered, Hosts, NONE

LEMMA MacStep ==
  ASSUME TypeOK, MacInv, [Next]_vars
  PROVE  MacInv'
<1>0. ns_conn \in Conns /\ {"dns", "gw"} \subseteq Hosts
  BY DEF TypeOK, Hosts
<1>1. ASSUME ns_arp' = ns_arp, answered' = answered,
             ns_conn'.dns_sent => ns_conn.dns_sent \/ Known("dns"),
             ns_conn'.tcp_state # "CLOSED" => ns_conn.tcp_state # "CLOSED" \/ Known("gw")
      PROVE  MacInv'
  <2>1. Placed'
    BY <1>1 DEF MacInv, Placed, HasAnswered, InSlot
  <2>2. ASSUME NEW h \in Addressed'
        PROVE  \E k \in DOMAIN answered :
                 answered[k] = h /\ (k \in 2 .. ArpSlots => Known(h))
    <3>1. h \in Hosts /\ (h \in Addressed \/ Known(h))
      BY <1>0, <1>1, <2>2 DEF Addressed
    <3>2. CASE h \in Addressed
      BY <3>2 DEF MacInv, MacKnown
    <3>3. CASE Known(h)
      BY <3>1, <3>3, KnownAnswered DEF MacInv
    <3>. QED
      BY <3>1, <3>2, <3>3
  <2>3. \A h : Known(h)' <=> Known(h)
    BY <1>1 DEF Known
  <2>4. MacKnown'
    BY <1>1, <2>2, <2>3 DEF MacKnown
  <2>. QED
    BY <2>1, <2>4 DEF MacInv
<1>2. ASSUME ns_arp' = ns_arp, answered' = answered, ns_conn' = Idle PROVE MacInv'
  BY <1>1, <1>2 DEF Idle
<1>3. ASSUME ns_arp' = ns_arp, answered' = answered,
             ns_conn'.dns_sent = ns_conn.dns_sent,
             ns_conn'.tcp_state = ns_conn.tcp_state
      PROVE  MacInv'
  BY <1>1, <1>3
<1>4. ASSUME NEW w \in Windows, NEW isn \in Isns, NEW r \in Responses,
             NEW since \in 0 .. Retry, HttpGet(w, isn, r, since)
      PROVE  MacInv'
  BY <1>1, <1>4 DEF HttpGet, Idle
<1>5. CASE HttpGetRejected
  BY <1>3, <1>5 DEF HttpGetRejected
<1>6. ASSUME NEW w \in Windows, Abort(w) PROVE MacInv'
  BY <1>2, <1>6 DEF Abort
<1>7. ASSUME NEW host \in Hosts, RxArp(host) PROVE MacInv'
  <2>1. ns_conn' = ns_conn
    BY <1>7 DEF RxArp
  <2>. QED
    BY <1>7, <2>1, ArpKeeps, StaysKnown DEF MacInv
<1>8. ASSUME NEW answer \in {"address", "error"}, RxDns(answer) PROVE MacInv'
  <2>1. ns_arp' = ns_arp /\ answered' = answered
    BY <1>8 DEF RxDns
  <2>2. CASE Fail("DNS")
    BY <1>2, <2>1, <2>2 DEF Fail, Finish
  <2>3. CASE ns_conn' = [ns_conn EXCEPT !.phase = "CONNECT"]
    BY <1>0, <1>3, <2>1, <2>3 DEF Conns
  <2>. QED
    BY <1>8, <2>2, <2>3 DEF RxDns
<1>9. ASSUME NEW s \in Segments(ns_conn), RxSynAck(s) \/ RxReset(s) \/ RxSegment(s)
      PROVE  MacInv'
  <2>1. ns_arp' = ns_arp /\ answered' = answered
    BY <1>9 DEF RxSynAck, RxReset, RxSegment
  <2>2. CASE RxSynAck(s)
    <3>1. ns_conn'.dns_sent = ns_conn.dns_sent /\ ns_conn.tcp_state = "SYN_SENT"
      BY <1>0, <2>2 DEF RxSynAck, Conns
    <3>. QED
      BY <1>1, <2>1, <3>1
  <2>3. CASE RxReset(s)
    BY <1>2, <2>1, <2>3 DEF RxReset, Fail, Finish
  <2>4. CASE RxSegment(s)
    <3>1. \/ ns_conn' = Idle
          \/ ns_conn' = [ns_conn EXCEPT !.req_acked = AckedBy(s), !.got = ns_conn.got + Take(s)]
          \/ ns_conn' = [ns_conn EXCEPT !.req_acked = AckedBy(s)]
      BY <2>4 DEF RxSegment, Finish
    <3>2. ns_conn' = Idle \/
             /\ ns_conn'.dns_sent = ns_conn.dns_sent
             /\ ns_conn'.tcp_state = ns_conn.tcp_state
      BY <1>0, <3>1 DEF Conns
    <3>. QED
      BY <1>2, <1>3, <2>1, <3>2
  <2>. QED
    BY <1>9, <2>2, <2>3, <2>4
<1>10. CASE Poll
  <2>1. ns_arp' = ns_arp /\ answered' = answered
    BY <1>10 DEF Poll
  <2>2. CASE PollDeadline
    BY <1>2, <2>1, <2>2 DEF PollDeadline, Fail, Finish
  <2>3. CASE PollArp
    <3>1. ns_conn'.dns_sent = ns_conn.dns_sent /\ ns_conn'.tcp_state = ns_conn.tcp_state
      BY <1>0, <2>3 DEF PollArp, Sent, Reset, Conns
    <3>. QED
      BY <1>3, <2>1, <3>1
  <2>4. CASE PollDns
    <3>1. ns_conn'.tcp_state = ns_conn.tcp_state /\ (ns_conn.dns_sent \/ Known("dns"))
      BY <1>0, <2>4 DEF PollDns, Sent, Reset, Conns
    <3>. QED
      BY <1>1, <2>1, <3>1
  <2>5. CASE PollConnect
    <3>1. ns_conn'.dns_sent = ns_conn.dns_sent /\ Known("gw")
      BY <1>0, <2>5 DEF PollConnect, Sent, Reset, Conns
    <3>. QED
      BY <1>1, <2>1, <3>1
  <2>6. CASE PollTransfer
    <3>1. CASE Fail("CONN")
      BY <1>2, <2>1, <3>1 DEF Fail, Finish
    <3>2. CASE ns_conn' = [Sent(ns_conn) EXCEPT !.retries = @ + 1]
      BY <1>0, <1>3, <2>1, <3>2 DEF Sent, Conns
    <3>. QED
      BY <2>6, <3>1, <3>2 DEF PollTransfer
  <2>. QED
    BY <1>10, <2>2, <2>3, <2>4, <2>5, <2>6 DEF Poll
<1>11. CASE Tick
  <2>1. ns_conn'.dns_sent = ns_conn.dns_sent /\ ns_conn'.tcp_state = ns_conn.tcp_state
    BY <1>0, <1>11 DEF Tick, Conns
  <2>. QED
    BY <1>3, <1>11, <2>1 DEF Tick
<1>12. CASE UNCHANGED vars
  BY <1>3, <1>12 DEF vars
<1>. QED
  BY <1>4, <1>5, <1>6, <1>7, <1>8, <1>9, <1>10, <1>11, <1>12 DEF Next, RxTcp

(* Every host a frame is addressed to has answered ARP, and the second to   *)
(* the last that found room in the cache keep their slots, however many     *)
(* hosts answer after them.                                                 *)
THEOREM MacCorrect == Spec => []MacKnown
<1>1. Init => MacInv
  BY NetStackAssumption DEF Init, MacInv, MacKnown, Addressed, Placed, InSlot, Idle
<1>2. TypeOK /\ MacInv /\ [Next]_vars => MacInv'
  BY MacStep
<1>3. MacInv => MacKnown
  BY DEF MacInv
<1>. QED
  BY <1>1, <1>2, <1>3, TypeCorrect, PTL DEF Spec

-----------------------------------------------------------------------------
(* Of a request that goes on after a step the deadline was not put off; a    *)
(* tick brings it nearer, and no poll but one before it lets it go on.       *)
DeadlineNears ==
  [][ns_conn.active /\ ns_conn'.req = ns_conn.req =>
       /\ ns_conn'.left <= ns_conn.left
       /\ Tick => ns_conn'.left = ns_conn.left - 1
       /\ Poll => ns_conn.left > 0]_vars

LEMMA DeadlineStep ==
  ASSUME TypeOK, [Next]_vars, ns_conn.active, ns_conn'.req = ns_conn.req
  PROVE  /\ ns_conn'.left <= ns_conn.left
         /\ Tick => ns_conn'.left = ns_conn.left - 1
         /\ Poll => ns_conn.left > 0
<1>0. /\ ns_conn \in Conns /\ ns_conn.left \in Nat
      /\ ns_conn.req # 0 /\ ns_conn.req <= made /\ made \in Nat /\ ns_conn.req \in Nat
  BY NetStackAssumption DEF TypeOK, Conns
<1>1. Idle.req = 0
  BY DEF Idle
<1>2. ns_conn' # Idle
  BY <1>0, <1>1
<1>3. \A status, len : ~Finish(status, len)
  BY <1>2 DEF Finish
<1>4. \A status : ~Fail(status)
  BY <1>3 DEF Fail
<1>5. Tick => ns_conn'.left = ns_conn.left - 1
  BY <1>0 DEF Tick, Conns
<1>6. Poll => ns_conn.left > 0 /\ ns_conn'.left = ns_conn.left
  <2>1. CASE PollDeadline
    BY <1>4, <2>1 DEF PollDeadline
  <2>2. CASE PollArp
    BY <1>0, <2>2 DEF PollArp, InTime, Sent, Reset, Conns
  <2>3. CASE PollDns
    BY <1>0, <2>3 DEF PollDns, InTime, Sent, Reset, Conns
  <2>4. CASE PollConnect
    BY <1>0, <2>4 DEF PollConnect, InTime, Sent, Reset, Conns
  <2>5. CASE PollTransfer
    BY <1>0, <1>4, <2>5 DEF PollTransfer, InTime, Sent, Conns
  <2>. QED
    BY <2>1, <2>2, <2>3, <2>4, <2>5 DEF Poll
<1>7. ns_conn'.left <= ns_conn.left
  <2>1. ASSUME NEW w \in Windows, NEW isn \in Isns, NEW r \in Responses, NEW since \in 0 .. Retry,
               HttpGet(w, isn, r, since)
        PROVE  FALSE
    <3>1. ns_conn' = [Idle EXCEPT !.active = TRUE, !.req = made + 1, !.ctx = w, !.isn = isn,
                                  !.snd_nxt = Plus(isn, 1), !.idle = since, !.left = Deadline]
      BY <2>1 DEF HttpGet
    <3>2. ns_conn'.req = made + 1
      BY ONLY <3>1 DEF Idle
    <3>. QED
      BY <1>0, <3>2
  <2>2. CASE HttpGetRejected
    BY <1>0, <2>2 DEF HttpGetRejected
  <2>3. CASE \E w \in Windows : Abort(w)
    BY <1>2, <2>3 DEF Abort
  <2>4. CASE \E host \in Hosts : RxArp(host)
    BY <1>0, <2>4 DEF RxArp
  <2>5. CASE \E answer \in {"address", "error"} : RxDns(answer)
    BY <1>0, <1>4, <2>5 DEF RxDns, Conns
  <2>6. CASE RxTcp
    <3>1. PICK s \in Segments(ns_conn) : RxSynAck(s) \/ RxReset(s) \/ RxSegment(s)
      BY <2>6 DEF RxTcp
    <3>2. CASE RxSynAck(s)
      BY <1>0, <3>2 DEF RxSynAck, Conns
    <3>3. CASE RxReset(s)
      BY <1>4, <3>3 DEF RxReset
    <3>4. CASE RxSegment(s)
      <4>. DEFINE r == resp[ns_conn.req]
                  got == ns_conn.got + Take(s)
                  st == HttpStatus(r, got)
      <4>1. \/ Finish(st, IF st = "OK" THEN BodyLen(r, got) ELSE 0)
            \/ ns_conn' = [ns_conn EXCEPT !.req_acked = AckedBy(s), !.got = got]
            \/ ns_conn' = [ns_conn EXCEPT !.req_acked = AckedBy(s)]
        BY <3>4 DEF RxSegment
      <4>. HIDE DEF got, st, r
      <4>2. \/ ns_conn' = [ns_conn EXCEPT !.req_acked = AckedBy(s), !.got = got]
            \/ ns_conn' = [ns_conn EXCEPT !.req_acked = AckedBy(s)]
        BY <1>3, <4>1
      <4>3. CASE ns_conn' = [ns_conn EXCEPT !.req_acked = AckedBy(s), !.got = got]
        BY ONLY <1>0, <4>3 DEF Conns
      <4>4. CASE ns_conn' = [ns_conn EXCEPT !.req_acked = AckedBy(s)]
        BY ONLY <1>0, <4>4 DEF Conns
      <4>. QED
        BY <4>2, <4>3, <4>4
    <3>. QED
      BY <3>1, <3>2, <3>3, <3>4
  <2>7. CASE Poll
    BY <1>0, <1>6, <2>7
  <2>8. CASE Tick
    BY <1>0, <1>5, <2>8
  <2>9. CASE UNCHANGED vars
    BY <1>0, <2>9 DEF vars
  <2>. QED
    BY <2>1, <2>2, <2>3, <2>4, <2>5, <2>6, <2>7, <2>8, <2>9 DEF Next
<1>. QED
  BY <1>5, <1>6, <1>7

(* What EveryRequestEnds asks of every step: no answer, retransmission or    *)
(* change of phase in netstack.c renews NS_DEADLINE, and once it is reached  *)
(* ns_poll ends the request. That ticks and polls come is the fairness.      *)
THEOREM DeadlineCorrect == Spec => DeadlineNears
<1>1. TypeOK /\ [Next]_vars =>
        [ns_conn.active /\ ns_conn'.req = ns_conn.req =>
           /\ ns_conn'.left <= ns_conn.left
           /\ Tick => ns_conn'.left = ns_conn.left - 1
           /\ Poll => ns_conn.left > 0]_vars
  BY DeadlineStep
<1>. QED
  BY <1>1, TypeCorrect, PTL DEF Spec, DeadlineNears

=============================================================================
