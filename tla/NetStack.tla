------------------------------ MODULE NetStack ------------------------------
(***************************************************************************)
(* The internet client, src/kernel/netstack.c: one request at a time goes  *)
(* through DNS, a TCP connection and an HTTP/1.0 response, driven by frames *)
(* and by the timers of ns_poll.  Plain HTTP; the TLS phase is left out.    *)
(*                                                                         *)
(* The network may lose, duplicate, delay or reorder frames: a peer may at *)
(* any time send again whatever the frames that reached it entitle it to.   *)
(* Everything here runs in the main loop, so a step is one received frame,  *)
(* one pass over the timers, or one call of the API.  Ticks are counted     *)
(* from the events they are compared with.                                  *)
(***************************************************************************)
EXTENDS Integers, FiniteSets, Sequences

CONSTANTS
  MaxReqs,     \* bound: requests made in a behaviour
  Windows,     \* callers, the ctx of their requests
  Responses,   \* responses a server may give: [hdr, body, status]
  Cap,         \* size of the caller's buffer
  HdrMax,      \* NS_HDR_MAX
  Isns,        \* initial sequence numbers
  SeqMod,      \* uint32_t sequence numbers are modulo this (2^32)
  ReqLen,      \* length of the request
  Retry,       \* NS_RETRY
  Deadline,    \* NS_DEADLINE
  ReqLimit,    \* retransmissions of the request before giving up (10)
  ArpSlots,    \* NS_ARP_CACHE
  Others,      \* other hosts that may answer ARP
  Overlap,     \* whether a request may be made while another is active
  EarlyFin     \* whether a FIN without data may arrive ahead of data

VARIABLES
  ns_conn,     \* the connection; Idle after memset
  ns_arp,      \* the ARP cache: the host in each slot
  answered,    \* the hosts in the order of their first ARP answers (history)
  made,        \* requests made so far
  resp,        \* the response the server has for each request
  heard,       \* what the peers heard of each request: query, SYN, request
  calls,       \* callbacks made for each request
  result,      \* status and body length told by the callback
  dropped      \* requests aborted by their caller (history)

history == <<calls, result, dropped>>
vars    == <<ns_conn, ns_arp, answered, made, resp, heard, history>>

Reqs == 1 .. MaxReqs
NONE == "none"
Hosts == {"dns", "gw"} \cup Others
Statuses == {"OK", "NONET", "DNS", "CONN", "HTTP"}

ASSUME NetStackAssumption ==
  /\ MaxReqs \in Nat /\ Cap \in Nat /\ HdrMax \in Nat
  /\ SeqMod \in Nat \ {0} /\ Isns \subseteq 0 .. (SeqMod - 1)
  /\ ReqLen \in 1 .. (SeqMod - 1)
  /\ Retry \in Nat \ {0} /\ Deadline \in Nat \ {0} /\ ReqLimit \in Nat
  /\ ArpSlots \in Nat \ {0} /\ NONE \notin Others
  /\ Overlap \in BOOLEAN /\ EarlyFin \in BOOLEAN
  /\ Responses \subseteq [hdr : Nat, body : Nat, status : Nat]

Idle == [active |-> FALSE, phase |-> "DNS", tcp_state |-> "CLOSED", req |-> 0,
         ctx |-> NONE, dns_sent |-> FALSE, isn |-> 0, snd_nxt |-> 0,
         req_sent |-> FALSE, req_acked |-> FALSE, got |-> 0, retries |-> 0,
         idle |-> 0, left |-> 0]

Plus(seq, n) == (seq + n) % SeqMod

-----------------------------------------------------------------------------
(* The ARP cache. *)

Known(host) == \E i \in DOMAIN ns_arp : ns_arp[i] = host

\* Mutant: every host in the first slot.
ArpSlotFirst(host) == 1

\* arp_update: the slot of a known host, the first empty slot, or slot 1.
ArpSlot(host) ==
  LET empty == {i \in DOMAIN ns_arp : ns_arp[i] = NONE}
  IN  IF empty = {} THEN 1 ELSE CHOOSE i \in empty : \A j \in empty : i <= j
ArpUpdate(host) ==
  ns_arp' = IF Known(host) THEN ns_arp ELSE [ns_arp EXCEPT ![ArpSlot(host)] = host]

-----------------------------------------------------------------------------
(* The HTTP response, of which got units are in the buffer.                 *)

Total(r) == r.hdr + r.body
HdrDone(r, got) == r.hdr <= got /\ r.hdr <= HdrMax
BodyLen(r, got) == IF HdrDone(r, got) THEN got - r.hdr ELSE 0
HttpStatus(r, got) ==
  IF HdrDone(r, got) /\ r.status \in 200 .. 399 THEN "OK" ELSE "HTTP"

\* Mutant: the connection is not cleared.
FinishStays(status, len) ==
  /\ UNCHANGED ns_conn
  /\ calls' = [calls EXCEPT ![ns_conn.req] = @ + 1]
  /\ result' = [result EXCEPT ![ns_conn.req] = [status |-> status, len |-> len]]

\* ns_finish: the connection is cleared, then the caller is told.
Finish(status, len) ==
  /\ ns_conn' = Idle
  /\ calls' = [calls EXCEPT ![ns_conn.req] = @ + 1]
  /\ result' = [result EXCEPT ![ns_conn.req] = [status |-> status, len |-> len]]

Fail(status) == Finish(status, 0)
Quiet == UNCHANGED <<calls, result>>

\* A packet is sent; it may be lost.
Sends(what) ==
  \/ heard' = [heard EXCEPT ![ns_conn.req] = @ \cup {what}]
  \/ UNCHANGED heard

-----------------------------------------------------------------------------
(* The caller's side of the API. *)

\* ns_http_get; isn depends on the clock, resp is the server's business.
HttpGet(w, isn, r, since) ==
  /\ made < MaxReqs /\ (Overlap \/ ~ns_conn.active)
  /\ made' = made + 1
  /\ ns_conn' = [Idle EXCEPT !.active = TRUE, !.req = made + 1, !.ctx = w,
                             !.isn = isn, !.snd_nxt = Plus(isn, 1),
                             !.idle = since, !.left = Deadline]
  /\ resp' = [resp EXCEPT ![made + 1] = r]
  /\ UNCHANGED <<ns_arp, answered, heard, history>>

\* No NIC, or the link is down.
HttpGetRejected ==
  /\ made < MaxReqs
  /\ made' = made + 1
  /\ calls' = [calls EXCEPT ![made + 1] = @ + 1]
  /\ result' = [result EXCEPT ![made + 1] = [status |-> "NONET", len |-> 0]]
  /\ UNCHANGED <<ns_conn, ns_arp, answered, resp, heard, dropped>>

\* ns_abort, as a closing window calls it.
Abort(ctx) ==
  /\ ns_conn.active /\ ns_conn.ctx = ctx
  /\ dropped' = dropped \cup {ns_conn.req}
  /\ ns_conn' = Idle
  /\ UNCHANGED <<ns_arp, answered, made, resp, heard, calls, result>>

-----------------------------------------------------------------------------
(* Received frames. *)

HasAnswered(host) == \E k \in DOMAIN answered : answered[k] = host

RxArp(host) ==
  /\ ArpUpdate(host)
  /\ answered' = IF HasAnswered(host) THEN answered ELSE Append(answered, host)
  /\ UNCHANGED <<ns_conn, made, resp, heard, history>>

\* dns_handle: an address, or an answer without one.
RxDns(answer) ==
  /\ ns_conn.active /\ ns_conn.phase = "DNS" /\ "query" \in heard[ns_conn.req]
  /\ \/ /\ answer = "address"
        /\ ns_conn' = [ns_conn EXCEPT !.phase = "CONNECT"]
        /\ Quiet
     \/ /\ answer = "error"
        /\ Fail("DNS")
  /\ UNCHANGED <<ns_arp, answered, made, resp, heard, dropped>>

\* What the server may say of request q: its handshake, a refusal or reset,
\* or a piece of its response.  A FIN carries the offset where it stands.
Acks(q) == {Plus(q.isn, 1)} \cup
           IF "request" \in heard[q.req] THEN {q.snd_nxt} ELSE {}
Segments(q) ==
  LET n == Total(resp[q.req])
      control == [kind : {"synack", "rst", "ack"}, ack : Acks(q),
                  off : {0}, len : {0}, fin : {FALSE}]
      data == {s \in [kind : {"data"}, ack : {q.snd_nxt},
                      off : 0 .. n, len : 0 .. 2, fin : BOOLEAN] :
                 /\ s.off + s.len <= n
                 /\ s.fin <=> s.off + s.len = n
                 /\ s.fin /\ s.len = 0 => EarlyFin \/ s.off <= q.got}
  IN  IF "syn" \notin heard[q.req] THEN {}
      ELSE control \cup IF "request" \in heard[q.req] THEN data ELSE {}

\* tcp_handle in SYN_SENT: anything but a SYN-ACK of our SYN is ignored.
RxSynAck(s) ==
  /\ ns_conn.tcp_state = "SYN_SENT"
  /\ s.kind = "synack" /\ s.ack = Plus(ns_conn.isn, 1)
  /\ ns_conn' = [ns_conn EXCEPT !.tcp_state = "ESTAB", !.phase = "TRANSFER",
                                !.snd_nxt = Plus(@, ReqLen),
                                !.req_sent = TRUE, !.idle = 0]
  /\ Sends("request") /\ Quiet
  /\ UNCHANGED <<ns_arp, answered, made, resp, dropped>>

RxReset(s) ==
  /\ ns_conn.tcp_state = "ESTAB" /\ s.kind = "rst"
  /\ Fail("CONN")
  /\ UNCHANGED <<ns_arp, answered, made, resp, heard, dropped>>

\* Mutant: an ACK of our SYN is taken for one of the request.
AckedByAny(s) == ns_conn.req_acked \/ s.ack > ns_conn.isn

\* An ACK at or above the end of the request; the comparison is of integers.
AckedBy(s) == ns_conn.req_acked \/ s.ack >= ns_conn.snd_nxt

\* Mutant: data already taken is taken again.
InOrderOrEarlier(s) == s.len = 0 \/ s.off <= ns_conn.got

InOrder(s) == s.len = 0 \/ s.off = ns_conn.got
Take(s)    == IF s.len > Cap - ns_conn.got THEN Cap - ns_conn.got ELSE s.len

\* A segment in ESTAB: out of order data is re-acknowledged and left; data
\* that overflows the buffer, or a FIN, ends the request.
RxSegment(s) ==
  LET r    == resp[ns_conn.req]
      got  == ns_conn.got + Take(s)
      ends == InOrder(s) /\ (Take(s) < s.len \/ s.fin)
  IN  /\ ns_conn.tcp_state = "ESTAB" /\ s.kind # "rst"
      /\ \/ /\ ends
            /\ Finish(HttpStatus(r, got),
                      IF HttpStatus(r, got) = "OK" THEN BodyLen(r, got) ELSE 0)
         \/ /\ ~ends /\ InOrder(s)
            /\ ns_conn' = [ns_conn EXCEPT !.req_acked = AckedBy(s), !.got = got]
            /\ Quiet
         \/ /\ ~InOrder(s)
            /\ ns_conn' = [ns_conn EXCEPT !.req_acked = AckedBy(s)]
            /\ Quiet
      /\ UNCHANGED <<ns_arp, answered, made, resp, heard, dropped>>

\* Segments of earlier requests are for other ports and are dropped.
RxTcp ==
  /\ ns_conn.active
  /\ \E s \in Segments(ns_conn) :
       RxSynAck(s) \/ RxReset(s) \/ RxSegment(s)

-----------------------------------------------------------------------------
(* The timers of ns_poll, in the order the code tests them.  In DNS and     *)
(* CONNECT the retry count is cleared on every poll, so its limits (8, 24)   *)
(* are never met and only the deadline ends these phases.                    *)

Due     == ns_conn.idle >= Retry
InTime  == ns_conn.active /\ ns_conn.left > 0
Sent(c) == [c EXCEPT !.idle = 0]
Reset   == [ns_conn EXCEPT !.retries = 0]

\* Mutant: the deadline is looked at in the DNS phase only.
PollDeadlineDns ==
  /\ ns_conn.active /\ ns_conn.left = 0 /\ ns_conn.phase = "DNS"
  /\ Fail("CONN") /\ UNCHANGED heard

PollDeadline ==
  /\ ns_conn.active /\ ns_conn.left = 0
  /\ Fail("CONN") /\ UNCHANGED heard

\* ARP for the DNS server or the gateway; answers come as RxArp.
PollArp ==
  /\ InTime /\ Due
  /\ \/ ns_conn.phase = "DNS" /\ ~ns_conn.dns_sent /\ ~Known("dns")
     \/ ns_conn.phase = "CONNECT" /\ ~Known("gw")
  /\ ns_conn' = Sent(Reset)
  /\ Quiet /\ UNCHANGED heard

PollDns ==
  /\ InTime /\ ns_conn.phase = "DNS"
  /\ \/ /\ ~ns_conn.dns_sent /\ Known("dns")
        /\ ns_conn' = [Sent(Reset) EXCEPT !.dns_sent = TRUE]
     \/ /\ ns_conn.dns_sent /\ Due
        /\ ns_conn' = [Sent(Reset) EXCEPT !.retries = 1]
  /\ Sends("query") /\ Quiet

PollConnect ==
  /\ InTime /\ ns_conn.phase = "CONNECT" /\ Known("gw")
  /\ \/ /\ ns_conn.tcp_state = "CLOSED"
        /\ ns_conn' = [Sent(Reset) EXCEPT !.tcp_state = "SYN_SENT"]
     \/ /\ ns_conn.tcp_state = "SYN_SENT" /\ Due
        /\ ns_conn' = [Sent(Reset) EXCEPT !.retries = 1]
  /\ Sends("syn") /\ Quiet

PollTransfer ==
  /\ InTime /\ ns_conn.phase = "TRANSFER"
  /\ ns_conn.req_sent /\ ~ns_conn.req_acked /\ Due
  /\ \/ /\ ns_conn.retries >= ReqLimit
        /\ Fail("CONN") /\ UNCHANGED heard
     \/ /\ ns_conn.retries < ReqLimit
        /\ ns_conn' = [Sent(ns_conn) EXCEPT !.retries = @ + 1]
        /\ Sends("request") /\ Quiet

Poll ==
  /\ PollDeadline \/ PollArp \/ PollDns \/ PollConnect \/ PollTransfer
  /\ UNCHANGED <<ns_arp, answered, made, resp, dropped>>

\* The clock, as far as a comparison can tell.
Tick ==
  /\ InTime
  /\ ns_conn' = [ns_conn EXCEPT !.left = @ - 1,
                                !.idle = IF @ < Retry THEN @ + 1 ELSE @]
  /\ UNCHANGED <<ns_arp, answered, made, resp, heard, history>>

-----------------------------------------------------------------------------
NoResponse == [hdr |-> 0, body |-> 0, status |-> 0]
NoResult   == [status |-> NONE, len |-> 0]

Init ==
  /\ ns_conn = Idle
  /\ ns_arp = [i \in 1 .. ArpSlots |-> NONE] /\ answered = << >>
  /\ made = 0
  /\ resp = [r \in Reqs |-> NoResponse]
  /\ heard = [r \in Reqs |-> {}]
  /\ calls = [r \in Reqs |-> 0] /\ result = [r \in Reqs |-> NoResult]
  /\ dropped = {}

Next ==
  \/ \E w \in Windows, isn \in Isns, r \in Responses, since \in 0 .. Retry :
       HttpGet(w, isn, r, since)
  \/ HttpGetRejected
  \/ \E w \in Windows : Abort(w)
  \/ \E host \in Hosts : RxArp(host)
  \/ \E answer \in {"address", "error"} : RxDns(answer)
  \/ RxTcp
  \/ Poll
  \/ Tick

(* The timer interrupt keeps counting and the main loop keeps polling.      *)
Spec == Init /\ [][Next]_vars /\ WF_vars(Tick) /\ WF_vars(Poll)

-----------------------------------------------------------------------------
Conns ==
  [active : BOOLEAN, phase : {"DNS", "CONNECT", "TRANSFER"},
   tcp_state : {"CLOSED", "SYN_SENT", "ESTAB"}, req : 0 .. MaxReqs,
   ctx : Windows \cup {NONE}, dns_sent : BOOLEAN, isn : 0 .. SeqMod - 1,
   snd_nxt : 0 .. SeqMod - 1, req_sent : BOOLEAN, req_acked : BOOLEAN,
   got : 0 .. Cap, retries : Nat, idle : 0 .. Retry, left : 0 .. Deadline]

(* Types: a request in progress is one that was made, and the counters are  *)
(* in range.                                                                *)
TypeOK ==
  /\ ns_conn \in Conns
  /\ ns_conn.active <=> ns_conn.req # 0
  /\ ns_arp \in [1 .. ArpSlots -> Hosts \cup {NONE}]
  /\ made \in 0 .. MaxReqs /\ ns_conn.req <= made
  /\ resp \in [Reqs -> [hdr : Nat, body : Nat, status : Nat]]
  /\ heard \in [Reqs -> SUBSET {"query", "syn", "request"}]
  /\ calls \in [Reqs -> Nat]
  /\ result \in [Reqs -> [status : Statuses \cup {NONE}, len : Int]]
  /\ dropped \subseteq 1 .. made

(* "The callback is invoked exactly once when the request completes"         *)
(* (netstack.h): a request is running, or was aborted by its own caller, or *)
(* its callback was called once; never twice, and never after the abort.     *)
CallbackExactlyOnce ==
  \A r \in 1 .. made :
    calls[r] = IF r = ns_conn.req \/ r \in dropped THEN 0 ELSE 1

(* "NS_OK: body delivered" (netstack.h): a success reports the whole body,   *)
(* whatever came late or twice, or as much of it as the buffer holds.       *)
OkMeansWholeBody ==
  \A r \in Reqs :
    result[r].status = "OK" =>
      result[r].len = IF Total(resp[r]) <= Cap THEN resp[r].body ELSE Cap - resp[r].hdr

(* "Any ACK at/above the end of our request proves it was delivered"         *)
(* (netstack.c:447): retransmission stops only once the server has it.       *)
AckProvesDelivery ==
  ns_conn.req_acked => "request" \in heard[ns_conn.req]

\* The hosts the connection sends to without asking for them again.
Addressed ==
  {h \in {"dns", "gw"} : IF h = "dns" THEN ns_conn.dns_sent
                                     ELSE ns_conn.tcp_state # "CLOSED"}

(* What is sent has a MAC to go to (arp_lookup is not NULL) though any      *)
(* number of hosts share the cache: each host addressed has answered, and   *)
(* the second to the last host that found the cache with room stay in it    *)
(* for good.  A full cache gives the slot of the first to whoever answers.  *)
MacKnown ==
  \A h \in Addressed :
    \E k \in DOMAIN answered :
      answered[k] = h /\ (k \in 2 .. ArpSlots => Known(h))

(* Every request ends, whatever the network does: the deadline sees to it.   *)
EveryRequestEnds == \A r \in Reqs : (ns_conn.req = r) ~> (ns_conn.req # r)
=============================================================================
