-------------------------------- MODULE Https --------------------------------
(***************************************************************************)
(* Browser windows (desktop.c) and the requests they make of the one        *)
(* connection of netstack.c, whose https requests go through Tls. What a    *)
(* request does before its connection is established, and plain transfers,  *)
(* are one phase each here and modelled frame by frame in NetStack.         *)
(***************************************************************************)
EXTENDS Tls

CONSTANTS
  Windows,     \* window slots that may hold a browser
  Sites,       \* domains other than the home page
  Servers,     \* ways a server may behave
  Says,        \* what it says then, unit by unit
  Mss,         \* units in a TCP segment
  Deadline,    \* NS_DEADLINE
  LinkDrops,   \* whether the link may be down while a request is running
  MaxReqs,     \* bound: requests made in a behaviour
  Boot         \* ctx of the request kmain makes at boot; no window

ASSUME HttpsAssumption ==
  /\ Boot \notin Windows /\ Mss \in Nat \ {0} /\ Deadline \in Nat \ {0}
  /\ LinkDrops \in BOOLEAN /\ MaxReqs \in Nat
  /\ DOMAIN Says = Servers
  /\ \A s \in Servers :
       /\ Says[s] \in Seq([kind : STRING, len : Nat, after : Nat, pos : Nat])
       /\ Framed(Says[s])

VARIABLES
  win,    \* the browser's fields of g_wins
  conn,   \* ns_conn
  g_tls,
  reqs    \* requests made so far

vars == <<win, conn, g_tls, reqs>>

Nothing == "nothing"
Home == [used |-> TRUE, page |-> "home", name |-> "sol.os", state |-> "idle",
         web |-> Nothing]
Closed == [Home EXCEPT !.used = FALSE]

NoConn == [id |-> 0, ctx |-> Boot, name |-> Nothing, tls |-> FALSE,
           phase |-> "none", got |-> FALSE, tls_sent |-> FALSE, left |-> 0,
           server |-> Nothing, rcv |-> 0]

\* ns_http_get; what the server will say is its own business.
Request(id, ctx, name, https, server) ==
  [NoConn EXCEPT !.id = id, !.ctx = ctx, !.name = name, !.tls = https,
                 !.phase = "open", !.left = Deadline,
                 !.server = IF https THEN server ELSE Nothing]

----------------------------------------------------------------------------
(* The browser.                                                            *)

\* br_web_done. The body was written into the window's buffer as it arrived.
BrWebDone(ctx, status) ==
  IF ctx \notin Windows THEN win
  ELSE IF ~win[ctx].used THEN win
  ELSE IF status = "OK" THEN [win EXCEPT ![ctx].state = "ok"]
  ELSE [win EXCEPT ![ctx].state = "err", ![ctx].web = Nothing]

\* ns_finish.
Finish(status) ==
  /\ conn' = NoConn
  /\ win' = BrWebDone(conn.ctx, status)

Open(w) ==
  /\ ~win[w].used
  /\ win' = [win EXCEPT ![w] = Home]
  /\ UNCHANGED <<conn, g_tls, reqs>>

\* Mutant: the request stays.
NsAbortNot(ctx) == UNCHANGED conn

\* ns_abort: the caller's request alone, without a callback.
NsAbort(ctx) == conn' = IF conn.id # 0 /\ conn.ctx = ctx THEN NoConn ELSE conn

Close(w) ==
  /\ win[w].used
  /\ win' = [win EXCEPT ![w] = Closed]
  /\ NsAbort(w)
  /\ UNCHANGED <<g_tls, reqs>>

\* br_navigate to this machine's page or a search: a running request goes on.
NavigateLocal(w, page) ==
  /\ win[w].used
  /\ win' = [win EXCEPT ![w].page = page, ![w].name = page,
                        ![w].state = IF page = "home" THEN "idle" ELSE @]
  /\ UNCHANGED <<conn, g_tls, reqs>>

\* br_navigate to a site: the request replaces any other, whose caller is not
\* told; without a link it fails at once and the other goes on.
Navigate(w, site, https, server) ==
  /\ win[w].used /\ reqs < MaxReqs
  /\ reqs' = reqs + 1
  /\ win' = [win EXCEPT ![w].page = "site", ![w].name = site, ![w].state = "busy"]
  /\ conn' = Request(reqs + 1, w, site, https, server)
  /\ UNCHANGED g_tls

NavigateNoLink(w, site) ==
  /\ win[w].used /\ reqs < MaxReqs /\ (LinkDrops \/ conn.id = 0)
  /\ reqs' = reqs + 1
  /\ win' = [win EXCEPT ![w] = [@ EXCEPT !.page = "site", !.name = site,
                                         !.state = "err", !.web = Nothing]]
  /\ UNCHANGED <<conn, g_tls>>

----------------------------------------------------------------------------
(* Frames.                                                                 *)

\* DNS failed, or the peer refused or reset the connection.
RxRefused(status) ==
  /\ conn.phase # "none" /\ (status = "DNS" => conn.phase = "open")
  /\ Finish(status)
  /\ UNCHANGED <<g_tls, reqs>>

\* tcp_handle, the SYN-ACK.
RxSynAck ==
  /\ conn.phase = "open"
  /\ \/ /\ conn.tls
        /\ conn' = [conn EXCEPT !.phase = "tls"]
        /\ g_tls' = TlsConnect
     \/ /\ ~conn.tls
        /\ conn' = [conn EXCEPT !.phase = "transfer"]
        /\ UNCHANGED g_tls
  /\ UNCHANGED <<win, reqs>>

Stream == Says[conn.server]

\* The server may have sent its first n units.
Said(n) == n <= Len(Stream) /\ \A k \in 1 .. n : Stream[k].after <= Len(g_tls.sent)

\* tcp_handle in NS_PH_TLS: data in order is fed and looked at.
RxRecords(n, luck) ==
  /\ conn.phase = "tls" /\ Said(conn.rcv + n)
  /\ LET data == SubSeq(Stream, conn.rcv + 1, conn.rcv + n)
     IN g_tls' = TlsPoll(TlsFeed(g_tls, data), luck)
  /\ conn' = [conn EXCEPT !.rcv = @ + n]
  /\ UNCHANGED <<win, reqs>>

\* The FIN of a TLS connection: app_len is 0, so had_app is.
RxTlsFin ==
  /\ conn.phase = "tls"
  /\ Finish("CONN")
  /\ UNCHANGED <<g_tls, reqs>>

\* A piece of a plain response, into the buffer of the caller.
RxBody ==
  /\ conn.phase = "transfer"
  /\ conn' = [conn EXCEPT !.got = TRUE]
  /\ win' = IF conn.ctx \in Windows THEN [win EXCEPT ![conn.ctx].web = conn.name] ELSE win
  /\ UNCHANGED <<g_tls, reqs>>

\* The FIN of a plain response, or the buffer is full.
RxEnd(status) ==
  /\ conn.phase = "transfer" /\ (status = "OK" => conn.got)
  /\ Finish(status)
  /\ UNCHANGED <<g_tls, reqs>>

Rx ==
  \/ \E status \in {"DNS", "CONN"} : RxRefused(status)
  \/ RxSynAck
  \/ \E n \in 1 .. Mss, luck \in Luck : RxRecords(n, luck)
  \/ RxTlsFin
  \/ RxBody
  \/ \E status \in {"OK", "HTTP"} : RxEnd(status)

----------------------------------------------------------------------------
(* ns_poll.                                                                *)

\* Mutant: the deadline is that of the handshake.
PollDeadlineUnsent ==
  /\ conn.phase # "none" /\ conn.left = 0 /\ ~conn.tls_sent
  /\ Finish("CONN")
  /\ UNCHANGED <<g_tls, reqs>>

PollDeadline ==
  /\ conn.phase # "none" /\ conn.left = 0
  /\ Finish("CONN")
  /\ UNCHANGED <<g_tls, reqs>>

RequestDue(t) == TlsIsEstablished(t)

\* In NS_PH_TLS until the request is sent.
PollTls(luck) ==
  LET t == TlsPoll(g_tls, luck)
  IN /\ conn.phase = "tls" /\ conn.left > 0 /\ ~conn.tls_sent
     /\ \/ /\ ~t.dead /\ RequestDue(t)
           /\ g_tls' = TlsSendAppData(t)
           /\ conn' = [conn EXCEPT !.tls_sent = TRUE]
           /\ UNCHANGED win
        \/ /\ ~t.dead /\ ~t.active
           /\ g_tls' = t
           /\ Finish("TLS")
        \/ /\ t.dead \/ (t.active /\ ~RequestDue(t))
           /\ g_tls' = t
           /\ UNCHANGED <<win, conn>>
     /\ UNCHANGED reqs

Poll == PollDeadline \/ \E luck \in Luck : PollTls(luck)

Tick ==
  /\ conn.phase # "none" /\ conn.left > 0
  /\ conn' = [conn EXCEPT !.left = @ - 1]
  /\ g_tls' = [g_tls EXCEPT !.left = IF @ > 0 THEN @ - 1 ELSE 0]
  /\ UNCHANGED <<win, reqs>>

----------------------------------------------------------------------------
Init ==
  /\ win = [w \in Windows |-> Closed]
  /\ \E site \in Sites, server \in Servers :
       \/ conn = Request(1, Boot, site, TRUE, server) /\ reqs = 1
       \/ conn = NoConn /\ reqs = 0
  /\ g_tls = NoTls

Alive ==
  \/ \E w \in Windows :
       \/ Open(w) \/ Close(w)
       \/ \E page \in {"home", "search"} : NavigateLocal(w, page)
       \/ \E site \in Sites : NavigateNoLink(w, site)
       \/ \E site \in Sites, https \in BOOLEAN, server \in Servers :
            Navigate(w, site, https, server)
  \/ Rx
  \/ Poll
  \/ Tick

Stopped == g_tls.dead /\ UNCHANGED vars

Next == (~g_tls.dead /\ Alive) \/ Stopped

(* The timer interrupt keeps counting and the main loop keeps calling       *)
(* ns_poll, of which the first test is all that is needed.                  *)
Spec == Init /\ [][Next]_vars /\ WF_vars(~g_tls.dead /\ Tick)
             /\ WF_vars(~g_tls.dead /\ PollDeadline)

----------------------------------------------------------------------------
(* What a browser shows as the page of a site is that site's: a request     *)
(* that is running for a window is for the page the window waits for, and a *)
(* window slot that was closed and opened again gets nothing of the old one  *)
(* (br_navigate, br_web_done, win_close).                                   *)
PageIsAsked ==
  \A w \in Windows :
    /\ win[w].page = "site" /\ win[w].state = "ok" => win[w].web = win[w].name
    /\ conn.ctx = w =>
         /\ win[w].used
         /\ win[w].page = "site" => win[w].state = "busy" /\ win[w].name = conn.name

(* A client sends its hello, one flight and one request, in this order,     *)
(* whatever a server says and however often it says it; the request only    *)
(* after the flight of this very connection (tls_poll, ns_poll).            *)
FlightInOrder ==
  conn.phase = "tls" =>
    /\ IsPrefix(g_tls.sent, << "hello" >> \o Flight \o << "request" >>)
    /\ conn.tls_sent <=> Len(g_tls.sent) = Len(Flight) + 2

(* Up to ServerHelloDone rx_buf begins with the header of a record and is   *)
(* the last part of what was received, however the records were cut into    *)
(* segments: nothing is dropped for want of room.                           *)
HandshakeAligned ==
  conn.phase = "tls" /\ g_tls.active /\ g_tls.phase = 1 /\ g_tls.rx # << >> =>
    /\ g_tls.rx[1].pos = 0
    /\ g_tls.rx = SubSeq(Stream, conn.rcv - Len(g_tls.rx) + 1, conn.rcv)

(* The servers of which HandshakeAligned is said: a record leaves room in    *)
(* rx_buf for one segment more, or all that follows it has room.             *)
RoomForRecords ==
  /\ Mss <= RxCap
  /\ \A s \in Servers : \A k \in DOMAIN Says[s] :
       Says[s][k].pos = 0 =>
         \/ Says[s][k].kind = "alert"
         \/ /\ Says[s][k].kind \in Handshake \ Rejected
            /\ Says[s][k].len + Mss <= RxCap
         \/ Len(Says[s]) - k + 1 <= RxCap

(* Every request comes to an end, in a handshake that stalls too; only the  *)
(* machine may stop before.                                                 *)
FetchEnds ==
  \A r \in 1 .. MaxReqs : (conn.id = r) ~> (conn.id # r \/ g_tls.dead)

(* "The ClientHello is built and serialized correctly" (README.md:121): the *)
(* lengths it declares are those of what follows.                           *)
HelloWellFormed ==
  g_tls.sent # << >> => \A host \in HostLens : ExtTotal(host) = ExtWritten(host)
==============================================================================
