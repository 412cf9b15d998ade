----------------------------- MODULE HttpsProofs -----------------------------
(***************************************************************************)
(* Proofs about the browser's requests and the TLS session under them, for  *)
(* any number of windows and requests and whatever servers say.            *)
(***************************************************************************)
EXTENDS Https, SequenceTheorems, FiniteSetTheorems, WellFoundedInduction, TLAPS

----------------------------------------------------------------------------
(* What a window shows.  A body that has arrived for a request is in the    *)
(* buffer of the window the request is for, and a request that is over      *)
(* belongs to nobody.                                                      *)
WinFields  == {"used", "page", "name", "state", "web"}
ConnFields == {"id", "ctx", "name", "tls", "phase", "got", "tls_sent", "left",
               "server", "rcv"}

Shapes ==
  /\ win = [w \in Windows |-> win[w]] /\ \A w \in Windows : DOMAIN win[w] = WinFields
  /\ DOMAIN conn = ConnFields /\ reqs \in Nat

PageInv ==
  /\ Shapes
  /\ conn.id = 0 => conn.ctx = Boot
  /\ conn.ctx \in Windows /\ conn.got => win[conn.ctx].web = conn.name
  /\ PageIsAsked

LEMMA NoConnIs ==
  /\ DOMAIN NoConn = ConnFields /\ NoConn.id = 0 /\ NoConn.ctx = Boot /\ NoConn.got = FALSE
  /\ NoConn.tls_sent = FALSE /\ NoConn.phase = "none" /\ NoConn.rcv = 0
  BY DEF NoConn, ConnFields

Fresh(r, id, ctx, name) ==
  /\ DOMAIN r = ConnFields /\ r.id = id /\ r.ctx = ctx /\ r.name = name
  /\ r.got = FALSE /\ r.phase = "open" /\ r.tls_sent = FALSE /\ r.rcv = 0

LEMMA RequestIs ==
  ASSUME NEW id, NEW ctx, NEW name, NEW https, NEW server
  PROVE  Fresh(Request(id, ctx, name, https, server), id, ctx, name)
  BY DEF Fresh, Request, NoConn, ConnFields

(* Nobody waits for a request that is over.                                 *)
LEMMA OverPage ==
  ASSUME reqs' \in Nat, conn' = NoConn,
         win' = [w \in Windows |-> win'[w]], \A w \in Windows : DOMAIN win'[w] = WinFields,
         \A w \in Windows : win'[w].page = "site" /\ win'[w].state = "ok"
                              => win'[w].web = win'[w].name
  PROVE  PageInv'
  BY NoConnIs, HttpsAssumption DEF PageInv, Shapes, PageIsAsked

LEMMA FinishPage ==
  ASSUME PageInv, NEW status, Finish(status), status = "OK" => conn.got, UNCHANGED reqs
  PROVE  PageInv'
<1>1. conn' = NoConn /\ reqs' \in Nat
  BY DEF Finish, PageInv, Shapes
<1>2. CASE conn.ctx \notin Windows
  <2>1. win' = win
    BY <1>2 DEF Finish, BrWebDone
  <2>. QED
    BY <1>1, <2>1, OverPage DEF PageInv, Shapes, PageIsAsked
<1>3. CASE conn.ctx \in Windows
  <2>. DEFINE c == conn.ctx
  <2>1. win[c].used /\ (win[c].page = "site" => win[c].name = conn.name)
    BY <1>3 DEF PageInv, PageIsAsked
  <2>2. CASE status = "OK"
    <3>1. win' = [win EXCEPT ![c].state = "ok"] /\ conn.got
      BY <1>3, <2>1, <2>2 DEF Finish, BrWebDone
    <3>2. win[c].web = conn.name
      BY <1>3, <3>1 DEF PageInv
    <3>. QED
      BY <1>1, <1>3, <2>1, <3>1, <3>2, OverPage DEF PageInv, Shapes, PageIsAsked, WinFields
  <2>3. CASE status # "OK"
    <3>1. win' = [win EXCEPT ![c].state = "err", ![c].web = Nothing]
      BY <1>3, <2>1, <2>3 DEF Finish, BrWebDone
    <3>. QED
      BY <1>1, <1>3, <2>1, <3>1, OverPage DEF PageInv, Shapes, PageIsAsked, WinFields
  <2>. QED
    BY <2>2, <2>3
<1>. QED
  BY <1>2, <1>3

(* The connection goes on: only its progress changes.                       *)
LEMMA SameRequestPage ==
  ASSUME PageInv, DOMAIN conn' = ConnFields, conn'.id = conn.id, conn'.ctx = conn.ctx,
         conn'.name = conn.name, conn'.got = conn.got, UNCHANGED <<win, reqs>>
  PROVE  PageInv'
  BY DEF PageInv, Shapes, PageIsAsked

(* The windows.                                                            *)
LEMMA WindowPage ==
  ASSUME ~LinkDrops, PageInv, NEW w \in Windows,
         \/ Open(w) \/ Close(w)
         \/ \E page \in {"home", "search"} : NavigateLocal(w, page)
         \/ \E site \in Sites : NavigateNoLink(w, site)
         \/ \E site \in Sites, https \in BOOLEAN, server \in Servers :
              Navigate(w, site, https, server)
  PROVE  PageInv'
<1>1. /\ win = [v \in Windows |-> win[v]] /\ \A v \in Windows : DOMAIN win[v] = WinFields
      /\ DOMAIN conn = ConnFields /\ reqs \in Nat
      /\ DOMAIN Home = WinFields /\ DOMAIN Closed = WinFields
  BY DEF PageInv, Shapes, Home, Closed, WinFields
<1>2. CASE Open(w)
  <2>1. win' = [win EXCEPT ![w] = Home] /\ conn' = conn /\ reqs' = reqs /\ conn.ctx # w
    BY <1>2 DEF Open, PageInv, PageIsAsked
  <2>2. Home.page = "home"
    BY DEF Home
  <2>. QED
    BY <1>1, <2>1, <2>2 DEF PageInv, Shapes, PageIsAsked
<1>3. CASE Close(w)
  <2>1. win' = [win EXCEPT ![w] = Closed] /\ reqs' = reqs /\ NsAbort(w)
    BY <1>3 DEF Close
  <2>2. Closed.page = "home"
    BY DEF Home, Closed
  <2>3. CASE conn.ctx = w
    <3>1. conn' = NoConn
      BY <2>1, <2>3, HttpsAssumption DEF NsAbort, PageInv
    <3>. QED
      BY <1>1, <2>1, <2>2, <3>1, OverPage DEF PageInv, PageIsAsked
  <2>4. CASE conn.ctx # w
    <3>1. conn' = conn
      BY <2>1, <2>4 DEF NsAbort
    <3>. QED
      BY <1>1, <2>1, <2>2, <2>4, <3>1 DEF PageInv, Shapes, PageIsAsked
  <2>. QED
    BY <2>3, <2>4
<1>4. ASSUME NEW page \in {"home", "search"}, NavigateLocal(w, page)
      PROVE  PageInv'
  <2>1. /\ conn' = conn /\ reqs' = reqs
        /\ win' = [win EXCEPT ![w].page = page, ![w].name = page,
                              ![w].state = IF page = "home" THEN "idle" ELSE @]
    BY <1>4 DEF NavigateLocal
  <2>2. /\ win' = [v \in Windows |-> win'[v]] /\ \A v \in Windows : DOMAIN win'[v] = WinFields
        /\ win'[w].page # "site" /\ win'[w].used = win[w].used /\ win'[w].web = win[w].web
        /\ \A v \in Windows : v # w => win'[v] = win[v]
    BY <1>1, <2>1 DEF WinFields
  <2>. QED
    BY <1>1, <2>1, <2>2 DEF PageInv, Shapes, PageIsAsked
<1>5. ASSUME NEW site \in Sites, NavigateNoLink(w, site)
      PROVE  PageInv'
  <2>1. /\ conn' = conn /\ reqs' = reqs + 1 /\ conn.id = 0
        /\ win' = [win EXCEPT ![w] = [@ EXCEPT !.page = "site", !.name = site,
                                               !.state = "err", !.web = Nothing]]
    BY <1>5 DEF NavigateNoLink
  <2>2. conn.ctx \notin Windows
    BY <2>1, HttpsAssumption DEF PageInv
  <2>3. /\ win' = [v \in Windows |-> win'[v]] /\ \A v \in Windows : DOMAIN win'[v] = WinFields
        /\ win'[w].state = "err"
        /\ \A v \in Windows : v # w => win'[v] = win[v]
    BY <1>1, <2>1 DEF WinFields
  <2>. QED
    BY <1>1, <2>1, <2>2, <2>3 DEF PageInv, Shapes, PageIsAsked
<1>6. ASSUME NEW site \in Sites, NEW https \in BOOLEAN, NEW server \in Servers, Navigate(w, site, https, server)
      PROVE  PageInv'
  <2>1. /\ conn' = Request(reqs + 1, w, site, https, server) /\ reqs' = reqs + 1
        /\ win' = [win EXCEPT ![w].page = "site", ![w].name = site, ![w].state = "busy"]
        /\ win[w].used
    BY <1>6 DEF Navigate
  <2>2. /\ DOMAIN conn' = ConnFields /\ conn'.id = reqs + 1 /\ conn'.ctx = w
        /\ conn'.name = site /\ conn'.got = FALSE
    <3>1. Fresh(conn', reqs + 1, w, site)
      BY ONLY <2>1, RequestIs, Zenon
    <3>. QED
      BY <3>1 DEF Fresh
  <2>3. /\ win' = [v \in Windows |-> win'[v]] /\ \A v \in Windows : DOMAIN win'[v] = WinFields
        /\ win'[w].state = "busy" /\ win'[w].name = site /\ win'[w].used = win[w].used
        /\ \A v \in Windows : v # w => win'[v] = win[v]
    BY <1>1, <2>1 DEF WinFields
  <2>4. reqs' \in Nat /\ conn'.id # 0
    BY <1>1, <2>1, <2>2
  <2>5. PageIsAsked'
    BY <1>1, <2>1, <2>2, <2>3 DEF PageInv, PageIsAsked
  <2>. QED
    BY <2>2, <2>3, <2>4, <2>5 DEF PageInv, Shapes
<1>. QED
  BY <1>2, <1>3, <1>4, <1>5, <1>6

LEMMA RxPage ==
  ASSUME PageInv, Rx
  PROVE  PageInv'
<1>1. ASSUME NEW status \in {"DNS", "CONN"}, RxRefused(status) PROVE PageInv'
  BY <1>1, FinishPage DEF RxRefused
<1>2. CASE RxSynAck
  <2>1. /\ \/ conn' = [conn EXCEPT !.phase = "tls"]
           \/ conn' = [conn EXCEPT !.phase = "transfer"]
        /\ UNCHANGED <<win, reqs>>
    BY <1>2 DEF RxSynAck
  <2>. QED
    BY <2>1, SameRequestPage DEF PageInv, Shapes, ConnFields
<1>3. ASSUME NEW n \in 1 .. Mss, NEW luck \in Luck, RxRecords(n, luck) PROVE PageInv'
  <2>1. conn' = [conn EXCEPT !.rcv = @ + n] /\ UNCHANGED <<win, reqs>>
    BY <1>3 DEF RxRecords
  <2>. QED
    BY <2>1, SameRequestPage DEF PageInv, Shapes, ConnFields
<1>4. CASE RxTlsFin
  BY <1>4, FinishPage DEF RxTlsFin
<1>5. CASE RxBody
  <2>1. /\ conn' = [conn EXCEPT !.got = TRUE] /\ reqs' = reqs
        /\ win' = IF conn.ctx \in Windows THEN [win EXCEPT ![conn.ctx].web = conn.name] ELSE win
    BY <1>5 DEF RxBody
  <2>2. /\ DOMAIN conn' = ConnFields /\ conn'.id = conn.id /\ conn'.ctx = conn.ctx
        /\ conn'.name = conn.name
    BY <2>1 DEF PageInv, Shapes, ConnFields
  <2>3. /\ win' = [v \in Windows |-> win'[v]] /\ \A v \in Windows : DOMAIN win'[v] = WinFields
        /\ \A v \in Windows :
             /\ win'[v].page = win[v].page /\ win'[v].state = win[v].state
             /\ win'[v].used = win[v].used /\ win'[v].name = win[v].name
             /\ win'[v].web = IF v = conn.ctx THEN conn.name ELSE win[v].web
    BY <2>1 DEF PageInv, Shapes, WinFields
  <2>. QED
    BY <2>1, <2>2, <2>3 DEF PageInv, Shapes, PageIsAsked
<1>6. ASSUME NEW status \in {"OK", "HTTP"}, RxEnd(status) PROVE PageInv'
  BY <1>6, FinishPage DEF RxEnd
<1>. QED
  BY <1>1, <1>2, <1>3, <1>4, <1>5, <1>6 DEF Rx

LEMMA PollPage ==
  ASSUME PageInv, Poll \/ Tick
  PROVE  PageInv'
<1>1. CASE PollDeadline
  BY <1>1, FinishPage DEF PollDeadline
<1>2. ASSUME NEW luck \in Luck, PollTls(luck) PROVE PageInv'
  <2>1. /\ reqs' = reqs
        /\ \/ conn' = [conn EXCEPT !.tls_sent = TRUE] /\ win' = win
           \/ Finish("TLS")
           \/ win' = win /\ conn' = conn
    BY <1>2 DEF PollTls
  <2>2. CASE Finish("TLS")
    BY <2>1, <2>2, FinishPage
  <2>3. CASE win' = win /\ (conn' = [conn EXCEPT !.tls_sent = TRUE] \/ conn' = conn)
    BY <2>1, <2>3, SameRequestPage DEF PageInv, Shapes, ConnFields
  <2>. QED
    BY <2>1, <2>2, <2>3
<1>3. CASE Tick
  <2>1. conn' = [conn EXCEPT !.left = @ - 1] /\ UNCHANGED <<win, reqs>>
    BY <1>3 DEF Tick
  <2>. QED
    BY <2>1, SameRequestPage DEF PageInv, Shapes, ConnFields
<1>. QED
  BY <1>1, <1>2, <1>3 DEF Poll

LEMMA InitPage ==
  ASSUME Init
  PROVE  PageInv
<1>1. /\ win = [w \in Windows |-> Closed]
      /\ \E site \in Sites, server \in Servers :
           \/ conn = Request(1, Boot, site, TRUE, server) /\ reqs = 1
           \/ conn = NoConn /\ reqs = 0
  BY DEF Init
<1>2. DOMAIN Closed = WinFields /\ Closed.page = "home"
  BY DEF Home, Closed, WinFields
<1>3. DOMAIN conn = ConnFields /\ conn.ctx = Boot /\ reqs \in Nat
  <2>1. ASSUME NEW site \in Sites, NEW server \in Servers,
               conn = Request(1, Boot, site, TRUE, server)
        PROVE  DOMAIN conn = ConnFields /\ conn.ctx = Boot
    <3>1. Fresh(conn, 1, Boot, site)
      BY ONLY <2>1, RequestIs, Zenon
    <3>. QED
      BY <3>1 DEF Fresh
  <2>2. 0 \in Nat /\ 1 \in Nat
    OBVIOUS
  <2>. QED
    BY <1>1, <2>1, <2>2, NoConnIs, Zenon
<1>4. Boot \notin Windows
  BY HttpsAssumption
<1>5. win = [w \in Windows |-> win[w]] /\ \A w \in Windows : win[w] = Closed
  BY <1>1
<1>. QED
  BY <1>2, <1>3, <1>4, <1>5 DEF PageInv, Shapes, PageIsAsked

LEMMA NextPage ==
  ASSUME ~LinkDrops, PageInv, [Next]_vars
  PROVE  PageInv'
<1>1. ASSUME NEW w \in Windows,
             \/ Open(w) \/ Close(w)
             \/ \E page \in {"home", "search"} : NavigateLocal(w, page)
             \/ \E site \in Sites : NavigateNoLink(w, site)
             \/ \E site \in Sites, https \in BOOLEAN, server \in Servers :
                  Navigate(w, site, https, server)
      PROVE  PageInv'
  BY <1>1, WindowPage
<1>2. CASE UNCHANGED vars
  BY <1>2, SameRequestPage DEF vars, PageInv, Shapes
<1>. QED
  BY <1>1, <1>2, RxPage, PollPage DEF Next, Alive, Stopped

(* A browser window shows the page it asked for: no response of a window    *)
(* that was closed, opened again or sent elsewhere reaches another page, as *)
(* long as the link does not drop under a running request.                  *)
THEOREM PageCorrect ==
  ASSUME ~LinkDrops
  PROVE  Spec => []PageIsAsked
<1>1. PageInv => PageIsAsked
  BY DEF PageInv
<1>. QED
  BY <1>1, InitPage, NextPage, PTL DEF Spec

----------------------------------------------------------------------------
(* What the client says.  The session of a connection in NS_PH_TLS has said *)
(* its hello, or its flight too, or the request too, and its phase and the   *)
(* connection's tls_sent tell which.                                        *)
TlsFields == {"active", "phase", "left", "rx", "sent", "dead"}
Whole1 == << "hello" >> \o Flight

Stage(t, tls_sent) ==
  \/ t.phase = 1 /\ t.sent = << "hello" >> /\ tls_sent = FALSE
  \/ t.phase = 2 /\ t.sent = Whole1 /\ tls_sent = FALSE
  \/ t.phase = 2 /\ t.sent = Whole1 \o << "request" >> /\ tls_sent = TRUE

FlightInv ==
  /\ DOMAIN conn = ConnFields /\ DOMAIN g_tls = TlsFields
  /\ conn.phase # "tls" => conn.tls_sent = FALSE
  /\ conn.phase = "tls" => Stage(g_tls, conn.tls_sent)

\* t and u differ in what they received.
SameTalk(t, u) ==
  /\ DOMAIN u = TlsFields /\ u.phase = t.phase /\ u.sent = t.sent

LEMMA ServerHelloTalk ==
  ASSUME NEW t, DOMAIN t = TlsFields
  PROVE  LET u == TlsPhaseServerHello(t)
         IN \/ SameTalk(t, u)
            \/ DOMAIN u = TlsFields /\ u.phase = 2 /\ u.sent = t.sent \o Flight
<1>. DEFINE rest == Left(t.rx, Read(t.rx))
            u == [t EXCEPT !.rx = rest]
<1>1. SameTalk(t, u) /\ u.active = t.active
  BY DEF SameTalk, TlsFields
<1>2. SameTalk(t, [t EXCEPT !.active = FALSE])
  BY DEF SameTalk, TlsFields
<1>3. /\ DOMAIN HelloDone(u) = TlsFields /\ HelloDone(u).phase = 2
      /\ HelloDone(u).sent = u.sent \o Flight
  <2>. DEFINE v == Consume(u)
  <2>1. DOMAIN v = TlsFields /\ v.sent = u.sent
    BY <1>1 DEF Consume, SameTalk, TlsFields
  <2>. DEFINE w == [v EXCEPT !.phase = 2]
  <2>2. HelloDone(u) = [w EXCEPT !.sent = w.sent \o Flight]
    BY DEF HelloDone, Sends
  <2>. HIDE DEF v
  <2>3. DOMAIN w = TlsFields /\ w.phase = 2 /\ w.sent = u.sent
    BY <2>1 DEF TlsFields
  <2>. HIDE DEF w, u
  <2>. QED
    BY <2>2, <2>3 DEF TlsFields
<1>4. TlsPhaseServerHello(t) \in {u, [t EXCEPT !.active = FALSE], HelloDone(u)}
  BY DEF TlsPhaseServerHello
<1>5. u.sent = t.sent
  BY <1>1 DEF SameTalk
<1>. HIDE DEF u
<1>. QED
  BY <1>1, <1>2, <1>3, <1>4, <1>5

LEMMA AppTalk ==
  ASSUME NEW t, DOMAIN t = TlsFields, NEW luck
  PROVE  SameTalk(t, TlsPhaseApp(t, luck))
<1>. DEFINE rest == Left(t.rx, Skipped(t.rx, luck))
            u == [t EXCEPT !.rx = rest]
<1>1. SameTalk(t, u)
  BY DEF SameTalk, TlsFields
<1>2. SameTalk(t, [u EXCEPT !.rx = << >>]) /\ SameTalk(t, [u EXCEPT !.dead = TRUE])
  <2>. HIDE DEF u
  <2>. QED
    BY <1>1 DEF SameTalk, TlsFields
<1>3. TlsPhaseApp(t, luck) \in {u, [u EXCEPT !.rx = << >>], [u EXCEPT !.dead = TRUE]}
  BY DEF TlsPhaseApp
<1>. HIDE DEF u
<1>. QED
  BY <1>1, <1>2, <1>3

LEMMA PollStage ==
  ASSUME NEW t, DOMAIN t = TlsFields, NEW luck, NEW tls_sent, Stage(t, tls_sent)
  PROVE  /\ DOMAIN TlsPoll(t, luck) = TlsFields
         /\ Stage(TlsPoll(t, luck), tls_sent)
<1>. DEFINE v == TlsPoll(t, luck)
            u == TlsPhaseServerHello(t)
<1>. SUFFICES DOMAIN v = TlsFields /\ Stage(v, tls_sent)
  OBVIOUS
<1>1. \/ SameTalk(t, v)
      \/ t.phase # 2 /\ SameTalk(u, v) /\ u.phase = 2
      \/ t.phase # 2 /\ v = u /\ u.phase # 2
  <2>1. DOMAIN u = TlsFields
    BY ServerHelloTalk DEF SameTalk
  <2>2. SameTalk(t, t) /\ SameTalk(t, [t EXCEPT !.active = FALSE])
    BY DEF SameTalk, TlsFields
  <2>3. SameTalk(t, TlsPhaseApp(t, luck)) /\ SameTalk(u, TlsPhaseApp(u, luck))
    BY <2>1, AppTalk
  <2>4. \/ v = t \/ v = [t EXCEPT !.active = FALSE] \/ v = TlsPhaseApp(t, luck)
        \/ t.phase # 2 /\ u.phase = 2 /\ v = TlsPhaseApp(u, luck)
        \/ t.phase # 2 /\ u.phase # 2 /\ v = u
    BY DEF TlsPoll
  <2>. HIDE DEF u, v
  <2>. QED
    BY <2>2, <2>3, <2>4
<1>2. \/ SameTalk(t, u)
      \/ DOMAIN u = TlsFields /\ u.phase = 2 /\ u.sent = t.sent \o Flight
  BY ServerHelloTalk
<1>. HIDE DEF u, v
<1>3. CASE SameTalk(t, v)
  BY <1>3 DEF SameTalk, Stage
<1>4. CASE t.phase # 2 /\ SameTalk(u, v) /\ u.phase = 2
  <2>1. t.phase = 1 /\ t.sent = << "hello" >> /\ tls_sent = FALSE
    BY <1>4 DEF Stage
  <2>2. u.sent = Whole1
    BY <1>2, <1>4, <2>1 DEF SameTalk, Whole1
  <2>3. DOMAIN v = TlsFields /\ v.phase = 2 /\ v.sent = Whole1
    BY <1>4, <2>2 DEF SameTalk
  <2>. QED
    BY <2>1, <2>3 DEF Stage
<1>5. CASE t.phase # 2 /\ v = u /\ u.phase # 2
  BY <1>2, <1>5 DEF SameTalk, Stage
<1>. QED
  BY <1>1, <1>3, <1>4, <1>5

LEMMA FeedTalk ==
  ASSUME NEW t, DOMAIN t = TlsFields, NEW data
  PROVE  SameTalk(t, TlsFeed(t, data))
<1>1. SameTalk(t, t)
  BY DEF SameTalk
<1>2. \A rx : SameTalk(t, [t EXCEPT !.rx = rx])
  BY DEF SameTalk, TlsFields
<1>3. \E rx : TlsFeed(t, data) \in {t, [t EXCEPT !.rx = rx]}
  BY DEF TlsFeed
<1>. QED
  BY <1>1, <1>2, <1>3

LEMMA ConnectTalk ==
  /\ DOMAIN TlsConnect = TlsFields /\ TlsConnect.phase = 1 /\ TlsConnect.sent = << "hello" >>
<1>. DEFINE t == [NoTls EXCEPT !.active = TRUE, !.phase = 1, !.left = TlsTimeout]
<1>1. TlsConnect = [t EXCEPT !.sent = t.sent \o << "hello" >>]
  BY DEF TlsConnect, Sends
<1>2. DOMAIN t = TlsFields /\ t.phase = 1 /\ t.sent = << >>
  BY DEF NoTls, TlsFields
<1>3. << >> \o << "hello" >> = << "hello" >>
  OBVIOUS
<1>. HIDE DEF t
<1>. QED
  BY <1>1, <1>2, <1>3 DEF TlsFields

LEMMA RequestTalk ==
  ASSUME NEW t, DOMAIN t = TlsFields
  PROVE  LET u == TlsSendAppData(t)
         IN DOMAIN u = TlsFields /\ u.phase = t.phase /\ u.sent = t.sent \o << "request" >>
  BY DEF TlsSendAppData, Sends, TlsFields

(* A step that leaves the session alone and the connection out of it.       *)
LEMMA OutFlight ==
  ASSUME FlightInv, g_tls' = g_tls, DOMAIN conn' = ConnFields,
         \/ conn'.phase # "tls" /\ conn'.tls_sent = FALSE
         \/ conn'.phase = conn.phase /\ conn'.tls_sent = conn.tls_sent
  PROVE  FlightInv'
  BY DEF FlightInv, Stage

LEMMA FinishFlight ==
  ASSUME FlightInv, NEW status, Finish(status), DOMAIN g_tls' = TlsFields
  PROVE  FlightInv'
  BY NoConnIs DEF Finish, FlightInv

LEMMA WindowFlight ==
  ASSUME FlightInv, NEW w \in Windows,
         \/ Open(w) \/ Close(w)
         \/ \E page \in {"home", "search"} : NavigateLocal(w, page)
         \/ \E site \in Sites : NavigateNoLink(w, site)
         \/ \E site \in Sites, https \in BOOLEAN, server \in Servers :
              Navigate(w, site, https, server)
  PROVE  FlightInv'
<1>1. CASE \/ Open(w) \/ \E page \in {"home", "search"} : NavigateLocal(w, page)
           \/ \E site \in Sites : NavigateNoLink(w, site)
  BY <1>1, OutFlight DEF Open, NavigateLocal, NavigateNoLink, FlightInv
<1>2. CASE Close(w)
  <2>1. g_tls' = g_tls /\ conn' \in {conn, NoConn}
    BY <1>2 DEF Close, NsAbort
  <2>. QED
    BY <2>1, OutFlight, NoConnIs DEF FlightInv
<1>3. ASSUME NEW site \in Sites, NEW https \in BOOLEAN, NEW server \in Servers,
             Navigate(w, site, https, server)
      PROVE  FlightInv'
  <2>1. conn' = Request(reqs + 1, w, site, https, server) /\ g_tls' = g_tls
    BY <1>3 DEF Navigate
  <2>2. Fresh(conn', reqs + 1, w, site)
    BY ONLY <2>1, RequestIs, Zenon
  <2>. QED
    BY <2>1, <2>2, OutFlight DEF Fresh
<1>. QED
  BY <1>1, <1>2, <1>3

LEMMA RxFlight ==
  ASSUME FlightInv, Rx
  PROVE  FlightInv'
<1>0. DOMAIN conn = ConnFields /\ DOMAIN g_tls = TlsFields
  BY DEF FlightInv
<1>1. CASE \/ \E status \in {"DNS", "CONN"} : RxRefused(status)
           \/ RxTlsFin \/ \E status \in {"OK", "HTTP"} : RxEnd(status)
  BY <1>0, <1>1, FinishFlight DEF RxRefused, RxTlsFin, RxEnd
<1>2. CASE RxSynAck
  <2>1. /\ conn.phase = "open" /\ conn.tls_sent = FALSE
        /\ \/ conn' = [conn EXCEPT !.phase = "tls"] /\ g_tls' = TlsConnect
           \/ conn' = [conn EXCEPT !.phase = "transfer"] /\ g_tls' = g_tls
    BY <1>2 DEF RxSynAck, FlightInv
  <2>2. /\ DOMAIN conn' = ConnFields /\ conn'.phase \in {"tls", "transfer"}
        /\ conn'.tls_sent = FALSE
        /\ conn'.phase = "tls" => g_tls' = TlsConnect
        /\ DOMAIN g_tls' = TlsFields
    BY <1>0, <2>1, ConnectTalk DEF ConnFields
  <2>. QED
    BY <2>2, ConnectTalk DEF FlightInv, Stage
<1>3. ASSUME NEW n \in 1 .. Mss, NEW luck \in Luck, RxRecords(n, luck)
      PROVE  FlightInv'
  <2>. DEFINE t == TlsFeed(g_tls, SubSeq(Stream, conn.rcv + 1, conn.rcv + n))
  <2>1. g_tls' = TlsPoll(t, luck) /\ conn.phase = "tls" /\ conn' = [conn EXCEPT !.rcv = @ + n]
    BY <1>3 DEF RxRecords
  <2>2. SameTalk(g_tls, t)
    BY <1>0, FeedTalk
  <2>. HIDE DEF t
  <2>3. DOMAIN t = TlsFields /\ Stage(t, conn.tls_sent)
    BY <2>1, <2>2 DEF FlightInv, SameTalk, Stage
  <2>4. DOMAIN g_tls' = TlsFields /\ Stage(g_tls', conn.tls_sent)
    BY <2>1, <2>3, PollStage
  <2>5. DOMAIN conn' = ConnFields /\ conn'.phase = "tls" /\ conn'.tls_sent = conn.tls_sent
    BY <1>0, <2>1 DEF ConnFields
  <2>. QED
    BY <2>4, <2>5 DEF FlightInv
<1>4. CASE RxBody
  <2>1. conn' = [conn EXCEPT !.got = TRUE] /\ g_tls' = g_tls
    BY <1>4 DEF RxBody
  <2>. QED
    BY <1>0, <2>1, OutFlight DEF ConnFields
<1>. QED
  BY <1>1, <1>2, <1>3, <1>4 DEF Rx

LEMMA PollFlight ==
  ASSUME FlightInv, Poll \/ Tick
  PROVE  FlightInv'
<1>0. DOMAIN conn = ConnFields /\ DOMAIN g_tls = TlsFields
  BY DEF FlightInv
<1>1. CASE PollDeadline
  BY <1>0, <1>1, FinishFlight DEF PollDeadline
<1>2. ASSUME NEW luck \in Luck, PollTls(luck) PROVE FlightInv'
  <2>. DEFINE t == TlsPoll(g_tls, luck)
  <2>1. /\ conn.phase = "tls" /\ ~conn.tls_sent
        /\ \/ /\ RequestDue(t) /\ g_tls' = TlsSendAppData(t)
              /\ conn' = [conn EXCEPT !.tls_sent = TRUE]
           \/ g_tls' = t /\ Finish("TLS")
           \/ g_tls' = t /\ conn' = conn
    BY <1>2 DEF PollTls
  <2>2. Stage(g_tls, conn.tls_sent)
    BY <2>1 DEF FlightInv
  <2>3. DOMAIN t = TlsFields /\ Stage(t, conn.tls_sent)
    BY <1>0, <2>2, PollStage
  <2>. HIDE DEF t
  <2>4. CASE /\ RequestDue(t) /\ g_tls' = TlsSendAppData(t)
             /\ conn' = [conn EXCEPT !.tls_sent = TRUE]
    <3>1. t.phase = 2 /\ t.sent = Whole1
      BY <2>1, <2>3, <2>4 DEF RequestDue, TlsIsEstablished, Stage
    <3>2. DOMAIN g_tls' = TlsFields /\ g_tls'.phase = 2 /\ g_tls'.sent = Whole1 \o << "request" >>
      BY <2>3, <2>4, <3>1, RequestTalk
    <3>3. DOMAIN conn' = ConnFields /\ conn'.phase = "tls" /\ conn'.tls_sent = TRUE
      BY <1>0, <2>1, <2>4 DEF ConnFields
    <3>. QED
      BY <3>2, <3>3 DEF FlightInv, Stage
  <2>5. CASE g_tls' = t /\ Finish("TLS")
    BY <2>3, <2>5, FinishFlight
  <2>6. CASE g_tls' = t /\ conn' = conn
    BY <1>0, <2>1, <2>3, <2>6 DEF FlightInv
  <2>. QED
    BY <2>1, <2>4, <2>5, <2>6
<1>3. CASE Tick
  <2>1. /\ conn' = [conn EXCEPT !.left = @ - 1]
        /\ \E n : g_tls' = [g_tls EXCEPT !.left = n]
    BY <1>3 DEF Tick
  <2>2. /\ DOMAIN g_tls' = TlsFields /\ g_tls'.phase = g_tls.phase /\ g_tls'.sent = g_tls.sent
        /\ DOMAIN conn' = ConnFields /\ conn'.phase = conn.phase /\ conn'.tls_sent = conn.tls_sent
    BY <1>0, <2>1 DEF TlsFields, ConnFields
  <2>. QED
    BY <2>2 DEF FlightInv, Stage
<1>. QED
  BY <1>1, <1>2, <1>3 DEF Poll

LEMMA InitFlight ==
  ASSUME Init
  PROVE  FlightInv
<1>1. ASSUME NEW site \in Sites, NEW server \in Servers,
             conn = Request(1, Boot, site, TRUE, server)
      PROVE  DOMAIN conn = ConnFields /\ conn.phase = "open" /\ conn.tls_sent = FALSE
  <2>1. Fresh(conn, 1, Boot, site)
    BY ONLY <1>1, RequestIs, Zenon
  <2>. QED
    BY <2>1 DEF Fresh
<1>2. /\ g_tls = NoTls
      /\ \E site \in Sites, server \in Servers :
           conn = Request(1, Boot, site, TRUE, server) \/ conn = NoConn
  BY DEF Init
<1>3. DOMAIN conn = ConnFields /\ conn.phase # "tls" /\ conn.tls_sent = FALSE
  <2>1. "open" # "tls" /\ "none" # "tls"
    OBVIOUS
  <2>. QED
    BY <1>1, <1>2, <2>1, NoConnIs, Zenon
<1>4. DOMAIN g_tls = TlsFields
  BY <1>2 DEF NoTls, TlsFields
<1>. QED
  BY <1>3, <1>4 DEF FlightInv

LEMMA NextFlight ==
  ASSUME FlightInv, [Next]_vars
  PROVE  FlightInv'
<1>1. CASE UNCHANGED vars
  BY <1>1 DEF vars, FlightInv
<1>. QED
  BY <1>1, WindowFlight, RxFlight, PollFlight DEF Next, Alive, Stopped

LEMMA TalkIs ==
  /\ Len(Flight) = 3
  /\ Whole1 = << "hello", "key_exchange", "change_cipher", "finished" >>
  /\ Whole1 \o << "request" >>
       = << "hello", "key_exchange", "change_cipher", "finished", "request" >>
<1>. DEFINE h == << "hello" >>
            four == << "hello", "key_exchange", "change_cipher", "finished" >>
            r == << "request" >>
            five == << "hello", "key_exchange", "change_cipher", "finished", "request" >>
<1>. DEFINE M == {"hello", "key_exchange", "change_cipher", "finished", "request"}
<1>1. /\ Flight \in Seq(M) /\ Len(Flight) = 3
      /\ Flight[1] = "key_exchange"
      /\ Flight[2] = "change_cipher"
      /\ Flight[3] = "finished"
  <2>1. Flight \in Seq(M)
    BY DEF Flight
  <2>2. Len(Flight) = 3
    BY DEF Flight
  <2>3. Flight[1] = "key_exchange"
    BY DEF Flight
  <2>4. Flight[2] = "change_cipher"
    BY DEF Flight
  <2>5. Flight[3] = "finished"
    BY DEF Flight
  <2>. QED
    BY <2>1, <2>2, <2>3, <2>4, <2>5
<1>2. /\ h \in Seq(M) /\ Len(h) = 1
      /\ h[1] = "hello"
  <2>1. h \in Seq(M)
    OBVIOUS
  <2>2. Len(h) = 1
    OBVIOUS
  <2>3. h[1] = "hello"
    OBVIOUS
  <2>. QED
    BY <2>1, <2>2, <2>3
<1>3. /\ r \in Seq(M) /\ Len(r) = 1
      /\ r[1] = "request"
  <2>1. r \in Seq(M)
    OBVIOUS
  <2>2. Len(r) = 1
    OBVIOUS
  <2>3. r[1] = "request"
    OBVIOUS
  <2>. QED
    BY <2>1, <2>2, <2>3
<1>4. /\ four \in Seq(M) /\ Len(four) = 4
      /\ four[1] = "hello"
      /\ four[2] = "key_exchange"
      /\ four[3] = "change_cipher"
      /\ four[4] = "finished"
  <2>1. four \in Seq(M)
    OBVIOUS
  <2>2. Len(four) = 4
    OBVIOUS
  <2>3. four[1] = "hello"
    OBVIOUS
  <2>4. four[2] = "key_exchange"
    OBVIOUS
  <2>5. four[3] = "change_cipher"
    OBVIOUS
  <2>6. four[4] = "finished"
    OBVIOUS
  <2>. QED
    BY <2>1, <2>2, <2>3, <2>4, <2>5, <2>6
<1>5. /\ five \in Seq(M) /\ Len(five) = 5
      /\ five[1] = "hello"
      /\ five[2] = "key_exchange"
      /\ five[3] = "change_cipher"
      /\ five[4] = "finished"
      /\ five[5] = "request"
  <2>1. five \in Seq(M)
    OBVIOUS
  <2>2. Len(five) = 5
    OBVIOUS
  <2>3. five[1] = "hello"
    OBVIOUS
  <2>4. five[2] = "key_exchange"
    OBVIOUS
  <2>5. five[3] = "change_cipher"
    OBVIOUS
  <2>6. five[4] = "finished"
    OBVIOUS
  <2>7. five[5] = "request"
    OBVIOUS
  <2>. QED
    BY <2>1, <2>2, <2>3, <2>4, <2>5, <2>6, <2>7
<1>. HIDE DEF h, four, r, five, M
<1>6. h \o Flight = four
  <2>1. /\ h \o Flight \in Seq(M) /\ Len(h \o Flight) = 4
        /\ \A i \in 1 .. 4 : (h \o Flight)[i] = IF i <= 1 THEN h[i] ELSE Flight[i - 1]
    <3>1. /\ h \o Flight \in Seq(M) /\ Len(h \o Flight) = Len(h) + Len(Flight)
          /\ \A i \in 1 .. Len(h) + Len(Flight) :
               (h \o Flight)[i] = IF i <= Len(h) THEN h[i] ELSE Flight[i - Len(h)]
      BY <1>1, <1>2, ConcatProperties, Zenon
    <3>2. Len(h) = 1 /\ Len(Flight) = 3
      BY <1>1, <1>2
    <3>. QED
      BY ONLY <3>1, <3>2
  <2>2. \A i \in 1 .. 4 : (h \o Flight)[i] = four[i]
    <3>1. \A i \in 1 .. 4 : i = 1 \/ i = 2 \/ i = 3 \/ i = 4
      OBVIOUS
    <3>. QED
      BY <1>1, <1>2, <1>4, <2>1, <3>1
  <2>. QED
    BY <1>4, <2>1, <2>2, SeqEqual
<1>7. four \o r = five
  <2>1. /\ four \o r \in Seq(M) /\ Len(four \o r) = 5
        /\ \A i \in 1 .. 5 : (four \o r)[i] = IF i <= 4 THEN four[i] ELSE r[i - 4]
    <3>1. /\ four \o r \in Seq(M) /\ Len(four \o r) = Len(four) + Len(r)
          /\ \A i \in 1 .. Len(four) + Len(r) :
               (four \o r)[i] = IF i <= Len(four) THEN four[i] ELSE r[i - Len(four)]
      BY <1>3, <1>4, ConcatProperties, Zenon
    <3>2. Len(four) = 4 /\ Len(r) = 1
      BY <1>3, <1>4
    <3>. QED
      BY ONLY <3>1, <3>2
  <2>2. \A i \in 1 .. 5 : (four \o r)[i] = five[i]
    <3>1. \A i \in 1 .. 5 : i = 1 \/ i = 2 \/ i = 3 \/ i = 4 \/ i = 5
      OBVIOUS
    <3>. QED
      BY <1>3, <1>4, <1>5, <2>1, <3>1
  <2>. QED
    BY <1>5, <2>1, <2>2, SeqEqual
<1>8. Whole1 = four
  BY <1>6, Zenon DEF Whole1, h
<1>9. Whole1 \o r = five
  BY <1>7, <1>8, Zenon
<1>. QED
  BY <1>1, <1>8, <1>9, Zenon DEF h, four, r, five

LEMMA StagesInOrder ==
  ASSUME NEW t, NEW tls_sent \in BOOLEAN, Stage(t, tls_sent)
  PROVE  /\ IsPrefix(t.sent, << "hello" >> \o Flight \o << "request" >>)
         /\ tls_sent <=> Len(t.sent) = Len(Flight) + 2
<1>. DEFINE one == << "hello" >>
            four == << "hello", "key_exchange", "change_cipher", "finished" >>
            all == << "hello", "key_exchange", "change_cipher", "finished", "request" >>
<1>1. /\ << "hello" >> \o Flight \o << "request" >> = all /\ Len(Flight) = 3
      /\ Whole1 = four /\ Whole1 \o << "request" >> = all
  BY TalkIs, Zenon DEF Whole1
<1>2. IsPrefix(one, all) /\ Len(one) = 1
  <2>1. Len(one) = 1
    OBVIOUS
  <2>2. IsPrefix(one, all)
    BY DEF IsPrefix
  <2>. QED
    BY <2>1, <2>2
<1>3. IsPrefix(four, all) /\ Len(four) = 4
  <2>1. Len(four) = 4
    OBVIOUS
  <2>2. IsPrefix(four, all)
    BY DEF IsPrefix
  <2>. QED
    BY <2>1, <2>2
<1>4. IsPrefix(all, all) /\ Len(all) = 5
  <2>1. Len(all) = 5
    OBVIOUS
  <2>2. IsPrefix(all, all)
    BY DEF IsPrefix
  <2>. QED
    BY <2>1, <2>2
<1>5. /\ tls_sent => t.sent = Whole1 \o << "request" >>
      /\ ~tls_sent => t.sent = << "hello" >> \/ t.sent = Whole1
  BY DEF Stage
<1>6. /\ tls_sent => t.sent = all
      /\ ~tls_sent => t.sent = one \/ t.sent = four
  BY <1>1, <1>5, Zenon
<1>. HIDE DEF all, one, four
<1>7. IsPrefix(t.sent, all) /\ (tls_sent <=> Len(t.sent) = 5)
  BY <1>2, <1>3, <1>4, <1>6
<1>8. Len(Flight) + 2 = 5
  BY <1>1
<1>. QED
  BY <1>1, <1>7, <1>8, Zenon

(* The hello, one flight and one request, each once and in this order, in   *)
(* every session, whatever the server says and whenever ns_poll runs.       *)
THEOREM FlightCorrect == Spec => []FlightInOrder
<1>1. FlightInv => FlightInOrder
  <2>1. ASSUME FlightInv, conn.phase = "tls" PROVE conn.tls_sent \in BOOLEAN
    BY <2>1 DEF FlightInv, Stage
  <2>. QED
    BY <2>1, StagesInOrder DEF FlightInv, FlightInOrder
<1>. QED
  BY <1>1, InitFlight, NextFlight, PTL DEF Spec

----------------------------------------------------------------------------
(* How records are read.  The first part is about sequences of units, the   *)
(* second about the session.                                                *)

(* Induction on the natural numbers, for a set: a least counterexample.     *)
LEMMA LeastNat ==
  ASSUME NEW T \in SUBSET Nat, T # {}
  PROVE  \E m \in T : \A k \in T : m <= k
<1>. DEFINE Below(n) == 0 .. (n - 1)
            B == {Below(n) : n \in T}
<1>1. \A n \in Nat : IsFiniteSet(Below(n)) /\ Below(n) \in SUBSET Nat
  BY FS_Interval
<1>2. B \subseteq FiniteSubsetsOf(Nat) /\ B # {}
  BY <1>1 DEF FiniteSubsetsOf
<1>3. \E x \in B : \A y \in B : ~(<<y, x>> \in StrictSubsetOrdering(Nat))
  BY <1>2, FS_StrictSubsetOrderingWellFounded, WFMin
<1>4. PICK m \in T : \A k \in T : ~(<<Below(k), Below(m)>> \in StrictSubsetOrdering(Nat))
  BY <1>3
<1>5. ASSUME NEW k \in T, k < m PROVE FALSE
  <2>1. Below(k) \subseteq Below(m) /\ k \in Below(m) /\ k \notin Below(k)
    BY <1>5
  <2>2. Below(k) \in SUBSET Nat /\ Below(m) \in SUBSET Nat
    OBVIOUS
  <2>3. <<Below(k), Below(m)>> \in StrictSubsetOrdering(Nat)
    BY <2>1, <2>2, Zenon DEF StrictSubsetOrdering
  <2>. QED
    BY <2>3, <1>4
<1>. QED
  BY <1>5

LEMMA SetInduction ==
  ASSUME NEW P \in SUBSET Nat, 0 \in P, \A n \in P : n + 1 \in P
  PROVE  P = Nat
<1>1. SUFFICES ASSUME Nat \ P # {} PROVE FALSE
  OBVIOUS
<1>2. PICK m \in Nat \ P : \A k \in Nat \ P : m <= k
  BY <1>1, LeastNat
<1>3. m # 0 /\ m - 1 \in Nat
  BY <1>2
<1>4. m - 1 \in P
  BY <1>2, <1>3
<1>5. (m - 1) + 1 \in P
  BY <1>4
<1>. QED
  BY <1>2, <1>5

(* The loop over the records is well defined: it goes up, and stops at the  *)
(* end of rx if not before.                                                 *)
Walks(at, rx, passed) ==
  at = [k \in Nat |-> IF k \in passed THEN at[k + RecordLen(rx[k])] ELSE k]

UnitSet == [kind : STRING, len : Nat, after : Nat, pos : Nat]

LEMMA WalkExists ==
  ASSUME NEW rx \in Seq(UnitSet), NEW passed, passed \subseteq DOMAIN rx
  PROVE  \E at : Walks(at, rx, passed)
<1>. DEFINE N == Len(rx) + 1
            Next1(f, k) == IF k \in passed THEN f[k + RecordLen(rx[k])] ELSE k
            From(f, m) == \A k \in Nat : k >= N - m => f[k] = Next1(f, k)
            P == {m \in Nat : \E f \in [Nat -> Nat] : From(f, m)}
<1>1. N \in Nat /\ N >= 1
  OBVIOUS
<1>2. ASSUME NEW k \in passed
      PROVE  k \in Nat /\ k <= N - 1 /\ rx[k].len \in Nat /\ k + RecordLen(rx[k]) \in Nat
             /\ k + RecordLen(rx[k]) > k
  <2>1. k \in 1 .. Len(rx) /\ rx[k] \in UnitSet
    OBVIOUS
  <2>2. rx[k].len \in Nat
    BY <2>1 DEF UnitSet
  <2>. QED
    BY <2>1, <2>2 DEF RecordLen
<1>. HIDE DEF N
<1>3. 0 \in P
  <2>. DEFINE id == [k \in Nat |-> k]
  <2>1. id \in [Nat -> Nat] /\ From(id, 0)
    BY <1>2, <1>1
  <2>. QED
    BY <2>1
<1>4. ASSUME NEW m \in P PROVE m + 1 \in P
  <2>1. m \in Nat /\ m + 1 \in Nat
    OBVIOUS
  <2>2. PICK f \in [Nat -> Nat] : From(f, m)
    OBVIOUS
  <2>. DEFINE d == N - (m + 1)
              g == [k \in Nat |-> IF k = d THEN Next1(f, k) ELSE f[k]]
  <2>3. \A k \in passed : k + RecordLen(rx[k]) \in Nat /\ k + RecordLen(rx[k]) > k
    BY <1>2
  <2>4. g \in [Nat -> Nat]
    BY <2>3
  <2>5. ASSUME NEW k \in Nat, k >= d PROVE g[k] = Next1(g, k)
    <3>1. CASE k \in passed
      <4>. DEFINE j == k + RecordLen(rx[k])
      <4>1. j \in Nat /\ j > k
        BY <2>3, <3>1
      <4>. HIDE DEF j
      <4>2. j # d /\ d \in Int
        BY <1>1, <2>1, <2>5, <4>1
      <4>3. g[j] = f[j]
        BY <4>1, <4>2
      <4>4. g[k] = f[j]
        <5>1. CASE k = d
          BY <3>1, <5>1 DEF j
        <5>2. CASE k # d
          <6>1. k >= N - m
            BY <1>1, <2>1, <2>5, <5>2
          <6>. QED
            BY <2>2, <3>1, <5>2, <6>1 DEF j
        <5>. QED
          BY <5>1, <5>2
      <4>. QED
        BY <3>1, <4>3, <4>4 DEF j
    <3>2. CASE k \notin passed
      BY <1>1, <2>1, <2>2, <2>5, <3>2
    <3>. QED
      BY <3>1, <3>2
  <2>6. From(g, m + 1)
    BY <2>5
  <2>. QED
    BY <2>1, <2>4, <2>6
<1>5. P = Nat
  <2>1. P \in SUBSET Nat
    OBVIOUS
  <2>. HIDE DEF P
  <2>. QED
    BY <1>3, <1>4, <2>1, SetInduction
<1>6. PICK f \in [Nat -> Nat] : From(f, N)
  BY <1>1, <1>5
<1>7. \A k \in Nat : f[k] = Next1(f, k)
  BY <1>1, <1>6
<1>8. f = [k \in Nat |-> Next1(f, k)]
  BY <1>7
<1>. QED
  BY <1>8 DEF Walks

LEMMA LeftIs ==
  ASSUME NEW rx \in Seq(UnitSet), NEW passed, passed \subseteq DOMAIN rx
  PROVE  \E at : Walks(at, rx, passed) /\ Left(rx, passed) = SubSeq(rx, at[1], Len(rx))
<1>. DEFINE at == CHOOSE f : Walks(f, rx, passed)
<1>1. Walks(at, rx, passed)
  BY WalkExists
<1>2. Left(rx, passed) = SubSeq(rx, at[1], Len(rx))
  BY DEF Left, Walks
<1>. QED
  BY <1>1, <1>2
(* Where a record may begin: q units of S come before it.                   *)
Start(S, q) == q \in 0 .. Len(S) /\ (q < Len(S) => S[q + 1].pos = 0)

LEMMA InRecord ==
  ASSUME NEW S \in Seq(UnitSet), Framed(S), NEW p \in DOMAIN S, S[p].pos = 0,
         NEW i \in Nat, i <= S[p].len, p + i <= Len(S)
  PROVE  S[p + i].pos = i /\ S[p + i].len = S[p].len
<1>. DEFINE len == S[p].len
            Q == {n \in Nat : n <= len /\ p + n <= Len(S)
                                => S[p + n].pos = n /\ S[p + n].len = len}
<1>1. len \in Nat /\ p \in Nat /\ p >= 1
  <2>1. S[p] \in UnitSet /\ p \in 1 .. Len(S)
    OBVIOUS
  <2>. QED
    BY <2>1 DEF UnitSet
<1>2. 0 \in Q
  BY <1>1
<1>3. ASSUME NEW n \in Q PROVE n + 1 \in Q
  <2>1. SUFFICES ASSUME n + 1 <= len, p + (n + 1) <= Len(S)
                 PROVE  S[p + (n + 1)].pos = n + 1 /\ S[p + (n + 1)].len = len
    OBVIOUS
  <2>. DEFINE k == p + n
  <2>2. n \in Nat /\ k \in 1 .. Len(S) - 1 /\ p + (n + 1) = k + 1
    BY <1>1, <2>1
  <2>3. S[k].pos = n /\ S[k].len = len
    <3>1. n <= len /\ k <= Len(S)
      BY <1>1, <2>1, <2>2
    <3>. QED
      BY <1>3, <3>1
  <2>. HIDE DEF len, k
  <2>4. n < len
    BY <1>1, <2>1, <2>2
  <2>5. \/ S[k].pos = S[k].len /\ S[k + 1].pos = 0
        \/ S[k].pos < S[k].len /\ S[k + 1] = [S[k] EXCEPT !.pos = @ + 1]
    BY <2>2 DEF Framed
  <2>6. S[k + 1] = [S[k] EXCEPT !.pos = @ + 1]
    BY <1>1, <2>2, <2>3, <2>4, <2>5
  <2>7. S[k] \in UnitSet
    BY <2>2
  <2>8. S[k + 1].pos = S[k].pos + 1 /\ S[k + 1].len = S[k].len
    BY <2>6, <2>7 DEF UnitSet
  <2>. QED
    BY <2>2, <2>3, <2>8
<1>4. Q = Nat
  <2>1. Q \in SUBSET Nat
    OBVIOUS
  <2>. HIDE DEF Q
  <2>. QED
    BY <1>2, <1>3, <2>1, SetInduction
<1>5. i \in Q
  BY <1>4
<1>. QED
  BY <1>5

LEMMA RecordEnds ==
  ASSUME NEW S \in Seq(UnitSet), Framed(S), NEW p \in DOMAIN S, S[p].pos = 0,
         p + S[p].len <= Len(S)
  PROVE  Start(S, p + S[p].len)
<1>. DEFINE q == p + S[p].len
<1>1. S[p].len \in Nat /\ p \in Nat /\ p >= 1
  <2>1. S[p] \in UnitSet /\ p \in 1 .. Len(S)
    OBVIOUS
  <2>. QED
    BY <2>1 DEF UnitSet
<1>2. S[q].pos = S[p].len /\ S[q].len = S[p].len
  <2>. DEFINE n == S[p].len
  <2>1. n \in Nat /\ n <= n /\ n <= S[p].len /\ p + n <= Len(S)
    BY <1>1
  <2>2. S[p + n].pos = n /\ S[p + n].len = S[p].len
    BY ONLY S \in Seq(UnitSet), Framed(S), p \in DOMAIN S, S[p].pos = 0, <2>1, InRecord
  <2>. QED
    BY <2>2
<1>3. q \in 1 .. Len(S)
  BY <1>1
<1>. HIDE DEF q
<1>4. ASSUME q < Len(S) PROVE S[q + 1].pos = 0
  <2>1. q \in 1 .. Len(S) - 1
    BY <1>3, <1>4
  <2>2. \/ S[q].pos = S[q].len /\ S[q + 1].pos = 0
        \/ S[q].pos < S[q].len
    BY <2>1 DEF Framed
  <2>. QED
    BY <1>1, <1>2, <2>2
<1>5. Start(S, q)
  BY <1>3, <1>4 DEF Start
<1>. QED
  BY <1>5 DEF q

(* A loop that goes past whole records stops where a record may begin.      *)
LEMMA WalkStops ==
  ASSUME NEW S \in Seq(UnitSet), Framed(S), NEW b \in Nat, NEW e \in Nat, b <= e,
         e <= Len(S), Start(S, b), NEW rx, rx = SubSeq(S, b + 1, e), NEW passed,
         \A k \in passed : Header(rx, k) /\ Whole(rx, k),
         NEW at, Walks(at, rx, passed)
  PROVE  at[1] \in 1 .. Len(rx) + 1 /\ at[1] \notin passed /\ Start(S, b + at[1] - 1)
<1>. DEFINE L == e - b
            Good(k) == k \in 1 .. L + 1 /\ k \notin passed /\ Start(S, b + k - 1)
            Q == {m \in Nat : \A k \in 1 .. L + 1 :
                    L + 1 - k <= m /\ Start(S, b + k - 1) => Good(at[k])}
<1>1. /\ L \in Nat /\ rx \in Seq(UnitSet) /\ Len(rx) = L
      /\ \A k \in 1 .. L : rx[k] = S[b + k] /\ b + k \in DOMAIN S
  OBVIOUS
<1>. HIDE DEF L
<1>2. \A k \in passed : /\ k \in 1 .. L /\ rx[k].pos = 0 /\ rx[k].len \in Nat
                        /\ k + rx[k].len <= L
  <2>1. SUFFICES ASSUME NEW k \in passed
                 PROVE  /\ k \in 1 .. L /\ rx[k].pos = 0 /\ rx[k].len \in Nat
                        /\ k + rx[k].len <= L
    OBVIOUS
  <2>2. k \in 1 .. L /\ rx[k].pos = 0 /\ k + RecordLen(rx[k]) - 1 <= L
    <3>1. Header(rx, k) /\ Whole(rx, k)
      OBVIOUS
    <3>2. DOMAIN rx = 1 .. L
      BY <1>1
    <3>. QED
      BY <1>1, <3>1, <3>2 DEF Header, Whole
  <2>3. rx[k] \in UnitSet
    BY <1>1, <2>2
  <2>4. rx[k].len \in Nat
    BY <2>3 DEF UnitSet
  <2>5. k + (rx[k].len + 1) - 1 <= L
    BY <2>2 DEF RecordLen
  <2>6. k + rx[k].len <= L
    BY <1>1, <2>2, <2>4, <2>5
  <2>. QED
    BY <2>2, <2>4, <2>6
<1>3. \A k \in Nat : at[k] = IF k \in passed THEN at[k + RecordLen(rx[k])] ELSE k
  BY DEF Walks
<1>4. ASSUME NEW k \in 1 .. L + 1, k \notin passed, Start(S, b + k - 1) PROVE Good(at[k])
  <2>1. k \in Nat
    BY <1>1
  <2>2. at[k] = k
    BY <1>3, <1>4, <2>1
  <2>3. Good(k)
    BY <1>4
  <2>. HIDE DEF Good
  <2>. QED
    BY <2>2, <2>3
<1>5. 0 \in Q
  <2>1. ASSUME NEW k \in 1 .. L + 1, L + 1 - k <= 0 PROVE k \notin passed
    BY <1>1, <1>2, <2>1
  <2>. QED
    BY <1>4, <2>1
<1>6. ASSUME NEW m \in Q PROVE m + 1 \in Q
  <2>1. SUFFICES ASSUME NEW k \in 1 .. L + 1, L + 1 - k <= m + 1, Start(S, b + k - 1)
                 PROVE  Good(at[k])
    OBVIOUS
  <2>2. CASE k \notin passed
    BY <1>4, <2>1, <2>2
  <2>3. CASE k \in passed
    <3>. DEFINE p == b + k
                n == S[p].len
                j == k + RecordLen(rx[k])
    <3>1. p \in DOMAIN S /\ S[p] = rx[k] /\ n \in Nat /\ S[p].pos = 0 /\ k + n <= L
      BY <1>1, <1>2, <2>3
    <3>2. p + n <= Len(S)
      <4>1. b + L = e /\ k \in Nat /\ Len(S) \in Nat
        BY DEF L
      <4>2. k + n <= L /\ p = b + k /\ n \in Nat
        BY <3>1
      <4>. HIDE DEF p, n
      <4>. QED
        BY <1>1, <4>1, <4>2
    <3>3. Start(S, p + n)
      BY <3>1, <3>2, RecordEnds
    <3>4. j = k + (n + 1) /\ at[k] = at[j]
      <4>1. RecordLen(rx[k]) = n + 1
        BY <3>1 DEF RecordLen
      <4>2. at[k] = at[j]
        <5>1. k \in Nat
          BY <1>1
        <5>. QED
          BY <1>3, <2>3, <5>1
      <4>. QED
        BY <4>1, <4>2
    <3>5. j \in 1 .. L + 1 /\ b + j - 1 = p + n /\ L + 1 - j <= m
      <4>1. k \in Nat /\ k >= 1 /\ n \in Nat /\ k + n <= L /\ p = b + k /\ m \in Nat
        <5>1. k \in Nat /\ k >= 1 /\ m \in Nat
          BY <1>1
        <5>. QED
          BY <3>1, <5>1
      <4>2. j = k + (n + 1) /\ L + 1 - k <= m + 1
        BY <2>1, <3>4
      <4>. HIDE DEF p, n, j
      <4>. QED
        BY ONLY <1>1, <4>1, <4>2, b \in Nat
    <3>. HIDE DEF p, n, j
    <3>6. Good(at[j])
      BY <3>3, <3>5, <1>6
    <3>. QED
      BY <3>4, <3>6
  <2>. QED
    BY <2>2, <2>3
<1>7. Q = Nat
  <2>1. Q \in SUBSET Nat
    OBVIOUS
  <2>. HIDE DEF Q
  <2>. QED
    BY <1>5, <1>6, <2>1, SetInduction
<1>8. Good(at[1])
  <2>1. 1 \in 1 .. L + 1 /\ L + 1 - 1 <= L /\ b + 1 - 1 = b
    BY <1>1
  <2>2. L \in Q
    BY <1>1, <1>7
  <2>3. L + 1 - 1 <= L /\ Start(S, b + 1 - 1)
    BY <2>1
  <2>. QED
    BY <2>1, <2>2, <2>3
<1>. QED
  BY <1>1, <1>8
LEMMA TailOfPiece ==
  ASSUME NEW U, NEW S \in Seq(U), NEW b \in Nat, NEW e \in Nat, b <= e, e <= Len(S),
         NEW j \in 1 .. e - b + 1
  PROVE  /\ Len(SubSeq(S, b + 1, e)) = e - b
         /\ SubSeq(SubSeq(S, b + 1, e), j, e - b) = SubSeq(S, b + j, e)
         /\ Len(SubSeq(S, b + j, e)) = e - b - j + 1
         /\ j <= e - b => /\ SubSeq(S, b + j, e)[1] = S[b + j]
                          /\ SubSeq(S, b + 1, e)[j] = S[b + j]
<1>. DEFINE rx == SubSeq(S, b + 1, e)
            rest == SubSeq(S, b + j, e)
<1>1. rx \in Seq(U) /\ Len(rx) = e - b /\ \A i \in 1 .. e - b : rx[i] = S[b + i]
  OBVIOUS
<1>2. /\ rest \in Seq(U) /\ Len(rest) = e - b - j + 1
      /\ \A i \in 1 .. e - b - j + 1 : rest[i] = S[b + j + i - 1]
  OBVIOUS
<1>. HIDE DEF rest, rx
<1>3. SubSeq(rx, j, e - b) = rest
  <2>. DEFINE q == SubSeq(rx, j, e - b)
  <2>1. /\ q \in Seq(U) /\ Len(q) = e - b - j + 1
        /\ \A i \in 1 .. e - b - j + 1 : q[i] = rx[j + i - 1]
    BY <1>1
  <2>. HIDE DEF q
  <2>2. ASSUME NEW i \in 1 .. e - b - j + 1 PROVE q[i] = rest[i]
    <3>1. j + i - 1 \in 1 .. e - b /\ b + (j + i - 1) = b + j + i - 1
      OBVIOUS
    <3>2. rx[j + i - 1] = S[b + (j + i - 1)]
      BY <1>1, <3>1
    <3>3. rest[i] = S[b + j + i - 1]
      BY <1>2
    <3>4. q[i] = rx[j + i - 1]
      BY <2>1
    <3>. QED
      BY <3>1, <3>2, <3>3, <3>4
  <2>3. q = rest
    BY <1>2, <2>1, <2>2, SeqEqual
  <2>. QED
    BY <2>3 DEF q
<1>4. ASSUME j <= e - b PROVE rest[1] = S[b + j] /\ rx[j] = S[b + j]
  <2>1. 1 \in 1 .. e - b - j + 1 /\ j \in 1 .. e - b /\ b + j + 1 - 1 = b + j
    BY <1>4
  <2>. QED
    BY <1>1, <1>2, <2>1
<1>. QED
  BY <1>1, <1>2, <1>3, <1>4 DEF rx, rest

(* A segment more fits in rx_buf, or all that is left of the stream does.   *)
Room(S, b, e) == e - b + Mss <= RxCap \/ Len(S) - b <= RxCap

\* rx is what was received since unit b, at which a record begins.
Since(S, rx, b, e) ==
  /\ b \in Nat /\ e \in Nat /\ b <= e /\ e <= Len(S)
  /\ rx = SubSeq(S, b + 1, e) /\ Start(S, b)

Behind(S, rx, e) == \E b : Since(S, rx, b, e) /\ Room(S, b, e)

LEMMA FeedSince ==
  ASSUME NEW S \in Seq(UnitSet), NEW t, DOMAIN t = TlsFields, t.active, t.phase = 1,
         NEW e, Behind(S, t.rx, e), NEW n \in 1 .. Mss, e + n <= Len(S)
  PROVE  \E b, rx : /\ TlsFeed(t, SubSeq(S, e + 1, e + n)) = [t EXCEPT !.rx = rx]
                    /\ Since(S, rx, b, e + n)
<1>1. PICK b : Since(S, t.rx, b, e) /\ Room(S, b, e)
  BY DEF Behind
<1>2. b \in Nat /\ e \in Nat /\ b <= e /\ e <= Len(S) /\ t.rx = SubSeq(S, b + 1, e)
      /\ Start(S, b)
  BY <1>1 DEF Since
<1>. DEFINE data == SubSeq(S, e + 1, e + n)
            rx == SubSeq(S, b + 1, e + n)
<1>3. n \in Nat /\ Mss \in Nat /\ RxCap \in Nat /\ Len(S) \in Nat /\ n <= Mss
  BY HttpsAssumption, TlsAssumption
<1>4. Len(t.rx) = e - b /\ Len(data) = n
  BY <1>2, <1>3
<1>5. t.rx \o data = rx
  <2>. DEFINE m == b + 1
              q == e + n
  <2>1. m \in 1 .. Len(S) + 1 /\ e \in m - 1 .. Len(S) /\ q \in e .. Len(S)
    BY <1>2, <1>3
  <2>. HIDE DEF m, q
  <2>2. SubSeq(S, m, e) \o SubSeq(S, e + 1, q) = SubSeq(S, m, q)
    BY <2>1, ConcatAdjacentSubSeq, Zenon
  <2>. QED
    BY <1>2, <2>2 DEF m, q
<1>6. ~(n > RxCap - (e - b))
  BY <1>1, <1>2, <1>3 DEF Room
<1>. HIDE DEF data
<1>7. TlsFeed(t, data) = [t EXCEPT !.rx = t.rx \o data]
  <2>1. ~(Len(data) > RxCap - Len(t.rx))
    BY <1>4, <1>6
  <2>. QED
    BY <2>1 DEF TlsFeed
<1>8. Since(S, rx, b, e + n)
  BY <1>2, <1>3 DEF Since
<1>. QED
  BY <1>5, <1>7, <1>8 DEF data
LEMMA HelloBehind ==
  ASSUME RoomForRecords, NEW server \in Servers, NEW t, DOMAIN t = TlsFields,
         t.phase = 1, NEW b, NEW e, Since(Says[server], t.rx, b, e), NEW luck,
         TlsPoll(t, luck).active, TlsPoll(t, luck).phase = 1
  PROVE  Behind(Says[server], TlsPoll(t, luck).rx, e)
<1>. DEFINE S == Says[server]
            v == TlsPoll(t, luck)
            h == TlsPhaseServerHello(t)
            L == Len(t.rx)
            rest == Left(t.rx, Read(t.rx))
            u == [t EXCEPT !.rx = rest]
<1>1. S \in Seq(UnitSet) /\ Framed(S)
  BY HttpsAssumption DEF UnitSet
<1>2. /\ b \in Nat /\ e \in Nat /\ b <= e /\ e <= Len(S) /\ t.rx = SubSeq(S, b + 1, e)
      /\ Start(S, b)
  BY DEF Since
<1>3. v = h /\ h.phase # 2
  <2>1. DOMAIN h = TlsFields
    BY ServerHelloTalk DEF SameTalk
  <2>2. TlsPhaseApp(h, luck).phase = h.phase
    BY <2>1, AppTalk DEF SameTalk
  <2>3. ~[t EXCEPT !.active = FALSE].active
    BY DEF TlsFields
  <2>4. \/ ~t.active /\ v = t
        \/ v = [t EXCEPT !.active = FALSE]
        \/ h.phase = 2 /\ v = TlsPhaseApp(h, luck)
        \/ h.phase # 2 /\ v = h
    BY DEF TlsPoll
  <2>5. v.active /\ v.phase = 1
    OBVIOUS
  <2>. HIDE DEF h, v
  <2>6. v # [t EXCEPT !.active = FALSE] /\ ~(~t.active /\ v = t)
    BY ONLY <2>3, <2>5, Zenon
  <2>7. ~(h.phase = 2 /\ v = TlsPhaseApp(h, luck))
    BY ONLY <2>2, <2>5
  <2>. QED
    BY ONLY <2>4, <2>6, <2>7
<1>4. /\ v = u
      /\ \/ ~Header(u.rx, 1)
         \/ /\ u.rx[1].kind # "alert"
            /\ ~(u.rx[1].kind = "done" /\ Whole(u.rx, 1))
  <2>1. ~[t EXCEPT !.active = FALSE].active
    BY DEF TlsFields
  <2>2. HelloDone(u).phase = 2
    <3>. DEFINE d == Consume(u)
                w == [d EXCEPT !.phase = 2]
    <3>1. DOMAIN d = TlsFields
      BY DEF Consume, TlsFields
    <3>2. HelloDone(u) = [w EXCEPT !.sent = w.sent \o Flight]
      BY DEF HelloDone, Sends
    <3>. HIDE DEF d
    <3>3. DOMAIN w = TlsFields /\ w.phase = 2
      BY <3>1 DEF TlsFields
    <3>. HIDE DEF w
    <3>. QED
      BY <3>2, <3>3 DEF TlsFields
  <2>3. v.active
    OBVIOUS
  <2>4. \/ ~Header(u.rx, 1) /\ h = u
        \/ h = [t EXCEPT !.active = FALSE]
        \/ u.rx[1].kind = "done" /\ Whole(u.rx, 1) /\ h = HelloDone(u)
        \/ /\ u.rx[1].kind # "alert" /\ ~(u.rx[1].kind = "done" /\ Whole(u.rx, 1))
           /\ h = u
    BY DEF TlsPhaseServerHello
  <2>. HIDE DEF h, v, u
  <2>5. h # [t EXCEPT !.active = FALSE]
    BY ONLY <1>3, <2>1, <2>3, Zenon
  <2>6. h # HelloDone(u)
    BY ONLY <1>3, <2>2, Zenon
  <2>. QED
    BY ONLY <1>3, <2>4, <2>5, <2>6
<1>5. u.rx = rest
  BY DEF TlsFields
<1>6. Read(t.rx) \subseteq DOMAIN t.rx /\ \A k \in Read(t.rx) : Header(t.rx, k) /\ Whole(t.rx, k)
  BY DEF Read
<1>7. t.rx \in Seq(UnitSet) /\ L = e - b
  BY <1>1, <1>2
<1>8. PICK at : Walks(at, t.rx, Read(t.rx)) /\ rest = SubSeq(t.rx, at[1], L)
  BY <1>6, <1>7, LeftIs
<1>. DEFINE j == at[1]
            c == b + j - 1
<1>. HIDE DEF S, v, h, u, rest
<1>9. j \in 1 .. L + 1 /\ j \notin Read(t.rx) /\ Start(S, c)
  BY <1>1, <1>2, <1>6, <1>8, WalkStops
<1>. HIDE DEF j
<1>10. /\ c \in Nat /\ c <= e /\ b + j = c + 1 /\ e - c = L - j + 1
       /\ rest = SubSeq(S, c + 1, e) /\ Len(rest) = e - c
       /\ c < e => rest[1] = S[c + 1] /\ t.rx[j] = S[c + 1] /\ j \in DOMAIN t.rx
  <2>1. j \in Nat /\ j >= 1 /\ j <= L + 1 /\ L = e - b
    BY <1>2, <1>7, <1>9
  <2>2. c \in Nat /\ c <= e /\ b + j = c + 1 /\ e - c = L - j + 1 /\ e - b - j + 1 = e - c
    BY ONLY <1>2, <2>1
  <2>3. j \in 1 .. e - b + 1 /\ e - b = L
    BY ONLY <1>2, <2>1
  <2>4. rest = SubSeq(SubSeq(S, b + 1, e), j, e - b)
    BY <1>2, <1>8, <2>3 DEF j
  <2>5. /\ rest = SubSeq(S, b + j, e) /\ Len(SubSeq(S, b + j, e)) = e - b - j + 1
        /\ j <= e - b => /\ SubSeq(S, b + j, e)[1] = S[b + j]
                         /\ SubSeq(S, b + 1, e)[j] = S[b + j]
    BY <1>1, <1>2, <2>3, <2>4, TailOfPiece
  <2>6. ASSUME c < e PROVE j <= e - b /\ j \in DOMAIN t.rx
    <3>1. j <= e - b /\ j \in 1 .. L
      BY ONLY <1>2, <2>1, <2>2, <2>6
    <3>2. DOMAIN t.rx = 1 .. L
      BY <1>7
    <3>. QED
      BY <3>1, <3>2
  <2>. HIDE DEF c
  <2>. QED
    BY <1>2, <2>2, <2>5, <2>6
<1>11. Since(S, rest, c, e)
  BY <1>2, <1>9, <1>10 DEF Since
<1>12. Room(S, c, e)
  <2>1. Mss <= RxCap /\ Mss \in Nat /\ RxCap \in Nat /\ Len(S) \in Nat
    BY <1>1, HttpsAssumption, TlsAssumption DEF RoomForRecords
  <2>2. CASE c = e
    BY <1>2, <2>1, <2>2 DEF Room
  <2>3. CASE c < e
    <3>. DEFINE p == c + 1
    <3>1. p \in DOMAIN S /\ S[p].pos = 0
      BY <1>1, <1>2, <1>9, <1>10, <2>1, <2>3 DEF Start
    <3>2. \/ S[p].kind = "alert"
          \/ S[p].kind \in Handshake \ Rejected /\ S[p].len + Mss <= RxCap
          \/ Len(S) - p + 1 <= RxCap
      BY <3>1 DEF RoomForRecords, S
    <3>3. /\ rest[1] = S[p] /\ t.rx[j] = S[p] /\ j \in DOMAIN t.rx /\ S[p].len \in Nat
          /\ Len(rest) = e - c /\ 1 \in DOMAIN rest
      <4>1. S[p] \in UnitSet
        BY <1>1, <3>1
      <4>2. rest \in Seq(UnitSet)
        BY <1>1, <1>2, <1>10
      <4>. HIDE DEF c
      <4>3. S[p].len \in Nat
        BY <4>1 DEF UnitSet
      <4>4. Len(rest) = e - c /\ 1 <= e - c
        BY <1>2, <1>10, <2>3
      <4>5. 1 \in DOMAIN rest
        BY <1>2, <1>10, <4>2, <4>4
      <4>. QED
        BY <1>10, <2>3, <4>3, <4>4, <4>5
    <3>. HIDE DEF p
    <3>4. CASE Len(S) - p + 1 <= RxCap
      BY <1>10, <2>1, <3>4 DEF Room, p
    <3>5. CASE S[p].kind \in Handshake \ Rejected /\ S[p].len + Mss <= RxCap
      <4>1. ~Whole(t.rx, j) \/ S[p].kind = "done"
        BY <1>9, <3>1, <3>3, <3>5 DEF Read, Header
      <4>2. Header(rest, 1)
        BY <3>1, <3>3 DEF Header
      <4>3. S[p].kind = "done" => ~Whole(rest, 1)
        BY <1>4, <1>5, <3>3, <4>2
      <4>4. ~(j + (S[p].len + 1) - 1 <= L) \/ ~(1 + (S[p].len + 1) - 1 <= e - c)
        BY <3>3, <4>1, <4>3 DEF Whole, RecordLen
      <4>5. j \in Nat /\ c \in Nat /\ e \in Nat /\ L \in Nat /\ e - c = L - j + 1
        BY <1>2, <1>7, <1>9, <1>10
      <4>. HIDE DEF c, L
      <4>6. e - c <= S[p].len
        BY <3>3, <4>4, <4>5
      <4>7. e - c + Mss <= RxCap
        <5>. DEFINE n == S[p].len
        <5>1. n \in Nat /\ e - c <= n /\ n + Mss <= RxCap
          BY <3>3, <3>5, <4>6
        <5>. HIDE DEF n
        <5>. QED
          BY ONLY <2>1, <4>5, <5>1
      <4>. QED
        BY <4>7 DEF Room
    <3>6. S[p].kind # "alert"
      BY <1>4, <1>5, <3>1, <3>3 DEF Header
    <3>. QED
      BY <3>2, <3>4, <3>5, <3>6
  <2>. QED
    BY <1>2, <1>10, <2>2, <2>3
<1>. QED
  BY <1>4, <1>5, <1>11, <1>12 DEF Behind, v, S
AlignInv ==
  /\ FlightInv
  /\ conn.phase = "open" => conn.rcv = 0 /\ (conn.tls => conn.server \in Servers)
  /\ conn.phase = "tls" /\ g_tls.active /\ g_tls.phase = 1 =>
       conn.server \in Servers /\ Behind(Stream, g_tls.rx, conn.rcv)

\* A request that was just made.
Made(r, https, server) ==
  r.phase = "open" /\ r.rcv = 0 /\ r.tls = https /\ (https => r.server = server)

LEMMA RequestMade ==
  ASSUME NEW id, NEW ctx, NEW name, NEW https \in BOOLEAN, NEW server
  PROVE  Made(Request(id, ctx, name, https, server), https, server)
  BY DEF Made, Request, NoConn

LEMMA ConnectRx == TlsConnect.rx = << >>
<1>. DEFINE t == [NoTls EXCEPT !.active = TRUE, !.phase = 1, !.left = TlsTimeout]
<1>1. TlsConnect = [t EXCEPT !.sent = t.sent \o << "hello" >>]
  BY DEF TlsConnect, Sends
<1>2. DOMAIN t = TlsFields /\ t.rx = << >>
  BY DEF NoTls, TlsFields
<1>. HIDE DEF t
<1>. QED
  BY <1>1, <1>2 DEF TlsFields

\* A step that leaves the session and the received stream alone.
LEMMA OutAlign ==
  ASSUME AlignInv, FlightInv', g_tls' = g_tls,
         \/ conn'.phase \notin {"open", "tls"}
         \/ conn'.phase = "open" /\ conn'.rcv = 0 /\ (conn'.tls => conn'.server \in Servers)
         \/ /\ conn'.phase = conn.phase /\ conn'.rcv = conn.rcv /\ conn'.tls = conn.tls
            /\ conn'.server = conn.server
  PROVE  AlignInv'
<1>. QED
  BY DEF AlignInv, Stream

LEMMA OverAlign ==
  ASSUME FlightInv', conn' = NoConn
  PROVE  AlignInv'
  BY NoConnIs DEF AlignInv

LEMMA WindowAlign ==
  ASSUME AlignInv, FlightInv', NEW w \in Windows,
         \/ Open(w) \/ Close(w)
         \/ \E page \in {"home", "search"} : NavigateLocal(w, page)
         \/ \E site \in Sites : NavigateNoLink(w, site)
         \/ \E site \in Sites, https \in BOOLEAN, server \in Servers :
              Navigate(w, site, https, server)
  PROVE  AlignInv'
<1>1. CASE \/ Open(w) \/ \E page \in {"home", "search"} : NavigateLocal(w, page)
           \/ \E site \in Sites : NavigateNoLink(w, site)
  <2>1. conn' = conn /\ g_tls' = g_tls
    BY <1>1 DEF Open, NavigateLocal, NavigateNoLink
  <2>. QED
    BY <2>1, OutAlign
<1>2. CASE Close(w)
  <2>1. g_tls' = g_tls /\ conn' \in {conn, NoConn}
    BY <1>2 DEF Close, NsAbort
  <2>. QED
    BY <2>1, OutAlign, OverAlign
<1>3. ASSUME NEW site \in Sites, NEW https \in BOOLEAN, NEW server \in Servers,
             Navigate(w, site, https, server)
      PROVE  AlignInv'
  <2>1. conn' = Request(reqs + 1, w, site, https, server) /\ g_tls' = g_tls
    BY <1>3 DEF Navigate
  <2>2. Made(conn', https, server)
    BY ONLY <2>1, https \in BOOLEAN, RequestMade, Zenon
  <2>. QED
    BY <2>1, <2>2, OutAlign DEF Made
<1>. QED
  BY <1>1, <1>2, <1>3

(* What a call of tls_poll leaves of a session in its first phase that was  *)
(* aligned when it began.                                                   *)
LEMMA PolledAlign ==
  ASSUME RoomForRecords, FlightInv', conn.phase = "tls",
         conn'.phase = "tls", conn'.server = conn.server,
         NEW t, DOMAIN t = TlsFields,
         t.phase = 1 /\ t.active =>
           conn.server \in Servers /\ \E b : Since(Stream, t.rx, b, conn'.rcv),
         t.phase = 1 \/ t.phase = 2, NEW luck,
         g_tls' = TlsPoll(t, luck)
  PROVE  AlignInv'
<1>1. SUFFICES ASSUME g_tls'.active, g_tls'.phase = 1
               PROVE  conn'.server \in Servers /\ Behind(Stream', g_tls'.rx, conn'.rcv)
  BY DEF AlignInv
<1>2. t.active /\ t.phase = 1
  <2>. DEFINE v == TlsPoll(t, luck)
              h == TlsPhaseServerHello(t)
  <2>1. ~[t EXCEPT !.active = FALSE].active
    BY DEF TlsFields
  <2>2. TlsPhaseApp(t, luck).phase = t.phase
    BY AppTalk DEF SameTalk
  <2>3. \/ ~t.active /\ v = t
        \/ v = [t EXCEPT !.active = FALSE]
        \/ t.phase = 2 /\ v = TlsPhaseApp(t, luck)
        \/ t.active /\ t.phase # 2
    BY DEF TlsPoll
  <2>. HIDE DEF h
  <2>4. v.active /\ v.phase = 1
    BY <1>1
  <2>. HIDE DEF v
  <2>5. v # [t EXCEPT !.active = FALSE] /\ ~(~t.active /\ v = t)
    BY ONLY <2>1, <2>4, Zenon
  <2>6. ~(t.phase = 2 /\ v = TlsPhaseApp(t, luck))
    BY ONLY <2>2, <2>4
  <2>. QED
    BY ONLY <2>3, <2>5, <2>6, t.phase = 1 \/ t.phase = 2
<1>3. PICK b : Since(Says[conn.server], t.rx, b, conn'.rcv)
  BY <1>2 DEF Stream
<1>4. conn.server \in Servers /\ TlsPoll(t, luck).active /\ TlsPoll(t, luck).phase = 1
  BY <1>1, <1>2
<1>5. Behind(Says[conn.server], TlsPoll(t, luck).rx, conn'.rcv)
  BY ONLY RoomForRecords, DOMAIN t = TlsFields, <1>2, <1>3, <1>4, HelloBehind
<1>. QED
  BY <1>4, <1>5 DEF Stream

LEMMA RxAlign ==
  ASSUME RoomForRecords, AlignInv, FlightInv', Rx
  PROVE  AlignInv'
<1>0. DOMAIN conn = ConnFields /\ DOMAIN g_tls = TlsFields
  BY DEF AlignInv, FlightInv
<1>1. CASE \/ \E status \in {"DNS", "CONN"} : RxRefused(status)
           \/ RxTlsFin \/ \E status \in {"OK", "HTTP"} : RxEnd(status)
  <2>1. conn' = NoConn
    BY <1>1 DEF RxRefused, RxTlsFin, RxEnd, Finish
  <2>. QED
    BY <2>1, OverAlign
<1>2. CASE RxSynAck
  <2>1. /\ conn.phase = "open" /\ conn.rcv = 0 /\ (conn.tls => conn.server \in Servers)
        /\ \/ conn.tls /\ conn' = [conn EXCEPT !.phase = "tls"] /\ g_tls' = TlsConnect
           \/ ~conn.tls /\ conn' = [conn EXCEPT !.phase = "transfer"] /\ g_tls' = g_tls
    BY <1>2 DEF RxSynAck, AlignInv
  <2>2. CASE ~conn.tls /\ conn' = [conn EXCEPT !.phase = "transfer"] /\ g_tls' = g_tls
    <3>1. conn'.phase = "transfer"
      BY <1>0, <2>2 DEF ConnFields
    <3>. QED
      BY <2>2, <3>1, OutAlign
  <2>3. CASE conn.tls /\ conn' = [conn EXCEPT !.phase = "tls"] /\ g_tls' = TlsConnect
    <3>1. /\ conn'.phase = "tls" /\ conn'.rcv = 0 /\ conn'.server = conn.server
          /\ conn.server \in Servers
      BY <1>0, <2>1, <2>3 DEF ConnFields
    <3>2. g_tls'.rx = << >>
      BY <2>3, ConnectRx
    <3>. DEFINE S == Says[conn.server]
    <3>3. S \in Seq(UnitSet) /\ Framed(S)
      BY <3>1, HttpsAssumption DEF UnitSet
    <3>. HIDE DEF S
    <3>4. SubSeq(S, 0 + 1, 0) = << >>
      BY <3>3
    <3>5. Start(S, 0)
      <4>1. Len(S) \in Nat
        BY <3>3
      <4>2. 0 < Len(S) => S # << >>
        BY <3>3
      <4>. QED
        BY <3>3, <4>1, <4>2 DEF Start, Framed
    <3>6. Since(S, << >>, 0, 0)
      BY <3>3, <3>4, <3>5 DEF Since
    <3>7. Room(S, 0, 0)
      BY HttpsAssumption, TlsAssumption DEF Room, RoomForRecords
    <3>8. Behind(S, g_tls'.rx, conn'.rcv)
      BY <3>1, <3>2, <3>6, <3>7 DEF Behind
    <3>. QED
      BY <3>1, <3>8 DEF AlignInv, Stream, S
  <2>. QED
    BY <2>1, <2>2, <2>3
<1>3. ASSUME NEW n \in 1 .. Mss, NEW luck \in Luck, RxRecords(n, luck)
      PROVE  AlignInv'
  <2>. DEFINE t == TlsFeed(g_tls, SubSeq(Stream, conn.rcv + 1, conn.rcv + n))
  <2>1. /\ g_tls' = TlsPoll(t, luck) /\ conn.phase = "tls"
        /\ conn' = [conn EXCEPT !.rcv = conn.rcv + n] /\ conn.rcv + n <= Len(Stream)
    BY <1>3 DEF RxRecords, Said
  <2>2. SameTalk(g_tls, t)
    BY <1>0, FeedTalk
  <2>3. g_tls.phase = 1 \/ g_tls.phase = 2
    BY <2>1 DEF AlignInv, FlightInv, Stage
  <2>4. t.active => g_tls.active
    <3>1. \A rx : [g_tls EXCEPT !.rx = rx].active = g_tls.active
      BY <1>0 DEF TlsFields
    <3>2. \E rx : t \in {g_tls, [g_tls EXCEPT !.rx = rx]}
      BY DEF TlsFeed
    <3>. QED
      BY <3>1, <3>2
  <2>5. /\ conn'.phase = "tls" /\ conn'.server = conn.server /\ conn'.rcv = conn.rcv + n
    BY <1>0, <2>1 DEF ConnFields
  <2>6. ASSUME g_tls.phase = 1, g_tls.active
        PROVE  conn.server \in Servers /\ \E b : Since(Stream, t.rx, b, conn.rcv + n)
    <3>1. conn.server \in Servers /\ Behind(Stream, g_tls.rx, conn.rcv)
      BY <2>1, <2>6 DEF AlignInv
    <3>2. Stream \in Seq(UnitSet)
      BY <3>1, HttpsAssumption DEF Stream, UnitSet
    <3>3. PICK b, rx : /\ t = [g_tls EXCEPT !.rx = rx]
                       /\ Since(Stream, rx, b, conn.rcv + n)
      BY <1>0, <2>1, <2>6, <3>1, <3>2, FeedSince
    <3>4. t.rx = rx
      BY <1>0, <3>3 DEF TlsFields
    <3>. QED
      BY <3>1, <3>3, <3>4
  <2>. HIDE DEF t
  <2>7. DOMAIN t = TlsFields /\ t.phase = g_tls.phase
    BY <2>2 DEF SameTalk
  <2>8. t.phase = 1 /\ t.active =>
          conn.server \in Servers /\ \E b : Since(Stream, t.rx, b, conn'.rcv)
    BY <2>4, <2>5, <2>6, <2>7
  <2>. QED
    BY <2>1, <2>3, <2>5, <2>7, <2>8, PolledAlign
<1>4. CASE RxBody
  <2>1. conn' = [conn EXCEPT !.got = TRUE] /\ g_tls' = g_tls
    BY <1>4 DEF RxBody
  <2>2. /\ conn'.phase = conn.phase /\ conn'.rcv = conn.rcv /\ conn'.tls = conn.tls
        /\ conn'.server = conn.server
    BY <1>0, <2>1 DEF ConnFields
  <2>. QED
    BY <2>1, <2>2, OutAlign
<1>. QED
  BY <1>1, <1>2, <1>3, <1>4 DEF Rx

LEMMA PollAlign ==
  ASSUME RoomForRecords, AlignInv, FlightInv', Poll \/ Tick
  PROVE  AlignInv'
<1>0. DOMAIN conn = ConnFields /\ DOMAIN g_tls = TlsFields
  BY DEF AlignInv, FlightInv
<1>1. CASE PollDeadline
  <2>1. conn' = NoConn
    BY <1>1 DEF PollDeadline, Finish
  <2>. QED
    BY <2>1, OverAlign
<1>2. ASSUME NEW luck \in Luck, PollTls(luck) PROVE AlignInv'
  <2>. DEFINE t == TlsPoll(g_tls, luck)
  <2>1. /\ conn.phase = "tls"
        /\ \/ /\ RequestDue(t) /\ g_tls' = TlsSendAppData(t)
              /\ conn' = [conn EXCEPT !.tls_sent = TRUE]
           \/ g_tls' = t /\ conn' = NoConn
           \/ g_tls' = t /\ conn' = conn
    BY <1>2 DEF PollTls, Finish
  <2>2. Stage(g_tls, conn.tls_sent)
    BY <2>1 DEF AlignInv, FlightInv
  <2>3. DOMAIN t = TlsFields
    BY <1>0, <2>2, PollStage
  <2>4. CASE g_tls' = t /\ conn' = conn
    <3>1. g_tls.phase = 1 \/ g_tls.phase = 2
      BY <2>2 DEF Stage
    <3>2. g_tls.phase = 1 /\ g_tls.active =>
            conn.server \in Servers /\ \E b : Since(Stream, g_tls.rx, b, conn'.rcv)
      BY <2>1, <2>4 DEF AlignInv, Behind
    <3>. QED
      BY <1>0, <2>1, <2>4, <3>1, <3>2, PolledAlign
  <2>. HIDE DEF t
  <2>5. CASE /\ RequestDue(t) /\ g_tls' = TlsSendAppData(t)
             /\ conn' = [conn EXCEPT !.tls_sent = TRUE]
    <3>1. t.phase = 2
      BY <2>5 DEF RequestDue, TlsIsEstablished
    <3>2. g_tls'.phase = 2
      BY <2>3, <2>5, <3>1, RequestTalk
    <3>3. conn'.phase = "tls"
      BY <1>0, <2>1, <2>5 DEF ConnFields
    <3>. QED
      BY <3>2, <3>3 DEF AlignInv
  <2>6. CASE conn' = NoConn
    BY <2>6, OverAlign
  <2>. QED
    BY <2>1, <2>4, <2>5, <2>6
<1>3. CASE Tick
  <2>1. /\ conn' = [conn EXCEPT !.left = @ - 1]
        /\ \E n : g_tls' = [g_tls EXCEPT !.left = n]
    BY <1>3 DEF Tick
  <2>2. /\ g_tls'.phase = g_tls.phase /\ g_tls'.active = g_tls.active /\ g_tls'.rx = g_tls.rx
        /\ conn'.phase = conn.phase /\ conn'.rcv = conn.rcv /\ conn'.tls = conn.tls
        /\ conn'.server = conn.server
    BY <1>0, <2>1 DEF TlsFields, ConnFields
  <2>. QED
    BY <2>2 DEF AlignInv, Stream
<1>. QED
  BY <1>1, <1>2, <1>3 DEF Poll

LEMMA InitAlign ==
  ASSUME Init
  PROVE  AlignInv
<1>1. FlightInv
  BY InitFlight
<1>2. ASSUME NEW site \in Sites, NEW server \in Servers,
             conn = Request(1, Boot, site, TRUE, server)
      PROVE  conn.phase = "open" /\ conn.rcv = 0 /\ conn.server \in Servers
  <2>1. TRUE \in BOOLEAN
    OBVIOUS
  <2>2. Made(conn, TRUE, server)
    BY ONLY <1>2, <2>1, RequestMade, Zenon
  <2>. QED
    BY <2>2 DEF Made
<1>3. \E site \in Sites, server \in Servers :
        conn = Request(1, Boot, site, TRUE, server) \/ conn = NoConn
  BY DEF Init
<1>4. \/ conn.phase = "open" /\ conn.rcv = 0 /\ conn.server \in Servers
      \/ conn.phase = "none"
  BY <1>2, <1>3, NoConnIs
<1>. QED
  BY <1>1, <1>4 DEF AlignInv

LEMMA NextAlign ==
  ASSUME RoomForRecords, AlignInv, [Next]_vars
  PROVE  AlignInv'
<1>1. FlightInv'
  BY NextFlight DEF AlignInv
<1>2. CASE UNCHANGED vars
  BY <1>1, <1>2, OutAlign DEF vars
<1>. QED
  BY <1>1, <1>2, WindowAlign, RxAlign, PollAlign DEF Next, Alive, Stopped

(* When every record still to be read leaves room for one segment more, or  *)
(* for all the server says after it, rx_buf drops nothing up to              *)
(* ServerHelloDone and always begins with the header of a record.           *)
THEOREM AlignCorrect ==
  ASSUME RoomForRecords
  PROVE  Spec => []HandshakeAligned
<1>1. AlignInv => HandshakeAligned
  <2>1. SUFFICES ASSUME AlignInv, conn.phase = "tls", g_tls.active, g_tls.phase = 1,
                        g_tls.rx # << >>
                 PROVE  /\ g_tls.rx[1].pos = 0
                        /\ g_tls.rx = SubSeq(Stream, conn.rcv - Len(g_tls.rx) + 1, conn.rcv)
    BY DEF HandshakeAligned
  <2>2. conn.server \in Servers /\ Behind(Stream, g_tls.rx, conn.rcv)
    BY <2>1 DEF AlignInv
  <2>. DEFINE S == Stream
              rx == g_tls.rx
              e == conn.rcv
  <2>3. S \in Seq(UnitSet)
    BY <2>2, HttpsAssumption DEF Stream, UnitSet
  <2>4. PICK b : Since(S, rx, b, e)
    BY <2>2 DEF Behind
  <2>. HIDE DEF S, rx, e
  <2>5. /\ b \in Nat /\ e \in Nat /\ b <= e /\ e <= Len(S) /\ rx = SubSeq(S, b + 1, e)
        /\ Start(S, b)
    BY <2>4 DEF Since
  <2>6. Len(rx) = e - b /\ e - Len(rx) + 1 = b + 1
    BY <2>3, <2>5
  <2>7. b < e
    BY <2>1, <2>3, <2>5 DEF rx
  <2>8. rx[1] = S[b + 1] /\ b < Len(S)
    <3>1. Len(S) \in Nat
      BY <2>3
    <3>2. 1 \in 1 .. e - b + 1 /\ 1 <= e - b /\ b < Len(S)
      BY <2>5, <2>7, <3>1
    <3>3. SubSeq(S, b + 1, e)[1] = S[b + 1]
      BY ONLY <2>3, <2>5, <3>2, TailOfPiece
    <3>. QED
      BY <2>5, <3>2, <3>3
  <2>9. rx[1].pos = 0
    BY <2>5, <2>8 DEF Start
  <2>10. rx = SubSeq(S, e - Len(rx) + 1, e)
    BY <2>5, <2>6
  <2>. QED
    BY <2>9, <2>10 DEF S, rx, e
<1>. QED
  BY <1>1, InitAlign, NextAlign, PTL DEF Spec

----------------------------------------------------------------------------
(* Of a request that goes on after a step the deadline was not put off; a    *)
(* tick brings it nearer, and no poll but one before it lets it go on.       *)
DeadlineNears ==
  [][conn.id # 0 /\ conn'.id = conn.id =>
       /\ conn'.left <= conn.left
       /\ Tick => conn'.left = conn.left - 1
       /\ Poll => conn.left > 0]_vars

(* Requests are numbered as they are made, and no running one has a number   *)
(* still to be given.                                                       *)
ClockInv ==
  /\ DOMAIN conn = ConnFields
  /\ conn.left \in Nat /\ reqs \in Nat /\ conn.id \in 0 .. reqs

Nears == conn.id # 0 /\ conn'.id = conn.id => conn'.left <= conn.left

LEMMA OverClock ==
  ASSUME ClockInv, conn' = NoConn, reqs' \in Nat
  PROVE  ClockInv' /\ (conn.id # 0 => conn'.id # conn.id)
<1>1. DOMAIN NoConn = ConnFields /\ NoConn.id = 0 /\ NoConn.left = 0
  BY DEF NoConn, ConnFields
<1>. QED
  BY <1>1 DEF ClockInv

(* A step that leaves a request's number and deadline alone.                *)
LEMMA SameClock ==
  ASSUME ClockInv, UNCHANGED reqs, DOMAIN conn' = DOMAIN conn,
         conn'.id = conn.id, conn'.left = conn.left
  PROVE  ClockInv' /\ Nears
  BY DEF ClockInv, Nears

LEMMA WindowClock ==
  ASSUME ClockInv, NEW w \in Windows,
         \/ Open(w) \/ Close(w)
         \/ \E page \in {"home", "search"} : NavigateLocal(w, page)
         \/ \E site \in Sites : NavigateNoLink(w, site)
         \/ \E site \in Sites, https \in BOOLEAN, server \in Servers :
              Navigate(w, site, https, server)
  PROVE  ClockInv' /\ Nears
<1>1. ASSUME UNCHANGED <<conn, reqs>> PROVE ClockInv' /\ Nears
  BY <1>1, SameClock
<1>2. CASE Open(w)
  BY <1>1, <1>2 DEF Open
<1>3. CASE Close(w)
  <2>1. reqs' = reqs /\ (conn' = NoConn \/ conn' = conn)
    BY <1>3 DEF Close, NsAbort
  <2>2. reqs' \in Nat
    BY <2>1 DEF ClockInv
  <2>. QED
    BY <1>1, <2>1, <2>2, OverClock DEF Nears
<1>4. ASSUME NEW page \in {"home", "search"}, NavigateLocal(w, page)
      PROVE  ClockInv' /\ Nears
  BY <1>1, <1>4 DEF NavigateLocal
<1>5. ASSUME NEW site \in Sites, NavigateNoLink(w, site) PROVE ClockInv' /\ Nears
  <2>1. conn' = conn /\ reqs' = reqs + 1
    BY <1>5 DEF NavigateNoLink
  <2>. QED
    BY <2>1 DEF ClockInv, Nears
<1>6. ASSUME NEW site \in Sites, NEW https \in BOOLEAN, NEW server \in Servers,
             Navigate(w, site, https, server)
      PROVE  ClockInv' /\ Nears
  <2>1. conn' = Request(reqs + 1, w, site, https, server) /\ reqs' = reqs + 1
    BY <1>6 DEF Navigate
  <2>2. DOMAIN conn' = ConnFields /\ conn'.id = reqs + 1 /\ conn'.left = Deadline
    BY <2>1 DEF Request, NoConn, ConnFields
  <2>. QED
    BY <2>1, <2>2, HttpsAssumption DEF ClockInv, Nears
<1>. QED
  BY <1>2, <1>3, <1>4, <1>5, <1>6

LEMMA RxClock ==
  ASSUME ClockInv, Rx
  PROVE  ClockInv' /\ Nears
<1>1. ASSUME NEW status, Finish(status), UNCHANGED reqs PROVE ClockInv' /\ Nears
  BY <1>1, OverClock DEF Finish, ClockInv, Nears
<1>2. ASSUME NEW status \in {"DNS", "CONN"}, RxRefused(status) PROVE ClockInv' /\ Nears
  BY <1>1, <1>2 DEF RxRefused
<1>3. CASE RxSynAck
  <2>1. /\ reqs' = reqs
        /\ \/ conn' = [conn EXCEPT !.phase = "tls"]
           \/ conn' = [conn EXCEPT !.phase = "transfer"]
    BY <1>3 DEF RxSynAck
  <2>. QED
    BY <2>1, SameClock DEF ClockInv, ConnFields
<1>4. ASSUME NEW n \in 1 .. Mss, NEW luck \in Luck, RxRecords(n, luck)
      PROVE  ClockInv' /\ Nears
  <2>1. reqs' = reqs /\ conn' = [conn EXCEPT !.rcv = @ + n]
    BY <1>4 DEF RxRecords
  <2>. QED
    BY <2>1, SameClock DEF ClockInv, ConnFields
<1>5. CASE RxTlsFin
  BY <1>1, <1>5 DEF RxTlsFin
<1>6. CASE RxBody
  <2>1. reqs' = reqs /\ conn' = [conn EXCEPT !.got = TRUE]
    BY <1>6 DEF RxBody
  <2>. QED
    BY <2>1, SameClock DEF ClockInv, ConnFields
<1>7. ASSUME NEW status \in {"OK", "HTTP"}, RxEnd(status) PROVE ClockInv' /\ Nears
  BY <1>1, <1>7 DEF RxEnd
<1>. QED
  BY <1>2, <1>3, <1>4, <1>5, <1>6, <1>7 DEF Rx

LEMMA PollClock ==
  ASSUME ClockInv, Poll
  PROVE  ClockInv' /\ Nears /\ (conn.id # 0 /\ conn'.id = conn.id => conn.left > 0)
<1>1. CASE PollDeadline
  BY <1>1, OverClock DEF PollDeadline, Finish, ClockInv, Nears
<1>2. ASSUME NEW luck \in Luck, PollTls(luck)
      PROVE  ClockInv' /\ Nears /\ conn.left > 0
  <2>1. /\ reqs' = reqs /\ conn.left > 0
        /\ \/ conn' = [conn EXCEPT !.tls_sent = TRUE]
           \/ Finish("TLS")
           \/ conn' = conn
    BY <1>2 DEF PollTls
  <2>2. CASE Finish("TLS")
    BY <2>1, <2>2, OverClock DEF Finish, ClockInv, Nears
  <2>3. CASE conn' = [conn EXCEPT !.tls_sent = TRUE] \/ conn' = conn
    BY <2>1, <2>3, SameClock DEF ClockInv, ConnFields
  <2>. QED
    BY <2>1, <2>2, <2>3
<1>. QED
  BY <1>1, <1>2 DEF Poll

LEMMA TickClock ==
  ASSUME ClockInv, Tick
  PROVE  ClockInv' /\ Nears /\ conn'.left = conn.left - 1
<1>1. reqs' = reqs /\ conn.left > 0 /\ conn' = [conn EXCEPT !.left = @ - 1]
  BY DEF Tick
<1>2. DOMAIN conn' = ConnFields /\ conn'.id = conn.id /\ conn'.left = conn.left - 1
  BY <1>1 DEF ClockInv, ConnFields
<1>. QED
  BY <1>1, <1>2 DEF ClockInv, Nears

LEMMA InitClock == Init => ClockInv
<1>. SUFFICES ASSUME Init PROVE ClockInv
  OBVIOUS
<1>1. \E site \in Sites, server \in Servers :
        \/ conn = Request(1, Boot, site, TRUE, server) /\ reqs = 1
        \/ conn = NoConn /\ reqs = 0
  BY DEF Init
<1>2. CASE conn = NoConn /\ reqs = 0
  <2>1. DOMAIN conn = ConnFields /\ conn.id = 0 /\ conn.left = 0
    BY <1>2 DEF NoConn, ConnFields
  <2>. QED
    BY <1>2, <2>1 DEF ClockInv
<1>3. ASSUME NEW site \in Sites, NEW server \in Servers,
             conn = Request(1, Boot, site, TRUE, server), reqs = 1
      PROVE  ClockInv
  <2>1. DOMAIN conn = ConnFields /\ conn.id = 1 /\ conn.left = Deadline
    BY <1>3 DEF Request, NoConn, ConnFields
  <2>2. conn.left \in Nat
    BY <2>1, HttpsAssumption
  <2>3. reqs \in Nat /\ conn.id \in 0 .. reqs
    <3>1. reqs = 1 /\ conn.id = 1
      BY <1>3, <2>1, Zenon
    <3>. QED
      BY ONLY <3>1
  <2>. QED
    BY ONLY <2>1, <2>2, <2>3 DEF ClockInv
<1>. QED
  BY <1>1, <1>2, <1>3

(* What FetchEnds asks of every step: nothing a server says and nothing the   *)
(* handshake does renews NS_DEADLINE, and once it is reached ns_poll ends the *)
(* request. That ticks and polls come is the fairness.                       *)
THEOREM DeadlineCorrect == Spec => DeadlineNears
<1>1. ASSUME ClockInv, [Next]_vars
      PROVE  /\ ClockInv'
             /\ [conn.id # 0 /\ conn'.id = conn.id =>
                   /\ conn'.left <= conn.left
                   /\ Tick => conn'.left = conn.left - 1
                   /\ Poll => conn.left > 0]_vars
  <2>1. ClockInv' /\ Nears
    <3>1. CASE UNCHANGED vars
      BY <1>1, <3>1, SameClock DEF vars
    <3>2. ASSUME NEW w \in Windows,
                 \/ Open(w) \/ Close(w)
                 \/ \E page \in {"home", "search"} : NavigateLocal(w, page)
                 \/ \E site \in Sites : NavigateNoLink(w, site)
                 \/ \E site \in Sites, https \in BOOLEAN, server \in Servers :
                      Navigate(w, site, https, server)
          PROVE  ClockInv' /\ Nears
      BY <1>1, <3>2, WindowClock
    <3>. QED
      BY <1>1, <3>1, <3>2, RxClock, PollClock, TickClock DEF Next, Alive, Stopped
  <2>. QED
    BY <1>1, <2>1, PollClock, TickClock DEF Nears
<1>. QED
  BY <1>1, InitClock, PTL DEF Spec, DeadlineNears
==============================================================================
