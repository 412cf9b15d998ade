--------------------------------- MODULE Tls ---------------------------------
(***************************************************************************)
(* The TLS client, src/kernel/tls.c: the handshake over the one TCP        *)
(* connection, the framing of records in rx_buf, and when records are sent. *)
(* Each function is an operator from the g_tls it finds to the one it       *)
(* leaves; Https composes them with the connection.                        *)
(*                                                                         *)
(* A record is named by its first message, the only one the code looks at;  *)
(* it is a header, one unit, and len units of body. A server's record bodies *)
(* are at most what pending_handshake holds: larger ones are outside the    *)
(* model. What keys and ciphers compute is not modelled.                    *)
(***************************************************************************)
EXTENDS Integers, Sequences, SequencesExt

CONSTANTS
  RxCap,        \* sizeof rx_buf
  TlsTimeout,   \* TLS_TIMEOUT
  HostLens      \* lengths of host names whose hello fits its 128 bytes

ASSUME TlsAssumption ==
  RxCap \in Nat \ {0} /\ TlsTimeout \in Nat \ {0} /\ HostLens \subseteq 0 .. 34

\* The units of a record, which the server says when it has heard `after'
\* messages.
Units(kind, len, after) ==
  [p \in 1 .. len + 1 |-> [kind |-> kind, len |-> len, after |-> after, pos |-> p - 1]]

\* s is records one behind the other, the last one whole or not.
Framed(s) ==
  /\ s # << >> => s[1].pos = 0
  /\ \A k \in 1 .. Len(s) - 1 :
       \/ s[k].pos = s[k].len /\ s[k + 1].pos = 0
       \/ s[k].pos < s[k].len /\ s[k + 1] = [s[k] EXCEPT !.pos = @ + 1]

Handshake == {"hello", "cert", "kex", "done", "badhello", "badkex", "fin", "other"}
Rejected == {"badhello", "badkex"}   \* tls_parse_server_hello and _kex fail

\* g_tls after a memset. `sent' is a history, and `dead' the machine stopped.
NoTls == [active |-> FALSE, phase |-> 0, left |-> 0, rx |-> << >>,
          sent |-> << >>, dead |-> FALSE]

Sends(t, what) == [t EXCEPT !.sent = @ \o what]

----------------------------------------------------------------------------
(* tls_build_client_hello: the length each extension declares, and what is  *)
(* written of it; four more bytes for its type and length.                  *)

Extension(declared, written) == [declared |-> declared, written |-> written]
HelloExtensions(host) ==
  (IF host > 0 THEN << Extension(2 + 1 + 2 + host, 2 + 1 + 2 + host) >> ELSE << >>)
    \o << Extension(2 + 2 * 2, 2 * 2),   \* supported_groups
          Extension(2 + 3 * 2, 3 * 2),   \* signature_algorithms
          Extension(1 + 1, 2),           \* ec_point_formats
          Extension(1, 1),               \* extended_master_secret
          Extension(1, 1) >>             \* renegotiation_info

ExtTotal(host) == FoldSeq(LAMBDA e, n : n + 4 + e.declared, 0, HelloExtensions(host))
ExtWritten(host) == FoldSeq(LAMBDA e, n : n + 4 + e.written, 0, HelloExtensions(host))

\* tls_connect and tls_phase_hello: the connection is established, so the
\* message can be sent and the phase is left in the same call.
TlsConnect ==
  Sends([NoTls EXCEPT !.active = TRUE, !.phase = 1, !.left = TlsTimeout], << "hello" >>)

\* tls_feed: what does not fit is dropped.
TlsFeed(t, data) ==
  LET room == RxCap - Len(t.rx)
      fits == IF Len(data) > room THEN SubSeq(data, 1, room) ELSE data
  IN IF t.active /\ t.phase \in {1, 2} THEN [t EXCEPT !.rx = @ \o fits] ELSE t

\* Mutant: the header is not counted.
RecordLenBody(head) == IF head.len = 0 THEN 1 ELSE head.len

RecordLen(head) == head.len + 1

Header(rx, k) == k \in DOMAIN rx /\ rx[k].pos = 0
Whole(rx, k) == k + RecordLen(rx[k]) - 1 <= Len(rx)

\* What a loop over the records leaves of rx when it goes past those that
\* begin at a k of passed; the last may be longer than what was received.
Left(rx, passed) ==
  LET at[k \in Nat] == IF k \in passed THEN at[k + RecordLen(rx[k])] ELSE k
  IN SubSeq(rx, at[1], Len(rx))

\* The answer to ServerHelloDone, with keys derived from what is there.
Flight == << "key_exchange", "change_cipher", "finished" >>

\* Past the first record of rx.
Consume(t) == [t EXCEPT !.rx = SubSeq(@, RecordLen(@[1]) + 1, Len(@))]

\* Mutant: the phase stays.
HelloDoneAgain(t) == Sends(Consume(t), Flight)

HelloDone(t) == Sends([Consume(t) EXCEPT !.phase = 2], Flight)

\* Messages that are read, and not answered.
Read(rx) ==
  {k \in DOMAIN rx : /\ Header(rx, k) /\ Whole(rx, k)
                     /\ rx[k].kind \in Handshake \ (Rejected \cup {"done"})}

\* Whole records from the front; any doubt leaves the rest for the next call, an
\* alert all of it.
TlsPhaseServerHello(t) ==
  LET u == [t EXCEPT !.rx = Left(@, Read(@))]
  IN IF ~Header(u.rx, 1) THEN u
     ELSE IF u.rx[1].kind = "alert" THEN [t EXCEPT !.active = FALSE]
     ELSE IF u.rx[1].kind = "done" /\ Whole(u.rx, 1) THEN HelloDone(u)
     ELSE u

\* ChangeCipherSpec and Finished are skipped whether or not they are whole;
\* `luck' is what the bytes read as a type or a length say when they are not
\* yet there, or are no header.
Skipped(rx, luck) ==
  {k \in DOMAIN rx :
     /\ Header(rx, k)
     /\ \/ rx[k].kind = "ccs"
        \/ rx[k].kind = "fin" /\ (rx[k].len = 0 \/ k < Len(rx))
        \/ rx[k].kind \in Handshake /\ rx[k].len > 0 /\ k = Len(rx) /\ luck = "skip"}

\* An application record is deciphered with no place for its type (cid is
\* NULL in tls_decrypt_record), where the machine stops.
TlsPhaseApp(t, luck) ==
  LET u == [t EXCEPT !.rx = Left(@, Skipped(@, luck))]
  IN IF u.rx = << >> THEN u
     ELSE IF ~Header(u.rx, 1)
     THEN IF luck = "stay" THEN u
          ELSE IF luck = "skip" THEN [u EXCEPT !.rx = << >>] ELSE [u EXCEPT !.dead = TRUE]
     ELSE IF u.rx[1].kind = "app" /\ Whole(u.rx, 1) THEN [u EXCEPT !.dead = TRUE]
     ELSE u

Luck == {"stay", "skip", "app"}

TlsPoll(t, luck) ==
  LET u == TlsPhaseServerHello(t)
  IN IF ~t.active THEN t
     ELSE IF t.left = 0 THEN [t EXCEPT !.active = FALSE]
     ELSE IF t.phase = 2 THEN TlsPhaseApp(t, luck)
     ELSE IF u.phase = 2 THEN TlsPhaseApp(u, luck) ELSE u

TlsIsEstablished(t) == t.active /\ t.phase = 2

\* tls_send_app_data: one record, whatever the phase.
TlsSendAppData(t) == Sends(t, << "request" >>)
==============================================================================
