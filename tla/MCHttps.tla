------------------------------- MODULE MCHttps -------------------------------
EXTENDS Https
\* A whole handshake and a response, one that repeats itself, one that fails
\* at a key exchange and then with an alert.
MCServers == 1 .. 4
MCSays ==
  << Units("hello", 1, 1) \o Units("cert", 3, 1) \o Units("done", 1, 1)
       \o Units("ccs", 1, 4) \o Units("fin", 1, 4) \o Units("app", 1, 5),
     Units("kex", 2, 1) \o Units("done", 1, 1) \o Units("done", 1, 1),
     Units("alert", 1, 1),
     Units("badkex", 2, 1) \o Units("done", 1, 1) >>
MCHostLens == {0, 11}

\* The servers of the instance are among those of which alignment is proved.
ASSUME MCRoom == RoomForRecords
==============================================================================
