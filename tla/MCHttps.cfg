CONSTANTS
  RxCap = 6
  TlsTimeout = 3
  HostLens <- MCHostLens
  Windows = {w1, w2}
  Sites = {a, b}
  Servers <- MCServers
  Says <- MCSays
  Mss = 2
  Deadline = 2
  LinkDrops = FALSE
  MaxReqs = 2
  Boot = boot
SPECIFICATION Spec
INVARIANTS
  PageIsAsked
  FlightInOrder
  HandshakeAligned
PROPERTY FetchEnds
