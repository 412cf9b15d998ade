CONSTANTS
  RxCap = 6
  TlsTimeout = 3
  HostLens <- MCHostLens
  Windows = {w1}
  Sites = {a}
  Servers <- MCServers
  Says <- MCSays
  Mss = 2
  Deadline = 2
  LinkDrops = FALSE
  MaxReqs = 1
  Boot = boot
SPECIFICATION Spec
INVARIANT HelloWellFormed
