CONSTANTS
  MaxReqs = 2
  Windows <- MCWindows
  Responses <- MCResponses
  Cap = 4
  HdrMax = 2
  Isns <- MCIsns
  SeqMod = 16
  ReqLen = 3
  Retry = 1
  Deadline = 4
  ReqLimit = 2
  ArpSlots = 2
  Others <- MCNeighbours
  Overlap = FALSE
  EarlyFin = FALSE
SPECIFICATION Spec
INVARIANTS
  CallbackExactlyOnce
  OkMeansWholeBody
  AckProvesDelivery
  MacKnown
PROPERTIES
  EveryRequestEnds
