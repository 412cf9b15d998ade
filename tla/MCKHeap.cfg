CONSTANTS
  HeapUnits = 13
  Header = 2
  MinBlock = 1
  Unit = 4
  SizeMod = 64
  Requests <- MCRequests
  Counts <- MCCounts
SPECIFICATION Spec
INVARIANTS
  ListIsHeap
  Coalesced
  StaleHeadersRejected
  AllFreedIsOneBlock
  PayloadCoversRequest
PROPERTY ImplementsHeapSpec
