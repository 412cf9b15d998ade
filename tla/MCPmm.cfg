CONSTANTS
  MemMaps <- MCMaps
  ByteBits = 3
  WordBytes = 2
  PageBytes = 2
  LowReserve = 1
  CountMod = 16
SPECIFICATION PmmSpec
INVARIANTS
  FreeCountExact
  NoFreeBelowHint
  PagesPartitioned
