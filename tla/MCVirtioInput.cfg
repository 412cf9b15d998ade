CONSTANTS
  IdxMod = 4
  Devices <- MCDevices
  QueueSize = 2
  RingSize = 3
  Inputs <- MCInputs
  MaxInputs = 5
SPECIFICATION Spec
INVARIANTS
  CaseAsTyped
  PointerExact
PROPERTIES
  ImplementsKeyFifo
  InputConsumed
