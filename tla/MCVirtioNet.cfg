CONSTANTS
  IdxMod = 4
  RxSize = 2
  TxSize = 2
  TxAccepted = 2
  Inbox = 2
  Kind <- MCKind
  MaxSends = 1
SPECIFICATION Spec
INVARIANTS
  DescConserved
  AcceptedSentOnce
  InboxInOrder
PROPERTY DrainedInTheEnd
