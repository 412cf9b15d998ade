CONSTANTS
  Packets <- MCPackets
  MaxPackets = 2
  OtherLines <- MCLines
  Lossy = TRUE
SPECIFICATION MouseSpec
INVARIANT MotionConserved
PROPERTY LinesServiced
