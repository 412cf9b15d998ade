CONSTANTS
  ScrW = 11
  ScrH = 9
  IntHalf = 32
  MaxWindows = 2
  TaskH = 2
  TitleH = 2
  MinW = 7
  MinH = 5
  BtnTop = 1
  BtnH = 1
  BtnW = 1
  BtnMargin = 1
  BtnGap = 1
  Gutter = 2
  Marks <- MCMarks
  TextX = 1
  TextY = 3
  CaretX = 2
  CaretY = 3
  TermFrame = 3
  RowH = 1
  CharW = 1
  CaretH = 1
  Columns <- MCColumns
  Icons <- MCIcons
  IconX0 = 1
  IconY0 = 1
  IconW = 1
  IconH = 1
  IconStep = 3
  LabelH = 1
  MenuX = 0
  MenuW = 3
  MenuPad = 1
  ItemH = 2
  ItemGap = 1
  MenuGap = 1
  StartX = 0
  StartW = 1
  BarTop = 0
  BarH = 1
  TaskX0 = 2
  TaskW = 2
  TaskGap = 1
  ClockW = 5
  ClockR = 0
  ClockTop = 0
  OpenAt <- MCOpenAt
  OpenSteps = 1
  First <- MCFirst
  Spots <- MCSpots
  Flips <- MCFlips
  MaxPresses <- MCPresses
  None = None
SPECIFICATION Spec
INVARIANTS
  HeldWindowIsHeld
  WindowsInWorkArea
  BackbufferShowsScene
  ScreenShowsBackbuffer
PROPERTY PressActsOnShown
