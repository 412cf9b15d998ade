CONSTANTS
  Dates <- MCDates
  Modes <- MCModes
  Lengths <- MCLengths
  Streams <- MCStreams
  Filters <- MCFilters
  Pictures <- MCPictures
  Cuts = {0, 1, 3}
  Rooms <- MCRooms
  Spaces <- MCSpaces
  Ranges <- MCRanges
  Hhdm <- Direct
  Keys = {"c", "e", "h", " ", "backspace", "enter", "page_up", "page_down", "left", "right"}
  MaxLog = 4
  PageBytes = 4
  Fan = 2
  ScrollMax = 3
  LineMax = 4
  RowHeight = 2
  CharWidth = 2
  MinCols = 2
  Bodies <- MCBodies
SPECIFICATION Spec
INVARIANTS
  IstExact
  PngExact
  MapExact
  TerminalExact
