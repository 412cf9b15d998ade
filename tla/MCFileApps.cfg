CONSTANTS
  MAX_WINDOWS = 2
  MaxFiles = 2
  FileCap = 1
  TextCap = 2
  Names <- MCNames
  MaxEdits = 1
SPECIFICATION FilesSpec
PROPERTIES
  ImplementsFileStore
  RemovedOnlyWhenAsked
  SavedWhenRoom
