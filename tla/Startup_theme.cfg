CONSTANTS
  None = None
  MaxU16 = 65535
  MaxU32 = 99999
  MaxIpcTimeout = 3600
  MaxRefreshRate = 240
  Blanks <- TheBlanks
  WithNul <- TheNuls
  NumberIn <- TheNumbers
  Assignments <- TheAssignments
  TimeFormats <- TheFormats
  Colors <- TheColors
  CommandWords <- TheCommandWords
  PathsIn <- ThePathsIn
  Directives <- TheDirectives
  DefaultWrapper <- TheWrapper
  DefaultLog <- TheLog
  Cases <- AllCases
  Edits <- TheEdits
  MaxReloads = 1
  LoginDefs <- Logins
SPECIFICATION Spec
CHECK_DEADLOCK FALSE
INVARIANT EveryColorCounts
