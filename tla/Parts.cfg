CONSTANTS
  MaxU16 = 12
  MaxColumns = 30
  Lines <- WrappedLines
  Screens <- SomeScreens
  None = None
  Supplies <- SupplyKinds
  Slots = 3
  Executables <- Programs
  Alphabet <- Letters
  Directories <- TwoDirectories
  Ids <- TwoIds
  PathText <- Path
  NameRank <- Rank
  WaylandDefaults <- BothDirectories
  X11Defaults <- LowerDirectory
  Cases <- AllCases
  Absent = Absent
  Unreadable = Unreadable
  Anything = Anything
SPECIFICATION PartsSpec
CHECK_DEADLOCK FALSE
INVARIANTS
  LayoutFits
  CursorIsInField
  TerminalIsUsable
  ReadingIsOfMeasured
  ListingIsTheView
  ExecIsExact
