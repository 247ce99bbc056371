SPECIFICATION FairSpec
CONSTANTS
  Capacity = 3
  MaxKeys = 4
  MaxChanges = 3
INVARIANTS
  DrawIsComing
PROPERTIES
  KeysInOrder
  BatteryGoesAway
  ScreenCloses
