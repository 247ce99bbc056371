SPECIFICATION FairSpec
CONSTANTS
  Contents = {l1, c1}
  Malformed = {}
  Listing = {l1}
  None = None
  Reverts = FALSE
  Panics = TRUE
  MaxEdits = 2
INVARIANTS
  MenuMatchesSettings
  PendingIsServed
PROPERTIES
  ThreadsEnd
  UpdatesAreApplied
