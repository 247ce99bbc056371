SPECIFICATION ConsoleSpec
CONSTANTS
  Users = {u1}
  Sources = {s1}
  Rememberable = {s1}
  None = None
  QueueCapacity = 2
  MaxFailures = 2
  Hasty = FALSE
  MaxCancels = 1
  SourceStays = FALSE
INVARIANTS
  PromptIsLive
