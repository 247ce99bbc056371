SPECIFICATION ConsoleSpec
CONSTANTS
  Users = {u1, u2}
  Sources = {s1, s2}
  Rememberable = {s1}
  None = None
  QueueCapacity = 2
  MaxFailures = 2
  Hasty = FALSE
  MaxCancels = 2
  SourceStays = TRUE
INVARIANTS
  OneRequestQueued
  PromptIsForUser
PROPERTIES
  RequestsAreLegal
  StartIsNotCancelled
  ImplementsLogin
