SPECIFICATION FairSpec
CONSTANTS
  Users = {u1, u2}
  Sources = {s1}
  Rememberable = {s1}
  None = None
  QueueCapacity = 2
  MaxFailures = 2
  Hasty = TRUE
  MaxCancels = 1
INVARIANTS
  SuccessMeansStarted
  WaitingIsServed
  CancellationIsSeen
PROPERTIES
  AnswerGoesToItsAccount
  CancelCompletes
  ShutdownCompletes
  StartIsSettled
