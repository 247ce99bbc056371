SPECIFICATION Spec
CONSTANTS
  alice = alice
  desktop = desktop
  command = command
  User <- MCUser
  Selection <- MCSelection
  Command <- MCCommand
  Last = Last
  Global = Global
  Legacy <- MCLegacy
  None = None
  Corrupt = Corrupt
  Future = Future
  Greeter = {g1, g2}
  Policy <- MCPolicy
  MaxFailures = 1
  MaxCrashes = 0
INVARIANTS
  FirstUseMigrates
