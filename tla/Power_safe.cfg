SPECIFICATION FairSpec
CONSTANTS
  MaxCommands = 2
INVARIANTS
  CommandIsContained
  StrangersSpared
PROPERTIES
  CommandEnds
