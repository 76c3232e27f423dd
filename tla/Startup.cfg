CONSTANTS
  MaxFd = 6
  Words <- SomeWords
  MaxWords = 3
  Numeral <- Numbers
  MaxCandidates = 2
  StackEvents = 32
SPECIFICATION FairSpec
CHECK_DEADLOCK FALSE
INVARIANTS TypeOK CleanExit LoopHandedOver ConfigAsGiven
PROPERTIES StartSettles
