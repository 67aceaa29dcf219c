CONSTANTS
  N = 2
  Faults <- SurvivableFaults
  MaxAway = 2
  MaxResults = 3
SPECIFICATION FairSpecReturning
INVARIANTS
  FlagsEnd
  EventComing
  NoForgottenConnection
  ProgressInv
PROPERTIES
  EverySensorRead
  CyclesPublished
