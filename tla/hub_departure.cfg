CONSTANTS
  N = 3
  Faults = {"departure"}
  MaxAway = 1
  MaxResults = 2
SPECIFICATION FairSpec
PROPERTIES
  SurvivorsRead
  KeepsScanning
  FoundGetTurns
  TurnComesNearer
