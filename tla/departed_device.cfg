CONSTANTS
  N = 2
  Faults = {"departure"}
  MaxAway = 1
  MaxResults = 2
SPECIFICATION FairSpec
PROPERTIES
  KeepsPublishing
