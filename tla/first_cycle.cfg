CONSTANTS
  N = 2
  Faults = {}
  MaxAway = 0
  MaxResults = 3
SPECIFICATION Spec
PROPERTIES
  FoundArePolled
