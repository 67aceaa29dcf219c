CONSTANTS
  MaxChange = 2
  EdgeFaults = {}
SPECIFICATION EdgeSpec
PROPERTIES
  ReadingsPublished
