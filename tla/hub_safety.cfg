CONSTANTS
  N = 2
  Faults <- AllFaults
  MaxAway = 2
  MaxResults = 4
SPECIFICATION Spec
INVARIANTS
  TypeOK
  FlagsCoverRadio
  OneUseOfTheRadio
  RadioInv
  EventsFit
  QueueInv
PROPERTIES
  CycleSpec
CHECK_DEADLOCK FALSE
