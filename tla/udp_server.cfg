SPECIFICATION FairSpec
CONSTANTS
  NumSensors = 1
  MaxValue = 1
  Period = 4
  Word = 8
  MaxBusy = 1
  MaxSockets = 2
  MaxInbox = 2
  Requests <- MCRequests
  Faults <- CallFaults
INVARIANTS TypeOK TimeInv EndsInTime SocketsBalanced
PROPERTIES ServesWholePeriod Returns
