SPECIFICATION ServiceSpec
CONSTANTS
  p1 = p1
  p2 = p2
  NumSensors = 2
  NumRows = 2
  MaxValue = 1
  Period = 2
  Word = 4
  MaxBusy = 0
  MaxSockets = 1
  MaxInbox = 2
  Requests <- MCRequests
  Faults <- NoFaults
  Ports <- TwoPorts
  ClientFaults <- NoFaults
  MaxBoots = 0
INVARIANT PagesComplete
