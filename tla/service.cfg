SPECIFICATION ServiceSpec
CONSTANTS
  p1 = p1
  p2 = p2
  NumSensors = 2
  NumRows = 2
  MaxValue = 1
  Period = 1
  Word = 3
  MaxBusy = 0
  MaxSockets = 1
  MaxInbox = 2
  Requests <- MCRequests
  Faults <- HubFaults
  Ports <- TwoPorts
  ClientFaults <- NoSocket
  MaxBoots = 1
INVARIANTS ServiceTypeOK RightSensor OneExchange AgesOrdered
PROPERTIES NeverOlder
