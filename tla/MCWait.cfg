\* A client requests and waits, with and without timeout, while the thread scans
\* and is stopped; no notification is missed, however the period falls.
SPECIFICATION FairSpec
CONSTANTS
  Clients = {c1}
  MaxRequests = 3
  MaxPeriods = 1
INVARIANTS
  WaitCoversRequests
PROPERTIES
  WaitReturns
  RequestGetsScan
  StopReturns
