SPECIFICATION LockSpec
CONSTANTS
  FlightId <- MCFlightId
  SeatId <- MCSeatId
  SessionId <- MCSessionId
  HoldRequests <- MCHoldRequests
  LockId = {l1, l2, l3}
  HoldWorkers = {w1, w2}
  None = None
  LOCK_TTL = 2
  MaxTime = 3
SYMMETRY LockSymmetry
INVARIANTS LockTypeOK IndexesAgree LockInv
PROPERTIES LiveHolderKeepsSeat LeaseSpec
