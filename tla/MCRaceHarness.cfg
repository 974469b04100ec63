SPECIFICATION FairRaceSpec
CONSTANTS
  None = None
  FlightId = {"FL-TEST"}
  SeatId = {"30F"}
  RaceFlight = "FL-TEST"
  RaceSeat = "30F"
  SessionOf <- MCSessionOf
  SessionId <- MCSessionId
  HoldWorkers <- MCHoldWorkers
  HoldRequests <- MCHoldRequests
  LockId = {l1, l2, l3}
  LOCK_TTL = 1
  MaxTime = 0
  Trials = 2
CHECK_DEADLOCK FALSE
INVARIANTS OneWinner SummaryIsPerfect RaceInv
PROPERTIES HarnessEnds
