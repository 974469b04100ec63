SPECIFICATION SystemSpec
CONSTANTS
  None = None
  UnknownId = UnknownId
  NoQuoteId = NoQuoteId
  FlightId <- MCFlightId
  Flight <- MCFlight
  SeatId <- MCSeatId
  Cabin <- MCCabin
  BaseFare <- MCBaseFare
  Departure <- MCDeparture
  SessionId <- MCSessionId
  MintedSession <- MCMintedSession
  DeclinedTokens <- MCDeclinedTokens
  QuotedTotal <- PriceOf
  SeatType <- MCSeatType
  DepartureDow <- MCDepartureDow
  RouteKind <- MCRouteKind
  HoldRequests <- RenewedHolds
  CommitRequests <- LockedCommits
  QuoteRequests <- MCNone
  LockId = {l1, l2, l3}
  HoldWorkers = {h1}
  QuoteWorkers <- MCNone
  CommitWorkers = {c1}
  QuoteId <- MCNone
  BookingReference = {r1}
  LOCK_TTL = 2
  QUOTE_TTL = 1
  MaxTime = 1
  Guessed <- MCNone
  MaxCommits = 1
  AuditMayFail = FALSE
INVARIANTS OneValidLockPerSeat
