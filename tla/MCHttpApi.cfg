SPECIFICATION HttpSpec
CONSTANTS
  None = None
  UnknownId = UnknownId
  NoQuoteId = NoQuoteId
  FlightId <- MCFlightId
  Flight <- MCFlight
  SeatId <- MCSeatId
  Cabin <- MCCabin
  BaseFare <- MCBaseFare
  Departure <- MCDeparture
  SessionId <- MCSessionId
  MintedSession <- MCMintedSession
  DeclinedTokens <- MCDeclinedTokens
  QuotedTotal <- PriceOf
  SeatType <- MCSeatType
  DepartureDow <- MCDepartureDow
  RouteKind <- MCRouteKind
  HoldRequests <- FewHolds
  CommitRequests <- FewCommits
  QuoteRequests <- FewQuotes
  LockId = {l1}
  HoldWorkers = {h1}
  QuoteWorkers = {q1}
  CommitWorkers = {c1, c2}
  QuoteId = {k1}
  BookingReference = {r1, r2}
  LOCK_TTL = 1
  QUOTE_TTL = 2
  MaxTime = 1
  Guessed = {l1}
  MaxCommits = 2
  AuditMayFail = TRUE
SYMMETRY RaceSymmetry
INVARIANTS RefusalLeavesNoTrace ConfirmedIsPaidOnce ConfirmedStands ConfirmedIsAudited HttpInv ReplayVerifies
