SPECIFICATION SystemSpec
CONSTANTS
  None = None
  UnknownId = UnknownId
  NoQuoteId = NoQuoteId
  FlightId <- MCFlightId
  Flight <- MCFlight
  SeatId <- MCSeatId
  Cabin <- MCCabin
  BaseFare <- MCBaseFare
  Departure <- MCDeparture
  SessionId <- MCSessionId
  MintedSession <- MCMintedSession
  DeclinedTokens <- MCDeclinedTokens
  QuotedTotal <- PriceOf
  SeatType <- MCSeatType
  DepartureDow <- MCDepartureDow
  RouteKind <- MCRouteKind
  HoldRequests <- MCNone
  CommitRequests <- TrustCommits
  QuoteRequests <- TrustQuotes
  LockId <- MCNone
  HoldWorkers <- MCNone
  QuoteWorkers = {q1}
  CommitWorkers = {c1, c2}
  QuoteId = {k1, k2}
  BookingReference = {r1, r2}
  LOCK_TTL = 1
  QUOTE_TTL = 1
  MaxTime = 2
  Guessed = {k2}
  MaxCommits = 2
  AuditMayFail = FALSE
SYMMETRY TrustSymmetry
INVARIANTS QuoteHonoured ReplayVerifies AuditExplainsTotals
PROPERTIES RefusalsAreTrue
CHECK_DEADLOCK FALSE
