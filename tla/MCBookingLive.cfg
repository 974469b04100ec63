SPECIFICATION FairSystemSpec
CONSTANTS
  None = None
  UnknownId = UnknownId
  NoQuoteId = NoQuoteId
  FlightId <- MCFlightId
  Flight <- MCFlight
  SeatId <- MCSeatId
  Cabin <- MCCabin
  BaseFare <- MCBaseFare
  Departure <- MCDeparture
  SessionId <- MCSessionId
  MintedSession <- MCMintedSession
  DeclinedTokens <- MCDeclinedTokens
  QuotedTotal <- PriceByOccupancy
  SeatType <- MCSeatType
  DepartureDow <- MCDepartureDow
  RouteKind <- MCRouteKind
  HoldRequests <- FewHolds
  CommitRequests <- LiveCommits
  QuoteRequests <- FewQuotes
  LockId = {l1}
  HoldWorkers = {h1}
  QuoteWorkers = {q1}
  CommitWorkers = {c1, c2}
  QuoteId = {k1}
  BookingReference = {r1}
  LOCK_TTL = 1
  QUOTE_TTL = 1
  MaxTime = 0
  Guessed <- MCNone
  MaxCommits = 2
  AuditMayFail = TRUE
PROPERTIES EveryCommitAnswered
