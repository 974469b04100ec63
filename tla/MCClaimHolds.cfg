SPECIFICATION SystemSpec
CONSTANTS
  None = None
  UnknownId = UnknownId
  NoQuoteId = NoQuoteId
  FlightId <- MCFlightId
  Flight <- MCFlight
  SeatId <- MCSeatId
  Cabin <- MCCabin
  BaseFare <- MCBaseFare
  Departure <- MCDeparture
  SessionId <- MCSessionId
  MintedSession <- MCMintedSession
  DeclinedTokens <- MCDeclinedTokens
  QuotedTotal <- PriceOf
  SeatType <- MCSeatType
  DepartureDow <- MCDepartureDow
  RouteKind <- MCRouteKind
  HoldRequests <- RenewedHolds
  CommitRequests <- UnlockedCommits
  QuoteRequests <- MCNone
  LockId = {l1}
  HoldWorkers = {h1}
  QuoteWorkers <- MCNone
  CommitWorkers = {c1}
  QuoteId <- MCNone
  BookingReference = {r1}
  LOCK_TTL = 1
  QUOTE_TTL = 1
  MaxTime = 1
  Guessed <- MCNone
  MaxCommits = 1
  AuditMayFail = FALSE
PROPERTIES BookingRespectsHolds
