SPECIFICATION SystemSpec
CONSTANTS
  None = None
  UnknownId = UnknownId
  NoQuoteId = NoQuoteId
  FlightId <- MCFlightId
  Flight <- MCFlight
  SeatId <- MCSeatId
  Cabin <- MCCabin
  BaseFare <- MCBaseFare
  Departure <- MCDeparture
  SessionId <- MCSessionId
  MintedSession <- MCMintedSession
  DeclinedTokens <- MCDeclinedTokens
  QuotedTotal <- PriceOf
  SeatType <- MCSeatType
  DepartureDow <- MCDepartureDow
  RouteKind <- MCRouteKind
  HoldRequests <- RaceHolds
  CommitRequests <- RaceCommits
  QuoteRequests <- MCNone
  LockId = {l1, l2}
  HoldWorkers = {h1}
  QuoteWorkers <- MCNone
  CommitWorkers = {c1, c2}
  QuoteId <- MCNone
  BookingReference = {r1, r2}
  LOCK_TTL = 1
  QUOTE_TTL = 2
  MaxTime = 2
  Guessed <- MCNone
  MaxCommits = 2
  AuditMayFail = FALSE
SYMMETRY RaceSymmetry
INVARIANTS SystemTypeOK NoDoubleBooking ChargesMatchBookings AnnouncedOnce LockKeptThroughCommit LedgerInv
PROPERTIES LockReleasedByItsBooking RefusalsAreTrue SaleSpec
