----------------------------- MODULE QuoteService -----------------------------
(***************************************************************************)
(* QuoteService and InMemoryQuoteStore: POST /quotes.                      *)
(*                                                                         *)
(* A thread serving a quote holds no lock from one step to the next: it    *)
(* reads the clock, then the bookings, and only later saves the quote and  *)
(* writes its audit event.  Bookings may be confirmed in between.          *)
(***************************************************************************)
EXTENDS Clock, BookingRepository, AuditLog

CONSTANTS
  QUOTE_TTL,
  QuoteWorkers,           \* threads serving POST /quotes
  QuoteRequests,
  MintedSession,          \* sessions the id generator makes up for a client without one
  QuotedTotal(_, _, _, _) \* pricing.price, of flight, seats, occupied seats and time

Quote == [id         : QuoteId,
          session_id : SessionId,
          flight_id  : FlightId,
          seat_ids   : SUBSET SeatId,
          total      : Money,
          created_at : Nat,
          expires_at : Nat]

QuoteRequest == [flight_id  : FlightId,
                 seat_ids   : SUBSET SeatId,
                 session_id : SessionId \cup {None}]

(* Counted are the cabin's own seats and those of every booking.           *)
MaxOccupied == Cardinality(SeatId) * (1 + Cardinality(BookingReference))

ASSUME QuoteAssumption ==
  /\ QUOTE_TTL \in Nat \ {0}
  /\ QuoteRequests \subseteq QuoteRequest
  /\ MintedSession \subseteq SessionId

(* Whatever a quote may be asked for, pricing.price returns Money.         *)
ASSUME PricingAssumption ==
  \A f \in Flight, seats \in SUBSET SeatId, occupied \in 0 .. MaxOccupied :
    \A now \in 0 .. Departure[f] : QuotedTotal(f, seats, occupied, now) \in Money

VARIABLES
  quotes,                 \* InMemoryQuoteStore._quotes
  quoting,                \* per worker: the request it is serving
  delivered,              \* the quote ids clients have been given
  minted                  \* the sessions the id generator has made up

quoteVars == <<quotes, quoting, delivered, minted>>

Quoting == [stage    : {"count", "save", "audit"},
            request  : QuoteRequests,
            now      : Nat,
            occupied : Nat,
            quote_id : QuoteId \cup {None}]

QuotesInit ==
  /\ quotes    = [q \in QuoteId |-> None]
  /\ quoting   = [w \in QuoteWorkers |-> None]
  /\ delivered = {}
  /\ minted    = {}

-----------------------------------------------------------------------------
(* The store.                                                              *)

GetQuote(id) == IF id \in QuoteId THEN quotes[id] ELSE None

(* Mutant: the TTL window is closed at its end.                            *)
GetValidQuoteClosed(id, now) ==
  IF GetQuote(id) # None /\ now <= GetQuote(id).expires_at THEN GetQuote(id) ELSE None

GetValidQuote(id, now) ==
  IF GetQuote(id) # None /\ now < GetQuote(id).expires_at THEN GetQuote(id) ELSE None

-----------------------------------------------------------------------------
(* The service.  An unknown flight (404) or one departed on an earlier day *)
(* (400) is refused before anything is read or written: no step.           *)

StampQuote(w, request) ==
  /\ quoting[w] = None
  /\ request.flight_id \in Flight
  /\ clock <= Departure[request.flight_id]
  /\ quoting' = [quoting EXCEPT ![w] = [stage    |-> "count",
                                        request  |-> request,
                                        now      |-> clock,
                                        occupied |-> 0,
                                        quote_id |-> None]]
  /\ UNCHANGED <<quotes, delivered, minted, auditVars>>

At(w, stage) == quoting[w] # None /\ quoting[w].stage = stage

(* _occupancy_pct, from a snapshot of the bookings that is used later.     *)
CountOccupied(w) ==
  /\ At(w, "count")
  /\ LET f == quoting[w].request.flight_id
     IN  quoting' = [quoting EXCEPT
                       ![w].stage = "save",
                       ![w].occupied = Cardinality(CabinOccupied(f)) + ActiveBookedSeatCount(f)]
  /\ UNCHANGED <<quotes, delivered, minted, auditVars>>

NewQuote(w, id, session) ==
  LET request == quoting[w].request
  IN  [id         |-> id,
       session_id |-> session,
       flight_id  |-> request.flight_id,
       seat_ids   |-> request.seat_ids,
       total      |-> QuotedTotal(request.flight_id, request.seat_ids,
                                  quoting[w].occupied, quoting[w].now),
       created_at |-> quoting[w].now,
       expires_at |-> quoting[w].now + QUOTE_TTL]

(* request.session_id or new_session_id().                                *)
SessionsFor(w) ==
  IF quoting[w].request.session_id # None THEN {quoting[w].request.session_id}
                                          ELSE MintedSession \ minted

MintIfAnonymous(w, session) ==
  minted' = IF quoting[w].request.session_id # None THEN minted ELSE minted \cup {session}

SaveQuote(w) ==
  /\ At(w, "save")
  /\ \E id \in QuoteId, session \in SessionsFor(w) :
       /\ quotes[id] = None
       /\ MintIfAnonymous(w, session)
       /\ quotes'  = [quotes EXCEPT ![id] = NewQuote(w, id, session)]
       /\ quoting' = [quoting EXCEPT ![w].stage = "audit", ![w].quote_id = id]
  /\ UNCHANGED <<delivered, auditVars>>

(* DeterministicIdGenerator pops finite lists: IndexError, nothing saved.  *)
(* The session is drawn first, and is lost if there is no quote id left.   *)
SaveQuoteOutOfIds(w) ==
  /\ At(w, "save")
  /\ \/ SessionsFor(w) = {} /\ UNCHANGED minted
     \/ /\ \A id \in QuoteId : quotes[id] # None
        /\ \E session \in SessionsFor(w) : MintIfAnonymous(w, session)
  /\ quoting' = [quoting EXCEPT ![w] = None]
  /\ UNCHANGED <<quotes, delivered, auditVars>>

(* Mutant: the event gives the occupancy at the time it is written.        *)
QuoteCreatedRecounting(w) ==
  LET quote == quotes[quoting[w].quote_id]
      f     == quote.flight_id
  IN  [type     |-> "QuoteCreated",
       quote_id |-> quote.id,
       occupied |-> Cardinality(CabinOccupied(f)) + ActiveBookedSeatCount(f),
       total    |-> quote.total]

QuoteCreated(w) ==
  LET quote == quotes[quoting[w].quote_id]
  IN  [type     |-> "QuoteCreated",
       quote_id |-> quote.id,
       occupied |-> quoting[w].occupied,
       total    |-> quote.total]

(* Mutant: a failed audit write is swallowed.                              *)
AuditQuoteSwallowing(w) ==
  /\ At(w, "audit")
  /\ WriteAudit(QuoteCreated(w)) \/ AuditRaises(QuoteCreated(w))
  /\ delivered' = delivered \cup {quoting[w].quote_id}
  /\ quoting' = [quoting EXCEPT ![w] = None]
  /\ UNCHANGED <<quotes, minted>>

(* Only after the event is written does the client learn the quote id.     *)
AuditQuote(w) ==
  /\ At(w, "audit")
  /\ \/ /\ WriteAudit(QuoteCreated(w))
        /\ delivered' = delivered \cup {quoting[w].quote_id}
     \/ AuditRaises(QuoteCreated(w)) /\ UNCHANGED delivered
  /\ quoting' = [quoting EXCEPT ![w] = None]
  /\ UNCHANGED <<quotes, minted>>

QuoteStep(w) ==
  \/ CountOccupied(w)
  \/ SaveQuote(w)
  \/ SaveQuoteOutOfIds(w)
  \/ AuditQuote(w)
=============================================================================
