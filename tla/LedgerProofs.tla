----------------------------- MODULE LedgerProofs -----------------------------
(***************************************************************************)
(* What the quotes, the bookings, the charges, the mails and the audit log *)
(* say of each other, for every number of threads, flights, seats, quotes, *)
(* references and requests and every price.                                *)
(*                                                                         *)
(* LedgerInv is inductive.  Its argument: a quote is never changed once it *)
(* is in the store, so a thread that saved one, an event that tells of it  *)
(* and a commit that has read it all mean the same amount; a line of the   *)
(* log is lost only to a garbled one; and a commit can only cite a quote   *)
(* whose event was written, unless quote ids can be guessed.               *)
(***************************************************************************)
EXTENDS BookingProofs, SequenceTheorems, FiniteSetTheorems

USE BookingAssumption, QuoteAssumption

-----------------------------------------------------------------------------
(* Sequences that only grow, and the seats there are to count.             *)

LEMMA Appended ==
  ASSUME NEW S, NEW seq \in Seq(S), NEW e \in S, NEW longer, longer = Append(seq, e)
  PROVE  /\ longer \in Seq(S)
         /\ Len(seq) \in Nat
         /\ DOMAIN seq = 1 .. Len(seq)
         /\ DOMAIN longer = DOMAIN seq \cup {Len(seq) + 1}
         /\ \A i \in DOMAIN seq : longer[i] = seq[i] /\ i < Len(seq) + 1
         /\ Len(seq) + 1 \notin DOMAIN seq
         /\ longer[Len(seq) + 1] = e
<1>1. /\ longer \in Seq(S)
      /\ Len(longer) = Len(seq) + 1
      /\ \A i \in 1 .. Len(seq) : longer[i] = seq[i]
      /\ longer[Len(seq) + 1] = e
  BY AppendProperties
<1>2. Len(seq) \in Nat /\ DOMAIN seq = 1 .. Len(seq)
  BY LenProperties
<1>3. DOMAIN longer = 1 .. Len(seq) + 1
  BY <1>1, LenProperties
<1> QED BY <1>1, <1>2, <1>3

LEMMA CabinIsFinite ==
  ASSUME NEW f \in Flight
  PROVE  Cardinality(CabinOccupied(f)) \in 0 .. Cardinality(SeatId)
<1>1. CabinOccupied(f) \in SUBSET SeatId /\ IsFiniteSet(SeatId)
  BY CatalogAssumption, RepositoryAssumption DEF CabinOccupied
<1>2. /\ Cardinality(CabinOccupied(f)) \in Nat
      /\ Cardinality(SeatId) \in Nat
      /\ Cardinality(CabinOccupied(f)) <= Cardinality(SeatId)
  BY <1>1, FS_Subset, FS_CardinalityType
<1> QED BY <1>2

(* What CountOccupied counts is a number, and no more than there can be.   *)
LEMMA CountedSeats ==
  ASSUME bookings \in [BookingReference -> Booking \cup {None}], NEW f \in Flight
  PROVE  Cardinality(CabinOccupied(f)) + ActiveBookedSeatCount(f) \in 0 .. MaxOccupied
<1> DEFINE sold  == UNION {{r} \X bookings[r].seat_ids : r \in BookingsOf(f)}
           pairs == BookingReference \X SeatId
           seats == Cardinality(SeatId)
           refs  == Cardinality(BookingReference)
<1>1. sold \subseteq pairs
  BY DEF BookingsOf, References, Booking
<1>2. IsFiniteSet(pairs) /\ Cardinality(pairs) = refs * seats
  BY RepositoryAssumption, FS_Product
<1>3. Cardinality(sold) \in Nat /\ Cardinality(sold) <= refs * seats
  BY <1>1, <1>2, FS_Subset, FS_CardinalityType
<1>4. seats \in Nat /\ refs \in Nat
  BY RepositoryAssumption, FS_CardinalityType
<1>5. MaxOccupied = seats + refs * seats
  <2> HIDE DEF seats, refs
  <2>1. seats * (1 + refs) = seats + refs * seats
    BY <1>4
  <2> QED BY <2>1 DEF seats, refs, MaxOccupied
<1>6. refs * seats \in Nat
  BY <1>4
<1> HIDE DEF sold, seats, refs
<1>7. ActiveBookedSeatCount(f) = Cardinality(sold)
  BY DEF ActiveBookedSeatCount, sold
<1>8. Cardinality(CabinOccupied(f)) \in 0 .. seats
  BY CabinIsFinite DEF seats
<1> QED BY <1>3, <1>4, <1>5, <1>6, <1>7, <1>8

-----------------------------------------------------------------------------
(* How a commit moves through its phases, and what it leaves alone.        *)

LEMMA CommitStepMoves ==
  ASSUME CommitsWellFormed, NEW w \in CommitWorkers, CommitStep(w)
  PROVE  \/ phase'[w] = "idle" /\ local'[w] = None
         \/ EnterCommit(w) /\ InCommit(w)' /\ Request(w).flight_id \in Flight
         \/ ReadValidQuote(w)
         \/ SaveAndConfirm(w)
         \/ /\ UNCHANGED local
            /\ InCommit(w) /\ InCommit(w)'
            /\ phase[w] \in {"release", "audit"} <=> phase'[w] \in {"release", "audit"}
<1> DEFINE Moves == /\ UNCHANGED local
                    /\ InCommit(w) /\ InCommit(w)'
                    /\ phase[w] \in {"release", "audit"} <=> phase'[w] \in {"release", "audit"}
<1>1. w \in DOMAIN phase /\ w \in DOMAIN local
  BY DEF CommitsWellFormed
<1>2. ASSUME NEW outcome, Leave(w, outcome) PROVE phase'[w] = "idle" /\ local'[w] = None
  BY <1>1, <1>2 DEF Leave
<1>3. CASE EnterCommit(w)
  BY <1>1, <1>2, <1>3 DEF EnterCommit, InCommit
<1>4. CASE ReadRawQuote(w) \/ ReadRawLock(w) \/ ChargeDeclined(w) \/ OutOfReferences(w)
             \/ AuditCommit(w)
  BY <1>2, <1>4 DEF ReadRawQuote, ReadRawLock, ChargeDeclined, OutOfReferences, AuditCommit
<1>5. CASE ValidateSeats(w)
  BY <1>1, <1>2, <1>5 DEF ValidateSeats, Goto, InCommit
<1>6. CASE CheckLockValid(w)
  BY <1>1, <1>6 DEF CheckLockValid, Goto, InCommit
<1>7. CASE CheckLockOwner(w)
  BY <1>1, <1>2, <1>7 DEF CheckLockOwner, Goto, InCommit
<1>8. CASE Charge(w)
  BY <1>1, <1>8 DEF Charge, Goto, InCommit
<1>9. CASE ReleaseSeatLock(w)
  BY <1>1, <1>9 DEF ReleaseSeatLock, Goto, InCommit
<1> QED BY <1>3, <1>4, <1>5, <1>6, <1>7, <1>8, <1>9 DEF CommitStep

(* A commit reads the quotes and the clock, and never changes them.        *)
LEMMA CommitReadsQuotes ==
  ASSUME NEW w \in CommitWorkers, CommitStep(w)
  PROVE  UNCHANGED <<clock, quoteVars, arrived>>
BY DEF CommitStep, EnterCommit, ReadValidQuote, ReadRawQuote, ValidateSeats,
       CheckLockValid, CheckLockOwner, ReadRawLock, Charge, ChargeDeclined,
       SaveAndConfirm, OutOfReferences, ReleaseSeatLock, AuditCommit,
       OnlyReads, OnlyAudits, OnlyCharges, lockVars, quoteVars

(* A write, raising or not, leaves the log alone or adds the text of a     *)
(* line, torn or not, to it.                                               *)
Writes(event) ==
  /\ \E line \in {event, Garbled} : AppendText(line)
  /\ ended' \in BOOLEAN
  /\ ended' \/ AuditMayFail

LEMMA WritesLines ==
  ASSUME NEW event, WriteAudit(event) \/ AuditRaises(event)
  PROVE  UNCHANGED auditVars \/ Writes(event)
BY DEF WriteAudit, AuditRaises, Writes

(* Only a charge charges, only a save mails and only the last step, or a   *)
(* declined charge, writes the log.                                        *)
LEMMA CommitWritesLedgers ==
  ASSUME NEW w \in CommitWorkers, CommitStep(w)
  PROVE  /\ Charge(w) \/ UNCHANGED charges
         /\ SaveAndConfirm(w) \/ UNCHANGED outbox
         /\ \/ UNCHANGED auditVars
            \/ ChargeDeclined(w) /\ Writes(PaymentFailed(w))
            \/ AuditCommit(w) /\ Writes(BookingCommitted(w))
BY WritesLines DEF CommitStep, EnterCommit, ReadValidQuote, ReadRawQuote, ValidateSeats,
       CheckLockValid, CheckLockOwner, ReadRawLock, Charge, ChargeDeclined,
       SaveAndConfirm, OutOfReferences, ReleaseSeatLock, AuditCommit,
       OnlyReads, OnlyAudits, OnlyCharges

(* The other threads leave the ledgers of the commits alone.               *)
LEMMA BesideLeavesCommits ==
  ASSUME [SystemNext]_systemVars,
         \A w \in CommitWorkers :
           ~CommitStep(w) /\ \A request \in CommitRequests : ~ReceiveCommit(w, request)
  PROVE  UNCHANGED <<bookings, commitVars>>
BY DEF SystemNext, systemVars, HoldBeside, QuoteBeside, TickBeside

(* Of those, only the quote threads touch the quotes and the log, and only *)
(* the clock moves itself.                                                 *)
LEMMA OnlyQuotesQuote ==
  ASSUME [SystemNext]_systemVars,
         \A w \in CommitWorkers : ~CommitStep(w),
         \A w \in QuoteWorkers : ~QuoteBeside(w)
  PROVE  UNCHANGED <<quoteVars, auditVars>>
BY DEF SystemNext, systemVars, ReceiveCommit, HoldBeside, TickBeside

LEMMA ClockAdvances ==
  ASSUME LockInv, [SystemNext]_systemVars
  PROVE  clock \in Nat /\ clock' \in Nat /\ clock <= clock'
<1>1. clock \in Nat /\ clock' \in Nat
  BY SystemLockInv DEF LockInv, LockTypeOK
<1>2. [LockNext]_lockVars
  BY SystemStepOfStore
<1>3. UNCHANGED clock \/ clock' = clock + 1
  BY <1>2 DEF LockNext, lockVars, HoldStep, StampHold, AcquireGranted, AcquireRefused,
              AcquireOutOfIds, ReleaseLock, LockTick, Tick
<1> QED BY <1>1, <1>3

-----------------------------------------------------------------------------
(* Types: what a commit knows, charges, saves and writes.                  *)

LEMMA CommitTyped ==
  ASSUME LedgerInv, NEW w \in CommitWorkers, phase[w] # "idle"
  PROVE  local[w] \in Local /\ Request(w) \in CommitRequests /\ Request(w) \in CommitRequest
<1>1. local[w] \in Local
  BY DEF LedgerInv, SystemTypeOK, CommitsKnowTheirBooking
<1>2. Request(w) \in CommitRequests
  BY DEF LedgerInv, CommitInv, CommitsWellFormed, Request
<1> QED BY <1>1, <1>2

LEMMA TotalIsMoney ==
  ASSUME LedgerInv, NEW w \in CommitWorkers, InCommit(w)
  PROVE  Total(w) \in Money /\ QuoteIdOf(w) \in QuoteId \cup {NoQuoteId}
<1>1. local[w] \in Local
  BY CommitTyped DEF InCommit
<1>2. Request(w).flight_id \in Flight
  BY DEF LedgerInv, CommitsCiteQuotes, InCommit
<1>3. local[w].quote # None => local[w].quote \in Quote
  BY <1>1 DEF Local
<1> QED BY <1>2, <1>3, CatalogAssumption DEF Total, QuoteIdOf, Quote

LEMMA NewBookingTyped ==
  ASSUME LedgerInv, NEW w \in CommitWorkers, InCommit(w), NEW r \in BookingReference
  PROVE  NewBooking(w, r) \in Booking
<1>1. local[w].now \in Nat
  BY CommitTyped DEF InCommit, Local
<1>2. Request(w).flight_id \in FlightId /\ Request(w).seat_ids \in SUBSET SeatId
  BY CommitTyped DEF InCommit, CommitRequest
<1> QED BY <1>1, <1>2, TotalIsMoney DEF NewBooking, Booking

LEMMA CommitEventsTyped ==
  ASSUME LedgerInv, NEW w \in CommitWorkers, InCommit(w)
  PROVE  /\ PaymentFailed(w) \in Event
         /\ phase[w] = "audit" => BookingCommitted(w) \in Event
<1>1. PaymentFailed(w) \in Event
  <2>1. /\ Request(w).quote_id \in QuoteId \cup {None, UnknownId}
        /\ Request(w).seat_ids \in SUBSET SeatId
    BY CommitTyped DEF InCommit, CommitRequest
  <2> QED BY <2>1, Zenon DEF PaymentFailed, Event
<1>2. ASSUME phase[w] = "audit" PROVE BookingCommitted(w) \in Event
  <2>1. local[w].reference \in BookingReference
    BY <1>2 DEF LedgerInv, CommitsKnowTheirBooking, References
  <2> QED BY <2>1, TotalIsMoney, Zenon DEF BookingCommitted, Event
<1> QED BY <1>1, <1>2

-----------------------------------------------------------------------------
(* The quote threads.                                                      *)

LEMMA QuotingTyped ==
  ASSUME LedgerInv, NEW w \in QuoteWorkers, quoting[w] # None
  PROVE  /\ quoting[w] \in Quoting
         /\ quoting[w].request \in QuoteRequest
         /\ quoting[w].request.flight_id \in Flight
         /\ quoting[w].occupied \in 0 .. MaxOccupied
         /\ quoting[w].now \in 0 .. Departure[quoting[w].request.flight_id]
         /\ quoting[w].now <= clock
<1>1. quoting[w] \in Quoting
  BY DEF LedgerInv, SystemTypeOK
<1>2. Departure \in [Flight -> Nat]
  BY CatalogAssumption
<1>3. MaxOccupied \in Nat
  BY RepositoryAssumption, FS_CardinalityType DEF MaxOccupied
<1> QED BY <1>1, <1>2, <1>3 DEF LedgerInv, QuotesInTheMaking, Quoting

(* A thread goes on with the request it is serving.                        *)
OnlyServes(w) ==
  /\ quoting' \in [QuoteWorkers -> Quoting \cup {None}]
  /\ \A v \in QuoteWorkers \ {w} : quoting'[v] = quoting[v]
  /\ quoting'[w] # None
  /\ quoting'[w].request = quoting[w].request
  /\ quoting'[w].now = quoting[w].now

(* The quote that is saved is priced by what its thread has counted.       *)
LEMMA SavedQuote ==
  ASSUME LedgerInv, NEW w \in QuoteWorkers, SaveQuote(w)
  PROVE  \E id \in QuoteId, quote \in Quote :
           /\ quotes[id] = None
           /\ quotes' = [quotes EXCEPT ![id] = quote]
           /\ OnlyServes(w)
           /\ quoting'[w].occupied = quoting[w].occupied
           /\ quoting'[w].quote_id = id
           /\ quote.id = id
           /\ quote.flight_id \in Flight
           /\ quote.created_at <= clock
           /\ quote.created_at <= Departure[quote.flight_id]
           /\ quote.expires_at = quote.created_at + QUOTE_TTL
           /\ Explains(quoting[w].occupied, quote)
<1>1. PICK id \in QuoteId, session \in SessionsFor(w) :
        /\ quotes[id] = None
        /\ quotes'  = [quotes EXCEPT ![id] = NewQuote(w, id, session)]
        /\ quoting' = [quoting EXCEPT ![w].stage = "audit", ![w].quote_id = id]
  BY DEF SaveQuote
<1> DEFINE request == quoting[w].request
           total   == QuotedTotal(request.flight_id, request.seat_ids,
                                  quoting[w].occupied, quoting[w].now)
           quote   == NewQuote(w, id, session)
<1>2. quoting[w] # None
  BY DEF SaveQuote, At
<1>3. /\ quoting[w] \in Quoting
      /\ request \in QuoteRequest /\ request.flight_id \in Flight
      /\ quoting[w].now \in 0 .. Departure[request.flight_id]
      /\ quoting[w].occupied \in 0 .. MaxOccupied
      /\ quoting[w].now <= clock
  BY <1>2, QuotingTyped
<1>4. /\ request.seat_ids \in SUBSET SeatId /\ request.flight_id \in FlightId
      /\ session \in SessionId
  BY <1>3 DEF QuoteRequest, SessionsFor
<1>5. total \in Money
  BY <1>3, <1>4, PricingAssumption
<1>6. quoting[w].now \in Nat /\ Departure[request.flight_id] \in Nat
  BY <1>3, CatalogAssumption DEF Quoting
<1>7. quote = [id         |-> id,
               session_id |-> session,
               flight_id  |-> request.flight_id,
               seat_ids   |-> request.seat_ids,
               total      |-> total,
               created_at |-> quoting[w].now,
               expires_at |-> quoting[w].now + QUOTE_TTL]
  BY DEF NewQuote
<1> HIDE DEF total, quote
<1>8. quote \in Quote
  BY <1>4, <1>5, <1>6, <1>7 DEF Quote
<1>9. /\ quote.id = id
      /\ quote.flight_id \in Flight
      /\ quote.created_at <= clock
      /\ quote.created_at <= Departure[quote.flight_id]
      /\ quote.expires_at = quote.created_at + QUOTE_TTL
  BY <1>3, <1>7
<1>10. Explains(quoting[w].occupied, quote)
  BY <1>7, <1>8 DEF Explains, total
<1>11. /\ OnlyServes(w)
       /\ quoting'[w].occupied = quoting[w].occupied
       /\ quoting'[w].quote_id = id
  <2>1. quoting \in [QuoteWorkers -> Quoting \cup {None}] /\ quoting[w] \in Quoting
    BY <1>2, <1>3 DEF LedgerInv, SystemTypeOK
  <2>2. /\ quoting'[w] \in Quoting
        /\ quoting'[w].request = quoting[w].request
        /\ quoting'[w].now = quoting[w].now
        /\ quoting'[w].stage = "audit"
        /\ quoting'[w].occupied = quoting[w].occupied
        /\ quoting'[w].quote_id = id
    BY <1>1, <2>1 DEF Quoting
  <2>3. /\ quoting' = [v \in QuoteWorkers |-> quoting'[v]]
        /\ \A v \in QuoteWorkers \ {w} : quoting'[v] = quoting[v]
    BY <1>1, <2>1
  <2>4. OnlyServes(w)
    BY <2>1, <2>2, <2>3 DEF OnlyServes
  <2> QED BY <2>2, <2>4
<1> QED BY <1>1, <1>8, <1>9, <1>10, <1>11 DEF quote

LEMMA CountedQuote ==
  ASSUME LedgerInv, NEW w \in QuoteWorkers, CountOccupied(w)
  PROVE  /\ OnlyServes(w)
         /\ quoting'[w].stage = "save"
         /\ quoting'[w].occupied \in 0 .. MaxOccupied
<1> DEFINE f == quoting[w].request.flight_id
           count == Cardinality(CabinOccupied(f)) + ActiveBookedSeatCount(f)
<1>1. quoting[w] \in Quoting /\ f \in Flight
  BY QuotingTyped DEF CountOccupied, At
<1>2. count \in 0 .. MaxOccupied
  BY <1>1, CountedSeats DEF LedgerInv, SystemTypeOK
<1>3. quoting' = [quoting EXCEPT ![w].stage = "save", ![w].occupied = count]
  BY DEF CountOccupied
<1>4. quoting[w] # None
  BY DEF CountOccupied, At
<1> HIDE DEF count
<1>5. MaxOccupied \in Nat
  BY RepositoryAssumption, FS_CardinalityType DEF MaxOccupied
<1>6. count \in Nat
  BY <1>2, <1>5
<1>7. OnlyServes(w) /\ quoting'[w].stage = "save" /\ quoting'[w].occupied = count
  <2>1. quoting \in [QuoteWorkers -> Quoting \cup {None}] /\ quoting[w] \in Quoting
    BY <1>1, <1>4 DEF LedgerInv, SystemTypeOK
  <2>2. /\ quoting'[w] \in Quoting
        /\ quoting'[w].request = quoting[w].request
        /\ quoting'[w].now = quoting[w].now
        /\ quoting'[w].stage = "save"
        /\ quoting'[w].occupied = count
        /\ quoting'[w].quote_id = quoting[w].quote_id
    BY <1>3, <1>6, <2>1 DEF Quoting
  <2>3. /\ quoting' = [v \in QuoteWorkers |-> quoting'[v]]
        /\ \A v \in QuoteWorkers \ {w} : quoting'[v] = quoting[v]
    BY <1>3, <2>1
  <2>4. OnlyServes(w)
    BY <2>1, <2>2, <2>3 DEF OnlyServes
  <2> QED BY <2>2, <2>4
<1> QED BY <1>2, <1>7

LEMMA WrittenQuote ==
  ASSUME LedgerInv, NEW w \in QuoteWorkers, AuditQuote(w)
  PROVE  LET id == quoting[w].quote_id
         IN  /\ id \in QuoteId
             /\ quotes[id] \in Quote
             /\ Explains(quoting[w].occupied, quotes[id])
             /\ QuoteCreated(w) \in Event
             /\ QuoteCreated(w) = [type     |-> "QuoteCreated",
                                   quote_id |-> id,
                                   occupied |-> quoting[w].occupied,
                                   total    |-> quotes[id].total]
<1> DEFINE id == quoting[w].quote_id
<1>1. quoting[w] # None /\ quoting[w].stage = "audit"
  BY DEF AuditQuote, At
<1>2. id # None /\ Explains(quoting[w].occupied, quotes[id])
  BY <1>1 DEF LedgerInv, QuotesInTheMaking
<1>3. quoting[w] \in Quoting
  BY <1>1, QuotingTyped
<1>4. id \in QuoteId /\ quoting[w].occupied \in Nat
  BY <1>2, <1>3 DEF Quoting
<1>5. quotes[id] \in Quote /\ quotes[id].id = id
  BY <1>2, <1>4 DEF LedgerInv, SystemTypeOK, QuotesInTheStore, Explains
<1>6. QuoteCreated(w) = [type     |-> "QuoteCreated",
                         quote_id |-> id,
                         occupied |-> quoting[w].occupied,
                         total    |-> quotes[id].total]
  BY <1>5 DEF QuoteCreated
<1>7. QuoteCreated(w) \in Event
  <2>1. quotes[id].total \in Money
    BY <1>5 DEF Quote
  <2>2. QuoteCreated(w) \in [type : {"QuoteCreated"}, quote_id : QuoteId, occupied : Nat,
                             total : Money]
    BY <1>4, <1>6, <2>1
  <2> QED BY <2>2, Zenon DEF Event
<1> QED BY <1>2, <1>4, <1>5, <1>6, <1>7

(* What the log gains from a quote thread is one event, written by the     *)
(* step that also lets the client know of the quote.                       *)
LEMMA QuoteStepWrites ==
  ASSUME LedgerInv, NEW w \in QuoteWorkers, QuoteBeside(w)
  PROVE  \/ UNCHANGED <<auditVars, delivered>>
         \/ /\ AuditQuote(w) /\ Writes(QuoteCreated(w))
            /\ \/ UNCHANGED delivered
               \/ /\ AppendText(QuoteCreated(w))
                  /\ delivered' = delivered \cup {quoting[w].quote_id}
<1>1. CASE AuditQuote(w)
  <2>1. CASE AuditRaises(QuoteCreated(w)) /\ UNCHANGED delivered
    BY <1>1, <2>1, WritesLines
  <2>2. CASE /\ WriteAudit(QuoteCreated(w))
             /\ delivered' = delivered \cup {quoting[w].quote_id}
    BY <1>1, <2>2 DEF WriteAudit, Writes
  <2> QED BY <1>1, <2>1, <2>2 DEF AuditQuote
<1>2. CASE ~AuditQuote(w)
  BY <1>2 DEF QuoteBeside, QuoteStep, StampQuote, CountOccupied, SaveQuote, SaveQuoteOutOfIds
<1> QED BY <1>1, <1>2

(* A quote in the store is never changed.                                  *)
LEMMA QuotesOnlyAdded ==
  ASSUME LedgerInv, [SystemNext]_systemVars
  PROVE  /\ \A q \in QuoteId : quotes[q] # None => quotes'[q] = quotes[q]
         /\ delivered \subseteq delivered'
<1>1. ASSUME NEW w \in QuoteWorkers, QuoteBeside(w)
      PROVE  /\ \A q \in QuoteId : quotes[q] # None => quotes'[q] = quotes[q]
             /\ delivered \subseteq delivered'
  <2>1. delivered \subseteq delivered'
    BY <1>1, QuoteStepWrites
  <2>2. CASE SaveQuote(w)
    <3>1. PICK id \in QuoteId, quote \in Quote :
            quotes[id] = None /\ quotes' = [quotes EXCEPT ![id] = quote]
      BY <2>2, SavedQuote
    <3> QED BY <2>1, <3>1 DEF LedgerInv, SystemTypeOK
  <2>3. CASE ~SaveQuote(w)
    BY <1>1, <2>1, <2>3 DEF QuoteBeside, QuoteStep, StampQuote, CountOccupied, SaveQuoteOutOfIds,
                            AuditQuote
  <2> QED BY <2>2, <2>3
<1>2. CASE \A w \in QuoteWorkers : ~QuoteBeside(w)
  <2>1. UNCHANGED quoteVars
    BY <1>2, CommitReadsQuotes, OnlyQuotesQuote
  <2> QED BY <2>1 DEF quoteVars
<1> QED BY <1>1, <1>2

(* What a step adds to the log is a line at its end, torn or not,          *)
NewLine(line) ==
  \E n \in DOMAIN audit' :
    /\ DOMAIN audit' = DOMAIN audit \cup {n}
    /\ n \notin DOMAIN audit
    /\ \A i \in DOMAIN audit : audit'[i] = audit[i] /\ i < n
    /\ audit'[n] = line

(* or a piece that spoils the last line, if that one has not been ended.   *)
LostLine ==
  /\ AuditMayFail
  /\ DOMAIN audit' = DOMAIN audit
  /\ \A i \in DOMAIN audit : audit'[i] \in {audit[i], Garbled}
  /\ \E i \in DOMAIN audit : audit'[i] = Garbled

LEMMA LineAppended ==
  ASSUME LedgerInv, NEW line \in Event \cup {Garbled}, AppendText(line)
  PROVE  /\ audit' \in Seq(Event \cup {Garbled}) /\ audit' # <<>>
         /\ NewLine(line) \/ LostLine
         /\ ended => NewLine(line)
<1>1. audit \in Seq(Event \cup {Garbled}) /\ LogEnds
  BY DEF LedgerInv, SystemTypeOK
<1>2. Len(audit) \in Nat /\ DOMAIN audit = 1 .. Len(audit)
  BY <1>1, LenProperties
<1>3. CASE ended
  <2>1. audit' = Append(audit, line)
    BY <1>3 DEF AppendText
  <2>2. /\ audit' \in Seq(Event \cup {Garbled})
        /\ DOMAIN audit' = DOMAIN audit \cup {Len(audit) + 1}
        /\ \A i \in DOMAIN audit : audit'[i] = audit[i] /\ i < Len(audit) + 1
        /\ Len(audit) + 1 \notin DOMAIN audit
        /\ audit'[Len(audit) + 1] = line
    BY <1>1, <2>1, Appended
  <2>3. NewLine(line)
    BY <2>2 DEF NewLine
  <2>4. DOMAIN audit' # {}
    BY <2>2
  <2> QED BY <2>2, <2>3, <2>4
<1>4. CASE ~ended
  <2>1. AuditMayFail /\ audit # <<>> /\ audit' = [audit EXCEPT ![Len(audit)] = Garbled]
    BY <1>1, <1>4 DEF AppendText, LogEnds
  <2>2. Len(audit) \in 1 .. Len(audit)
    BY <1>1, <1>2, <2>1, EmptySeq
  <2>3. audit' \in Seq(Event \cup {Garbled}) /\ Len(audit') = Len(audit)
    BY <1>1, <2>1, <2>2, ExceptSeq
  <2>4. DOMAIN audit' = DOMAIN audit
    BY <2>1
  <2>5. /\ \A i \in DOMAIN audit : audit'[i] \in {audit[i], Garbled}
        /\ audit'[Len(audit)] = Garbled
    BY <1>2, <2>1, <2>2
  <2>6. LostLine
    BY <1>2, <2>1, <2>2, <2>4, <2>5 DEF LostLine
  <2>7. audit' # <<>>
    BY <1>2, <2>2, <2>4
  <2> QED BY <1>4, <2>3, <2>6, <2>7
<1> QED BY <1>3, <1>4

LEMMA EventWritten ==
  ASSUME LedgerInv, NEW event \in Event, Writes(event)
  PROVE  /\ audit' \in Seq(Event \cup {Garbled}) /\ ended' \in BOOLEAN /\ LogEnds'
         /\ NewLine(event) \/ NewLine(Garbled) \/ LostLine
<1>1. PICK line \in {event, Garbled} : AppendText(line)
  BY DEF Writes
<1>2. line \in Event \cup {Garbled}
  OBVIOUS
<1> QED BY <1>1, <1>2, LineAppended DEF Writes, LogEnds

(* The log changes by an event of a quote or of a commit, by a torn line,  *)
(* or by a line lost.                                                      *)
LEMMA LogGrows ==
  ASSUME LedgerInv, [SystemNext]_systemVars
  PROVE  \/ UNCHANGED auditVars
         \/ \E w \in QuoteWorkers :
              AuditQuote(w) /\ Writes(QuoteCreated(w)) /\ QuoteCreated(w) \in Event
         \/ \E w \in CommitWorkers :
              ChargeDeclined(w) /\ Writes(PaymentFailed(w)) /\ PaymentFailed(w) \in Event
         \/ \E w \in CommitWorkers : /\ AuditCommit(w) /\ phase[w] = "audit"
                                     /\ Writes(BookingCommitted(w))
                                     /\ BookingCommitted(w) \in Event
<1>1. ASSUME NEW w \in QuoteWorkers, QuoteBeside(w), ~UNCHANGED auditVars
      PROVE  AuditQuote(w) /\ Writes(QuoteCreated(w)) /\ QuoteCreated(w) \in Event
  BY <1>1, QuoteStepWrites, WrittenQuote
<1>2. ASSUME NEW w \in CommitWorkers, CommitStep(w), ~UNCHANGED auditVars
      PROVE  \/ ChargeDeclined(w) /\ Writes(PaymentFailed(w)) /\ PaymentFailed(w) \in Event
             \/ /\ AuditCommit(w) /\ phase[w] = "audit"
                /\ Writes(BookingCommitted(w)) /\ BookingCommitted(w) \in Event
  <2>1. CASE ChargeDeclined(w) /\ Writes(PaymentFailed(w))
    <3>1. InCommit(w)
      BY <2>1 DEF ChargeDeclined, InCommit
    <3> QED BY <2>1, <3>1, CommitEventsTyped
  <2>2. CASE AuditCommit(w) /\ Writes(BookingCommitted(w))
    <3>1. InCommit(w) /\ phase[w] = "audit"
      BY <2>2 DEF AuditCommit, InCommit
    <3> QED BY <2>2, <3>1, CommitEventsTyped
  <2> QED BY <1>2, <2>1, <2>2, CommitWritesLedgers
<1> QED BY <1>1, <1>2, OnlyQuotesQuote

-----------------------------------------------------------------------------
(* Every step keeps the types.                                             *)

LEMMA SavedBooking ==
  ASSUME LedgerInv, NEW w \in CommitWorkers, SaveAndConfirm(w)
  PROVE  \E r \in BookingReference \ References :
           /\ NewBooking(w, r) \in Booking
           /\ bookings' = [bookings EXCEPT ![r] = NewBooking(w, r)]
           /\ outbox' = Append(outbox, r)
           /\ local' = [local EXCEPT ![w].reference = r]
<1>1. PICK r \in BookingReference \ References :
        /\ SaveBooking(NewBooking(w, r))
        /\ outbox' = Append(outbox, r)
        /\ local' = [local EXCEPT ![w].reference = r]
  BY DEF SaveAndConfirm
<1>2. NewBooking(w, r) \in Booking
  BY NewBookingTyped DEF SaveAndConfirm, InCommit
<1>3. NewBooking(w, r).reference = r
  BY DEF NewBooking
<1> QED BY <1>1, <1>2, <1>3 DEF SaveBooking

LEMMA LogTyped ==
  ASSUME LedgerInv, [SystemNext]_systemVars
  PROVE  audit' \in Seq(Event \cup {Garbled}) /\ ended' \in BOOLEAN /\ LogEnds'
<1>1. audit \in Seq(Event \cup {Garbled}) /\ ended \in BOOLEAN /\ LogEnds
  BY DEF LedgerInv, SystemTypeOK
<1>2. CASE UNCHANGED auditVars
  BY <1>1, <1>2 DEF auditVars, LogEnds
<1>3. CASE \E event \in Event : Writes(event)
  BY <1>3, EventWritten
<1> QED BY <1>2, <1>3, LogGrows

LEMMA QuotesTyped ==
  ASSUME LedgerInv, [SystemNext]_systemVars
  PROVE  /\ quotes' \in [QuoteId -> Quote \cup {None}]
         /\ quoting' \in [QuoteWorkers -> Quoting \cup {None}]
         /\ delivered' \in SUBSET QuoteId
         /\ minted' \in SUBSET MintedSession
<1> DEFINE Typed == /\ quotes' \in [QuoteId -> Quote \cup {None}]
                    /\ quoting' \in [QuoteWorkers -> Quoting \cup {None}]
                    /\ delivered' \in SUBSET QuoteId
                    /\ minted' \in SUBSET MintedSession
<1>1. /\ quotes \in [QuoteId -> Quote \cup {None}]
      /\ quoting \in [QuoteWorkers -> Quoting \cup {None}]
      /\ delivered \in SUBSET QuoteId
      /\ minted \in SUBSET MintedSession
  BY DEF LedgerInv, SystemTypeOK
<1>2. ASSUME NEW w \in QuoteWorkers, NEW request \in QuoteRequests, StampQuote(w, request)
      PROVE  Typed
  <2> DEFINE new == [stage    |-> "count",
                     request  |-> request,
                     now      |-> clock,
                     occupied |-> 0,
                     quote_id |-> None]
  <2>1. clock \in Nat
    BY DEF LedgerInv, CommitInv, LockInv, LockTypeOK
  <2>2. new \in Quoting
    BY <2>1 DEF Quoting
  <2> HIDE DEF new
  <2>3. quoting' = [quoting EXCEPT ![w] = new] /\ UNCHANGED <<quotes, delivered, minted>>
    BY <1>2 DEF StampQuote, new
  <2> QED BY <1>1, <2>2, <2>3
<1>3. ASSUME NEW w \in QuoteWorkers, CountOccupied(w) PROVE Typed
  <2>1. quoting' \in [QuoteWorkers -> Quoting \cup {None}]
    BY <1>3, CountedQuote DEF OnlyServes
  <2> QED BY <1>1, <1>3, <2>1 DEF CountOccupied
<1>4. ASSUME NEW w \in QuoteWorkers, SaveQuote(w) PROVE Typed
  <2>1. PICK id \in QuoteId, quote \in Quote :
          quotes' = [quotes EXCEPT ![id] = quote] /\ OnlyServes(w)
    BY <1>4, SavedQuote
  <2>2. delivered' = delivered
    BY <1>4 DEF SaveQuote
  <2>3. minted' \in SUBSET MintedSession
    BY <1>1, <1>4 DEF SaveQuote, SessionsFor, MintIfAnonymous
  <2> QED BY <1>1, <2>1, <2>2, <2>3 DEF OnlyServes
<1>5. ASSUME NEW w \in QuoteWorkers, SaveQuoteOutOfIds(w) PROVE Typed
  BY <1>1, <1>5 DEF SaveQuoteOutOfIds, SessionsFor, MintIfAnonymous
<1>6. ASSUME NEW w \in QuoteWorkers, AuditQuote(w) PROVE Typed
  <2>1. quoting[w].quote_id \in QuoteId
    BY <1>6, WrittenQuote
  <2> QED BY <1>1, <1>6, <2>1 DEF AuditQuote
<1>7. CASE \A w \in QuoteWorkers : ~QuoteBeside(w)
  <2>1. UNCHANGED quoteVars
    BY <1>7, CommitReadsQuotes, OnlyQuotesQuote
  <2> QED BY <1>1, <2>1 DEF quoteVars
<1> HIDE DEF Typed
<1>8. ASSUME NEW w \in QuoteWorkers, QuoteBeside(w) PROVE Typed
  BY <1>2, <1>3, <1>4, <1>5, <1>6, <1>8 DEF QuoteBeside, QuoteStep
<1> QED BY <1>7, <1>8 DEF Typed

LEMMA BookingsTyped ==
  ASSUME LedgerInv, [SystemNext]_systemVars
  PROVE  /\ bookings' \in [BookingReference -> Booking \cup {None}]
         /\ outbox' \in Seq(BookingReference)
<1>1. /\ bookings \in [BookingReference -> Booking \cup {None}]
      /\ outbox \in Seq(BookingReference)
  BY DEF LedgerInv, SystemTypeOK
<1>2. ASSUME NEW w \in CommitWorkers, SaveAndConfirm(w)
      PROVE  /\ bookings' \in [BookingReference -> Booking \cup {None}]
             /\ outbox' \in Seq(BookingReference)
  <2>1. PICK r \in BookingReference \ References :
          /\ NewBooking(w, r) \in Booking
          /\ bookings' = [bookings EXCEPT ![r] = NewBooking(w, r)]
          /\ outbox' = Append(outbox, r)
    BY <1>2, SavedBooking
  <2> QED BY <1>1, <2>1, Appended
<1>3. CASE \A w \in CommitWorkers : ~SaveAndConfirm(w)
  <2>1. ASSUME NEW w \in CommitWorkers, CommitStep(w) PROVE UNCHANGED <<bookings, outbox>>
    BY <1>3, <2>1, CommitStepWrites, CommitWritesLedgers
  <2>2. UNCHANGED <<bookings, outbox>>
    BY <2>1 DEF SystemNext, systemVars, commitVars, ReceiveCommit, HoldBeside, QuoteBeside, TickBeside
  <2> QED BY <1>1, <2>2
<1> QED BY <1>2, <1>3

LEMMA ChargesTyped ==
  ASSUME LedgerInv, [SystemNext]_systemVars
  PROVE  charges' \in Seq(Money)
<1>1. charges \in Seq(Money)
  BY DEF LedgerInv, SystemTypeOK
<1>2. ASSUME NEW w \in CommitWorkers, Charge(w) PROVE charges' \in Seq(Money)
  <2>1. InCommit(w) /\ charges' = Append(charges, Total(w))
    BY <1>2 DEF Charge, InCommit
  <2> QED BY <1>1, <2>1, TotalIsMoney, Appended
<1>3. CASE \A w \in CommitWorkers : ~Charge(w)
  <2>1. UNCHANGED charges
    BY <1>3, CommitWritesLedgers
    DEF SystemNext, systemVars, commitVars, ReceiveCommit, HoldBeside, QuoteBeside, TickBeside
  <2> QED BY <1>1, <2>1
<1> QED BY <1>2, <1>3

(* A step of a commit that does not end it: what it learns.                *)
LEMMA CommitStepLearns ==
  ASSUME LedgerInv, NEW w \in CommitWorkers, CommitStep(w), phase'[w] # "idle"
  PROVE  /\ InCommit(w)'
         /\ local'[w] \in Local
         /\ local'[w].request = local[w].request
         /\ \/ /\ EnterCommit(w) /\ Request(w).flight_id \in Flight
               /\ local'[w].now = clock
               /\ local'[w].quote = local[w].quote
               /\ local'[w].reference = local[w].reference
               /\ phase'[w] \notin {"release", "audit"}
            \/ /\ ReadValidQuote(w)
               /\ local'[w].now = local[w].now
               /\ local'[w].quote = GetValidQuote(Request(w).quote_id, local[w].now)
               /\ local'[w].reference = local[w].reference
               /\ phase'[w] \notin {"release", "audit"}
            \/ /\ SaveAndConfirm(w)
               /\ local'[w].now = local[w].now
               /\ local'[w].quote = local[w].quote
               /\ phase'[w] \in {"release", "audit"}
            \/ /\ UNCHANGED local
               /\ InCommit(w)
               /\ phase[w] \in {"release", "audit"} <=> phase'[w] \in {"release", "audit"}
<1>1. /\ local \in [CommitWorkers -> Local \cup {None}]
      /\ w \in DOMAIN phase /\ CommitsWellFormed
      /\ clock \in Nat
      /\ quotes \in [QuoteId -> Quote \cup {None}]
  BY DEF LedgerInv, SystemTypeOK, CommitInv, CommitsWellFormed, LockInv, LockTypeOK
<1>2. local[w] \in Local /\ phase[w] # "idle"
  BY <1>1, CommitStepLocal, CommitTyped
<1>3. ASSUME EnterCommit(w), Request(w).flight_id \in Flight
      PROVE  /\ InCommit(w)' /\ phase'[w] \notin {"release", "audit"}
             /\ local'[w] \in Local
             /\ local'[w].request = local[w].request
             /\ local'[w].now = clock
             /\ local'[w].quote = local[w].quote
             /\ local'[w].reference = local[w].reference
  <2>1. local' = [local EXCEPT ![w].now = clock] /\ phase'[w] \in {"seats", "validQuote"}
    BY <1>1, <1>3 DEF EnterCommit
  <2> QED BY <1>1, <1>2, <2>1 DEF Local, InCommit
<1>4. ASSUME ReadValidQuote(w)
      PROVE  /\ InCommit(w)' /\ phase'[w] \notin {"release", "audit"}
             /\ local'[w] \in Local
             /\ local'[w].request = local[w].request
             /\ local'[w].now = local[w].now
             /\ local'[w].quote = GetValidQuote(Request(w).quote_id, local[w].now)
             /\ local'[w].reference = local[w].reference
  <2> DEFINE quote == GetValidQuote(Request(w).quote_id, local[w].now)
  <2>1. local' = [local EXCEPT ![w].quote = quote] /\ phase'[w] \in {"seats", "rawQuote"}
    BY <1>1, <1>4 DEF ReadValidQuote, Goto
  <2>2. quote \in Quote \cup {None}
    BY <1>1 DEF GetValidQuote, GetQuote
  <2> HIDE DEF quote
  <2>3. /\ local'[w] \in Local
        /\ local'[w].request = local[w].request
        /\ local'[w].now = local[w].now
        /\ local'[w].quote = quote
        /\ local'[w].reference = local[w].reference
    BY <1>1, <1>2, <2>1, <2>2 DEF Local
  <2> QED BY <2>1, <2>3 DEF InCommit, quote
<1>5. ASSUME SaveAndConfirm(w)
      PROVE  /\ InCommit(w)' /\ phase'[w] \in {"release", "audit"}
             /\ local'[w] \in Local
             /\ local'[w].request = local[w].request
             /\ local'[w].now = local[w].now
             /\ local'[w].quote = local[w].quote
  <2>1. PICK r \in BookingReference : local' = [local EXCEPT ![w].reference = r]
    BY <1>5, SavedBooking
  <2>2. phase'[w] \in {"release", "audit"}
    BY <1>1, <1>5 DEF SaveAndConfirm, Goto
  <2>3. /\ local'[w] \in Local
        /\ local'[w].request = local[w].request
        /\ local'[w].now = local[w].now
        /\ local'[w].quote = local[w].quote
    BY <1>1, <1>2, <2>1 DEF Local
  <2> QED BY <2>2, <2>3 DEF InCommit
<1> QED BY <1>1, <1>2, <1>3, <1>4, <1>5, CommitStepMoves

LEMMA LocalsTyped ==
  ASSUME LedgerInv, [SystemNext]_systemVars
  PROVE  local' \in [CommitWorkers -> Local \cup {None}]
<1>1. local \in [CommitWorkers -> Local \cup {None}] /\ CommitsWellFormed
  BY DEF LedgerInv, SystemTypeOK, CommitInv
<1>2. ASSUME NEW w \in CommitWorkers, CommitStep(w)
      PROVE  local' \in [CommitWorkers -> Local \cup {None}]
  <2>1. /\ local' = [v \in CommitWorkers |-> local'[v]]
        /\ \A v \in CommitWorkers \ {w} : local'[v] = local[v]
    BY <1>1, <1>2, CommitStepLocal
  <2>2. local'[w] \in Local \cup {None}
    <3>1. CASE phase'[w] # "idle"
      BY <1>2, <3>1, CommitStepLearns
    <3>2. CASE phase'[w] = "idle"
      <4>1. ~InCommit(w)' /\ w \in DOMAIN phase
        BY <1>1, <3>2 DEF InCommit, CommitsWellFormed
      <4>2. ~ReadValidQuote(w) /\ ~SaveAndConfirm(w)
        BY <3>2, <4>1 DEF ReadValidQuote, SaveAndConfirm, Goto
      <4> QED BY <1>1, <1>2, <4>1, <4>2, CommitStepMoves
    <3> QED BY <3>1, <3>2
  <2> QED BY <1>1, <2>1, <2>2
<1>3. ASSUME NEW w \in CommitWorkers, NEW request \in CommitRequests, ReceiveCommit(w, request)
      PROVE  local' \in [CommitWorkers -> Local \cup {None}]
  <2> DEFINE new == [request |-> request, now |-> 0, quote |-> None, reference |-> None]
  <2>1. new \in Local
    BY DEF Local
  <2>2. local' = [local EXCEPT ![w] = new]
    BY <1>3 DEF ReceiveCommit
  <2> QED BY <1>1, <2>1, <2>2
<1>4. CASE UNCHANGED local
  BY <1>1, <1>4
<1> QED BY <1>2, <1>3, <1>4, BesideLeavesCommits DEF commitVars

LEMMA ResponsesTyped ==
  ASSUME LedgerInv, [SystemNext]_systemVars
  PROVE  response' \in [CommitWorkers -> Outcome]
<1>1. response \in [CommitWorkers -> Outcome]
  BY DEF LedgerInv, SystemTypeOK
<1>2. ASSUME NEW w \in CommitWorkers, NEW outcome \in Outcome, Leave(w, outcome)
      PROVE  response' \in [CommitWorkers -> Outcome]
  BY <1>1, <1>2 DEF Leave
<1>3. ASSUME NEW w \in CommitWorkers, NEW next, Goto(w, next)
      PROVE  response' \in [CommitWorkers -> Outcome]
  BY <1>1, <1>3 DEF Goto
<1>4. ASSUME NEW w \in CommitWorkers, CommitStep(w)
      PROVE  response' \in [CommitWorkers -> Outcome]
  <2>1. CASE EnterCommit(w)
    BY <1>1, <1>2, <2>1 DEF EnterCommit, Outcome
  <2>2. CASE ValidateSeats(w)
    <3>1. SeatErrors(Request(w)) \subseteq Outcome
      BY DEF SeatErrors, Outcome
    <3> QED BY <1>2, <1>3, <2>2, <3>1 DEF ValidateSeats
  <2>3. CASE ReadRawQuote(w) \/ ReadRawLock(w) \/ OutOfReferences(w)
    BY <1>2, <2>3 DEF ReadRawQuote, ReadRawLock, OutOfReferences, Outcome
  <2>4. CASE CheckLockOwner(w)
    BY <1>2, <1>3, <2>4 DEF CheckLockOwner, Outcome
  <2>5. CASE ChargeDeclined(w) \/ AuditCommit(w)
    BY <1>2, <2>5 DEF ChargeDeclined, AuditCommit, Outcome
  <2>6. CASE ReadValidQuote(w) \/ CheckLockValid(w) \/ Charge(w) \/ SaveAndConfirm(w)
               \/ ReleaseSeatLock(w)
    BY <1>3, <2>6 DEF ReadValidQuote, CheckLockValid, Charge, SaveAndConfirm, ReleaseSeatLock
  <2> QED BY <1>4, <2>1, <2>2, <2>3, <2>4, <2>5, <2>6 DEF CommitStep
<1>5. ASSUME NEW w \in CommitWorkers, NEW request \in CommitRequests, ReceiveCommit(w, request)
      PROVE  response' \in [CommitWorkers -> Outcome]
  BY <1>1, <1>5 DEF ReceiveCommit, Outcome
<1> QED BY <1>1, <1>4, <1>5, BesideLeavesCommits DEF commitVars

(* The type invariant.                                                     *)
LEMMA SystemTypes ==
  ASSUME LedgerInv, [SystemNext]_systemVars
  PROVE  SystemTypeOK'
<1>1. CommitInv'
  BY SystemStepInv DEF LedgerInv
<1>2. LockTypeOK' /\ commitLock' \in CommitWorkers \cup {None} /\ phase' \in [CommitWorkers -> Phases]
  BY <1>1 DEF CommitInv, CommitsWellFormed, LockInv
<1>3. arrived' \in 0 .. MaxCommits
  <2>1. arrived \in 0 .. MaxCommits
    BY DEF LedgerInv, SystemTypeOK
  <2>2. UNCHANGED arrived \/ (arrived < MaxCommits /\ arrived' = arrived + 1)
    BY CommitReadsQuotes, BesideLeavesCommits DEF ReceiveCommit, commitVars
  <2> QED BY <2>1, <2>2
<1> QED BY <1>2, <1>3, LogTyped, QuotesTyped, BookingsTyped, ChargesTyped, LocalsTyped,
        ResponsesTyped DEF SystemTypeOK

-----------------------------------------------------------------------------
(* Every step keeps what is known of quotes.                               *)

(* A quote that explains itself does so for ever.                          *)
LEMMA StillExplains ==
  ASSUME LedgerInv, [SystemNext]_systemVars, NEW q \in QuoteId, NEW occupied,
         Explains(occupied, quotes[q])
  PROVE  Explains(occupied, quotes'[q])
BY QuotesOnlyAdded DEF Explains

LEMMA StoreKept ==
  ASSUME LedgerInv, [SystemNext]_systemVars
  PROVE  QuotesInTheStore'
<1>1. clock \in Nat /\ clock' \in Nat /\ clock <= clock'
  BY ClockAdvances DEF LedgerInv, CommitInv
<1>2. quotes \in [QuoteId -> Quote \cup {None}]
  BY DEF LedgerInv, SystemTypeOK
<1> SUFFICES ASSUME NEW q \in QuoteId, quotes'[q] # None
             PROVE  /\ quotes'[q].id = q
                    /\ quotes'[q].flight_id \in Flight
                    /\ quotes'[q].created_at <= clock'
                    /\ quotes'[q].created_at <= Departure[quotes'[q].flight_id]
                    /\ quotes'[q].expires_at = quotes'[q].created_at + QUOTE_TTL
  BY DEF QuotesInTheStore
<1>3. CASE quotes[q] # None
  <2>1. quotes'[q] = quotes[q]
    BY <1>3, QuotesOnlyAdded
  <2>2. quotes[q].created_at \in Nat
    BY <1>2, <1>3 DEF Quote
  <2> QED BY <1>1, <1>3, <2>1, <2>2 DEF LedgerInv, QuotesInTheStore
<1>4. CASE quotes[q] = None
  <2>1. PICK w \in QuoteWorkers : SaveQuote(w)
    <3>1. quotes' # quotes
      BY <1>4
    <3>2. PICK w \in QuoteWorkers : QuoteBeside(w)
      BY <3>1, CommitReadsQuotes, OnlyQuotesQuote DEF quoteVars
    <3> QED BY <3>1, <3>2 DEF QuoteBeside, QuoteStep, StampQuote, CountOccupied,
                              SaveQuoteOutOfIds, AuditQuote
  <2>2. PICK id \in QuoteId, quote \in Quote :
          /\ quotes' = [quotes EXCEPT ![id] = quote]
          /\ quote.id = id
          /\ quote.flight_id \in Flight
          /\ quote.created_at <= clock
          /\ quote.created_at <= Departure[quote.flight_id]
          /\ quote.expires_at = quote.created_at + QUOTE_TTL
    BY <2>1, SavedQuote
  <2>3. q = id /\ quotes'[q] = quote
    BY <1>2, <1>4, <2>2
  <2>4. quote.created_at \in Nat
    BY DEF Quote
  <2> QED BY <1>1, <2>2, <2>3, <2>4
<1> QED BY <1>3, <1>4

(* A thread whose request stands as it did still knows what it knew.       *)
LEMMA MakingStands ==
  ASSUME LedgerInv, [SystemNext]_systemVars,
         NEW w \in QuoteWorkers, quoting'[w] = quoting[w], quoting[w] # None
  PROVE  /\ quoting'[w].request.flight_id \in Flight
         /\ quoting'[w].now <= clock'
         /\ quoting'[w].now <= Departure[quoting'[w].request.flight_id]
         /\ quoting'[w].occupied <= MaxOccupied
         /\ quoting'[w].stage = "audit" =>
              /\ quoting'[w].quote_id # None
              /\ Explains(quoting'[w].occupied, quotes'[quoting'[w].quote_id])
<1>1. clock \in Nat /\ clock' \in Nat /\ clock <= clock'
  BY ClockAdvances DEF LedgerInv, CommitInv
<1>2. quoting[w] \in Quoting
  BY QuotingTyped
<1>3. /\ quoting[w].request.flight_id \in Flight
      /\ quoting[w].now <= clock
      /\ quoting[w].now <= Departure[quoting[w].request.flight_id]
      /\ quoting[w].occupied <= MaxOccupied
      /\ quoting[w].stage = "audit" =>
           /\ quoting[w].quote_id # None
           /\ Explains(quoting[w].occupied, quotes[quoting[w].quote_id])
  BY DEF LedgerInv, QuotesInTheMaking
<1>4. quoting[w].now \in Nat /\ quoting[w].quote_id \in QuoteId \cup {None}
  BY <1>2 DEF Quoting
<1> QED BY <1>1, <1>3, <1>4, StillExplains

LEMMA MakingKept ==
  ASSUME LedgerInv, [SystemNext]_systemVars
  PROVE  QuotesInTheMaking'
<1> DEFINE Made(v) == /\ quoting'[v].request.flight_id \in Flight
                      /\ quoting'[v].now <= clock'
                      /\ quoting'[v].now <= Departure[quoting'[v].request.flight_id]
                      /\ quoting'[v].occupied <= MaxOccupied
                      /\ quoting'[v].stage = "audit" =>
                           /\ quoting'[v].quote_id # None
                           /\ Explains(quoting'[v].occupied, quotes'[quoting'[v].quote_id])
<1>1. quoting \in [QuoteWorkers -> Quoting \cup {None}]
  BY DEF LedgerInv, SystemTypeOK
<1>2. ASSUME NEW v \in QuoteWorkers, quoting'[v] = quoting[v], quoting'[v] # None PROVE Made(v)
  BY <1>2, MakingStands
<1>3. clock \in Nat /\ MaxOccupied \in Nat
  BY ClockAdvances, RepositoryAssumption, FS_CardinalityType
  DEF LedgerInv, CommitInv, MaxOccupied
<1>4. ASSUME NEW w \in QuoteWorkers, QuoteBeside(w)
      PROVE  /\ \A v \in QuoteWorkers \ {w} : quoting'[v] = quoting[v]
             /\ quoting'[w] # None => Made(w)
  <2>0. clock' = clock
    BY <1>4 DEF QuoteBeside, lockVars
  <2>1. ASSUME NEW request \in QuoteRequests, StampQuote(w, request)
        PROVE  /\ \A v \in QuoteWorkers \ {w} : quoting'[v] = quoting[v]
               /\ quoting'[w] # None => Made(w)
    <3>1. quoting'[w] = [stage    |-> "count",
                         request  |-> request,
                         now      |-> clock,
                         occupied |-> 0,
                         quote_id |-> None]
      BY <1>1, <2>1 DEF StampQuote
    <3>2. request.flight_id \in Flight /\ clock <= Departure[request.flight_id]
      BY <2>1 DEF StampQuote
    <3>3. \A v \in QuoteWorkers \ {w} : quoting'[v] = quoting[v]
      BY <1>1, <2>1 DEF StampQuote
    <3> QED BY <1>3, <2>0, <3>1, <3>2, <3>3
  <2>2. CASE CountOccupied(w)
    <3>1. quoting[w] # None
      BY <2>2 DEF CountOccupied, At
    <3>2. /\ quoting[w].request.flight_id \in Flight
          /\ quoting[w].now <= clock
          /\ quoting[w].now <= Departure[quoting[w].request.flight_id]
      BY <3>1 DEF LedgerInv, QuotesInTheMaking
    <3> QED BY <1>3, <2>0, <2>2, <3>2, CountedQuote DEF OnlyServes
  <2>3. CASE SaveQuote(w)
    <3>1. quoting[w] # None
      BY <2>3 DEF SaveQuote, At
    <3>2. /\ quoting[w].request.flight_id \in Flight
          /\ quoting[w].now <= clock
          /\ quoting[w].now <= Departure[quoting[w].request.flight_id]
          /\ quoting[w].occupied <= MaxOccupied
      BY <3>1 DEF LedgerInv, QuotesInTheMaking
    <3>3. PICK id \in QuoteId, quote \in Quote :
            /\ quotes' = [quotes EXCEPT ![id] = quote]
            /\ OnlyServes(w)
            /\ quoting'[w].occupied = quoting[w].occupied
            /\ quoting'[w].quote_id = id
            /\ Explains(quoting[w].occupied, quote)
      BY <2>3, SavedQuote
    <3>4. quotes'[id] = quote /\ id # None
      BY <3>3 DEF LedgerInv, SystemTypeOK
    <3> QED BY <2>0, <3>2, <3>3, <3>4 DEF OnlyServes
  <2>4. CASE SaveQuoteOutOfIds(w) \/ AuditQuote(w)
    <3>1. quoting' = [quoting EXCEPT ![w] = None]
      BY <2>4 DEF SaveQuoteOutOfIds, AuditQuote
    <3> QED BY <1>1, <3>1
  <2> QED BY <1>4, <2>1, <2>2, <2>3, <2>4 DEF QuoteBeside, QuoteStep
<1>5. CASE \A w \in QuoteWorkers : ~QuoteBeside(w)
  <2>1. UNCHANGED quoting
    BY <1>5, CommitReadsQuotes, OnlyQuotesQuote DEF quoteVars
  <2> QED BY <1>2, <2>1 DEF QuotesInTheMaking
<1>6. ASSUME NEW w \in QuoteWorkers, QuoteBeside(w) PROVE QuotesInTheMaking'
  <2>1. \A v \in QuoteWorkers : quoting'[v] # None => Made(v)
    BY <1>2, <1>4, <1>6
  <2> QED BY <2>1 DEF QuotesInTheMaking
<1> QED BY <1>5, <1>6

-----------------------------------------------------------------------------
(* Every step keeps what the log says of quotes.                           *)

LEMMA QuoteEventTyped ==
  ASSUME LedgerInv, NEW i \in Events("QuoteCreated")
  PROVE  audit[i].quote_id \in QuoteId
<1>1. audit[i] \in Event /\ audit[i].type = "QuoteCreated"
  <2>1. audit \in Seq(Event \cup {Garbled})
    BY DEF LedgerInv, SystemTypeOK
  <2> QED BY <2>1 DEF Events, Garbled
<1>2. audit[i] \in [type : {"QuoteCreated"}, quote_id : QuoteId, occupied : Nat, total : Money]
  BY <1>1 DEF Event
<1> QED BY <1>2

(* The log after a step: what it was, up to a line lost or torn, and       *)
(* perhaps one line more.  If it can still be read, nothing was lost.      *)
LEMMA LogAfter ==
  ASSUME LedgerInv, [SystemNext]_systemVars
  PROVE  /\ \A i \in DOMAIN audit : i \in DOMAIN audit' /\ audit'[i] \in {audit[i], Garbled}
         /\ Readable' => Readable /\ \A i \in DOMAIN audit : audit'[i] = audit[i]
         /\ \A i \in DOMAIN audit' \ DOMAIN audit :
              /\ \A j \in DOMAIN audit : j < i
              /\ \/ audit'[i] = Garbled
                 \/ \E w \in QuoteWorkers : AuditQuote(w) /\ audit'[i] = QuoteCreated(w)
                 \/ \E w \in CommitWorkers :
                      ChargeDeclined(w) /\ audit'[i] = PaymentFailed(w)
                 \/ \E w \in CommitWorkers : /\ AuditCommit(w) /\ phase[w] = "audit"
                                             /\ audit'[i] = BookingCommitted(w)
<1>1. ASSUME \A i \in DOMAIN audit : i \in DOMAIN audit' /\ audit'[i] \in {audit[i], Garbled}
      PROVE  Readable' => Readable /\ \A i \in DOMAIN audit : audit'[i] = audit[i]
  <2> SUFFICES ASSUME Readable', NEW i \in DOMAIN audit
               PROVE  audit'[i] = audit[i] /\ audit[i].type # "Garbled"
    BY DEF Readable, Events
  <2>1. audit'[i].type # "Garbled"
    BY <1>1 DEF Readable, Events
  <2> QED BY <1>1, <2>1 DEF Garbled
<1>2. CASE UNCHANGED auditVars
  BY <1>2 DEF auditVars, Readable, Events
<1>3. ASSUME NEW event \in Event, Writes(event)
      PROVE  /\ \A i \in DOMAIN audit : i \in DOMAIN audit' /\ audit'[i] \in {audit[i], Garbled}
             /\ \A i \in DOMAIN audit' \ DOMAIN audit :
                  (\A j \in DOMAIN audit : j < i) /\ audit'[i] \in {event, Garbled}
  <2>1. NewLine(event) \/ NewLine(Garbled) \/ LostLine
    BY <1>3, EventWritten
  <2> QED BY <2>1 DEF NewLine, LostLine
<1> QED BY <1>1, <1>2, <1>3, LogGrows

LEMMA ExplanationsKept ==
  ASSUME LedgerInv, [SystemNext]_systemVars
  PROVE  AuditExplainsTotals'
<1> SUFFICES ASSUME NEW i \in Events("QuoteCreated")'
             PROVE  /\ Explains(audit'[i].occupied, quotes'[audit'[i].quote_id])
                    /\ audit'[i].total = quotes'[audit'[i].quote_id].total
  BY DEF AuditExplainsTotals, Explains
<1>1. ASSUME NEW q \in QuoteId, Explains(audit'[i].occupied, quotes[q]), audit'[i].quote_id = q,
             audit'[i].total = quotes[q].total
      PROVE  /\ Explains(audit'[i].occupied, quotes'[audit'[i].quote_id])
             /\ audit'[i].total = quotes'[audit'[i].quote_id].total
  BY <1>1, StillExplains, QuotesOnlyAdded DEF Explains
<1>2. CASE i \in DOMAIN audit
  <2>1. i \in Events("QuoteCreated") /\ audit'[i] = audit[i]
    BY <1>2, LogAfter DEF Events, Garbled
  <2>2. /\ audit[i].quote_id \in QuoteId
        /\ Explains(audit[i].occupied, quotes[audit[i].quote_id])
        /\ audit[i].total = quotes[audit[i].quote_id].total
    BY <2>1, QuoteEventTyped DEF LedgerInv, AuditExplainsTotals
  <2> QED BY <1>1, <2>1, <2>2
<1>3. CASE i \notin DOMAIN audit
  <2>1. i \in DOMAIN audit' /\ audit'[i].type = "QuoteCreated"
    BY DEF Events
  <2>2. PICK w \in QuoteWorkers : AuditQuote(w) /\ audit'[i] = QuoteCreated(w)
    BY <1>3, <2>1, LogAfter DEF PaymentFailed, BookingCommitted, Garbled
  <2>3. /\ quoting[w].quote_id \in QuoteId
        /\ Explains(quoting[w].occupied, quotes[quoting[w].quote_id])
        /\ audit'[i] = [type     |-> "QuoteCreated",
                        quote_id |-> quoting[w].quote_id,
                        occupied |-> quoting[w].occupied,
                        total    |-> quotes[quoting[w].quote_id].total]
    BY <2>2, WrittenQuote
  <2> QED BY <1>1, <2>3
<1> QED BY <1>2, <1>3

LEMMA DeliveriesKept ==
  ASSUME LedgerInv, [SystemNext]_systemVars
  PROVE  DeliveredIsLogged'
<1> SUFFICES ASSUME NEW q \in delivered'
             PROVE  /\ quotes'[q] # None
                    /\ Readable' =>
                         \E i \in Events("QuoteCreated")' :
                           audit'[i].quote_id = q /\ audit'[i].total = quotes'[q].total
  BY DEF DeliveredIsLogged
<1>1. CASE q \in delivered
  <2>1. q \in QuoteId
    BY <1>1 DEF LedgerInv, SystemTypeOK
  <2>2. /\ quotes[q] # None
        /\ Readable => \E i \in Events("QuoteCreated") :
                         audit[i].quote_id = q /\ audit[i].total = quotes[q].total
    BY <1>1 DEF LedgerInv, DeliveredIsLogged
  <2>3. quotes'[q] = quotes[q]
    BY <2>1, <2>2, QuotesOnlyAdded
  <2>4. Readable' => Readable /\ \A i \in Events("QuoteCreated") :
                                  i \in Events("QuoteCreated")' /\ audit'[i] = audit[i]
    BY LogAfter DEF Events
  <2> QED BY <2>2, <2>3, <2>4
<1>2. CASE q \notin delivered
  <2>1. PICK w \in QuoteWorkers : QuoteBeside(w)
    BY <1>2, CommitReadsQuotes, OnlyQuotesQuote DEF quoteVars
  <2>2. AuditQuote(w) /\ AppendText(QuoteCreated(w)) /\ q = quoting[w].quote_id
    BY <1>2, <2>1, QuoteStepWrites
  <2>3. /\ q \in QuoteId
        /\ quotes[q] # None
        /\ QuoteCreated(w) \in Event
        /\ QuoteCreated(w) = [type     |-> "QuoteCreated",
                              quote_id |-> q,
                              occupied |-> quoting[w].occupied,
                              total    |-> quotes[q].total]
    BY <2>2, WrittenQuote DEF Explains
  <2>4. quotes'[q] = quotes[q]
    BY <2>3, QuotesOnlyAdded
  <2>5. ASSUME Readable'
        PROVE  \E i \in Events("QuoteCreated")' : audit'[i] = QuoteCreated(w)
    <3>1. NewLine(QuoteCreated(w)) \/ LostLine
      BY <2>2, <2>3, LineAppended
    <3>2. ~LostLine
      BY <2>5 DEF LostLine, Readable, Events, Garbled
    <3>3. PICK i \in DOMAIN audit' : audit'[i] = QuoteCreated(w)
      BY <3>1, <3>2 DEF NewLine
    <3>4. audit'[i].type = "QuoteCreated"
      BY <2>3, <3>3
    <3> QED BY <3>3, <3>4 DEF Events
  <2> QED BY <2>3, <2>4, <2>5
<1> QED BY <1>1, <1>2

(* A commit that has a quote means the one in the store, whose time had    *)
(* not run out; and unless it guessed the id, it was given it.             *)
LEMMA CitedQuote ==
  ASSUME LedgerInv, NEW w \in CommitWorkers, InCommit(w), local[w].quote # None
  PROVE  /\ local[w].quote \in Quote
         /\ QuoteIdOf(w) \in QuoteId
         /\ quotes[QuoteIdOf(w)] = local[w].quote
         /\ Total(w) = local[w].quote.total
         /\ local[w].now < local[w].quote.expires_at
         /\ QuoteIdOf(w) \notin Guessed =>
              QuoteIdOf(w) \in delivered /\ local[w].quote.created_at <= local[w].now
<1>1. phase[w] # "idle"
  BY DEF InCommit
<1> DEFINE q == Request(w).quote_id
<1>2. /\ q \in QuoteId
      /\ q \in delivered \cup Guessed \cup {None, UnknownId}
      /\ q \in delivered \ Guessed => quotes[q].created_at <= local[w].now
      /\ local[w].quote = quotes[q]
      /\ local[w].now < local[w].quote.expires_at
  BY <1>1 DEF LedgerInv, CommitsCiteQuotes
<1>3. quotes[q] \in Quote /\ quotes[q].id = q
  BY <1>2 DEF LedgerInv, SystemTypeOK, QuotesInTheStore
<1>4. QuoteIdOf(w) = q /\ Total(w) = local[w].quote.total
  BY <1>2, <1>3 DEF QuoteIdOf, Total
<1> QED BY <1>2, <1>3, <1>4

LEMMA ReplayKept ==
  ASSUME LedgerInv, [SystemNext]_systemVars
  PROVE  ReplayVerifies'
<1> SUFFICES ASSUME Readable', NEW i \in Events("BookingCommitted")',
                    audit'[i].quote_id \notin Guessed \cup {NoQuoteId}
             PROVE  \E j \in Events("QuoteCreated")' :
                      /\ j < i
                      /\ audit'[j].quote_id = audit'[i].quote_id
                      /\ audit'[j].total = audit'[i].total_charged
  BY DEF ReplayVerifies
<1>1. /\ Readable
      /\ \A j \in Events("QuoteCreated") :
           j \in Events("QuoteCreated")' /\ audit'[j] = audit[j]
  BY LogAfter DEF Events
<1>2. CASE i \in DOMAIN audit
  <2>1. i \in Events("BookingCommitted") /\ audit'[i] = audit[i]
    BY <1>2, LogAfter DEF Events
  <2>2. PICK j \in Events("QuoteCreated") :
          /\ j < i
          /\ audit[j].quote_id = audit[i].quote_id
          /\ audit[j].total = audit[i].total_charged
    BY <1>1, <2>1 DEF LedgerInv, ReplayVerifies
  <2> QED BY <1>1, <2>1, <2>2
<1>3. CASE i \notin DOMAIN audit
  <2>1. i \in DOMAIN audit' /\ audit'[i].type = "BookingCommitted"
    BY DEF Events
  <2>2. PICK w \in CommitWorkers : phase[w] = "audit" /\ audit'[i] = BookingCommitted(w)
    <3>1. ASSUME NEW w \in QuoteWorkers, AuditQuote(w), audit'[i] = QuoteCreated(w) PROVE FALSE
      BY <2>1, <3>1 DEF QuoteCreated
    <3>2. ASSUME NEW w \in CommitWorkers, audit'[i] = PaymentFailed(w) PROVE FALSE
      BY <2>1, <3>2 DEF PaymentFailed
    <3>3. audit'[i] # Garbled
      BY <2>1 DEF Garbled
    <3> QED BY <1>3, <2>1, <3>1, <3>2, <3>3, LogAfter
  <2>3. audit'[i].quote_id = QuoteIdOf(w) /\ audit'[i].total_charged = Total(w)
    BY <2>2 DEF BookingCommitted
  <2>4. InCommit(w) /\ local[w].quote # None
    BY <2>2, <2>3 DEF InCommit, QuoteIdOf
  <2>5. PICK j \in Events("QuoteCreated") :
          audit[j].quote_id = QuoteIdOf(w) /\ audit[j].total = Total(w)
    BY <1>1, <2>3, <2>4, CitedQuote DEF LedgerInv, DeliveredIsLogged
  <2>6. j < i
    BY <1>3, <2>1, LogAfter DEF Events
  <2> QED BY <1>1, <2>3, <2>5, <2>6
<1> QED BY <1>2, <1>3

LEMMA QuotesStayHonoured ==
  ASSUME LedgerInv, [SystemNext]_systemVars
  PROVE  QuoteHonoured'
<1> DEFINE Honours(booking, quote) ==
             /\ quote # None
             /\ booking.total_charged = quote.total
             /\ booking.confirmed_at < quote.expires_at
             /\ booking.quote_id \notin Guessed => quote.created_at <= booking.confirmed_at
<1> SUFFICES ASSUME NEW r \in References', bookings'[r].quote_id # NoQuoteId
             PROVE  Honours(bookings'[r], quotes'[bookings'[r].quote_id])
  BY DEF QuoteHonoured
<1>1. bookings \in [BookingReference -> Booking \cup {None}]
  BY DEF LedgerInv, SystemTypeOK
<1>2. ASSUME NEW q \in QuoteId, Honours(bookings'[r], quotes[q]), bookings'[r].quote_id = q
      PROVE  Honours(bookings'[r], quotes'[bookings'[r].quote_id])
  BY <1>2, QuotesOnlyAdded
<1>3. CASE bookings'[r] = bookings[r]
  <2>1. r \in References /\ bookings[r] \in Booking
    BY <1>1, <1>3 DEF References
  <2>2. bookings[r].quote_id \in QuoteId
    BY <1>3, <2>1 DEF Booking
  <2>3. Honours(bookings[r], quotes[bookings[r].quote_id])
    BY <1>3, <2>1 DEF LedgerInv, QuoteHonoured
  <2> HIDE DEF Honours
  <2> QED BY <1>2, <1>3, <2>2, <2>3
<1>4. CASE bookings'[r] # bookings[r]
  <2>1. PICK w \in CommitWorkers : SaveAndConfirm(w)
    BY <1>4, BookingsChangeBySave
  <2>2. bookings'[r] = NewBooking(w, r)
    <3>1. PICK q \in BookingReference \ References :
            bookings' = [bookings EXCEPT ![q] = NewBooking(w, q)]
      BY <2>1, SavedBooking
    <3>2. r \in BookingReference
      BY DEF References
    <3> QED BY <1>1, <1>4, <3>1, <3>2
  <2>3. /\ bookings'[r].quote_id = QuoteIdOf(w)
        /\ bookings'[r].total_charged = Total(w)
        /\ bookings'[r].confirmed_at = local[w].now
    BY <2>2 DEF NewBooking
  <2>4. InCommit(w) /\ local[w].quote # None
    BY <2>1, <2>3 DEF SaveAndConfirm, InCommit, QuoteIdOf
  <2> DEFINE quote == local[w].quote
  <2>5. /\ QuoteIdOf(w) \in QuoteId
        /\ quotes[QuoteIdOf(w)] = quote
        /\ Total(w) = quote.total
        /\ local[w].now < quote.expires_at
        /\ QuoteIdOf(w) \notin Guessed => quote.created_at <= local[w].now
    BY <2>4, CitedQuote
  <2>6. Honours(bookings'[r], quotes[QuoteIdOf(w)])
    BY <2>3, <2>4, <2>5
  <2> HIDE DEF Honours
  <2> QED BY <1>2, <2>3, <2>5, <2>6
<1> QED BY <1>3, <1>4

-----------------------------------------------------------------------------
(* Every step keeps what a commit knows.                                   *)

(* What CommitsCiteQuotes says of one thread.                              *)
Cites(w) ==
  /\ Request(w).quote_id \in delivered \cup Guessed \cup {None, UnknownId}
  /\ InCommit(w) =>
       /\ Request(w).flight_id \in Flight
       /\ local[w].now <= clock
       /\ Request(w).quote_id \in delivered \ Guessed =>
            quotes[Request(w).quote_id].created_at <= local[w].now
  /\ local[w].quote # None =>
       /\ InCommit(w)
       /\ Request(w).quote_id \in QuoteId
       /\ local[w].quote = quotes[Request(w).quote_id]
       /\ local[w].now < local[w].quote.expires_at

(* Nothing others do changes that.                                         *)
LEMMA CitesStands ==
  ASSUME LedgerInv, [SystemNext]_systemVars, NEW w \in CommitWorkers, Cites(w),
         phase[w] # "idle", InCommit(w)' = InCommit(w),
         local'[w].request = local[w].request,
         local'[w].now = local[w].now,
         local'[w].quote = local[w].quote
  PROVE  Cites(w)'
<1>1. Request(w)' = Request(w)
  BY DEF Request
<1>2. delivered \subseteq delivered'
  BY QuotesOnlyAdded
<1>3. clock \in Nat /\ clock' \in Nat /\ clock <= clock'
  BY ClockAdvances DEF LedgerInv, CommitInv
<1>4. Request(w).quote_id \in delivered => quotes'[Request(w).quote_id] = quotes[Request(w).quote_id]
  <2>1. \A q \in delivered : q \in QuoteId /\ quotes[q] # None
    BY DEF LedgerInv, SystemTypeOK, DeliveredIsLogged
  <2> QED BY <2>1, QuotesOnlyAdded
<1>5. Request(w).quote_id \in delivered' \ Guessed => Request(w).quote_id \in delivered
  <2>1. Request(w).quote_id \in delivered \cup Guessed \cup {None, UnknownId}
    BY DEF Cites
  <2>2. delivered' \subseteq QuoteId
    BY SystemTypes DEF SystemTypeOK
  <2> QED BY <2>1, <2>2
<1>6. Request(w)'.quote_id \in delivered' \cup Guessed \cup {None, UnknownId}
  BY <1>1, <1>2 DEF Cites
<1>7. InCommit(w)' =>
        /\ Request(w)'.flight_id \in Flight
        /\ local'[w].now <= clock'
        /\ Request(w)'.quote_id \in delivered' \ Guessed =>
             quotes'[Request(w)'.quote_id].created_at <= local'[w].now
  <2> SUFFICES ASSUME InCommit(w) PROVE
        /\ Request(w).flight_id \in Flight
        /\ local[w].now <= clock'
        /\ Request(w).quote_id \in delivered \ Guessed =>
             quotes'[Request(w).quote_id].created_at <= local[w].now
    BY <1>1, <1>5
  <2>1. local[w].now \in Nat
    BY CommitTyped DEF LedgerInv, CommitInv, Local
  <2> QED BY <1>3, <1>4, <2>1 DEF Cites
<1>8. local'[w].quote # None =>
        /\ InCommit(w)'
        /\ Request(w)'.quote_id \in QuoteId
        /\ local'[w].quote = quotes'[Request(w)'.quote_id]
        /\ local'[w].now < local'[w].quote.expires_at
  BY <1>1, QuotesOnlyAdded DEF Cites
<1> QED BY <1>6, <1>7, <1>8 DEF Cites

LEMMA CitesKept ==
  ASSUME LedgerInv, [SystemNext]_systemVars
  PROVE  CommitsCiteQuotes'
<1>1. CommitsWellFormed /\ \A w \in CommitWorkers : phase[w] # "idle" => Cites(w)
  BY DEF LedgerInv, CommitInv, CommitsCiteQuotes, Cites
<1>2. ASSUME NEW v \in CommitWorkers, phase'[v] # "idle", phase'[v] = phase[v], local'[v] = local[v]
      PROVE  Cites(v)'
  BY <1>1, <1>2, CitesStands DEF InCommit
<1>3. ASSUME NEW w \in CommitWorkers, CommitStep(w), phase'[w] # "idle" PROVE Cites(w)'
  <2>1. phase[w] # "idle"
    BY <1>1, <1>3, CommitStepLocal
  <2>2. UNCHANGED <<clock, quotes, delivered>>
    BY <1>3, CommitReadsQuotes DEF quoteVars
  <2>3. local[w] \in Local /\ InCommit(w)' /\ Request(w)' = Request(w)
    BY <1>3, <2>1, CommitTyped, CommitStepLearns DEF Request
  <2> DEFINE q == Request(w).quote_id
  <2>4. clock \in Nat
    BY ClockAdvances DEF LedgerInv, CommitInv
  <2>5. q \in delivered => q \in QuoteId /\ quotes[q] # None
    BY DEF LedgerInv, SystemTypeOK, DeliveredIsLogged
  <2>6. CASE /\ EnterCommit(w) /\ Request(w).flight_id \in Flight
             /\ local'[w].now = clock
             /\ local'[w].quote = local[w].quote
    <3>1. local[w].quote = None
      BY <1>1, <2>1, <2>6 DEF EnterCommit, InCommit, Cites
    <3>2. q \in delivered => quotes[q].created_at <= clock
      BY <2>5 DEF LedgerInv, QuotesInTheStore
    <3> QED BY <1>1, <2>1, <2>2, <2>3, <2>4, <2>6, <3>1, <3>2 DEF Cites
  <2>7. CASE /\ ReadValidQuote(w)
             /\ local'[w].now = local[w].now
             /\ local'[w].quote = GetValidQuote(q, local[w].now)
    <3>1. InCommit(w)
      BY <2>7 DEF ReadValidQuote, InCommit
    <3>2. local'[w].quote # None =>
            /\ q \in QuoteId
            /\ local'[w].quote = quotes[q]
            /\ local[w].now < quotes[q].expires_at
      BY <2>7 DEF GetValidQuote, GetQuote
    <3> QED BY <1>1, <2>1, <2>2, <2>3, <2>7, <3>1, <3>2 DEF Cites
  <2>8. CASE InCommit(w) /\ local'[w].now = local[w].now /\ local'[w].quote = local[w].quote
    <3>1. local'[w].request = local[w].request
      BY <1>3, CommitStepLearns
    <3> QED BY <1>1, <2>1, <2>3, <2>8, <3>1, CitesStands
  <2>9. SaveAndConfirm(w) => InCommit(w)
    BY DEF SaveAndConfirm, InCommit
  <2> QED BY <1>3, <2>6, <2>7, <2>8, <2>9, CommitStepLearns
<1>4. ASSUME NEW w \in CommitWorkers, NEW request \in CommitRequests, ReceiveCommit(w, request)
      PROVE  Cites(w)' /\ \A v \in CommitWorkers \ {w} : phase'[v] = phase[v] /\ local'[v] = local[v]
  <2>1. /\ phase'[w] = "waiting"
        /\ local'[w] = [request |-> request, now |-> 0, quote |-> None, reference |-> None]
        /\ \A v \in CommitWorkers \ {w} : phase'[v] = phase[v] /\ local'[v] = local[v]
    BY <1>1, <1>4 DEF ReceiveCommit, CommitsWellFormed
  <2>2. request.quote_id \in delivered \cup Guessed \cup {None, UnknownId} /\ UNCHANGED delivered
    BY <1>4 DEF ReceiveCommit, KnownToClients, quoteVars
  <2> QED BY <2>1, <2>2 DEF Cites, Request, InCommit
<1>5. \A v \in CommitWorkers : phase'[v] # "idle" => Cites(v)'
  <2>1. ASSUME NEW w \in CommitWorkers, CommitStep(w), NEW v \in CommitWorkers, phase'[v] # "idle"
        PROVE  Cites(v)'
    BY <1>1, <1>2, <1>3, <2>1, CommitStepLocal
  <2>2. ASSUME NEW w \in CommitWorkers, NEW request \in CommitRequests, ReceiveCommit(w, request),
               NEW v \in CommitWorkers, phase'[v] # "idle"
        PROVE  Cites(v)'
    BY <1>2, <1>4, <2>2
  <2>3. ASSUME UNCHANGED commitVars, NEW v \in CommitWorkers, phase'[v] # "idle" PROVE Cites(v)'
    BY <1>2, <2>3 DEF commitVars
  <2> QED BY <2>1, <2>2, <2>3, BesideLeavesCommits
<1> QED BY <1>5 DEF CommitsCiteQuotes, Cites

(* What RefusalsInTheMaking says of one thread.                            *)
Refusing(w) ==
  /\ Request(w).lock_id \in issued \cup Guessed \cup {None, UnknownId}
  /\ phase[w] = "rawQuote" /\ Request(w).quote_id \notin Guessed =>
       GetValidQuote(Request(w).quote_id, local[w].now) = None
  /\ phase[w] = "rawLock" /\ Request(w).lock_id \notin Guessed =>
       ~IsValid(Request(w).lock_id, local[w].now)

(* A lock that was handed out is never changed, but may be released.       *)
LEMMA LocksStayOrGo ==
  ASSUME LedgerInv, [SystemNext]_systemVars
  PROVE  /\ issued \subseteq issued'
         /\ \A l \in LockId : l \in issued => byLock'[l] \in {byLock[l], None}
<1>1. LockInv /\ [LockNext]_lockVars
  BY SystemStepOfStore DEF LedgerInv, CommitInv
<1>2. ASSUME NEW w \in HoldWorkers, HoldStep(w)
      PROVE  issued \subseteq issued' /\ \A l \in LockId : l \in issued => byLock'[l] = byLock[l]
  BY <1>1, <1>2 DEF HoldStep, StampHold, AcquireGranted, InstallLock, AcquireRefused,
                    AcquireOutOfIds, storeVars, LockInv, LockTypeOK
<1>3. ASSUME NEW id \in LockId, ReleaseLock(id)
      PROVE  /\ issued' = issued
             /\ \A l \in LockId : byLock'[l] \in {byLock[l], None}
  BY <1>1, <1>3 DEF ReleaseLock, Release, LockInv, LockTypeOK
<1>4. LockTick => UNCHANGED <<issued, byLock>>
  BY DEF LockTick, storeVars
<1> QED BY <1>1, <1>2, <1>3, <1>4 DEF LockNext, lockVars, storeVars

(* What was not valid at a commit's time does not become so, unless its id *)
(* was a guess.                                                            *)
LEMMA RefusingStands ==
  ASSUME LedgerInv, [SystemNext]_systemVars, NEW w \in CommitWorkers,
         phase[w] # "idle", phase'[w] = phase[w], local'[w] = local[w]
  PROVE  Refusing(w)'
<1> DEFINE q == Request(w).quote_id
           l == Request(w).lock_id
           t == local[w].now
<1>1. Refusing(w) /\ q \in delivered \cup Guessed \cup {None, UnknownId}
  BY DEF LedgerInv, RefusalsInTheMaking, CommitsCiteQuotes, Refusing
<1>2. Request(w)' = Request(w)
  BY DEF Request
<1>3. issued \subseteq issued' /\ \A id \in LockId : id \in issued => byLock'[id] \in {byLock[id], None}
  BY LocksStayOrGo
<1>4. ASSUME q \notin Guessed, GetValidQuote(q, t) = None PROVE GetValidQuote(q, t)' = None
  <2>1. CASE q \in QuoteId
    <3>1. q \in delivered
      BY <1>1, <1>4, <2>1
    <3>2. quotes[q] # None
      BY <3>1 DEF LedgerInv, DeliveredIsLogged
    <3>3. quotes'[q] = quotes[q]
      BY <2>1, <3>2, QuotesOnlyAdded
    <3> QED BY <1>2, <1>4, <2>1, <3>3 DEF GetValidQuote, GetQuote
  <2>2. CASE q \notin QuoteId
    BY <1>2, <2>2 DEF GetValidQuote, GetQuote
  <2> QED BY <2>1, <2>2
<1>5. ASSUME l \notin Guessed, ~IsValid(l, t) PROVE ~IsValid(l, t)'
  <2>1. l \in LockId => byLock'[l] \in {byLock[l], None}
    BY <1>1, <1>3, <1>5 DEF Refusing
  <2> QED BY <1>2, <1>5, <2>1 DEF IsValid, GetLock, Live
<1> QED BY <1>1, <1>2, <1>3, <1>4, <1>5 DEF Refusing

LEMMA MakingRefusalsKept ==
  ASSUME LedgerInv, [SystemNext]_systemVars
  PROVE  RefusalsInTheMaking'
<1>1. CommitsWellFormed /\ \A w \in CommitWorkers : phase[w] # "idle" => Refusing(w)
  BY DEF LedgerInv, CommitInv, RefusalsInTheMaking, Refusing
<1>2. ASSUME NEW v \in CommitWorkers, phase'[v] # "idle", phase'[v] = phase[v], local'[v] = local[v]
      PROVE  Refusing(v)'
  BY <1>2, RefusingStands
<1>3. ASSUME NEW w \in CommitWorkers, CommitStep(w), phase'[w] # "idle" PROVE Refusing(w)'
  <2>1. phase[w] # "idle"
    BY <1>1, <1>3, CommitStepLocal
  <2>2. Request(w)' = Request(w) /\ issued \subseteq issued'
    BY <1>3, CommitStepLearns, LocksStayOrGo DEF Request
  <2>3. Request(w)'.lock_id \in issued' \cup Guessed \cup {None, UnknownId}
    BY <1>1, <2>1, <2>2 DEF Refusing
  <2>4. ASSUME phase'[w] = "rawQuote"
        PROVE  GetValidQuote(Request(w).quote_id, local[w].now)' = None
    <3>1. ReadValidQuote(w)
      BY <1>1, <1>3, <2>4
      DEF CommitStep, EnterCommit, ReadRawQuote, ValidateSeats, CheckLockValid, CheckLockOwner,
          ReadRawLock, Charge, ChargeDeclined, SaveAndConfirm, OutOfReferences, ReleaseSeatLock,
          AuditCommit, Goto, Leave, CommitsWellFormed
    <3>2. GetValidQuote(Request(w).quote_id, local[w].now) = None
      BY <1>1, <2>4, <3>1 DEF ReadValidQuote, Goto, CommitsWellFormed
    <3>3. quotes' = quotes /\ local'[w].now = local[w].now
      <4>1. local[w] \in Local /\ local \in [CommitWorkers -> Local \cup {None}]
        BY <2>1, CommitTyped DEF LedgerInv, SystemTypeOK
      <4>2. quotes' = quotes
        BY <3>1 DEF ReadValidQuote, OnlyReads, quoteVars
      <4>3. local'[w].now = local[w].now
        BY <3>1, <4>1 DEF ReadValidQuote, Local
      <4> QED BY <4>2, <4>3
    <3> QED BY <2>2, <3>2, <3>3 DEF GetValidQuote, GetQuote
  <2>5. ASSUME phase'[w] = "rawLock"
        PROVE  ~IsValid(Request(w).lock_id, local[w].now)'
    <3>1. CheckLockValid(w)
      BY <1>1, <1>3, <2>5
      DEF CommitStep, EnterCommit, ReadValidQuote, ReadRawQuote, ValidateSeats, CheckLockOwner,
          ReadRawLock, Charge, ChargeDeclined, SaveAndConfirm, OutOfReferences, ReleaseSeatLock,
          AuditCommit, Goto, Leave, CommitsWellFormed
    <3>2. ~IsValid(Request(w).lock_id, local[w].now) /\ UNCHANGED <<byLock, local>>
      BY <1>1, <2>5, <3>1
      DEF CheckLockValid, Goto, OnlyReads, lockVars, CommitsWellFormed
    <3> QED BY <2>2, <3>2 DEF IsValid, GetLock, Live
  <2> QED BY <2>3, <2>4, <2>5 DEF Refusing
<1>4. ASSUME NEW w \in CommitWorkers, NEW request \in CommitRequests, ReceiveCommit(w, request)
      PROVE  Refusing(w)' /\ \A v \in CommitWorkers \ {w} : phase'[v] = phase[v] /\ local'[v] = local[v]
  <2>1. /\ phase'[w] = "waiting"
        /\ local'[w] = [request |-> request, now |-> 0, quote |-> None, reference |-> None]
        /\ \A v \in CommitWorkers \ {w} : phase'[v] = phase[v] /\ local'[v] = local[v]
    BY <1>1, <1>4 DEF ReceiveCommit, CommitsWellFormed
  <2>2. request.lock_id \in issued' \cup Guessed \cup {None, UnknownId}
    BY <1>4 DEF ReceiveCommit, KnownToClients, lockVars
  <2> QED BY <2>1, <2>2 DEF Refusing, Request
<1>5. \A v \in CommitWorkers : phase'[v] # "idle" => Refusing(v)'
  <2>1. ASSUME NEW w \in CommitWorkers, CommitStep(w), NEW v \in CommitWorkers, phase'[v] # "idle"
        PROVE  Refusing(v)'
    BY <1>1, <1>2, <1>3, <2>1, CommitStepLocal
  <2>2. ASSUME NEW w \in CommitWorkers, NEW request \in CommitRequests, ReceiveCommit(w, request),
               NEW v \in CommitWorkers, phase'[v] # "idle"
        PROVE  Refusing(v)'
    BY <1>2, <1>4, <2>2
  <2>3. ASSUME UNCHANGED commitVars, NEW v \in CommitWorkers, phase'[v] # "idle"
        PROVE  Refusing(v)'
    BY <1>2, <2>3 DEF commitVars
  <2> QED BY <2>1, <2>2, <2>3, BesideLeavesCommits
<1> QED BY <1>5 DEF RefusalsInTheMaking, Refusing

(* What CommitsKnowTheirBooking says of one thread.                        *)
KnowsBooking(w) ==
  /\ local[w] # None
  /\ IF phase[w] \in {"release", "audit"}
       THEN /\ local[w].reference \in References
            /\ bookings[local[w].reference] = NewBooking(w, local[w].reference)
       ELSE local[w].reference = None

(* The booking of a commit is the one it would save again.                 *)
LEMMA SameBooking ==
  ASSUME NEW w, NEW r,
         local'[w].request = local[w].request,
         local'[w].now = local[w].now,
         local'[w].quote = local[w].quote
  PROVE  NewBooking(w, r)' = NewBooking(w, r)
BY DEF NewBooking, Total, QuoteIdOf, Request

(* A booking stays what it is.                                             *)
LEMMA BookingsStand ==
  ASSUME LedgerInv, [SystemNext]_systemVars, NEW r \in References
  PROVE  r \in References' /\ bookings'[r] = bookings[r]
<1>1. CASE bookings' = bookings
  BY <1>1 DEF References
<1>2. CASE bookings' # bookings
  <2>1. PICK v \in CommitWorkers : SaveAndConfirm(v)
    BY <1>2, BookingsChangeBySave
  <2>2. bookings'[r] = bookings[r]
    BY <2>1, SavedSeatsWereFree DEF References, LedgerInv
  <2> QED BY <2>2 DEF References
<1> QED BY <1>1, <1>2

LEMMA KnowsStands ==
  ASSUME LedgerInv, [SystemNext]_systemVars, NEW w \in CommitWorkers, KnowsBooking(w),
         phase[w] \in {"release", "audit"} <=> phase'[w] \in {"release", "audit"},
         local'[w] = local[w]
  PROVE  KnowsBooking(w)'
<1>1. \A r : NewBooking(w, r)' = NewBooking(w, r)
  BY SameBooking
<1> QED BY <1>1, BookingsStand DEF KnowsBooking

LEMMA KnownBookingsKept ==
  ASSUME LedgerInv, [SystemNext]_systemVars
  PROVE  CommitsKnowTheirBooking'
<1>1. CommitsWellFormed /\ \A w \in CommitWorkers : phase[w] # "idle" => KnowsBooking(w)
  BY DEF LedgerInv, CommitInv, CommitsKnowTheirBooking, KnowsBooking
<1>2. ASSUME NEW v \in CommitWorkers, phase'[v] # "idle", phase'[v] = phase[v], local'[v] = local[v]
      PROVE  KnowsBooking(v)'
  BY <1>1, <1>2, KnowsStands
<1>3. ASSUME NEW w \in CommitWorkers, CommitStep(w), phase'[w] # "idle" PROVE KnowsBooking(w)'
  <2>1. phase[w] # "idle" /\ local'[w] # None
    BY <1>1, <1>3, CommitStepLocal, CommitStepLearns
  <2>2. CASE SaveAndConfirm(w)
    <3>1. PICK r \in BookingReference \ References :
            /\ NewBooking(w, r) \in Booking
            /\ bookings' = [bookings EXCEPT ![r] = NewBooking(w, r)]
            /\ local' = [local EXCEPT ![w].reference = r]
      BY <2>2, SavedBooking
    <3>2. bookings'[r] = NewBooking(w, r) /\ r \in References'
      BY <3>1 DEF LedgerInv, SystemTypeOK, References
    <3>3. local'[w].reference = r
      <4>1. local[w] \in Local /\ local \in [CommitWorkers -> Local \cup {None}]
        BY <2>1, CommitTyped DEF LedgerInv, SystemTypeOK
      <4> QED BY <3>1, <4>1 DEF Local
    <3>4. /\ phase'[w] \in {"release", "audit"}
          /\ local'[w].request = local[w].request
          /\ local'[w].now = local[w].now
          /\ local'[w].quote = local[w].quote
      <4>1. w \in DOMAIN phase
        BY <1>1 DEF CommitsWellFormed
      <4>2. ~EnterCommit(w) /\ ~ReadValidQuote(w) /\ phase'[w] \in {"release", "audit"}
        BY <2>2, <4>1 DEF SaveAndConfirm, EnterCommit, ReadValidQuote, Goto
      <4> QED BY <1>3, <4>2, CommitStepLearns
    <3>5. NewBooking(w, r)' = NewBooking(w, r)
      BY <3>4, SameBooking
    <3> QED BY <2>1, <3>2, <3>3, <3>4, <3>5 DEF KnowsBooking
  <2>3. CASE EnterCommit(w) \/ ReadValidQuote(w)
    <3>1. phase'[w] \notin {"release", "audit"} /\ local'[w].reference = local[w].reference
      <4>1. w \in DOMAIN phase
        BY <1>1 DEF CommitsWellFormed
      <4>2. ~SaveAndConfirm(w) /\ phase[w] \notin {"release", "audit"}
        BY <2>3 DEF SaveAndConfirm, EnterCommit, ReadValidQuote
      <4> QED BY <1>3, <4>2, CommitStepLearns
    <3>2. local[w].reference = None
      BY <1>1, <2>1, <2>3 DEF KnowsBooking, EnterCommit, ReadValidQuote
    <3> QED BY <2>1, <3>1, <3>2 DEF KnowsBooking
  <2>4. CASE ~SaveAndConfirm(w) /\ ~EnterCommit(w) /\ ~ReadValidQuote(w)
    <3>1. UNCHANGED local /\ (phase[w] \in {"release", "audit"} <=> phase'[w] \in {"release", "audit"})
      BY <1>3, <2>4, CommitStepLearns
    <3> QED BY <1>1, <2>1, <3>1, KnowsStands
  <2> QED BY <2>2, <2>3, <2>4
<1>4. ASSUME NEW w \in CommitWorkers, NEW request \in CommitRequests, ReceiveCommit(w, request)
      PROVE  /\ KnowsBooking(w)'
             /\ \A v \in CommitWorkers \ {w} : phase'[v] = phase[v] /\ local'[v] = local[v]
  <2> DEFINE new == [request |-> request, now |-> 0, quote |-> None, reference |-> None]
  <2>1. new \in Local
    BY DEF Local
  <2>2. /\ phase'[w] = "waiting"
        /\ local'[w] = new
        /\ \A v \in CommitWorkers \ {w} : phase'[v] = phase[v] /\ local'[v] = local[v]
    BY <1>1, <1>4 DEF ReceiveCommit, CommitsWellFormed
  <2> QED BY <2>1, <2>2 DEF KnowsBooking
<1>5. \A v \in CommitWorkers : phase'[v] # "idle" => KnowsBooking(v)'
  <2>1. ASSUME NEW w \in CommitWorkers, CommitStep(w), NEW v \in CommitWorkers, phase'[v] # "idle"
        PROVE  KnowsBooking(v)'
    BY <1>1, <1>2, <1>3, <2>1, CommitStepLocal
  <2>2. ASSUME NEW w \in CommitWorkers, NEW request \in CommitRequests, ReceiveCommit(w, request),
               NEW v \in CommitWorkers, phase'[v] # "idle"
        PROVE  KnowsBooking(v)'
    BY <1>2, <1>4, <2>2
  <2>3. ASSUME UNCHANGED commitVars, NEW v \in CommitWorkers, phase'[v] # "idle"
        PROVE  KnowsBooking(v)'
    BY <1>2, <2>3 DEF commitVars
  <2> QED BY <2>1, <2>2, <2>3, BesideLeavesCommits
<1> QED BY <1>5 DEF CommitsKnowTheirBooking, KnowsBooking

-----------------------------------------------------------------------------
(* Every step keeps the announcements.                                     *)

(* A save adds one reference, its booking and its mail.                    *)
LEMMA SavedReference ==
  ASSUME LedgerInv, NEW w \in CommitWorkers, SaveAndConfirm(w)
  PROVE  \E r \in BookingReference \ References :
           /\ NewBooking(w, r) \in Booking
           /\ bookings' = [bookings EXCEPT ![r] = NewBooking(w, r)]
           /\ References' = References \cup {r}
           /\ outbox' = Append(outbox, r)
           /\ local' = [local EXCEPT ![w].reference = r]
<1>1. PICK r \in BookingReference \ References :
        /\ NewBooking(w, r) \in Booking
        /\ bookings' = [bookings EXCEPT ![r] = NewBooking(w, r)]
        /\ outbox' = Append(outbox, r)
        /\ local' = [local EXCEPT ![w].reference = r]
  BY SavedBooking
<1>2. References' = References \cup {r}
  BY <1>1 DEF References, LedgerInv, SystemTypeOK
<1> QED BY <1>1, <1>2

(* Without one, there is no new booking, nor a mail.                       *)
LEMMA NoSaveNoBooking ==
  ASSUME [SystemNext]_systemVars, \A w \in CommitWorkers : ~SaveAndConfirm(w)
  PROVE  UNCHANGED <<bookings, outbox>>
BY CommitWritesLedgers, BookingsChangeBySave
DEF SystemNext, systemVars, commitVars, ReceiveCommit, HoldBeside, QuoteBeside, TickBeside

LEMMA MailsKept ==
  ASSUME LedgerInv, [SystemNext]_systemVars
  PROVE  MailedOnce'
<1>1. MailedOnce /\ outbox \in Seq(BookingReference)
  BY DEF LedgerInv, SystemTypeOK
<1>2. CASE UNCHANGED <<bookings, outbox>>
  BY <1>1, <1>2 DEF MailedOnce, Mails, References
<1>3. ASSUME NEW q \in BookingReference \ References,
             References' = References \cup {q}, outbox' = Append(outbox, q)
      PROVE  MailedOnce'
  <2> DEFINE n == Len(outbox) + 1
  <2>1. /\ DOMAIN outbox' = DOMAIN outbox \cup {n}
        /\ \A i \in DOMAIN outbox : outbox'[i] = outbox[i]
        /\ n \notin DOMAIN outbox
        /\ outbox'[n] = q
    BY <1>1, <1>3, Appended
  <2> HIDE DEF n
  <2>2. Mails(q) = {} /\ Mails(q)' = Mails(q) \cup {n}
    BY <1>1, <1>3, <2>1 DEF MailedOnce, Mails
  <2>3. ASSUME NEW r \in BookingReference, r # q PROVE Mails(r)' = Mails(r)
    BY <2>1, <2>3 DEF Mails
  <2>4. ASSUME NEW r \in BookingReference
        PROVE  IF r \in References' THEN \E i \in DOMAIN outbox' : Mails(r)' = {i}
                                    ELSE Mails(r)' = {}
    <3>1. CASE r = q
      BY <1>3, <2>1, <2>2, <3>1
    <3>2. CASE r # q
      BY <1>1, <1>3, <2>1, <2>3, <3>2 DEF MailedOnce
    <3> QED BY <3>1, <3>2
  <2> QED BY <2>4 DEF MailedOnce
<1> QED BY <1>2, <1>3, SavedReference, NoSaveNoBooking

(* Whose commit is between its save and its answer: that changes only with *)
(* the save, and with the answer.                                          *)
LEMMA SettlingStays ==
  ASSUME LedgerInv, [SystemNext]_systemVars, NEW w \in CommitWorkers,
         ~SaveAndConfirm(w), ~AuditCommit(w)
  PROVE  /\ Settling(w)' <=> Settling(w)
         /\ Settling(w) => local'[w].reference = local[w].reference
<1>1. CommitsWellFormed /\ w \in DOMAIN phase
  BY DEF LedgerInv, CommitInv, CommitsWellFormed
<1>2. CASE phase'[w] = phase[w] /\ local'[w] = local[w]
  BY <1>2 DEF Settling
<1>3. CASE CommitStep(w)
  <2>1. CASE phase'[w] # "idle"
    <3>1. EnterCommit(w) \/ ReadValidQuote(w) => ~Settling(w)
      BY DEF EnterCommit, ReadValidQuote, Settling
    <3> QED BY <1>3, <2>1, <3>1, CommitStepLearns DEF Settling
  <2>2. CASE phase'[w] = "idle"
    <3>1. ~ReleaseSeatLock(w)
      BY <1>1, <2>2 DEF ReleaseSeatLock, Goto
    <3>2. ~Settling(w)
      BY <1>3, <3>1
      DEF CommitStep, EnterCommit, ReadValidQuote, ReadRawQuote, ValidateSeats, CheckLockValid,
          CheckLockOwner, ReadRawLock, Charge, ChargeDeclined, OutOfReferences, Settling
    <3> QED BY <2>2, <3>2 DEF Settling
  <2> QED BY <2>1, <2>2
<1>4. CASE \E request \in CommitRequests : ReceiveCommit(w, request)
  BY <1>1, <1>4 DEF ReceiveCommit, Settling
<1>5. ASSUME NEW v \in CommitWorkers, v # w, CommitStep(v)
      PROVE  phase'[w] = phase[w] /\ local'[w] = local[w]
  BY <1>1, <1>5, CommitStepLocal
<1>6. ASSUME NEW v \in CommitWorkers, v # w, NEW request \in CommitRequests,
             ReceiveCommit(v, request)
      PROVE  phase'[w] = phase[w] /\ local'[w] = local[w]
  BY <1>1, <1>6 DEF ReceiveCommit, CommitsWellFormed
<1> QED BY <1>2, <1>3, <1>4, <1>5, <1>6, BesideLeavesCommits DEF commitVars

(* The events of commits after a step.                                     *)
LEMMA CommitEventsAfter ==
  ASSUME LedgerInv, [SystemNext]_systemVars, NEW r \in BookingReference
  PROVE  \/ CommitEvents(r)' = CommitEvents(r)
         \/ AuditMayFail /\ CommitEvents(r)' \subseteq CommitEvents(r)
         \/ \E w \in CommitWorkers :
              /\ AuditCommit(w)
              /\ local[w].reference = r
              /\ \E i \in DOMAIN audit' : CommitEvents(r)' = CommitEvents(r) \cup {i}
<1>1. CASE UNCHANGED auditVars
  BY <1>1 DEF auditVars, CommitEvents, Events
<1>2. ASSUME NEW line, NewLine(line)
      PROVE  IF line.type = "BookingCommitted" /\ line.booking_reference = r
               THEN \E i \in DOMAIN audit' : CommitEvents(r)' = CommitEvents(r) \cup {i}
               ELSE CommitEvents(r)' = CommitEvents(r)
  <2>1. PICK n \in DOMAIN audit' :
          /\ DOMAIN audit' = DOMAIN audit \cup {n}
          /\ n \notin DOMAIN audit
          /\ \A i \in DOMAIN audit : audit'[i] = audit[i]
          /\ audit'[n] = line
    BY <1>2 DEF NewLine
  <2> QED BY <2>1 DEF CommitEvents, Events
<1>3. /\ \A w : QuoteCreated(w).type = "QuoteCreated" /\ PaymentFailed(w).type = "PaymentFailed"
      /\ \A w : BookingCommitted(w).booking_reference = local[w].reference
      /\ Garbled.type = "Garbled"
  BY DEF QuoteCreated, PaymentFailed, BookingCommitted, Garbled
<1>4. ASSUME NEW event \in Event, Writes(event), event.type # "BookingCommitted"
      PROVE  \/ CommitEvents(r)' = CommitEvents(r)
             \/ AuditMayFail /\ CommitEvents(r)' \subseteq CommitEvents(r)
  <2>1. NewLine(event) \/ NewLine(Garbled) \/ LostLine
    BY <1>4, EventWritten
  <2>2. CASE NewLine(event)
    BY <1>2, <1>4, <2>2
  <2>3. CASE NewLine(Garbled)
    BY <1>2, <1>3, <2>3
  <2>4. CASE LostLine
    BY <2>4 DEF LostLine, CommitEvents, Events, Garbled
  <2> QED BY <2>1, <2>2, <2>3, <2>4
<1>5. ASSUME NEW w \in CommitWorkers, AuditCommit(w), Writes(BookingCommitted(w)),
             BookingCommitted(w) \in Event
      PROVE  \/ CommitEvents(r)' = CommitEvents(r)
             \/ AuditMayFail /\ CommitEvents(r)' \subseteq CommitEvents(r)
             \/ /\ local[w].reference = r
                /\ \E i \in DOMAIN audit' : CommitEvents(r)' = CommitEvents(r) \cup {i}
  <2>1. NewLine(BookingCommitted(w)) \/ NewLine(Garbled) \/ LostLine
    BY <1>5, EventWritten
  <2>2. CASE NewLine(BookingCommitted(w))
    BY <1>2, <1>3, <2>2
  <2>3. CASE NewLine(Garbled)
    BY <1>2, <1>3, <2>3
  <2>4. CASE LostLine
    BY <2>4 DEF LostLine, CommitEvents, Events, Garbled
  <2> QED BY <2>1, <2>2, <2>3, <2>4
<1> QED BY <1>1, <1>3, <1>4, <1>5, LogGrows

LEMMA LogKept ==
  ASSUME LedgerInv, [SystemNext]_systemVars
  PROVE  LoggedOnce'
<1> SUFFICES ASSUME NEW r \in BookingReference
             PROVE  IF r \in References' /\ ~Pending(r)'
                      THEN \/ \E i \in DOMAIN audit' : CommitEvents(r)' = {i}
                           \/ AuditMayFail /\ CommitEvents(r)' = {}
                      ELSE CommitEvents(r)' = {}
  BY DEF LoggedOnce
<1>1. /\ LoggedOnce /\ CommitsWellFormed /\ OneCommitter
      /\ local \in [CommitWorkers -> Local \cup {None}]
      /\ phase \in [CommitWorkers -> Phases]
  BY DEF LedgerInv, CommitInv, SystemTypeOK
<1>2. \A i \in DOMAIN audit : i \in DOMAIN audit'
  BY LogAfter
<1>3. ASSUME NEW w \in CommitWorkers, NEW q \in BookingReference \ References,
             SaveAndConfirm(w), References' = References \cup {q},
             local' = [local EXCEPT ![w].reference = q]
      PROVE  IF r \in References' /\ ~Pending(r)'
               THEN \/ \E i \in DOMAIN audit' : CommitEvents(r)' = {i}
                    \/ AuditMayFail /\ CommitEvents(r)' = {}
               ELSE CommitEvents(r)' = {}
  <2>1. /\ phase[w] = "save" /\ phase'[w] \in {"release", "audit"}
        /\ \A v \in CommitWorkers \ {w} : phase'[v] = phase[v]
    BY <1>1, <1>3 DEF SaveAndConfirm, Goto
  <2>2. local[w] \in Local
    BY <2>1, CommitTyped DEF LedgerInv, SystemTypeOK
  <2>3. local'[w].reference = q /\ \A v \in CommitWorkers \ {w} : local'[v] = local[v]
    BY <1>1, <1>3, <2>2 DEF Local
  <2>4. UNCHANGED audit
    BY <1>3 DEF SaveAndConfirm, auditVars
  <2>5. CommitEvents(r)' = CommitEvents(r)
    BY <2>4 DEF CommitEvents, Events
  <2>6. CASE r = q
    BY <1>1, <1>3, <2>1, <2>3, <2>5, <2>6 DEF LoggedOnce, Pending, Settling
  <2>7. CASE r # q
    <3>1. Pending(r)' <=> Pending(r)
      BY <2>1, <2>3, <2>7 DEF Pending, Settling
    <3> QED BY <1>1, <1>2, <1>3, <2>5, <2>7, <3>1 DEF LoggedOnce
  <2> QED BY <2>6, <2>7
<1>4. ASSUME NEW w \in CommitWorkers, AuditCommit(w), UNCHANGED bookings
      PROVE  IF r \in References' /\ ~Pending(r)'
               THEN \/ \E i \in DOMAIN audit' : CommitEvents(r)' = {i}
                    \/ AuditMayFail /\ CommitEvents(r)' = {}
               ELSE CommitEvents(r)' = {}
  <2>1. phase[w] = "audit" /\ phase'[w] = "idle"
    BY <1>1, <1>4 DEF AuditCommit, Leave
  <2>2. local[w].reference \in References /\ References' = References
    BY <1>4, <2>1 DEF LedgerInv, CommitsKnowTheirBooking, References
  <2>3. \A v \in CommitWorkers : Settling(v) => v = w
    BY <1>1, <2>1 DEF OneCommitter, InCommit, Settling
  <2>4. \A v \in CommitWorkers : ~Settling(v)'
    BY <1>1, <1>4, <2>1, <2>3 DEF AuditCommit, Leave, Settling
  <2>5. ~Pending(r)'
    BY <2>4 DEF Pending
  <2>6. CASE r = local[w].reference
    <3>1. Pending(r) /\ CommitEvents(r) = {}
      BY <1>1, <2>1, <2>6 DEF Pending, Settling, LoggedOnce
    <3>2. AuditMayFail \/ (ended /\ AppendText(BookingCommitted(w)))
      <4>1. AuditMayFail \/ WriteAudit(BookingCommitted(w))
        BY <1>4 DEF AuditCommit, AuditRaises
      <4>2. AuditMayFail \/ ended
        BY Zenon DEF LedgerInv, LogEnds
      <4> QED BY <4>1, <4>2 DEF WriteAudit
    <3>3. CASE ended /\ AppendText(BookingCommitted(w))
      <4>1. BookingCommitted(w) \in Event
        BY <2>1, CommitEventsTyped DEF InCommit
      <4>2. NewLine(BookingCommitted(w))
        BY <3>3, <4>1, LineAppended
      <4>3. PICK n \in DOMAIN audit' : audit'[n] = BookingCommitted(w)
        BY <4>2 DEF NewLine
      <4>4. n \in CommitEvents(r)'
        BY <2>6, <4>3 DEF CommitEvents, Events, BookingCommitted
      <4> QED BY <2>2, <2>5, <2>6, <3>1, <4>4, CommitEventsAfter
    <3>4. CASE AuditMayFail
      BY <2>2, <2>5, <2>6, <3>1, <3>4, CommitEventsAfter
    <3> QED BY <3>2, <3>3, <3>4
  <2>7. CASE r # local[w].reference
    <3>1. ~Pending(r)
      BY <2>3, <2>7 DEF Pending
    <3>2. \/ CommitEvents(r)' = CommitEvents(r)
          \/ AuditMayFail /\ CommitEvents(r)' \subseteq CommitEvents(r)
      <4>1. ASSUME NEW v \in CommitWorkers, AuditCommit(v) PROVE local[v].reference # r
        <5>1. v = w
          BY <2>3, <4>1 DEF AuditCommit, Settling
        <5> QED BY <2>7, <5>1
      <4> QED BY <4>1, CommitEventsAfter
    <3> QED BY <1>1, <1>2, <2>2, <2>5, <3>1, <3>2 DEF LoggedOnce
  <2> QED BY <2>6, <2>7
<1>5. CASE /\ UNCHANGED bookings
           /\ \A w \in CommitWorkers : ~SaveAndConfirm(w) /\ ~AuditCommit(w)
  <2>1. Pending(r)' <=> Pending(r)
    BY <1>5, SettlingStays DEF Pending
  <2>2. \/ CommitEvents(r)' = CommitEvents(r)
        \/ AuditMayFail /\ CommitEvents(r)' \subseteq CommitEvents(r)
    BY <1>5, CommitEventsAfter
  <2>3. References' = References
    BY <1>5 DEF References
  <2> QED BY <1>1, <1>2, <2>1, <2>2, <2>3 DEF LoggedOnce
<1>6. ASSUME NEW w \in CommitWorkers, AuditCommit(w) PROVE UNCHANGED bookings
  BY <1>6 DEF AuditCommit, OnlyAudits
<1> QED BY <1>3, <1>4, <1>5, <1>6, SavedReference, NoSaveNoBooking

-----------------------------------------------------------------------------
(* Every step keeps the references reserved.                               *)

LEMMA ReservedKept ==
  ASSUME LedgerInv, [SystemNext]_systemVars
  PROVE  ReferencesReserved'
<1>1. /\ CommitsWellFormed
      /\ IsFiniteSet(Unsaved)
      /\ Cardinality(References) + Cardinality(Unsaved) <= arrived
      /\ arrived \in Nat
  BY DEF LedgerInv, CommitInv, ReferencesReserved, SystemTypeOK
<1>2. IsFiniteSet(References)
  BY RepositoryAssumption, FS_Subset DEF References
<1>3. Cardinality(References) \in Nat /\ Cardinality(Unsaved) \in Nat
  BY <1>1, <1>2, FS_CardinalityType
<1>4. ASSUME Unsaved' \subseteq Unsaved, References' = References, arrived' = arrived
      PROVE  ReferencesReserved'
  <2>1. /\ IsFiniteSet(Unsaved') /\ Cardinality(Unsaved') <= Cardinality(Unsaved)
        /\ Cardinality(Unsaved') \in Nat
    BY <1>1, <1>4, FS_Subset, FS_CardinalityType
  <2>2. Cardinality(References') + Cardinality(Unsaved') <= arrived'
    BY <1>1, <1>3, <1>4, <2>1
  <2> QED BY <2>1, <2>2 DEF ReferencesReserved
<1>5. ASSUME NEW w \in CommitWorkers, NEW r \in BookingReference \ References,
             SaveAndConfirm(w), References' = References \cup {r}
      PROVE  ReferencesReserved'
  <2>1. /\ phase[w] = "save" /\ phase'[w] \in {"release", "audit"}
        /\ \A v \in CommitWorkers \ {w} : phase'[v] = phase[v]
        /\ arrived' = arrived
    BY <1>1, <1>5 DEF SaveAndConfirm, Goto, CommitsWellFormed
  <2>2. w \in Unsaved /\ Unsaved' = Unsaved \ {w}
    BY <2>1 DEF Unsaved
  <2>3. /\ IsFiniteSet(Unsaved') /\ Cardinality(Unsaved') = Cardinality(Unsaved) - 1
        /\ Cardinality(References') = Cardinality(References) + 1
    BY <1>1, <1>2, <1>5, <2>2, FS_RemoveElement, FS_AddElement
  <2>4. Cardinality(References') + Cardinality(Unsaved') <= arrived'
    BY <1>1, <1>3, <2>1, <2>3
  <2> QED BY <2>3, <2>4 DEF ReferencesReserved
<1>6. ASSUME NEW w \in CommitWorkers, NEW request \in CommitRequests, ReceiveCommit(w, request),
             UNCHANGED bookings
      PROVE  ReferencesReserved'
  <2>1. /\ phase[w] = "idle" /\ phase'[w] = "waiting"
        /\ \A v \in CommitWorkers \ {w} : phase'[v] = phase[v]
        /\ arrived' = arrived + 1
    BY <1>1, <1>6 DEF ReceiveCommit, CommitsWellFormed
  <2>2. w \notin Unsaved /\ Unsaved' = Unsaved \cup {w} /\ References' = References
    BY <1>6, <2>1 DEF Unsaved, References
  <2>3. IsFiniteSet(Unsaved') /\ Cardinality(Unsaved') = Cardinality(Unsaved) + 1
    BY <1>1, <2>2, FS_AddElement
  <2>4. Cardinality(References') + Cardinality(Unsaved') <= arrived'
    BY <1>1, <1>3, <2>1, <2>2, <2>3
  <2> QED BY <2>3, <2>4 DEF ReferencesReserved
<1>7. ASSUME NEW w \in CommitWorkers, CommitStep(w), ~SaveAndConfirm(w), UNCHANGED bookings
      PROVE  ReferencesReserved'
  <2>1. /\ phase[w] # "idle" /\ \A v \in CommitWorkers \ {w} : phase'[v] = phase[v]
        /\ arrived' = arrived
    BY <1>1, <1>7, CommitStepLocal, CommitReadsQuotes
  <2>2. phase'[w] # "idle" => (Settling(w) => Settling(w)')
    <3>1. EnterCommit(w) \/ ReadValidQuote(w) => ~Settling(w)
      BY DEF EnterCommit, ReadValidQuote, Settling
    <3> QED BY <1>7, <3>1, CommitStepLearns DEF Settling
  <2>3. Unsaved' \subseteq Unsaved /\ References' = References
    BY <1>7, <2>1, <2>2 DEF Unsaved, Settling, References
  <2> QED BY <1>4, <2>1, <2>3
<1>8. CASE UNCHANGED <<bookings, commitVars>>
  BY <1>4, <1>8 DEF commitVars, Unsaved, References
<1>9. \A w \in CommitWorkers : \A request \in CommitRequests :
        ReceiveCommit(w, request) => UNCHANGED bookings
  BY DEF ReceiveCommit
<1>10. CASE \E w \in CommitWorkers : SaveAndConfirm(w)
  BY <1>5, <1>10, SavedReference
<1> QED BY <1>5, <1>6, <1>7, <1>8, <1>9, <1>10, CommitStepWrites, BesideLeavesCommits

-----------------------------------------------------------------------------
(* The inductive invariant and what follows from it.                       *)

LEMMA LedgerInit == SystemInit => LedgerInv
<1> SUFFICES ASSUME SystemInit PROVE LedgerInv
  OBVIOUS
<1>1. CommitInv
  BY SystemInitInv
<1>2. References = {} /\ audit = <<>> /\ ended = TRUE /\ delivered = {}
  BY DEF SystemInit, BookingsInit, QuotesInit, AuditInit, References
<1>3. \A type : Events(type) = {}
  BY <1>2 DEF Events
<1>4. SystemTypeOK
  <2>1. LockTypeOK
    BY <1>1 DEF CommitInv, LockInv
  <2>2. /\ audit \in Seq(Event \cup {Garbled}) /\ ended \in BOOLEAN
        /\ charges \in Seq(Money) /\ outbox \in Seq(BookingReference)
    BY DEF SystemInit, AuditInit
  <2>3. bookings \in [BookingReference -> Booking \cup {None}]
    BY DEF SystemInit, BookingsInit
  <2>4. /\ quotes \in [QuoteId -> Quote \cup {None}]
        /\ quoting \in [QuoteWorkers -> Quoting \cup {None}]
        /\ delivered \in SUBSET QuoteId
        /\ minted \in SUBSET MintedSession
    BY DEF SystemInit, QuotesInit
  <2>5. /\ commitLock \in CommitWorkers \cup {None}
        /\ phase \in [CommitWorkers -> Phases]
        /\ local \in [CommitWorkers -> Local \cup {None}]
        /\ response \in [CommitWorkers -> Outcome]
        /\ arrived \in 0 .. MaxCommits
    BY DEF SystemInit, Phases, Outcome
  <2> QED BY <2>1, <2>2, <2>3, <2>4, <2>5 DEF SystemTypeOK
<1>5. QuotesInTheMaking /\ QuotesInTheStore
  BY DEF SystemInit, QuotesInit, QuotesInTheMaking, QuotesInTheStore
<1>6. DeliveredIsLogged /\ AuditExplainsTotals /\ ReplayVerifies /\ QuoteHonoured
  BY <1>2, <1>3 DEF DeliveredIsLogged, AuditExplainsTotals, ReplayVerifies, QuoteHonoured
<1>7. CommitsCiteQuotes /\ RefusalsInTheMaking /\ CommitsKnowTheirBooking
  BY DEF SystemInit, CommitsCiteQuotes, RefusalsInTheMaking, CommitsKnowTheirBooking
<1>8. MailedOnce /\ LoggedOnce
  <2>1. \A r : Mails(r) = {} /\ CommitEvents(r) = {}
    BY <1>3 DEF SystemInit, Mails, CommitEvents
  <2> QED BY <1>2, <2>1 DEF MailedOnce, LoggedOnce
<1>9. ReferencesReserved
  <2>1. Unsaved = {}
    BY DEF SystemInit, Unsaved
  <2>2. IsFiniteSet({}) /\ Cardinality({}) = 0
    BY FS_EmptySet
  <2> QED BY <1>2, <2>1, <2>2 DEF SystemInit, ReferencesReserved
<1> QED BY <1>1, <1>2, <1>4, <1>5, <1>6, <1>7, <1>8, <1>9 DEF LedgerInv, LogEnds

LEMMA LedgerStep == LedgerInv /\ [SystemNext]_systemVars => LedgerInv'
<1> SUFFICES ASSUME LedgerInv, [SystemNext]_systemVars PROVE LedgerInv'
  OBVIOUS
<1>1. CommitInv'
  BY SystemStepInv DEF LedgerInv
<1>2. SystemTypeOK' /\ QuotesInTheMaking' /\ QuotesInTheStore'
  BY SystemTypes, MakingKept, StoreKept
<1>3. /\ DeliveredIsLogged' /\ CommitsCiteQuotes' /\ RefusalsInTheMaking'
      /\ CommitsKnowTheirBooking'
  BY DeliveriesKept, CitesKept, MakingRefusalsKept, KnownBookingsKept
<1>4. AuditExplainsTotals' /\ QuoteHonoured' /\ ReplayVerifies'
  BY ExplanationsKept, QuotesStayHonoured, ReplayKept
<1>5. MailedOnce' /\ LoggedOnce' /\ LogEnds'
  BY MailsKept, LogKept, LogTyped
<1>6. ReferencesReserved'
  BY ReservedKept
<1> QED BY <1>1, <1>2, <1>3, <1>4, <1>5, <1>6 DEF LedgerInv

(* The strengthening holds in every state of the write side.               *)
THEOREM LedgerInvariant == SystemSpec => []LedgerInv
BY LedgerInit, LedgerStep, PTL DEF SystemSpec

(* Type correctness of the composed system, for every value of the         *)
(* constants: holds, quotes, bookings, charges, mails, the audit log and   *)
(* what every commit keeps in its local variables.                         *)
THEOREM SystemIsTyped == SystemSpec => []SystemTypeOK
<1>1. LedgerInv => SystemTypeOK
  BY DEF LedgerInv
<1> QED BY <1>1, LedgerInvariant, PTL

(* Quote fidelity (KPI-T1): whoever commits with a quote pays its total,   *)
(* within its TTL, whatever was quoted, booked, held or let expire between *)
(* the commit's look at the quote and its charge.                          *)
THEOREM QuotesAreHonoured == SystemSpec => []QuoteHonoured
<1>1. LedgerInv => QuoteHonoured
  BY DEF LedgerInv
<1> QED BY <1>1, LedgerInvariant, PTL

(* The replay of the audit log verifies every commit at every moment the   *)
(* log can be read: the event of the quote it cites precedes it and gives  *)
(* the same total, unless the client guessed the id of that quote.         *)
THEOREM ReplayAlwaysVerifies == SystemSpec => []ReplayVerifies
<1>1. LedgerInv => ReplayVerifies
  BY DEF LedgerInv
<1> QED BY <1>1, LedgerInvariant, PTL

(* The occupancy a QuoteCreated event gives explains the quote's total,    *)
(* although bookings were confirmed between the count and the event.       *)
THEOREM TotalsAreExplained == SystemSpec => []AuditExplainsTotals
<1>1. LedgerInv => AuditExplainsTotals
  BY DEF LedgerInv
<1> QED BY <1>1, LedgerInvariant, PTL

-----------------------------------------------------------------------------
(* What takes a seat lock out of the store.                                *)

(* A seat lock leaves the store only after a booking that cites it was     *)
(* saved: neither a declined charge, nor an exception, nor another thread  *)
(* gives it back.                                                          *)
THEOREM LocksLeaveByBooking == SystemSpec => LockReleasedByItsBooking
<1> DEFINE ByItsBooking ==
             \A l \in LockId : byLock[l] # None /\ byLock'[l] = None =>
               \E w \in CommitWorkers :
                 /\ InCommit(w)
                 /\ Request(w).lock_id = l
                 /\ local[w].reference \in References
<1>1. LedgerInv /\ [SystemNext]_systemVars => [ByItsBooking]_systemVars
  <2> SUFFICES ASSUME LedgerInv, [SystemNext]_systemVars,
                      NEW l \in LockId, byLock[l] # None, byLock'[l] = None
               PROVE  \E w \in CommitWorkers :
                        /\ InCommit(w)
                        /\ Request(w).lock_id = l
                        /\ local[w].reference \in References
    OBVIOUS
  <2>1. PICK w \in CommitWorkers : ReleaseSeatLock(w)
    <3>1. \A w \in HoldWorkers : ~HoldStep(w)
      BY HoldKeepsLocks DEF LedgerInv, CommitInv
    <3> QED
      BY <3>1, CommitStepWrites
      DEF SystemNext, systemVars, lockVars, storeVars, ReceiveCommit, HoldBeside, QuoteBeside,
          TickBeside, LockTick
  <2>2. phase[w] = "release" /\ byLock' = [byLock EXCEPT ![Request(w).lock_id] = None]
    BY <2>1 DEF ReleaseSeatLock, Release
  <2>3. byLock \in [LockId -> LockRecord \cup {None}]
    BY DEF LedgerInv, SystemTypeOK, LockTypeOK
  <2>4. Request(w).lock_id = l
    BY <2>2, <2>3
  <2>5. local[w].reference \in References
    BY <2>2 DEF LedgerInv, CommitsKnowTheirBooking
  <2> QED BY <2>2, <2>4, <2>5 DEF InCommit
<1> QED BY <1>1, LedgerInvariant, PTL DEF SystemSpec, LockReleasedByItsBooking

-----------------------------------------------------------------------------
(* What a refusal says.                                                    *)

(* The last step of a refused commit, and what it says.                    *)
LEMMA HowRefused ==
  ASSUME LedgerInv, [SystemNext]_systemVars, NEW w \in CommitWorkers,
         InCommit(w), phase'[w] = "idle"
  PROVE  LET said == response'[w]
         IN  /\ said \in {"QUOTE_NOT_FOUND", "QUOTE_EXPIRED"} =>
                  /\ phase[w] = "rawQuote"
                  /\ said = "QUOTE_NOT_FOUND" <=> GetQuote(Request(w).quote_id) = None
             /\ said = "LOCK_EXPIRED" =>
                  phase[w] = "rawLock" /\ GetLock(Request(w).lock_id) # None
             /\ said = "LOCK_SESSION_MISMATCH" => phase[w] = "owner" /\ ~OwnsLock(w)
<1>1. CommitsWellFormed /\ w \in DOMAIN phase /\ phase[w] # "idle"
  BY DEF LedgerInv, CommitInv, CommitsWellFormed, InCommit
<1>2. CommitStep(w)
  <2>1. phase'[w] # phase[w]
    BY <1>1
  <2>2. \A v \in CommitWorkers : CommitStep(v) => v = w
    BY <1>1, <2>1, CommitStepLocal
  <2>3. \A v \in CommitWorkers : \A request \in CommitRequests : ~ReceiveCommit(v, request)
    BY <1>1, <2>1 DEF ReceiveCommit, CommitsWellFormed
  <2> QED BY <2>1, <2>2, <2>3, BesideLeavesCommits DEF commitVars
<1>3. ASSUME NEW outcome, Leave(w, outcome) PROVE response'[w] = outcome
  BY <1>3 DEF Leave, LedgerInv, SystemTypeOK
<1>4. CASE EnterCommit(w) \/ ReadValidQuote(w) \/ CheckLockValid(w) \/ Charge(w)
             \/ SaveAndConfirm(w) \/ ReleaseSeatLock(w)
  BY <1>1, <1>4 DEF EnterCommit, ReadValidQuote, CheckLockValid, Charge, SaveAndConfirm,
                    ReleaseSeatLock, Goto, InCommit
<1>5. CASE ReadRawQuote(w)
  BY <1>3, <1>5 DEF ReadRawQuote
<1>6. CASE ReadRawLock(w)
  BY <1>3, <1>6 DEF ReadRawLock
<1>7. CASE CheckLockOwner(w)
  BY <1>1, <1>3, <1>7 DEF CheckLockOwner, Goto
<1>8. CASE ValidateSeats(w)
  <2>1. SeatErrors(Request(w)) \subseteq {"UNKNOWN_SEAT", "SEAT_NOT_FOR_SALE", "SEAT_ALREADY_BOOKED"}
    BY DEF SeatErrors
  <2> QED BY <1>1, <1>3, <1>8, <2>1 DEF ValidateSeats, Goto
<1>9. CASE ChargeDeclined(w) \/ OutOfReferences(w) \/ AuditCommit(w)
  BY <1>3, <1>9 DEF ChargeDeclined, OutOfReferences, AuditCommit
<1> QED BY <1>2, <1>4, <1>5, <1>6, <1>7, <1>8, <1>9 DEF CommitStep

(* Whoever is refused is told the truth: nothing that runs out, is saved,  *)
(* quoted, held or released between a commit's two questions to a store    *)
(* can make one refusal look like another.                                 *)
THEOREM RefusalsTellTheTruth == SystemSpec => RefusalsAreTrue
<1> DEFINE True ==
             \A w \in CommitWorkers : InCommit(w) /\ phase'[w] = "idle" =>
               LET q == Request(w).quote_id
                   l == Request(w).lock_id
               IN  /\ response'[w] = "QUOTE_EXPIRED" /\ q \notin Guessed =>
                        GetQuote(q) # None /\ quotes[q].expires_at <= local[w].now
                   /\ response'[w] = "QUOTE_NOT_FOUND" => q \notin delivered
                   /\ response'[w] = "LOCK_EXPIRED" /\ l \notin Guessed =>
                        GetLock(l) # None /\ byLock[l].expires_at <= local[w].now
                   /\ response'[w] = "LOCK_SESSION_MISMATCH" =>
                        /\ IsValid(l, local[w].now)
                        /\ Request(w).session_id \notin {None, byLock[l].session_id}
<1>1. LedgerInv /\ [SystemNext]_systemVars => [True]_systemVars
  <2> SUFFICES ASSUME LedgerInv, [SystemNext]_systemVars PROVE True
    OBVIOUS
  <2> SUFFICES ASSUME NEW w \in CommitWorkers, InCommit(w), phase'[w] = "idle"
               PROVE  LET q == Request(w).quote_id
                          l == Request(w).lock_id
                      IN  /\ response'[w] = "QUOTE_EXPIRED" /\ q \notin Guessed =>
                               GetQuote(q) # None /\ quotes[q].expires_at <= local[w].now
                          /\ response'[w] = "QUOTE_NOT_FOUND" => q \notin delivered
                          /\ response'[w] = "LOCK_EXPIRED" /\ l \notin Guessed =>
                               GetLock(l) # None /\ byLock[l].expires_at <= local[w].now
                          /\ response'[w] = "LOCK_SESSION_MISMATCH" =>
                               /\ IsValid(l, local[w].now)
                               /\ Request(w).session_id \notin {None, byLock[l].session_id}
    OBVIOUS
  <2> DEFINE q == Request(w).quote_id
             l == Request(w).lock_id
  <2>1. /\ phase[w] # "idle" /\ local[w].now \in Nat
        /\ quotes \in [QuoteId -> Quote \cup {None}]
        /\ byLock \in [LockId -> LockRecord \cup {None}]
    BY CommitTyped DEF InCommit, Local, LedgerInv, SystemTypeOK, LockTypeOK
  <2>2. Refusing(w)
    BY <2>1 DEF LedgerInv, RefusalsInTheMaking, Refusing
  <2>3. ASSUME response'[w] = "QUOTE_EXPIRED", q \notin Guessed
        PROVE  GetQuote(q) # None /\ quotes[q].expires_at <= local[w].now
    <3>1. GetQuote(q) # None /\ GetValidQuote(q, local[w].now) = None
      BY <2>2, <2>3, HowRefused DEF Refusing
    <3>2. q \in QuoteId /\ quotes[q] \in Quote /\ ~(local[w].now < quotes[q].expires_at)
      BY <2>1, <3>1 DEF GetQuote, GetValidQuote
    <3> QED BY <2>1, <3>1, <3>2 DEF Quote
  <2>4. ASSUME response'[w] = "QUOTE_NOT_FOUND" PROVE q \notin delivered
    <3>1. GetQuote(q) = None
      BY <2>4, HowRefused
    <3>2. \A d \in delivered : d \in QuoteId /\ quotes[d] # None
      BY DEF LedgerInv, SystemTypeOK, DeliveredIsLogged
    <3> QED BY <3>1, <3>2 DEF GetQuote
  <2>5. ASSUME response'[w] = "LOCK_EXPIRED", l \notin Guessed
        PROVE  GetLock(l) # None /\ byLock[l].expires_at <= local[w].now
    <3>1. GetLock(l) # None /\ ~IsValid(l, local[w].now)
      BY <2>2, <2>5, HowRefused DEF Refusing
    <3>2. byLock[l] \in LockRecord /\ ~(local[w].now < byLock[l].expires_at)
      BY <2>1, <3>1 DEF GetLock, IsValid, Live
    <3> QED BY <2>1, <3>1, <3>2 DEF LockRecord
  <2>6. ASSUME response'[w] = "LOCK_SESSION_MISMATCH"
        PROVE  /\ IsValid(l, local[w].now)
               /\ Request(w).session_id \notin {None, byLock[l].session_id}
    <3>1. phase[w] = "owner" /\ ~OwnsLock(w)
      BY <2>6, HowRefused
    <3>2. IsValid(l, local[w].now)
      BY <3>1 DEF LedgerInv, CommitInv, CheckedLockStays
    <3>3. GetLock(l) = byLock[l]
      BY <3>2 DEF IsValid, Live, GetLock
    <3> QED BY <3>1, <3>2, <3>3 DEF OwnsLock
  <2> QED BY <2>3, <2>4, <2>5, <2>6
<1> QED BY <1>1, LedgerInvariant, PTL DEF SystemSpec, RefusalsAreTrue

-----------------------------------------------------------------------------
(* Mails and events: AnnouncedOnce counts what MailedOnce and LoggedOnce   *)
(* name.                                                                   *)

(* Every booking is mailed once, and logged once it is answered, with a    *)
(* log that does not raise: the in-memory one.                             *)
THEOREM BookingsAreAnnounced ==
  ASSUME ~AuditMayFail
  PROVE  SystemSpec => []AnnouncedOnce
<1>1. LedgerInv => AnnouncedOnce
  <2> SUFFICES ASSUME LedgerInv, NEW r \in BookingReference
               PROVE  /\ Cardinality(Mails(r)) = IF r \in References THEN 1 ELSE 0
                      /\ Cardinality(CommitEvents(r)) =
                           IF r \in References /\ ~Pending(r) THEN 1 ELSE 0
    BY DEF AnnouncedOnce
  <2>1. IF r \in References THEN \E i : Mails(r) = {i} ELSE Mails(r) = {}
    BY DEF LedgerInv, MailedOnce
  <2>2. IF r \in References /\ ~Pending(r) THEN \E i : CommitEvents(r) = {i}
                                           ELSE CommitEvents(r) = {}
    BY DEF LedgerInv, LoggedOnce
  <2> QED BY <2>1, <2>2, FS_EmptySet, FS_Singleton
<1> QED BY <1>1, LedgerInvariant, PTL

-----------------------------------------------------------------------------
(* Charges and bookings, amount by amount.                                 *)

(* With a reference for every commit that arrives, the generator never     *)
(* runs dry between a charge and its save.                                 *)
LEMMA ReferencesSuffice ==
  ASSUME LedgerInv, MaxCommits <= Cardinality(BookingReference), NEW w \in CommitWorkers
  PROVE  ~OutOfReferences(w)
<1> SUFFICES ASSUME phase[w] = "save", References = BookingReference PROVE FALSE
  BY DEF OutOfReferences
<1>1. /\ IsFiniteSet(Unsaved)
      /\ Cardinality(References) + Cardinality(Unsaved) <= arrived
      /\ arrived \in 0 .. MaxCommits
  BY DEF LedgerInv, ReferencesReserved, SystemTypeOK
<1>2. w \in Unsaved
  BY DEF Unsaved
<1>3. Cardinality(Unsaved) \in Nat /\ Cardinality(Unsaved) # 0
  BY <1>1, <1>2, FS_EmptySet, FS_CardinalityType
<1>4. Cardinality(References) \in Nat
  BY RepositoryAssumption, FS_CardinalityType
<1> QED BY <1>1, <1>3, <1>4

LEMMA LedgersAreFinite ==
  ASSUME LedgerInv, NEW amount
  PROVE  /\ IsFiniteSet(Charged(amount)) /\ Cardinality(Charged(amount)) \in Nat
         /\ IsFiniteSet(Booked(amount)) /\ Cardinality(Booked(amount)) \in Nat
         /\ IsFiniteSet(Saving(amount)) /\ Cardinality(Saving(amount)) \in Nat
<1>1. IsFiniteSet(Charged(amount))
  <2>1. charges \in Seq(Money)
    BY DEF LedgerInv, SystemTypeOK
  <2>2. Len(charges) \in Nat /\ DOMAIN charges = 1 .. Len(charges)
    BY <2>1, LenProperties
  <2>3. IsFiniteSet(1 .. Len(charges))
    BY <2>2, FS_Interval
  <2> QED BY <2>2, <2>3, FS_Subset DEF Charged
<1>2. IsFiniteSet(Booked(amount))
  BY RepositoryAssumption, FS_Subset DEF Booked, References
<1>3. IsFiniteSet(Saving(amount))
  <2>1. Saving(amount) \subseteq Unsaved /\ IsFiniteSet(Unsaved)
    BY DEF Saving, Unsaved, LedgerInv, ReferencesReserved
  <2> QED BY <2>1, FS_Subset
<1> QED BY <1>1, <1>2, <1>3, FS_CardinalityType

(* A commit enters its save by charging and leaves it by saving.           *)
LEMMA SavingStays ==
  ASSUME LedgerInv, [SystemNext]_systemVars, NEW w \in CommitWorkers,
         ~Charge(w), ~SaveAndConfirm(w), ~OutOfReferences(w)
  PROVE  /\ phase'[w] = "save" <=> phase[w] = "save"
         /\ phase[w] = "save" => local'[w] = local[w]
<1>1. CommitsWellFormed /\ w \in DOMAIN phase
  BY DEF LedgerInv, CommitInv, CommitsWellFormed
<1>2. CASE CommitStep(w)
  <2>1. phase[w] # "save" /\ phase'[w] # "save"
    BY <1>1, <1>2
    DEF CommitStep, EnterCommit, ReadValidQuote, ReadRawQuote, ValidateSeats, CheckLockValid,
        CheckLockOwner, ReadRawLock, ChargeDeclined, ReleaseSeatLock, AuditCommit, Goto, Leave
  <2> QED BY <2>1
<1>3. CASE \E request \in CommitRequests : ReceiveCommit(w, request)
  BY <1>1, <1>3 DEF ReceiveCommit
<1>4. ASSUME NEW v \in CommitWorkers, v # w, CommitStep(v)
      PROVE  phase'[w] = phase[w] /\ local'[w] = local[w]
  BY <1>1, <1>4, CommitStepLocal
<1>5. ASSUME NEW v \in CommitWorkers, v # w, NEW request \in CommitRequests,
             ReceiveCommit(v, request)
      PROVE  phase'[w] = phase[w] /\ local'[w] = local[w]
  BY <1>1, <1>5 DEF ReceiveCommit, CommitsWellFormed
<1> QED BY <1>2, <1>3, <1>4, <1>5, BesideLeavesCommits DEF commitVars

(* A total is the commit's own as long as its local variables are.         *)
LEMMA SameTotal ==
  ASSUME NEW w, local'[w] = local[w]
  PROVE  Total(w)' = Total(w)
BY DEF Total, Request

LEMMA ChargeBalances ==
  ASSUME LedgerInv, NEW w \in CommitWorkers, Charge(w), NEW amount, Balanced(amount)
  PROVE  Balanced(amount)'
<1>1. /\ phase[w] = "charge" /\ phase'[w] = "save"
      /\ \A v \in CommitWorkers \ {w} : phase'[v] = phase[v]
      /\ UNCHANGED <<local, bookings>>
      /\ charges' = Append(charges, Total(w))
  BY DEF Charge, Goto, OnlyCharges, LedgerInv, CommitInv, CommitsWellFormed
<1>2. charges \in Seq(Money) /\ Total(w) \in Money
  BY <1>1, TotalIsMoney DEF LedgerInv, SystemTypeOK, InCommit
<1> DEFINE n == Len(charges) + 1
<1>3. /\ DOMAIN charges' = DOMAIN charges \cup {n}
      /\ \A i \in DOMAIN charges : charges'[i] = charges[i]
      /\ n \notin DOMAIN charges
      /\ charges'[n] = Total(w)
  BY <1>1, <1>2, Appended
<1> HIDE DEF n
<1>4. \A v \in CommitWorkers : Total(v)' = Total(v)
  BY <1>1, SameTotal
<1>5. Booked(amount)' = Booked(amount)
  BY <1>1 DEF Booked, References
<1>6. CASE Total(w) = amount
  <2>1. Charged(amount)' = Charged(amount) \cup {n} /\ n \notin Charged(amount)
    BY <1>3, <1>6 DEF Charged
  <2>2. Saving(amount)' = Saving(amount) \cup {w} /\ w \notin Saving(amount)
    BY <1>1, <1>4, <1>6 DEF Saving
  <2>3. /\ Cardinality(Charged(amount)') = Cardinality(Charged(amount)) + 1
        /\ Cardinality(Saving(amount)') = Cardinality(Saving(amount)) + 1
    BY <2>1, <2>2, LedgersAreFinite, FS_AddElement
  <2> QED BY <1>5, <2>3, LedgersAreFinite DEF Balanced
<1>7. CASE Total(w) # amount
  <2>1. Charged(amount)' = Charged(amount)
    BY <1>3, <1>7 DEF Charged
  <2>2. Saving(amount)' = Saving(amount)
    BY <1>1, <1>4, <1>7 DEF Saving
  <2> QED BY <1>5, <2>1, <2>2 DEF Balanced
<1> QED BY <1>6, <1>7

LEMMA SaveBalances ==
  ASSUME LedgerInv, NEW w \in CommitWorkers, SaveAndConfirm(w), NEW amount, Balanced(amount)
  PROVE  Balanced(amount)'
<1>1. PICK r \in BookingReference \ References :
        /\ NewBooking(w, r) \in Booking
        /\ bookings' = [bookings EXCEPT ![r] = NewBooking(w, r)]
        /\ References' = References \cup {r}
        /\ local' = [local EXCEPT ![w].reference = r]
  BY SavedReference
<1>2. /\ phase[w] = "save" /\ phase'[w] # "save"
      /\ \A v \in CommitWorkers \ {w} : phase'[v] = phase[v]
      /\ UNCHANGED charges
  BY DEF SaveAndConfirm, Goto, LedgerInv, CommitInv, CommitsWellFormed
<1>3. \A v \in CommitWorkers \ {w} : Total(v)' = Total(v)
  <2>1. \A v \in CommitWorkers \ {w} : local'[v] = local[v]
    BY <1>1 DEF LedgerInv, SystemTypeOK
  <2> QED BY <2>1, SameTotal
<1>4. /\ bookings'[r].total_charged = Total(w)
      /\ \A q \in References : bookings'[q] = bookings[q]
  <2>1. bookings'[r] = NewBooking(w, r) /\ \A q \in References : bookings'[q] = bookings[q]
    BY <1>1 DEF LedgerInv, SystemTypeOK, References
  <2> QED BY <2>1 DEF NewBooking
<1>5. Charged(amount)' = Charged(amount)
  BY <1>2 DEF Charged
<1>6. Saving(amount)' = Saving(amount) \ {w} /\ (w \in Saving(amount) <=> Total(w) = amount)
  BY <1>2, <1>3 DEF Saving
<1>7. CASE Total(w) = amount
  <2>1. Booked(amount)' = Booked(amount) \cup {r} /\ r \notin Booked(amount)
    BY <1>1, <1>4, <1>7 DEF Booked
  <2>2. /\ Cardinality(Booked(amount)') = Cardinality(Booked(amount)) + 1
        /\ Cardinality(Saving(amount)') = Cardinality(Saving(amount)) - 1
    <3>1. IsFiniteSet(Booked(amount)) /\ IsFiniteSet(Saving(amount)) /\ w \in Saving(amount)
      BY <1>6, <1>7, LedgersAreFinite
    <3>2. Cardinality(Booked(amount) \cup {r}) = Cardinality(Booked(amount)) + 1
      BY <2>1, <3>1, FS_AddElement
    <3>3. Cardinality(Saving(amount) \ {w}) = Cardinality(Saving(amount)) - 1
      BY <3>1, FS_RemoveElement
    <3> QED BY <1>6, <2>1, <3>2, <3>3
  <2> QED BY <1>5, <2>2, LedgersAreFinite DEF Balanced
<1>8. CASE Total(w) # amount
  <2>1. Booked(amount)' = Booked(amount)
    BY <1>1, <1>4, <1>8 DEF Booked
  <2>2. Saving(amount)' = Saving(amount)
    BY <1>6, <1>8
  <2> QED BY <1>5, <2>1, <2>2 DEF Balanced
<1> QED BY <1>7, <1>8

LEMMA BalanceKept ==
  ASSUME LedgerInv, MaxCommits <= Cardinality(BookingReference), [SystemNext]_systemVars,
         NEW amount, Balanced(amount)
  PROVE  Balanced(amount)'
<1>1. CASE \E w \in CommitWorkers : Charge(w) \/ SaveAndConfirm(w)
  BY <1>1, ChargeBalances, SaveBalances
<1>2. CASE \A w \in CommitWorkers : ~Charge(w) /\ ~SaveAndConfirm(w)
  <2>1. UNCHANGED <<charges, bookings>>
    BY <1>2, NoSaveNoBooking, CommitWritesLedgers
    DEF SystemNext, systemVars, commitVars, ReceiveCommit, HoldBeside, QuoteBeside, TickBeside
  <2>2. Saving(amount)' = Saving(amount)
    BY <1>2, ReferencesSuffice, SavingStays, SameTotal DEF Saving
  <2> QED BY <2>1, <2>2 DEF Balanced, Charged, Booked, References
<1> QED BY <1>1, <1>2

(* Nobody pays without a booking and nobody books without paying, amount   *)
(* by amount, up to the one commit between its charge and its save -- as   *)
(* long as the reference generator has a reference for every commit.       *)
THEOREM ChargesAndBookingsAgree ==
  ASSUME MaxCommits <= Cardinality(BookingReference)
  PROVE  SystemSpec => []ChargesMatchBookings
<1> DEFINE AllBalanced == \A amount : Balanced(amount)
<1>1. SystemInit => AllBalanced
  <2> SUFFICES ASSUME SystemInit, NEW amount PROVE Balanced(amount)
    OBVIOUS
  <2>1. Charged(amount) = {} /\ Booked(amount) = {} /\ Saving(amount) = {}
    BY DEF SystemInit, BookingsInit, Charged, Booked, Saving, References
  <2> QED BY <2>1, FS_EmptySet DEF Balanced
<1>2. LedgerInv /\ AllBalanced /\ [SystemNext]_systemVars => AllBalanced'
  BY BalanceKept
<1>3. AllBalanced => ChargesMatchBookings
  BY DEF ChargesMatchBookings
<1> HIDE DEF AllBalanced
<1> QED BY <1>1, <1>2, <1>3, LedgerInvariant, PTL DEF SystemSpec
=============================================================================
