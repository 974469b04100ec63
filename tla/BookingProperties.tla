-------------------------- MODULE BookingProperties --------------------------
(***************************************************************************)
(* What the write side as a whole guarantees, and, at the end, what the    *)
(* repository's documents say of it that the code does not do.             *)
(***************************************************************************)
EXTENDS BookingService

InCommit(w) == phase[w] \notin {"idle", "waiting"}

Event ==
  [type : {"QuoteCreated"}, quote_id : QuoteId, occupied : Nat, total : Money]
    \cup [type : {"PaymentFailed"}, quote_id : QuoteId \cup {None, UnknownId},
          seat_ids : SUBSET SeatId]
    \cup [type : {"BookingCommitted"}, booking_reference : BookingReference,
          quote_id : QuoteId \cup {NoQuoteId}, total_charged : Money]

(* Type invariant of the composed system.                                  *)
SystemTypeOK ==
  /\ LockTypeOK
  /\ bookings   \in [BookingReference -> Booking \cup {None}]
  /\ quotes     \in [QuoteId -> Quote \cup {None}]
  /\ quoting    \in [QuoteWorkers -> Quoting \cup {None}]
  /\ delivered  \in SUBSET QuoteId
  /\ minted     \in SUBSET MintedSession
  /\ audit      \in Seq(Event \cup {Garbled})
  /\ ended      \in BOOLEAN
  /\ commitLock \in CommitWorkers \cup {None}
  /\ phase      \in [CommitWorkers -> Phases]
  /\ local      \in [CommitWorkers -> Local \cup {None}]
  /\ response   \in [CommitWorkers -> Outcome]
  /\ arrived    \in 0..MaxCommits
  /\ charges    \in Seq(Money)
  /\ outbox     \in Seq(BookingReference)

(* Exactly-once sale (KPI-T2): no seat of a flight is in two bookings, in  *)
(* whatever way commits, holds, expiries and failures interleave.          *)
NoDoubleBooking ==
  \A r1, r2 \in References :
    /\ r1 # r2
    /\ bookings[r1].flight_id = bookings[r2].flight_id
    => bookings[r1].seat_ids \cap bookings[r2].seat_ids = {}

(* Quote fidelity (KPI-T1): a booking made with a quote was charged its    *)
(* total, while the quote was valid, whatever was booked in between.  Only *)
(* a commit that guessed the id can be older than the quote it is given.   *)
QuoteHonoured ==
  \A r \in References : bookings[r].quote_id # NoQuoteId =>
    LET quote == quotes[bookings[r].quote_id]
    IN  /\ quote # None
        /\ bookings[r].total_charged = quote.total
        /\ bookings[r].confirmed_at < quote.expires_at
        /\ bookings[r].quote_id \notin Guessed => quote.created_at <= bookings[r].confirmed_at

(* Nobody pays without a booking or books without paying: amount by amount *)
(* the gateway has charged what the bookings say, give or take the one     *)
(* commit that is between its charge and its save.                         *)
Charged(amount) == {i \in DOMAIN charges : charges[i] = amount}
Booked(amount)  == {r \in References : bookings[r].total_charged = amount}
Saving(amount)  == {w \in CommitWorkers : phase[w] = "save" /\ Total(w) = amount}

Balanced(amount) ==
  Cardinality(Charged(amount)) = Cardinality(Booked(amount)) + Cardinality(Saving(amount))

ChargesMatchBookings ==
  \A amount \in {charges[i] : i \in DOMAIN charges}
                  \cup {bookings[r].total_charged : r \in References} : Balanced(amount)

(* verify_commits of the audit replay, at every moment and not only at the *)
(* end: a BookingCommitted event that cites a quote comes after the        *)
(* QuoteCreated event of that quote and repeats its total.  The replay     *)
(* needs a file it can read; and whoever guesses the id of a quote can     *)
(* book with it before its event is written.                               *)
ReplayVerifies ==
  Readable =>
    \A i \in Events("BookingCommitted") : audit[i].quote_id \notin Guessed \cup {NoQuoteId} =>
      \E j \in Events("QuoteCreated") :
        /\ j < i
        /\ audit[j].quote_id = audit[i].quote_id
        /\ audit[j].total = audit[i].total_charged

(* What the audit log says of a quote explains its total, although the     *)
(* bookings were counted, the quote saved and the event written in steps   *)
(* of their own: the occupancy it gives, with the flight and the day the   *)
(* quote was created, is priced to just that total.                        *)
Explains(occupied, quote) ==
  /\ quote # None
  /\ quote.total = QuotedTotal(quote.flight_id, quote.seat_ids, occupied, quote.created_at)

AuditExplainsTotals ==
  \A i \in Events("QuoteCreated") :
    /\ Explains(audit[i].occupied, quotes[audit[i].quote_id])
    /\ audit[i].total = quotes[audit[i].quote_id].total

(* Every booking has one confirmation and, once its commit is answered,    *)
(* one BookingCommitted event; and neither exists without its booking.     *)
Mails(r)        == {i \in DOMAIN outbox : outbox[i] = r}
CommitEvents(r) == {i \in Events("BookingCommitted") : audit[i].booking_reference = r}
Settling(w)     == phase[w] \in {"release", "audit"}
Pending(r)      == \E w \in CommitWorkers : Settling(w) /\ local[w].reference = r

AnnouncedOnce ==
  \A r \in BookingReference :
    /\ Cardinality(Mails(r)) = IF r \in References THEN 1 ELSE 0
    /\ Cardinality(CommitEvents(r)) = IF r \in References /\ ~Pending(r) THEN 1 ELSE 0

(* The lock a commit has validated stays in the store, and stays its       *)
(* session's, until that very commit releases it: no other thread can      *)
(* release it while the charge is under way.                               *)
LockKeptThroughCommit ==
  \A w \in CommitWorkers :
    /\ phase[w] \in {"charge", "save", "release"}
    /\ Request(w).lock_id # None
    => /\ IsValid(Request(w).lock_id, local[w].now)
       /\ OwnsLock(w)

(* A seat lock leaves the store only when a booking that cites it has been *)
(* saved; in particular a declined payment leaves it to its TTL.           *)
LockReleasedByItsBooking ==
  [][\A l \in LockId : byLock[l] # None /\ byLock'[l] = None =>
       \E w \in CommitWorkers :
         /\ InCommit(w)
         /\ Request(w).lock_id = l
         /\ local[w].reference \in References]_systemVars

(* What a refusal says is so, although it is found out by asking a store   *)
(* twice, between other threads' calls, with a time read before both:      *)
(* QUOTE_EXPIRED and LOCK_EXPIRED (410) are said only of a quote or lock   *)
(* that exists and has expired, LOCK_SESSION_MISMATCH (403) only of a lock *)
(* that runs and is another session's, and QUOTE_NOT_FOUND (404) never of  *)
(* a quote some client was given.  A guessed id may come into use between  *)
(* the two questions, and is then said to have expired.                    *)
RefusalsAreTrue ==
  [][\A w \in CommitWorkers : InCommit(w) /\ phase'[w] = "idle" =>
       LET q == Request(w).quote_id
           l == Request(w).lock_id
       IN  /\ response'[w] = "QUOTE_EXPIRED" /\ q \notin Guessed =>
                GetQuote(q) # None /\ quotes[q].expires_at <= local[w].now
           /\ response'[w] = "QUOTE_NOT_FOUND" => q \notin delivered
           /\ response'[w] = "LOCK_EXPIRED" /\ l \notin Guessed =>
                GetLock(l) # None /\ byLock[l].expires_at <= local[w].now
           /\ response'[w] = "LOCK_SESSION_MISMATCH" =>
                /\ IsValid(l, local[w].now)
                /\ Request(w).session_id \notin {None, byLock[l].session_id}]_systemVars

(* Every POST /bookings call is answered: no path out of commit, by return *)
(* or by exception, leaves commit_lock behind.                             *)
EveryCommitAnswered ==
  \A w \in CommitWorkers : phase[w] = "waiting" ~> phase[w] = "idle"

(* The inductive strengthening behind the sale and lock properties, by     *)
(* parts.  What a commit keeps in its local variables is a record of its   *)
(* own request from the moment it arrives;                                 *)
CommitsWellFormed ==
  /\ bookings = [r \in BookingReference |-> bookings[r]]
  /\ phase \in [CommitWorkers -> Phases]
  /\ commitLock \in CommitWorkers \cup {None}
  /\ local = [w \in CommitWorkers |-> local[w]]
  /\ \A w \in CommitWorkers : phase[w] # "idle" =>
       /\ local[w] = [request   |-> local[w].request,
                      now       |-> local[w].now,
                      quote     |-> local[w].quote,
                      reference |-> local[w].reference]
       /\ local[w].request \in CommitRequests

(* only the holder of commit_lock is inside commit;                        *)
OneCommitter == \A w \in CommitWorkers : InCommit(w) => commitLock = w

(* between its seat check and its save, nobody books a commit's seats;     *)
SeatsStillFree ==
  \A w \in CommitWorkers : phase[w] \in {"lock", "owner", "rawLock", "charge", "save"} =>
    \A s \in Request(w).seat_ids : ~SeatAlreadyBooked(Request(w).flight_id, s)

(* and from is_valid on the lock it cites stays in the store.              *)
CheckedLockStays ==
  \A w \in CommitWorkers :
    phase[w] = "owner" => IsValid(Request(w).lock_id, local[w].now)

CommitInv ==
  /\ LockInv
  /\ CommitsWellFormed
  /\ OneCommitter
  /\ SeatsStillFree
  /\ CheckedLockStays
  /\ LockKeptThroughCommit
  /\ NoDoubleBooking

(* The inductive strengthening behind what the ledgers say: quotes,        *)
(* bookings, charges, mails and the audit log.  A quote under way is for a *)
(* flight that has not left; once saved, it is in the store with a total   *)
(* that what its thread has counted explains;                              *)
QuotesInTheMaking ==
  \A w \in QuoteWorkers : quoting[w] # None =>
    /\ quoting[w].request.flight_id \in Flight
    /\ quoting[w].now <= clock
    /\ quoting[w].now <= Departure[quoting[w].request.flight_id]
    /\ quoting[w].occupied <= MaxOccupied
    /\ quoting[w].stage = "audit" =>
         /\ quoting[w].quote_id # None
         /\ Explains(quoting[w].occupied, quotes[quoting[w].quote_id])

(* a quote in the store is one that was made so, before now;               *)
QuotesInTheStore ==
  \A q \in QuoteId : quotes[q] # None =>
    /\ quotes[q].id = q
    /\ quotes[q].flight_id \in Flight
    /\ quotes[q].created_at <= clock
    /\ quotes[q].created_at <= Departure[quotes[q].flight_id]
    /\ quotes[q].expires_at = quotes[q].created_at + QUOTE_TTL

(* one that a client knows of has its event in the log;                    *)
DeliveredIsLogged ==
  \A q \in delivered :
    /\ quotes[q] # None
    /\ Readable =>
         \E i \in Events("QuoteCreated") : audit[i].quote_id = q /\ audit[i].total = quotes[q].total

(* what a commit knows of a quote is what the store has, and was valid;    *)
CommitsCiteQuotes ==
  \A w \in CommitWorkers : phase[w] # "idle" =>
    /\ Request(w).quote_id \in delivered \cup Guessed \cup {None, UnknownId}
    /\ InCommit(w) =>
         /\ Request(w).flight_id \in Flight
         /\ local[w].now <= clock
         /\ Request(w).quote_id \in delivered \ Guessed =>
              quotes[Request(w).quote_id].created_at <= local[w].now
    /\ local[w].quote # None =>
         /\ InCommit(w)
         /\ Request(w).quote_id \in QuoteId
         /\ local[w].quote = quotes[Request(w).quote_id]
         /\ local[w].now < local[w].quote.expires_at

(* what it was told does not exist, or has expired, is still so when it    *)
(* asks again;                                                             *)
RefusalsInTheMaking ==
  \A w \in CommitWorkers : phase[w] # "idle" =>
    /\ Request(w).lock_id \in issued \cup Guessed \cup {None, UnknownId}
    /\ phase[w] = "rawQuote" /\ Request(w).quote_id \notin Guessed =>
         GetValidQuote(Request(w).quote_id, local[w].now) = None
    /\ phase[w] = "rawLock" /\ Request(w).lock_id \notin Guessed =>
         ~IsValid(Request(w).lock_id, local[w].now)

(* it has a reference just while it is between its save and its answer,    *)
(* with its own booking under it;                                          *)
CommitsKnowTheirBooking ==
  \A w \in CommitWorkers : phase[w] # "idle" =>
    /\ local[w] # None
    /\ IF phase[w] \in {"release", "audit"}
         THEN /\ local[w].reference \in References
              /\ bookings[local[w].reference] = NewBooking(w, local[w].reference)
         ELSE local[w].reference = None

(* a reference is mailed once if it has a booking, and else not at all;    *)
MailedOnce ==
  \A r \in BookingReference :
    IF r \in References THEN \E i \in DOMAIN outbox : Mails(r) = {i}
                        ELSE Mails(r) = {}

(* it is logged once its commit is answered, if the writer does not raise; *)
LoggedOnce ==
  \A r \in BookingReference :
    IF r \in References /\ ~Pending(r)
      THEN \/ \E i \in DOMAIN audit : CommitEvents(r) = {i}
           \/ AuditMayFail /\ CommitEvents(r) = {}
      ELSE CommitEvents(r) = {}

(* a line of the log lacks its newline only if a write has raised;         *)
LogEnds == ended \/ (AuditMayFail /\ audit # <<>>)

(* and every reference in use, or still to be drawn, is of a call that has *)
(* arrived.                                                                *)
Unsaved == {w \in CommitWorkers : phase[w] \notin {"idle", "release", "audit"}}

ReferencesReserved ==
  /\ IsFiniteSet(Unsaved)
  /\ Cardinality(References) + Cardinality(Unsaved) <= arrived

LedgerInv ==
  /\ CommitInv
  /\ SystemTypeOK
  /\ QuotesInTheMaking
  /\ QuotesInTheStore
  /\ DeliveredIsLogged
  /\ CommitsCiteQuotes
  /\ RefusalsInTheMaking
  /\ CommitsKnowTheirBooking
  /\ MailedOnce
  /\ LoggedOnce
  /\ LogEnds
  /\ ReferencesReserved
  /\ AuditExplainsTotals
  /\ QuoteHonoured
  /\ ReplayVerifies

(* What the whole write side promises about seats: each is sold at most    *)
(* once, all seats of a booking together.                                  *)
Buyers(f, s) == {r \in BookingsOf(f) : s \in bookings[r].seat_ids}

soldTo == [place \in FlightId \X SeatId |-> Buyers(place[1], place[2])]

Sale == INSTANCE SeatSale WITH buyers <- soldTo

(* The step-by-step commit implements the abstract sale.                   *)
SaleSpec == Sale!SaleSpec

-----------------------------------------------------------------------------
(* Statements of the documents that the code contradicts.                  *)

(* "POST /bookings checks the lock is held and unexpired before charging"  *)
(* (slice 07): no commit passes its checks while another session's live    *)
(* lock on the seat, for the same flight, stands.                          *)
BookingRespectsHolds ==
  [][\A w \in CommitWorkers : phase[w] # "charge" /\ phase'[w] = "charge" =>
       \A s \in Request(w).seat_ids :
         ~ /\ Live(bySeat[s], local[w].now)
           /\ bySeat[s].flight_id = Request(w).flight_id
           /\ bySeat[s].session_id # Request(w).session_id]_systemVars

(* "two acquires cannot both succeed on the same seat" (ADR-008): no two   *)
(* sessions hold valid locks on one seat of one flight.                    *)
OneValidLockPerSeat ==
  \A l1, l2 \in LockId :
    /\ Live(byLock[l1], clock) /\ Live(byLock[l2], clock)
    /\ byLock[l1].flight_id = byLock[l2].flight_id
    /\ byLock[l1].session_id # byLock[l2].session_id
    => byLock[l1].seat_ids \cap byLock[l2].seat_ids = {}
=============================================================================
