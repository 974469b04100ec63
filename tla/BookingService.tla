---------------------------- MODULE BookingService ----------------------------
(***************************************************************************)
(* BookingService.commit, running together with the seat-lock store, the   *)
(* quote service, the audit log and the clock: the whole write side of the *)
(* application as one system.                                              *)
(*                                                                         *)
(* commit runs under the module-level commit_lock, but nothing else does:  *)
(* between any two store calls of a commit, other threads acquire seat     *)
(* locks, save quotes, write audit events, and the clock moves on.  Each   *)
(* phase below is the stretch between two such calls.                      *)
(***************************************************************************)
EXTENDS SeatLockStore, QuoteService

CONSTANTS
  CommitWorkers,          \* threads serving POST /bookings
  CommitRequests,
  UnknownId,              \* an id that is never handed out
  Guessed,                \* ids a client can know before it is given them
  DeclinedTokens,         \* fail_on_tokens of the payment gateway
  MaxCommits              \* bound: POST /bookings calls that arrive

CommitRequest == [flight_id     : FlightId,
                  seat_ids      : SUBSET SeatId,
                  payment_token : STRING,
                  quote_id      : QuoteId \cup {None, UnknownId},
                  lock_id       : LockId \cup {None, UnknownId},
                  session_id    : SessionId \cup {None}]

Local == [request   : CommitRequests,
          now       : Nat,
          quote     : Quote \cup {None},
          reference : BookingReference \cup {None}]

ASSUME BookingAssumption ==
  /\ CommitRequests \subseteq CommitRequest
  /\ None \notin CommitWorkers \cup Booking \cup BookingReference \cup LockId
  /\ None \notin Quote \cup QuoteId \cup Quoting \cup Local
  /\ UnknownId \notin QuoteId \cup LockId \cup {None}
  /\ NoQuoteId \notin QuoteId
  /\ Guessed \subseteq QuoteId \cup LockId
  /\ MaxCommits \in Nat

VARIABLES
  commitLock,             \* the thread holding commit_lock, or None
  phase, local,           \* per worker: where it is and what it has read
  response,               \* per worker: the outcome of its last commit
  arrived,                \* how many commits have been called
  charges, outbox         \* what the gateway charged, what was queued to send

commitVars == <<commitLock, phase, local, response, arrived, charges, outbox>>
systemVars == <<lockVars, bookings, quoteVars, auditVars, commitVars>>

Phases == {"idle", "waiting", "validQuote", "rawQuote", "seats", "lock", "owner",
           "rawLock", "charge", "save", "release", "audit"}

(* How a commit may end: confirmed, refused with an error code, or with an *)
(* exception.                                                              *)
Outcome ==
  {"none", "CONFIRMED", "UNKNOWN_SEAT", "SEAT_ALREADY_BOOKED", "SEAT_NOT_FOR_SALE",
   "FLIGHT_NOT_FOUND", "PAYMENT_DECLINED", "QUOTE_EXPIRED", "QUOTE_NOT_FOUND", "LOCK_EXPIRED",
   "LOCK_NOT_FOUND", "LOCK_SESSION_MISMATCH", "OSError", "IndexError"}

Request(w) == local[w].request

(* Mutant: the price is computed again when the booking is made.           *)
TotalRecomputed(w) ==
  IF local[w].quote # None
    THEN QuotedTotal(Request(w).flight_id, Request(w).seat_ids,
                     ActiveBookedSeatCount(Request(w).flight_id), local[w].now)
    ELSE BaseFare[Request(w).flight_id]

(* What the commit charges: the quoted total, or the flight's base fare.   *)
Total(w) == IF local[w].quote # None THEN local[w].quote.total
                                     ELSE BaseFare[Request(w).flight_id]

QuoteIdOf(w) == IF local[w].quote # None THEN local[w].quote.id ELSE NoQuoteId

SystemInit ==
  /\ LockInit
  /\ BookingsInit
  /\ QuotesInit
  /\ AuditInit
  /\ commitLock = None
  /\ phase    = [w \in CommitWorkers |-> "idle"]
  /\ local    = [w \in CommitWorkers |-> None]
  /\ response = [w \in CommitWorkers |-> "none"]
  /\ arrived  = 0
  /\ charges  = <<>>
  /\ outbox   = <<>>

-----------------------------------------------------------------------------
(* How a commit moves: on to its next phase, or out of the critical        *)
(* section, by return or by an exception.                                  *)

Goto(w, next) ==
  /\ phase' = [phase EXCEPT ![w] = next]
  /\ UNCHANGED <<commitLock, response>>

(* Mutant: commit_lock taken and released by hand, not in a with block.    *)
LeaveByHand(w, outcome) ==
  /\ phase'      = [phase EXCEPT ![w] = "idle"]
  /\ local'      = [local EXCEPT ![w] = None]
  /\ response'   = [response EXCEPT ![w] = outcome]
  /\ commitLock' = IF outcome \in {"OSError", "IndexError"} THEN commitLock ELSE None

Leave(w, outcome) ==
  /\ phase'      = [phase EXCEPT ![w] = "idle"]
  /\ local'      = [local EXCEPT ![w] = None]
  /\ response'   = [response EXCEPT ![w] = outcome]
  /\ commitLock' = None

(* What a step of a commit leaves alone, by what it calls.                 *)
OnlyReads   == UNCHANGED <<lockVars, bookings, quoteVars, auditVars, arrived, charges, outbox>>
OnlyAudits  == UNCHANGED <<lockVars, bookings, quoteVars, arrived, charges, outbox>>
OnlyCharges == UNCHANGED <<lockVars, bookings, quoteVars, auditVars, arrived, outbox>>

-----------------------------------------------------------------------------

(* The handler takes any id.  Clients know those they were given, and of   *)
(* a seeded generator's may guess some; all others are like UnknownId.     *)
KnownToClients(request) ==
  /\ request.quote_id \in delivered \cup Guessed \cup {None, UnknownId}
  /\ request.lock_id \in issued \cup Guessed \cup {None, UnknownId}

ReceiveCommit(w, request) ==
  /\ phase[w] = "idle"
  /\ arrived < MaxCommits
  /\ KnownToClients(request)
  /\ arrived'  = arrived + 1
  /\ phase'    = [phase EXCEPT ![w] = "waiting"]
  /\ local'    = [local EXCEPT ![w] = [request   |-> request,
                                       now       |-> 0,
                                       quote     |-> None,
                                       reference |-> None]]
  /\ response' = [response EXCEPT ![w] = "none"]
  /\ UNCHANGED <<lockVars, bookings, quoteVars, auditVars, commitLock, charges, outbox>>

(* Mutant: the critical section is not entered exclusively.                *)
EnterCommitUnlocked(w) ==
  /\ phase[w] = "waiting"
  /\ Request(w).flight_id \in Flight
  /\ commitLock' = w
  /\ phase' = [phase EXCEPT ![w] = IF Request(w).quote_id = None
                                     THEN "seats" ELSE "validQuote"]
  /\ local' = [local EXCEPT ![w].now = clock]
  /\ UNCHANGED response
  /\ OnlyReads

(* with commit_lock: find the flight, read the clock once for the commit.  *)
EnterCommit(w) ==
  /\ phase[w] = "waiting"
  /\ commitLock = None
  /\ IF Request(w).flight_id \in Flight
       THEN /\ commitLock' = w
            /\ phase' = [phase EXCEPT ![w] = IF Request(w).quote_id = None
                                               THEN "seats" ELSE "validQuote"]
            /\ local' = [local EXCEPT ![w].now = clock]
            /\ UNCHANGED response
       ELSE Leave(w, "FLIGHT_NOT_FOUND")
  /\ OnlyReads

(* Mutant: get_valid is asked with a time of its own.                      *)
ReadValidQuoteNow(w) ==
  /\ phase[w] = "validQuote"
  /\ LET quote == GetValidQuote(Request(w).quote_id, clock)
     IN  /\ local' = [local EXCEPT ![w].quote = quote]
         /\ Goto(w, IF quote # None THEN "seats" ELSE "rawQuote")
  /\ OnlyReads

(* _resolve_quote asks the store twice; neither the quote's session, nor   *)
(* its flight, nor its seats are looked at.                                *)
ReadValidQuote(w) ==
  /\ phase[w] = "validQuote"
  /\ LET quote == GetValidQuote(Request(w).quote_id, local[w].now)
     IN  /\ local' = [local EXCEPT ![w].quote = quote]
         /\ Goto(w, IF quote # None THEN "seats" ELSE "rawQuote")
  /\ OnlyReads

ReadRawQuote(w) ==
  /\ phase[w] = "rawQuote"
  /\ Leave(w, IF GetQuote(Request(w).quote_id) = None THEN "QUOTE_NOT_FOUND"
                                                      ELSE "QUOTE_EXPIRED")
  /\ OnlyReads

(* Mutant: bookings are not consulted.                                     *)
SeatErrorsIgnoringBookings(request) ==
  LET cabin == Cabin[request.flight_id]
  IN  {IF s \in DOMAIN cabin THEN "SEAT_NOT_FOR_SALE" ELSE "UNKNOWN_SEAT" :
         s \in {t \in request.seat_ids : t \notin DOMAIN cabin \/ cabin[t] = "BLOCKED"}}

(* The errors of _validate_seats, seat by seat.  A seat whose cabin status *)
(* is OCCUPIED passes; seat locks are not consulted.                       *)
SeatErrors(request) ==
  LET cabin == Cabin[request.flight_id]
      Error(s) == CASE s \notin DOMAIN cabin  -> "UNKNOWN_SEAT"
                    [] cabin[s] = "BLOCKED"   -> "SEAT_NOT_FOR_SALE"
                    [] OTHER                  -> "SEAT_ALREADY_BOOKED"
      Bad(s)   == \/ s \notin DOMAIN cabin
                  \/ cabin[s] = "BLOCKED"
                  \/ SeatAlreadyBooked(request.flight_id, s)
  IN  {Error(s) : s \in {t \in request.seat_ids : Bad(t)}}

(* The first bad seat of the request's tuple decides; requests are sets    *)
(* here, so any bad seat may be the first.                                 *)
ValidateSeats(w) ==
  /\ phase[w] = "seats"
  /\ \/ \E error \in SeatErrors(Request(w)) : Leave(w, error)
     \/ /\ SeatErrors(Request(w)) = {}
        /\ Goto(w, IF Request(w).lock_id = None THEN "charge" ELSE "lock")
        /\ UNCHANGED local
  /\ OnlyReads

(* _check_lock_session_ownership: an anonymous commit owns every lock.     *)
OwnsLock(w) ==
  LET record == GetLock(Request(w).lock_id)
  IN  \/ record = None
      \/ Request(w).session_id = None
      \/ record.session_id = Request(w).session_id

(* Mutant: another session's lock is refused as such, expired or not.      *)
CheckLockOwnerFirst(w) ==
  /\ phase[w] = "lock"
  /\ Goto(w, IF IsValid(Request(w).lock_id, local[w].now) \/ ~OwnsLock(w)
               THEN "owner" ELSE "rawLock")
  /\ UNCHANGED local
  /\ OnlyReads

(* _validate_lock: is_valid, then get.  Whether the lock covers the seats  *)
(* or the flight being booked is not checked.                              *)
CheckLockValid(w) ==
  /\ phase[w] = "lock"
  /\ Goto(w, IF IsValid(Request(w).lock_id, local[w].now) THEN "owner" ELSE "rawLock")
  /\ UNCHANGED local
  /\ OnlyReads

CheckLockOwner(w) ==
  /\ phase[w] = "owner"
  /\ IF OwnsLock(w) THEN Goto(w, "charge") /\ UNCHANGED local
                    ELSE Leave(w, "LOCK_SESSION_MISMATCH")
  /\ OnlyReads

ReadRawLock(w) ==
  /\ phase[w] = "rawLock"
  /\ Leave(w, IF GetLock(Request(w).lock_id) = None THEN "LOCK_NOT_FOUND"
                                                    ELSE "LOCK_EXPIRED")
  /\ OnlyReads

Charge(w) ==
  /\ phase[w] = "charge"
  /\ Request(w).payment_token \notin DeclinedTokens
  /\ charges' = Append(charges, Total(w))
  /\ Goto(w, "save")
  /\ UNCHANGED local
  /\ OnlyCharges

PaymentFailed(w) ==
  [type     |-> "PaymentFailed",
   quote_id |-> Request(w).quote_id,
   seat_ids |-> Request(w).seat_ids]

(* Mutant: the result of the charge is not looked at.                      *)
ChargeDeclinedUnnoticed(w) ==
  /\ phase[w] = "charge"
  /\ Request(w).payment_token \in DeclinedTokens
  /\ Goto(w, "save")
  /\ UNCHANGED local
  /\ OnlyReads

(* Mutant: the seat lock is given back when the card is declined.          *)
ChargeDeclinedReleasing(w) ==
  /\ phase[w] = "charge"
  /\ Request(w).payment_token \in DeclinedTokens
  /\ WriteAudit(PaymentFailed(w))
  /\ Leave(w, "PAYMENT_DECLINED")
  /\ Release(Request(w).lock_id)
  /\ UNCHANGED <<clock, hold, answer, bookings, quoteVars, arrived, charges, outbox>>

(* The seat lock is left to its TTL.                                       *)
ChargeDeclined(w) ==
  /\ phase[w] = "charge"
  /\ Request(w).payment_token \in DeclinedTokens
  /\ \/ WriteAudit(PaymentFailed(w)) /\ Leave(w, "PAYMENT_DECLINED")
     \/ AuditRaises(PaymentFailed(w)) /\ Leave(w, "OSError")
  /\ OnlyAudits

NewBooking(w, r) ==
  [reference     |-> r,
   flight_id     |-> Request(w).flight_id,
   seat_ids      |-> Request(w).seat_ids,
   total_charged |-> Total(w),
   quote_id      |-> QuoteIdOf(w),
   confirmed_at  |-> local[w].now]

(* Mutant: a reference already in use may be drawn.                        *)
SaveAndConfirmAnyReference(w) ==
  /\ phase[w] = "save"
  /\ \E r \in BookingReference :
       /\ SaveBooking(NewBooking(w, r))
       /\ outbox' = Append(outbox, r)
       /\ local'  = [local EXCEPT ![w].reference = r]
  /\ Goto(w, IF Request(w).lock_id = None THEN "audit" ELSE "release")
  /\ UNCHANGED <<lockVars, quoteVars, auditVars, arrived, charges>>

(* The booking is saved under a reference the generator has not handed out *)
(* before, and its confirmation is queued.  One step: only the save is     *)
(* something another thread can see, as the draw and the queue are used    *)
(* under commit_lock alone.                                                *)
SaveAndConfirm(w) ==
  /\ phase[w] = "save"
  /\ \E r \in BookingReference \ References :
       /\ SaveBooking(NewBooking(w, r))
       /\ outbox' = Append(outbox, r)
       /\ local'  = [local EXCEPT ![w].reference = r]
  /\ Goto(w, IF Request(w).lock_id = None THEN "audit" ELSE "release")
  /\ UNCHANGED <<lockVars, quoteVars, auditVars, arrived, charges>>

(* The reference generator has run dry: the exception leaves the charge.   *)
OutOfReferences(w) ==
  /\ phase[w] = "save"
  /\ References = BookingReference
  /\ Leave(w, "IndexError")
  /\ OnlyReads

ReleaseSeatLock(w) ==
  /\ phase[w] = "release"
  /\ Release(Request(w).lock_id)
  /\ Goto(w, "audit")
  /\ UNCHANGED local
  /\ UNCHANGED <<clock, hold, answer, bookings, quoteVars, auditVars, arrived, charges, outbox>>

(* Mutant: the event carries the quote id of the request, None included.   *)
BookingCommittedAsRequested(w) ==
  [type              |-> "BookingCommitted",
   booking_reference |-> local[w].reference,
   quote_id          |-> Request(w).quote_id,
   total_charged     |-> Total(w)]

BookingCommitted(w) ==
  [type              |-> "BookingCommitted",
   booking_reference |-> local[w].reference,
   quote_id          |-> QuoteIdOf(w),
   total_charged     |-> Total(w)]

(* Mutant: a commit without a quote is not audited.                        *)
AuditCommitOfQuote(w) ==
  /\ phase[w] = "audit"
  /\ \/ local[w].quote # None /\ WriteAudit(BookingCommitted(w))
     \/ local[w].quote = None /\ UNCHANGED auditVars
  /\ Leave(w, "CONFIRMED")
  /\ OnlyAudits

AuditCommit(w) ==
  /\ phase[w] = "audit"
  /\ \/ WriteAudit(BookingCommitted(w)) /\ Leave(w, "CONFIRMED")
     \/ AuditRaises(BookingCommitted(w)) /\ Leave(w, "OSError")
  /\ OnlyAudits

CommitStep(w) ==
  \/ EnterCommit(w)
  \/ ReadValidQuote(w)
  \/ ReadRawQuote(w)
  \/ ValidateSeats(w)
  \/ CheckLockValid(w)
  \/ CheckLockOwner(w)
  \/ ReadRawLock(w)
  \/ Charge(w)
  \/ ChargeDeclined(w)
  \/ SaveAndConfirm(w)
  \/ OutOfReferences(w)
  \/ ReleaseSeatLock(w)
  \/ AuditCommit(w)

-----------------------------------------------------------------------------
(* The other threads, beside the commits.                                  *)

HoldBeside(w) ==
  HoldStep(w) /\ UNCHANGED <<bookings, quoteVars, auditVars, commitVars>>

QuoteBeside(w) ==
  /\ \/ \E request \in QuoteRequests : StampQuote(w, request)
     \/ QuoteStep(w)
  /\ UNCHANGED <<lockVars, bookings, commitVars>>

TickBeside ==
  LockTick /\ UNCHANGED <<bookings, quoteVars, auditVars, commitVars>>

SystemNext ==
  \/ \E w \in CommitWorkers :
       \/ \E request \in CommitRequests : ReceiveCommit(w, request)
       \/ CommitStep(w)
  \/ \E w \in HoldWorkers : HoldBeside(w)
  \/ \E w \in QuoteWorkers : QuoteBeside(w)
  \/ TickBeside

SystemSpec == SystemInit /\ [][SystemNext]_systemVars

(* A thread that has been given a request keeps running.  commit_lock is   *)
(* not fair, but only finitely many commits arrive, so a waiting thread    *)
(* needs no more than that whoever holds the lock moves on.                *)
Fairness ==
  /\ \A w \in CommitWorkers : WF_systemVars(CommitStep(w))
  /\ \A w \in QuoteWorkers  : WF_systemVars(QuoteStep(w) /\ QuoteBeside(w))

FairSystemSpec == SystemSpec /\ Fairness
=============================================================================
