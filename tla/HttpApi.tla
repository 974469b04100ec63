------------------------------- MODULE HttpApi --------------------------------
(***************************************************************************)
(* POST /bookings and GET /bookings/{reference} as a client sees them: the *)
(* write side, the status of every answer, and the bodies of those that    *)
(* confirm.                                                                *)
(*                                                                         *)
(* A worker serves one request at a time.  attempt records what became of  *)
(* the request it is serving, or served last, and confirmed the bodies     *)
(* clients have; neither is state of the program.                          *)
(***************************************************************************)
EXTENDS BookingProperties, HttpStatus

(* The handler passes the one seat of its payload.                         *)
ASSUME OneSeatAssumption == \A r \in CommitRequests : \E s \in SeatId : r.seat_ids = {s}

VARIABLES
  attempt,                \* per worker: the charges and the booking of its request
  confirmed               \* the bodies of the 201 answers

httpVars == <<systemVars, attempt, confirmed>>

NothingYet == [paid |-> 0, made |-> None]

HttpInit ==
  /\ SystemInit
  /\ attempt = [w \in CommitWorkers |-> NothingYet]
  /\ confirmed = {}

-----------------------------------------------------------------------------
(* _serialize_booking, of a booking in the repository and of the one the   *)
(* commit has just made.                                                   *)

SerializeBooking(booking) ==
  [bookingReference |-> booking.reference,
   flightId         |-> booking.flight_id,
   seats            |-> booking.seat_ids,
   totalCharged     |-> booking.total_charged,
   confirmedAt      |-> booking.confirmed_at]

GetBooking(reference) ==
  IF bookings[reference] = None THEN [status |-> 404]
  ELSE [status |-> 200, body |-> SerializeBooking(bookings[reference])]

BodyOf(w) ==
  [bookingReference |-> local[w].reference,
   flightId         |-> Request(w).flight_id,
   seats            |-> Request(w).seat_ids,
   totalCharged     |-> Total(w),
   confirmedAt      |-> local[w].now]

-----------------------------------------------------------------------------
PostBooking(w, request) ==
  /\ ReceiveCommit(w, request)
  /\ attempt' = [attempt EXCEPT ![w] = NothingYet]
  /\ UNCHANGED confirmed

(* Every step of the commit, and with the last one the answer.             *)
ServeBooking(w) ==
  /\ CommitStep(w)
  /\ attempt' = [attempt EXCEPT ![w] =
                   [paid |-> @.paid + Len(charges') - Len(charges),
                    made |-> IF local'[w] = None THEN @.made ELSE local'[w].reference]]
  /\ confirmed' = IF phase'[w] = "idle" /\ CommitStatus(response'[w]) = 201
                    THEN confirmed \cup {BodyOf(w)} ELSE confirmed

HttpNext ==
  \/ \E w \in CommitWorkers :
       \/ \E request \in CommitRequests : PostBooking(w, request)
       \/ ServeBooking(w)
  \/ /\ \/ \E w \in HoldWorkers : HoldBeside(w)
        \/ \E w \in QuoteWorkers : QuoteBeside(w)
        \/ TickBeside
     /\ UNCHANGED <<attempt, confirmed>>

HttpSpec == HttpInit /\ [][HttpNext]_httpVars

-----------------------------------------------------------------------------
Answered(w, statuses) ==
  phase[w] = "idle" /\ response[w] # "none" /\ CommitStatus(response[w]) \in statuses

(* A client that is refused (4xx) may simply try again: its request has    *)
(* charged nothing and booked nothing.  After a 500 it cannot know.        *)
RefusalLeavesNoTrace ==
  \A w \in CommitWorkers : Answered(w, 400 .. 499) => attempt[w] = NothingYet

(* A client that gets a 201 has paid once and has one booking.             *)
ConfirmedIsPaidOnce ==
  \A w \in CommitWorkers : Answered(w, {201}) =>
    attempt[w].paid = 1 /\ attempt[w].made \in References

(* What a 201 has said GET /bookings/{reference} says ever after, and no   *)
(* two clients have the same reference.                                    *)
ConfirmedStands ==
  \A body \in confirmed :
    /\ GetBooking(body.bookingReference) = [status |-> 200, body |-> body]
    /\ \A other \in confirmed :
         other.bookingReference = body.bookingReference => other = body

(* Who has a 201 is in the audit log with what was charged, also when      *)
(* other writes fail: a booking whose event was not written is never       *)
(* confirmed, although it stands.  The one way to lose the event of a 201  *)
(* is a line that an earlier write has left unended, and then read_all     *)
(* says so.                                                                *)
ConfirmedIsAudited ==
  Readable =>
    \A body \in confirmed : \E i \in Events("BookingCommitted") :
      /\ audit[i].booking_reference = body.bookingReference
      /\ audit[i].total_charged = body.totalCharged

(* The inductive strengthening: what has become of a request is known from *)
(* where its commit is.  Until the charge, nothing has;                    *)
OneOfEachWorker ==
  /\ attempt  = [w \in CommitWorkers |-> attempt[w]]
  /\ response = [w \in CommitWorkers |-> response[w]]

NothingBeforeCharge ==
  \A w \in CommitWorkers : phase[w] \notin {"idle", "save", "release", "audit"} =>
    attempt[w] = NothingYet /\ local[w].reference = None

(* then there is a charge, and from the save on the booking as well;       *)
PaidThenBooked ==
  \A w \in CommitWorkers :
    /\ phase[w] = "save" =>
         attempt[w] = [paid |-> 1, made |-> None] /\ local[w].reference = None
    /\ phase[w] \in {"release", "audit"} =>
         /\ attempt[w] = [paid |-> 1, made |-> local[w].reference]
         /\ local[w].reference \in References
         /\ GetBooking(local[w].reference) = [status |-> 200, body |-> BodyOf(w)]

(* and the body of a 201 is that of a booking in the repository.           *)
BodiesOfBookings ==
  \A body \in confirmed :
    /\ body.bookingReference \in References
    /\ body = SerializeBooking(bookings[body.bookingReference])

HttpInv ==
  /\ LedgerInv
  /\ OneOfEachWorker
  /\ NothingBeforeCharge
  /\ PaidThenBooked
  /\ BodiesOfBookings
  /\ RefusalLeavesNoTrace
  /\ ConfirmedIsPaidOnce
  /\ ConfirmedStands
  /\ ConfirmedIsAudited
=============================================================================
