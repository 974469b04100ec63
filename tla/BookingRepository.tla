-------------------------- MODULE BookingRepository --------------------------
(***************************************************************************)
(* InMemoryBookingRepository: bookings by reference, under its own RLock.  *)
(* Every booking the code creates is CONFIRMED and none changes status, so *)
(* the status filter of its readers lets every booking through.            *)
(***************************************************************************)
EXTENDS Catalog, FiniteSets

CONSTANTS
  BookingReference,       \* the references the id generator can hand out
  QuoteId,
  NoQuoteId               \* the "Q000-WS" sentinel of a commit without quote

ASSUME RepositoryAssumption == IsFiniteSet(SeatId) /\ IsFiniteSet(BookingReference)

VARIABLE bookings

Booking == [reference     : BookingReference,
            flight_id     : FlightId,
            seat_ids      : SUBSET SeatId,
            total_charged : Money,
            quote_id      : QuoteId \cup {NoQuoteId},
            confirmed_at  : Nat]

BookingsInit == bookings = [r \in BookingReference |-> None]

(* save: an existing reference is overwritten.                             *)
SaveBooking(booking) ==
  bookings' = [bookings EXCEPT ![booking.reference] = booking]

(* iter_all is a snapshot under the repository's lock.                     *)
References == {r \in BookingReference : bookings[r] # None}

BookingsOf(f) == {r \in References : bookings[r].flight_id = f}

SeatAlreadyBooked(f, s) == \E r \in BookingsOf(f) : s \in bookings[r].seat_ids

(* The sum of the bookings' numbers of seats: a seat counts once for each *)
(* booking that has it.                                                    *)
ActiveBookedSeatCount(f) ==
  Cardinality(UNION {{r} \X bookings[r].seat_ids : r \in BookingsOf(f)})
=============================================================================
