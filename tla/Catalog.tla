------------------------------- MODULE Catalog -------------------------------
(***************************************************************************)
(* InMemoryFlightRepository and the Flight aggregate.  Flights are added   *)
(* before the application serves requests and nothing writes to a flight   *)
(* afterwards, so the catalog is a constant: a booking never changes the   *)
(* status a seat has in its cabin.                                         *)
(***************************************************************************)
EXTENDS Integers, Ids

CONSTANTS
  Flight,                 \* the flights the repository knows
  Cabin,                  \* Cabin[f]: seat id |-> status, for the seats of f
  BaseFare,
  Departure               \* the last tick of the day flight f leaves

SeatStatus == {"AVAILABLE", "OCCUPIED", "BLOCKED"}

(* In cents.  Nothing keeps an amount from being negative.                  *)
Money == Int

ASSUME CatalogAssumption ==
  /\ Flight \subseteq FlightId
  /\ \A f \in Flight : /\ DOMAIN Cabin[f] \subseteq SeatId
                       /\ \A s \in DOMAIN Cabin[f] : Cabin[f][s] \in SeatStatus
  /\ BaseFare \in [Flight -> Money]
  /\ Departure \in [Flight -> Nat]

(* Seats the cabin itself marks as taken; they count towards occupancy.    *)
CabinOccupied(f) == {s \in DOMAIN Cabin[f] : Cabin[f][s] \in {"OCCUPIED", "BLOCKED"}}
=============================================================================
