------------------------------- MODULE SeatSale -------------------------------
(***************************************************************************)
(* The promise of the booking system: a seat of a flight is sold at most   *)
(* once and never taken back, and the seats of one booking are sold        *)
(* together or not at all.  No locks, quotes, payments or threads.         *)
(***************************************************************************)
CONSTANTS FlightId, SeatId, BookingReference

VARIABLE buyers           \* the bookings that have the seat of the flight

SaleInit == buyers = [place \in FlightId \X SeatId |-> {}]

Sell(r, f, seats) ==
  /\ \A s \in seats : buyers[<<f, s>>] = {}
  /\ buyers' = [place \in FlightId \X SeatId |->
                  IF place[1] = f /\ place[2] \in seats THEN {r} ELSE buyers[place]]

SaleNext == \E r \in BookingReference, f \in FlightId, seats \in SUBSET SeatId :
              Sell(r, f, seats)

SaleSpec == SaleInit /\ [][SaleNext]_buyers
=============================================================================
