------------------------------- MODULE FareCurve -------------------------------
(***************************************************************************)
(* What one traveler who keeps asking is quoted: the same seats of the     *)
(* same flight, while other travelers book its seats and days go by.       *)
(*                                                                         *)
(* The commit refuses a BLOCKED seat and one that is booked already, but   *)
(* not one its cabin marks OCCUPIED; occupancy counts the OCCUPIED and the *)
(* BLOCKED seats of the cabin and the booked ones.                         *)
(***************************************************************************)
EXTENDS Pricing, FiniteSets

CONSTANTS
  Ask,                    \* the flights and seats that may be asked for
  DaysAhead               \* bound: the days before departure a quote is asked on

ASSUME FareCurveAssumption ==
  /\ DaysAhead \subseteq Nat
  /\ \A a \in Ask :
       /\ a.base_fare \in Nat                  \* in cents
       /\ a.size \in Nat                       \* seats in the cabin
       /\ a.occupied \in Nat                   \* of these, marked OCCUPIED
       /\ a.blocked \in Nat                    \* of these, marked BLOCKED
       /\ a.occupied + a.blocked <= a.size
       /\ a.dow \in DOMAIN DayMultiplier
       /\ a.route_kind \in DOMAIN TaxRate
       /\ IsFiniteSet(a.seat_ids)
       /\ \A s \in DOMAIN a.cabin : a.cabin[s].class \in DOMAIN SurchargeTable

(* The catalog is seeded with a fare of 299 dollars.  Of fares of a few    *)
(* dollars PriceNeverDrops is not true: a step of the tables is worth less *)
(* than what the rounding may take away.                                   *)
ASSUME FareAssumption == \A a \in Ask : a.base_fare >= 2500

VARIABLES
  ask,                    \* the flight and the seats
  booked,                 \* how many of its seats bookings have sold
  days,                   \* calendar days to departure
  raw                     \* the exact sum of the quote for them at this point

fareVars == <<ask, booked, days, raw>>

(* Occupancy passes 100% when OCCUPIED seats are booked.                   *)
QuoteAt(n, d) == RawTotal(ask, ask.occupied + ask.blocked + n, d)

CurveInit ==
  /\ ask \in Ask
  /\ booked = 0
  /\ days \in DaysAhead
  /\ raw = QuoteAt(0, days)

(* Mutant: BLOCKED seats are sold as well.                                 *)
SellAnySeat ==
  /\ booked < ask.size
  /\ booked' = booked + 1
  /\ raw' = QuoteAt(booked + 1, days)
  /\ UNCHANGED <<ask, days>>

(* A seat that is not BLOCKED is booked.                                   *)
SellSeat ==
  /\ booked < ask.size - ask.blocked
  /\ booked' = booked + 1
  /\ raw' = QuoteAt(booked + 1, days)
  /\ UNCHANGED <<ask, days>>

(* On the day of departure days is 0; later quotes are refused.            *)
DaysPass ==
  /\ \E d \in DaysAhead : d < days /\ days' = d /\ raw' = QuoteAt(booked, d)
  /\ UNCHANGED <<ask, booked>>

CurveNext == SellSeat \/ DaysPass

CurveSpec == CurveInit /\ [][CurveNext]_fareVars

Total == RoundedTotal(raw)

-----------------------------------------------------------------------------
(* Properties.                                                             *)

(* Every amount is an integer number of cents and a proper part of one.    *)
FareTypeOK ==
  /\ ask \in Ask
  /\ booked \in 0 .. ask.size - ask.blocked
  /\ days \in DaysAhead
  /\ raw = QuoteAt(booked, days)
  /\ raw \in Amount
  /\ Total \in Int

(* The total is a whole number of cents, dimes or dollars, none is nearer  *)
(* to the exact sum, and of two that are as near it is the even one        *)
(* (ADR-003; _round_half_even_to_prior_digit).                             *)
Nearest(total, unit, sum) ==
  LET k     == total \div unit
      above == PartsPerCent * (total - sum.cents) - sum.parts
      half  == unit * (PartsPerCent \div 2)
  IN  /\ total = k * unit
      /\ -half <= above /\ above <= half
      /\ above \in {-half, half} => k % 2 = 0

RoundsHalfEven == \E unit \in {1, 10, 100} : Nearest(Total, unit, raw)

(* Who waits never pays less: as seats are booked and the departure comes  *)
(* nearer the total for the same seats does not go down, whatever unit it  *)
(* is rounded to before and after.  It needs fares of some size.           *)
PriceNeverDrops == [][Total' >= Total]_fareVars
=============================================================================
