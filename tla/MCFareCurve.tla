------------------------------ MODULE MCFareCurve ------------------------------
(* The seeded fare of 299 dollars, one whose exact sums have few digits,   *)
(* and the smallest the theorem is about; cabins of one seat and of enough *)
(* for every bucket, one of them with OCCUPIED and BLOCKED seats; from no  *)
(* seat the cabin has to nine, the most a quote may ask for.               *)
EXTENDS FareCurve, TLC

MCCabin ==
  [s \in {"1A", "2B", "3C", "9E"} |->
     CASE s = "1A" -> [class |-> "FIRST", kind |-> "PRIVATE_SUITE"]
       [] s = "2B" -> [class |-> "BUSINESS", kind |-> "AISLE_ACCESS"]
       [] s = "3C" -> [class |-> "FIRST", kind |-> "WINDOW_SUITE"]
       [] s = "9E" -> [class |-> "ECONOMY", kind |-> "MIDDLE"]]

NineMiddles == [n \in 1 .. 9 |-> [class |-> "ECONOMY", kind |-> "MIDDLE"]]

Asked(fare, size, occupied, blocked, dow, route, cabin, seats) ==
  [base_fare |-> fare, size |-> size, occupied |-> occupied, blocked |-> blocked,
   dow |-> dow, route_kind |-> route, cabin |-> cabin, seat_ids |-> seats]

MCAsk ==
  {Asked(fare, 20, 0, 0, dow, route, MCCabin, seats) :
     fare \in {2500, 29900, 20000}, dow \in DOMAIN DayMultiplier,
     route \in DOMAIN TaxRate, seats \in {{"99Z"}, {"9E"}, {"1A", "2B", "3C", "9E"}}}
    \cup {Asked(29900, 5, 2, 1, dow, "DOMESTIC", NineMiddles, 1 .. 9) : dow \in {"TUE", "FRI", "SUN"}}
    \cup {Asked(29999, size, 0, 0, "WED", "DOMESTIC", MCCabin, {"1A"}) : size \in 0 .. 1}

MCDaysAhead == {0, 1, 2, 3, 6, 7, 20, 21, 59, 60}

(* Appendix B's three worked examples, before taxes and surcharges.        *)
ASSUME AppendixB ==
  /\ RoundedTotal(Multiplied(29900, 0, 100, 30, "TUE")) = 22874
  /\ RoundedTotal(Multiplied(29900, 75, 100, 2, "FRI")) = 89700
  /\ RoundedTotal(Multiplied(29900, 98, 100, 0, "SUN")) = 194400
=============================================================================
