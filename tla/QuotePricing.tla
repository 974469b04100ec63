----------------------------- MODULE QuotePricing -----------------------------
(***************************************************************************)
(* QuotedTotal, with Appendix A and B: the amount the quote service saves  *)
(* and an auditor computes again.  A tick of the clock is a day here.      *)
(***************************************************************************)
EXTENDS BookingProperties, Pricing

CONSTANTS
  SeatType,               \* SeatType[f]: seat id |-> class and kind, for the seats of f
  DepartureDow,
  RouteKind

ASSUME QuotePricingAssumption ==
  /\ DepartureDow \in [Flight -> DOMAIN DayMultiplier]
  /\ RouteKind \in [Flight -> DOMAIN TaxRate]
  /\ \A f \in Flight : DOMAIN SeatType[f] = DOMAIN Cabin[f]

AskedFor(f, seats) ==
  [base_fare |-> BaseFare[f], size |-> Cardinality(DOMAIN Cabin[f]), cabin |-> SeatType[f],
   seat_ids |-> seats, dow |-> DepartureDow[f], route_kind |-> RouteKind[f]]

PriceOf(f, seats, occupied, now) ==
  RoundedTotal(RawTotal(AskedFor(f, seats), occupied, Departure[f] - now))
=============================================================================
