-------------------------------- MODULE Pricing --------------------------------
(***************************************************************************)
(* domain/pricing.py and PriceBreakdown.total, in exact arithmetic.        *)
(*                                                                         *)
(* Decimals are not rounded on the way, so an amount is a whole number of  *)
(* cents and a number of parts of a cent.  A cent has enough parts for     *)
(* three multipliers with two decimals (all are multiples of 1/20) and a   *)
(* tax rate with three.                                                    *)
(***************************************************************************)
EXTENDS Integers, FiniteSetsExt

PartsPerCent == 1600000

Amount == [cents : Int, parts : 0 .. PartsPerCent - 1]

InCents(n) == [cents |-> n, parts |-> 0]

Plus(a, b) ==
  LET parts == a.parts + b.parts
  IN  [cents |-> a.cents + b.cents + parts \div PartsPerCent,
       parts |-> parts % PartsPerCent]

(* The amount a times n/m, exact when m divides what has to be divided.    *)
Times(a, n, m) ==
  LET cents == a.cents * n
      parts == (cents % m) * (PartsPerCent \div m) + (a.parts * n) \div m
  IN  [cents |-> cents \div m + parts \div PartsPerCent,
       parts |-> parts % PartsPerCent]

-----------------------------------------------------------------------------
(* The tables of Appendix B, in twentieths.  Occupancy is a percentage     *)
(* that is compared exactly, so it is kept as two numbers of seats; the    *)
(* occupancy of a cabin without seats is 0.                                *)

BelowPercent(occupied, seats, bound) == seats = 0 \/ 100 * occupied < bound * seats

(* Mutant: the last bucket ends at 100, and a full cabin falls out of it.  *)
DemandMultiplierTo100(occupied, seats) ==
  IF BelowPercent(occupied, seats, 31) THEN 20
  ELSE IF BelowPercent(occupied, seats, 51) THEN 23
  ELSE IF BelowPercent(occupied, seats, 71) THEN 27
  ELSE IF BelowPercent(occupied, seats, 86) THEN 32
  ELSE IF BelowPercent(occupied, seats, 96) THEN 40
  ELSE IF BelowPercent(occupied, seats, 100) THEN 50
  ELSE 20

DemandMultiplier(occupied, seats) ==
  IF BelowPercent(occupied, seats, 31) THEN 20
  ELSE IF BelowPercent(occupied, seats, 51) THEN 23
  ELSE IF BelowPercent(occupied, seats, 71) THEN 27
  ELSE IF BelowPercent(occupied, seats, 86) THEN 32
  ELSE IF BelowPercent(occupied, seats, 96) THEN 40
  ELSE 50

TimeMultiplier(days) ==
  IF days >= 60 THEN 17
  ELSE IF days >= 21 THEN 18
  ELSE IF days >= 7 THEN 20
  ELSE IF days >= 3 THEN 24
  ELSE IF days >= 1 THEN 30
  ELSE 40

DayMultiplier == [MON |-> 18, TUE |-> 17, WED |-> 17, THU |-> 19, FRI |-> 25,
                  SAT |-> 23, SUN |-> 26]

(* Appendix A, in dollars; a pair that is not listed costs nothing.        *)
SurchargeTable ==
  [ECONOMY  |-> [STANDARD |-> 0, EXIT_ROW |-> 35, FRONT_SECTION |-> 25, AISLE |-> 15,
                 WINDOW |-> 15, MIDDLE |-> -5],
   BUSINESS |-> [STANDARD |-> 0, LIE_FLAT_SUITE |-> 200, WINDOW_SUITE |-> 100,
                 AISLE_ACCESS |-> 75],
   FIRST    |-> [STANDARD |-> 0, PRIVATE_SUITE |-> 500, FRONT_ROW |-> 150]]

Surcharge(seat) ==
  LET kinds == SurchargeTable[seat.class]
  IN  IF seat.kind \in DOMAIN kinds THEN 100 * kinds[seat.kind] ELSE 0

TaxRate == [DOMESTIC |-> [n |-> 3, m |-> 40], INTERNATIONAL |-> [n |-> 3, m |-> 25]]

-----------------------------------------------------------------------------
(* What a quote is computed from.  cabin maps a seat id to its class and   *)
(* kind, seats are those asked for; a seat the cabin does not have is      *)
(* skipped.  The base fare counts once, however many seats there are.      *)

Surcharges(cabin, seats) ==
  MapThenSumSet(LAMBDA s : Surcharge(cabin[s]), seats \cap DOMAIN cabin)

(* Base fare, multiplied; taxes are computed on this and the surcharges,   *)
(* before anything is rounded.                                             *)
Multiplied(fare, occupied, size, days, dow) ==
  Times(Times(Times(InCents(fare), DemandMultiplier(occupied, size), 20),
              TimeMultiplier(days), 20),
        DayMultiplier[dow], 20)

Taxed(amount, route) == Plus(amount, Times(amount, TaxRate[route].n, TaxRate[route].m))

(* The sum that is rounded, of what a quote is asked for.  There are no    *)
(* fees: FEES_TABLE is empty.                                              *)
RawTotal(ask, occupied, days) ==
  Taxed(Plus(Multiplied(ask.base_fare, occupied, ask.size, days, ask.dow),
             InCents(Surcharges(ask.cabin, ask.seat_ids))),
        ask.route_kind)

-----------------------------------------------------------------------------
(* _round_half_even_to_prior_digit: to cents if there is anything below a  *)
(* cent, else to the digit before the last one there is: to dimes if there *)
(* are cents, to dollars if there are dimes.                               *)

(* Mutant: a half is rounded up.                                           *)
HalfUp(whole, rest, base) == IF 2 * rest < base THEN whole ELSE whole + 1

(* whole + rest/base, to the nearest number, ties to the even one.         *)
HalfEven(whole, rest, base) ==
  IF 2 * rest < base \/ (2 * rest = base /\ whole % 2 = 0) THEN whole ELSE whole + 1

RoundTo(cents, unit) == unit * HalfEven(cents \div unit, cents % unit, unit)

RoundedTotal(raw) ==
  IF raw.parts # 0 THEN HalfEven(raw.cents, raw.parts, PartsPerCent)
  ELSE IF raw.cents % 10 # 0 THEN RoundTo(raw.cents, 10)
  ELSE IF raw.cents % 100 # 0 THEN RoundTo(raw.cents, 100)
  ELSE raw.cents
=============================================================================
