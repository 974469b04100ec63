--------------------------- MODULE FareCurveProofs ---------------------------
(***************************************************************************)
(* The price of a wait, for every flight, every set of seats and every     *)
(* calendar.  Amounts are compared as whole numbers of parts of a cent.    *)
(***************************************************************************)
EXTENDS FareCurve, FiniteSetTheorems, TLAPS

Value(a) == PartsPerCent * a.cents + a.parts

(* All that matters of the number of parts.  It stays a symbol in what     *)
(* follows: the provers would spell an interval of that length out.        *)
LEMMA Parts ==
  /\ PartsPerCent \in Nat /\ PartsPerCent > 1
  /\ \A m \in {20, 25, 40} : PartsPerCent \div m \in Nat /\ m * (PartsPerCent \div m) = PartsPerCent
<1>1. PartsPerCent \in Nat /\ PartsPerCent > 1
  BY SMT DEF PartsPerCent
<1>2. ASSUME NEW m \in {20, 25, 40}
      PROVE  PartsPerCent \div m \in Nat /\ m * (PartsPerCent \div m) = PartsPerCent
  BY SMT DEF PartsPerCent
<1> QED
  BY <1>1, <1>2

LEMMA DivMod ==
  ASSUME NEW d \in Nat, d > 0, NEW p \in Int
  PROVE  p \div d \in Int /\ p % d \in 0 .. d - 1 /\ p = d * (p \div d) + (p % d)
OBVIOUS

(* The two numbers of an amount, and what it is worth.                     *)
LEMMA AmountParts ==
  ASSUME NEW a \in Amount
  PROVE  a.cents \in Int /\ a.parts \in 0 .. PartsPerCent - 1
BY DEF Amount

LEMMA AmountOf ==
  ASSUME NEW c \in Int, NEW p \in 0 .. PartsPerCent - 1
  PROVE  /\ [cents |-> c, parts |-> p] \in Amount
         /\ Value([cents |-> c, parts |-> p]) = PartsPerCent * c + p
BY DEF Amount, Value

LEMMA ValueType ==
  ASSUME NEW a \in Amount
  PROVE  Value(a) \in Int
<1>1. PartsPerCent \in Int
  BY SMT, Parts
<1>2. a.cents \in Int /\ a.parts \in Int
  BY <1>1, AmountParts
<1> QED
  BY <1>1, <1>2 DEF Value

LEMMA InCentsValue ==
  ASSUME NEW n \in Int
  PROVE  InCents(n) \in Amount /\ Value(InCents(n)) = PartsPerCent * n
<1>1. 0 \in 0 .. PartsPerCent - 1 /\ PartsPerCent * n + 0 = PartsPerCent * n
  BY SMT, Parts
<1> QED
  BY <1>1, AmountOf DEF InCents

(* Carrying whole cents out of a number of parts.                          *)
LEMMA Carry ==
  ASSUME NEW c \in Int, NEW p \in Nat
  PROVE  LET a == [cents |-> c + (p \div PartsPerCent), parts |-> p % PartsPerCent]
         IN  a \in Amount /\ Value(a) = PartsPerCent * c + p
<1>1. /\ c + (p \div PartsPerCent) \in Int
      /\ p % PartsPerCent \in 0 .. PartsPerCent - 1
      /\ PartsPerCent * (c + (p \div PartsPerCent)) + (p % PartsPerCent) = PartsPerCent * c + p
  BY SMT, Parts
<1> QED
  BY <1>1, AmountOf

LEMMA PlusValue ==
  ASSUME NEW a \in Amount, NEW b \in Amount
  PROVE  Plus(a, b) \in Amount /\ Value(Plus(a, b)) = Value(a) + Value(b)
<1>1. /\ a.cents \in Int /\ b.cents \in Int
      /\ a.parts \in 0 .. PartsPerCent - 1 /\ b.parts \in 0 .. PartsPerCent - 1
  BY AmountParts
<1>2. a.cents + b.cents \in Int /\ a.parts + b.parts \in Nat
  BY SMT, Parts, <1>1
<1>3. Plus(a, b) = [cents |-> (a.cents + b.cents) + ((a.parts + b.parts) \div PartsPerCent),
                    parts |-> (a.parts + b.parts) % PartsPerCent]
  BY DEF Plus
<1>4. PartsPerCent * (a.cents + b.cents) + (a.parts + b.parts)
        = (PartsPerCent * a.cents + a.parts) + (PartsPerCent * b.cents + b.parts)
  BY SMT, Parts, <1>1
<1> QED
  BY <1>2, <1>3, <1>4, Carry DEF Value

(* Times is multiplication, rounded down to a part of a cent.              *)
LEMMA TimesValue ==
  ASSUME NEW a \in Amount, NEW n \in Nat, NEW m \in {20, 25, 40}
  PROVE  /\ Times(a, n, m) \in Amount
         /\ m * Value(Times(a, n, m)) <= n * Value(a)
         /\ n * Value(a) < m * Value(Times(a, n, m)) + m
<1> DEFINE c == a.cents * n
           p == a.parts * n
           parts == (c % m) * (PartsPerCent \div m) + (p \div m)
<1>1. a.cents \in Int /\ a.parts \in Nat
  <2>1. a.cents \in Int /\ a.parts \in 0 .. PartsPerCent - 1
    BY AmountParts
  <2> QED
    BY SMT, Parts, <2>1
<1>2. c \in Int /\ p \in Nat
  BY <1>1
<1>3. n * Value(a) = PartsPerCent * c + p
  BY SMT, Parts, <1>1 DEF Value
<1> HIDE DEF c, p
<1>4. /\ parts \in Nat
      /\ c \div m \in Int
      /\ m * (PartsPerCent * (c \div m) + parts) <= PartsPerCent * c + p
      /\ PartsPerCent * c + p < m * (PartsPerCent * (c \div m) + parts) + m
  <2>1. CASE m = 20
    BY SMT, Parts, <1>2, <2>1
  <2>2. CASE m = 25
    BY SMT, Parts, <1>2, <2>2
  <2>3. CASE m = 40
    BY SMT, Parts, <1>2, <2>3
  <2> QED
    BY <2>1, <2>2, <2>3
<1>5. Times(a, n, m) = [cents |-> (c \div m) + (parts \div PartsPerCent),
                        parts |-> parts % PartsPerCent]
  BY DEF Times, c, p
<1> HIDE DEF parts
<1>6. /\ Times(a, n, m) \in Amount
      /\ Value(Times(a, n, m)) = PartsPerCent * (c \div m) + parts
  BY <1>4, <1>5, Carry
<1> QED
  BY <1>3, <1>4, <1>6

(* Multiplying keeps an order, and a distance at least seventeen fold.     *)
LEMMA MulMono ==
  ASSUME NEW x \in Int, NEW y \in Int, x <= y, NEW n \in Nat
  PROVE  n * x <= n * y
<1>1. n * y = n * x + n * (y - x) /\ n * (y - x) >= 0
  BY SMT
<1> QED
  BY SMT, <1>1

LEMMA TimesType ==
  ASSUME NEW a \in Amount, NEW n \in Nat
  PROVE  Times(a, n, 20) \in Amount
<1>1. 20 \in {20, 25, 40}
  OBVIOUS
<1> QED
  BY <1>1, TimesValue

LEMMA TimesGap ==
  ASSUME NEW a \in Amount, NEW b \in Amount, NEW g \in Nat, Value(b) >= Value(a) + g,
         NEW n \in Nat, n >= 17
  PROVE  20 * Value(Times(b, n, 20)) + 20 >= 20 * Value(Times(a, n, 20)) + 17 * g
<1>1. Value(a) \in Int /\ Value(b) \in Int
  BY ValueType
<1>2. n * (Value(a) + g) <= n * Value(b)
  BY SMT, <1>1, MulMono
<1>3. n * (Value(a) + g) = n * Value(a) + n * g
  BY SMT, <1>1
<1>4. g * 17 <= g * n
  BY SMT, MulMono
<1>5. /\ 20 * Value(Times(a, n, 20)) <= n * Value(a)
      /\ n * Value(b) < 20 * Value(Times(b, n, 20)) + 20
  BY TimesValue
<1>6. Value(Times(a, n, 20)) \in Int /\ Value(Times(b, n, 20)) \in Int
  BY TimesValue, ValueType
<1>7. n * Value(a) \in Int /\ n * Value(b) \in Int /\ n * g \in Int /\ n * g = g * n
  BY SMT, <1>1
<1> HIDE DEF Value
<1> QED
  BY SMT, <1>1, <1>2, <1>3, <1>4, <1>5, <1>6, <1>7

(* A larger multiplier adds as many twentieths.                            *)
LEMMA TimesStep ==
  ASSUME NEW a \in Amount, Value(a) >= 0, NEW n \in Nat, NEW k \in Nat, NEW j \in Nat,
         k >= n + j
  PROVE  20 * Value(Times(a, k, 20)) + 20 >= 20 * Value(Times(a, n, 20)) + j * Value(a)
<1>1. Value(a) \in Nat
  BY ValueType
<1>2. Value(a) * (n + j) <= Value(a) * k
  BY SMT, <1>1, MulMono
<1>3. /\ Value(a) * (n + j) = n * Value(a) + j * Value(a)
      /\ Value(a) * k = k * Value(a)
  BY SMT, <1>1
<1>4. /\ 20 * Value(Times(a, n, 20)) <= n * Value(a)
      /\ k * Value(a) < 20 * Value(Times(a, k, 20)) + 20
  BY TimesValue
<1>5. Value(Times(a, n, 20)) \in Int /\ Value(Times(a, k, 20)) \in Int
  BY TimesValue, ValueType
<1>6. n * Value(a) \in Int /\ k * Value(a) \in Int /\ j * Value(a) \in Int
  BY SMT, <1>1
<1> QED
  BY SMT, <1>2, <1>3, <1>4, <1>5, <1>6

(* Taxing does not bring two amounts closer.                               *)
LEMMA TaxedGap ==
  ASSUME NEW a \in Amount, NEW b \in Amount, NEW g \in Nat, Value(b) >= Value(a) + g,
         NEW route \in DOMAIN TaxRate
  PROVE  /\ Taxed(a, route) \in Amount /\ Taxed(b, route) \in Amount
         /\ Value(Taxed(b, route)) >= Value(Taxed(a, route)) + g
<1> DEFINE n == TaxRate[route].n
           m == TaxRate[route].m
<1>1. n = 3 /\ n \in Nat /\ m \in {20, 25, 40}
  BY DEF TaxRate
<1>t. /\ Taxed(a, route) = Plus(a, Times(a, n, m))
      /\ Taxed(b, route) = Plus(b, Times(b, n, m))
  BY DEF Taxed
<1> HIDE DEF n, m
<1>2. /\ Times(a, n, m) \in Amount /\ Times(b, n, m) \in Amount
      /\ m * Value(Times(a, n, m)) <= n * Value(a)
      /\ n * Value(b) < m * Value(Times(b, n, m)) + m
  BY <1>1, TimesValue
<1>3. Value(Times(a, n, m)) \in Int /\ Value(Times(b, n, m)) \in Int
  BY <1>2, ValueType
<1>4. Value(a) \in Int /\ Value(b) \in Int
  BY ValueType
<1>5. /\ Taxed(a, route) \in Amount /\ Taxed(b, route) \in Amount
      /\ Value(Taxed(a, route)) = Value(a) + Value(Times(a, n, m))
      /\ Value(Taxed(b, route)) = Value(b) + Value(Times(b, n, m))
  BY <1>2, <1>t, PlusValue
<1>6. Value(Times(b, n, m)) >= Value(Times(a, n, m))
  BY SMT, <1>1, <1>2, <1>3, <1>4
<1> QED
  BY SMT, <1>3, <1>4, <1>5, <1>6

-----------------------------------------------------------------------------
(* The tables: occupied seats and days only ever raise the multiplier, by  *)
(* three twentieths at least and by one.                                   *)

LEMMA DemandSteps ==
  ASSUME NEW size \in Nat, NEW n \in Nat
  PROVE  /\ DemandMultiplier(n, size) \in Nat /\ DemandMultiplier(n, size) >= 20
         /\ \/ DemandMultiplier(n + 1, size) = DemandMultiplier(n, size)
            \/ DemandMultiplier(n + 1, size) >= DemandMultiplier(n, size) + 3
<1>1. \A bound \in Nat :
        /\ BelowPercent(n, size, bound) \in BOOLEAN
        /\ BelowPercent(n + 1, size, bound) => BelowPercent(n, size, bound)
  BY SMT DEF BelowPercent
<1>2. \A k \in Nat :
        /\ BelowPercent(k, size, 31) => BelowPercent(k, size, 51)
        /\ BelowPercent(k, size, 51) => BelowPercent(k, size, 71)
        /\ BelowPercent(k, size, 71) => BelowPercent(k, size, 86)
        /\ BelowPercent(k, size, 86) => BelowPercent(k, size, 96)
  BY SMT DEF BelowPercent
<1> QED
  BY SMT, <1>1, <1>2 DEF DemandMultiplier

LEMMA TimeSteps ==
  ASSUME NEW d \in Nat
  PROVE  /\ TimeMultiplier(d) \in Nat /\ TimeMultiplier(d) >= 17
         /\ \A e \in Nat : e < d => \/ TimeMultiplier(e) = TimeMultiplier(d)
                                    \/ TimeMultiplier(e) >= TimeMultiplier(d) + 1
BY SMT DEF TimeMultiplier

LEMMA DayRange ==
  ASSUME NEW dow \in DOMAIN DayMultiplier
  PROVE  DayMultiplier[dow] \in Nat /\ DayMultiplier[dow] >= 17
BY DEF DayMultiplier

-----------------------------------------------------------------------------
(* Of a fare of 25 dollars or more, a step of a table raises the           *)
(* multiplied fare by more than a dollar.                                  *)

Dollar == 100 * PartsPerCent

LEMMA FareValue ==
  ASSUME NEW fare \in Nat, fare >= 2500
  PROVE  /\ InCents(fare) \in Amount /\ Value(InCents(fare)) \in Nat
         /\ Value(InCents(fare)) >= 25 * Dollar
         /\ Dollar \in Nat /\ Dollar >= 1000
<1>1. InCents(fare) \in Amount /\ Value(InCents(fare)) = PartsPerCent * fare
  BY InCentsValue
<1>2. PartsPerCent * fare >= PartsPerCent * 2500
  BY SMT, Parts, MulMono
<1>3. PartsPerCent >= 10
  BY SMT DEF PartsPerCent
<1>4. PartsPerCent * fare \in Nat
  BY SMT, Parts
<1>5. Dollar \in Nat /\ Dollar >= 1000 /\ PartsPerCent * 2500 = 25 * Dollar
  BY SMT, Parts, <1>3 DEF Dollar
<1> QED
  BY SMT, <1>1, <1>2, <1>4, <1>5

LEMMA DemandGap ==
  ASSUME NEW fare \in Nat, fare >= 2500,
         NEW d \in Nat, NEW e \in Nat, e >= d + 3,
         NEW t \in Nat, t >= 17, NEW w \in Nat, w >= 17
  PROVE  LET M(x) == Times(Times(Times(InCents(fare), x, 20), t, 20), w, 20)
         IN  M(d) \in Amount /\ M(e) \in Amount /\ Value(M(e)) >= Value(M(d)) + Dollar
<1> DEFINE F == InCents(fare)
           A(x) == Times(F, x, 20)
           B(x) == Times(A(x), t, 20)
           C(x) == Times(B(x), w, 20)
<1>1. F \in Amount /\ Value(F) \in Nat /\ Value(F) >= 25 * Dollar
  BY FareValue
<1>2. Dollar \in Nat /\ Dollar >= 1000
  BY FareValue
<1> HIDE DEF F
<1>3. A(d) \in Amount /\ A(e) \in Amount
  BY <1>1, TimesType
<1>4. B(d) \in Amount /\ B(e) \in Amount
  BY <1>3, TimesType
<1>5. C(d) \in Amount /\ C(e) \in Amount
  BY <1>4, TimesType
<1>6. /\ Value(A(d)) \in Int /\ Value(A(e)) \in Int /\ Value(B(d)) \in Int
      /\ Value(B(e)) \in Int /\ Value(C(d)) \in Int /\ Value(C(e)) \in Int
  BY <1>3, <1>4, <1>5, ValueType
<1>7. 20 * Value(A(e)) + 20 >= 20 * Value(A(d)) + 3 * Value(F)
  <2>1. Value(F) >= 0
    BY <1>1
  <2> QED
    BY <1>1, <2>1, TimesStep
<1>8. ASSUME NEW g \in Nat, Value(A(e)) >= Value(A(d)) + g
      PROVE  20 * Value(B(e)) + 20 >= 20 * Value(B(d)) + 17 * g
  BY <1>3, <1>8, TimesGap
<1>9. ASSUME NEW g \in Nat, Value(B(e)) >= Value(B(d)) + g
      PROVE  20 * Value(C(e)) + 20 >= 20 * Value(C(d)) + 17 * g
  BY <1>4, <1>9, TimesGap
<1> HIDE DEF A, B, C
<1>10. Value(A(e)) >= Value(A(d)) + 3 * Dollar
  BY SMT, <1>1, <1>2, <1>6, <1>7
<1>11. Value(B(e)) >= Value(B(d)) + 2 * Dollar
  <2>1. 20 * Value(B(e)) + 20 >= 20 * Value(B(d)) + 17 * (3 * Dollar)
    BY SMT, <1>2, <1>8, <1>10
  <2> QED
    BY SMT, <1>2, <1>6, <2>1
<1>12. Value(C(e)) >= Value(C(d)) + Dollar
  <2>1. 20 * Value(C(e)) + 20 >= 20 * Value(C(d)) + 17 * (2 * Dollar)
    BY SMT, <1>2, <1>9, <1>11
  <2> QED
    BY SMT, <1>2, <1>6, <2>1
<1> QED
  BY <1>5, <1>12 DEF A, B, C, F

LEMMA TimeGap ==
  ASSUME NEW fare \in Nat, fare >= 2500, NEW d \in Nat, d >= 20,
         NEW t \in Nat, NEW u \in Nat, u >= t + 1, NEW w \in Nat, w >= 17
  PROVE  LET M(x) == Times(Times(Times(InCents(fare), d, 20), x, 20), w, 20)
         IN  M(t) \in Amount /\ M(u) \in Amount /\ Value(M(u)) >= Value(M(t)) + Dollar
<1> DEFINE F == InCents(fare)
           A == Times(F, d, 20)
           B(x) == Times(A, x, 20)
           C(x) == Times(B(x), w, 20)
<1>1. F \in Amount /\ Value(F) \in Nat /\ Value(F) >= 25 * Dollar
  BY FareValue
<1>2. Dollar \in Nat /\ Dollar >= 1000
  BY FareValue
<1> HIDE DEF F
<1>3. A \in Amount
  BY <1>1, TimesType
<1>4. B(t) \in Amount /\ B(u) \in Amount
  BY <1>3, TimesType
<1>5. C(t) \in Amount /\ C(u) \in Amount
  BY <1>4, TimesType
<1>6. /\ Value(F) \in Int /\ Value(A) \in Int /\ Value(B(t)) \in Int /\ Value(B(u)) \in Int
      /\ Value(C(t)) \in Int /\ Value(C(u)) \in Int
  BY <1>1, <1>3, <1>4, <1>5, ValueType
<1>7. Value(A) >= 25 * Dollar
  <2>1. 20 * Value(F) <= d * Value(F)
    <3>1. Value(F) * 20 <= Value(F) * d
      BY SMT, <1>1, <1>2, <1>6, MulMono
    <3> QED
      BY SMT, <1>6, <3>1
  <2>2. d * Value(F) < 20 * Value(A) + 20
    BY <1>1, TimesValue
  <2>3. d * Value(F) \in Int
    BY SMT, <1>6
  <2> HIDE DEF A
  <2> QED
    BY SMT, <1>1, <1>2, <1>6, <2>1, <2>2, <2>3
<1>8. 20 * Value(B(u)) + 20 >= 20 * Value(B(t)) + 1 * Value(A)
  <2>1. Value(A) >= 0
    BY SMT, <1>2, <1>6, <1>7
  <2> HIDE DEF A
  <2> QED
    BY <1>3, <2>1, TimesStep
<1>9. ASSUME NEW g \in Nat, 20 * Value(B(u)) >= 20 * (Value(B(t)) + g)
      PROVE  20 * Value(C(u)) + 20 >= 20 * Value(C(t)) + 17 * g
  <2>1. Value(B(u)) >= Value(B(t)) + g
    BY SMT, <1>6, <1>9
  <2> QED
    BY <1>4, <2>1, TimesGap
<1> HIDE DEF A, B, C
<1> DEFINE g == (5 * Dollar) \div 4 - 1
<1>10. g \in Nat /\ 20 * g + 20 <= 25 * Dollar /\ 17 * g >= 20 * Dollar + 20
  BY SMT, <1>2
<1>11. 20 * Value(B(u)) >= 20 * (Value(B(t)) + g)
  <2> HIDE DEF g
  <2> QED
    BY SMT, <1>2, <1>6, <1>7, <1>8, <1>10
<1>12. 20 * Value(C(u)) + 20 >= 20 * Value(C(t)) + 17 * g
  BY <1>9, <1>10, <1>11
<1>13. Value(C(u)) >= Value(C(t)) + Dollar
  BY SMT, <1>2, <1>6, <1>10, <1>12
<1> QED
  BY <1>5, <1>13 DEF A, B, C, F

-----------------------------------------------------------------------------
(* Rounding.                                                               *)

LEMMA HalfEvenNear ==
  ASSUME NEW whole \in Int, NEW base \in Nat, NEW rest \in 0 .. base - 1
  PROVE  LET k == HalfEven(whole, rest, base)
             above == base * k - (base * whole + rest)
         IN  /\ k \in Int
             /\ -base <= 2 * above /\ 2 * above <= base
             /\ 2 * above = base \/ 2 * above = -base => k % 2 = 0
<1> DEFINE k == HalfEven(whole, rest, base)
           above == base * k - (base * whole + rest)
<1>1. /\ base * whole - (base * whole + rest) = -rest
      /\ base * (whole + 1) - (base * whole + rest) = base - rest
  BY SMT
<1>2. CASE 2 * rest < base \/ (2 * rest = base /\ whole % 2 = 0)
  <2>1. k = whole
    BY <1>2 DEF HalfEven
  <2>2. above = -rest /\ k \in Int
    BY <1>1, <2>1
  <2> HIDE DEF k, above
  <2>3. /\ k \in Int
        /\ -base <= 2 * above /\ 2 * above <= base
        /\ 2 * above = base \/ 2 * above = -base => k % 2 = 0
    BY SMT, <1>2, <2>1, <2>2
  <2> QED
    BY <2>3 DEF k, above
<1>3. CASE ~(2 * rest < base \/ (2 * rest = base /\ whole % 2 = 0))
  <2>1. k = whole + 1
    BY <1>3 DEF HalfEven
  <2>2. whole % 2 # 0 => (whole + 1) % 2 = 0
    BY SMT
  <2>3. above = base - rest /\ k \in Int
    BY <1>1, <2>1
  <2> HIDE DEF k, above
  <2>4. /\ k \in Int
        /\ -base <= 2 * above /\ 2 * above <= base
        /\ 2 * above = base \/ 2 * above = -base => k % 2 = 0
    BY SMT, <1>3, <2>1, <2>2, <2>3
  <2> QED
    BY <2>4 DEF k, above
<1> QED
  BY <1>2, <1>3

LEMMA HalfPart ==
  /\ PartsPerCent \div 2 \in Nat /\ 2 * (PartsPerCent \div 2) = PartsPerCent
  /\ PartsPerCent \div 2 > 0
BY SMT DEF PartsPerCent

(* Rounding whole cents to dimes or dollars.                               *)
LEMMA RoundToNear ==
  ASSUME NEW sum \in Amount, sum.parts = 0, NEW unit \in {10, 100}
  PROVE  /\ RoundTo(sum.cents, unit) \in Int
         /\ Nearest(RoundTo(sum.cents, unit), unit, sum)
<1> DEFINE whole == sum.cents \div unit
           rest == sum.cents % unit
           k == HalfEven(whole, rest, unit)
           off == unit * k - sum.cents
<1>1. sum.cents \in Int
  BY AmountParts
<1>2. unit \in Nat /\ whole \in Int /\ rest \in 0 .. unit - 1 /\ sum.cents = unit * whole + rest
  BY SMT, <1>1
<1> HIDE DEF whole, rest
<1>3. /\ k \in Int
      /\ -unit <= 2 * off /\ 2 * off <= unit
      /\ 2 * off = unit \/ 2 * off = -unit => k % 2 = 0
  <2>1. LET over == unit * k - (unit * whole + rest)
        IN  /\ k \in Int
            /\ -unit <= 2 * over /\ 2 * over <= unit
            /\ 2 * over = unit \/ 2 * over = -unit => k % 2 = 0
    BY <1>2, HalfEvenNear
  <2> HIDE DEF k
  <2> QED
    BY <1>2, <2>1
<1>4. RoundTo(sum.cents, unit) = unit * k
  BY DEF RoundTo, whole, rest
<1> HIDE DEF k
<1>5. unit * k \in Int /\ (unit * k) \div unit = k /\ off \in Int
  BY SMT, <1>1, <1>3
<1> DEFINE half == unit * (PartsPerCent \div 2)
           above == PartsPerCent * off - sum.parts
<1>6. /\ -half <= above /\ above <= half
      /\ above = half \/ above = -half => 2 * off = unit \/ 2 * off = -unit
  <2>1. above = (2 * off) * (PartsPerCent \div 2)
    <3>1. above = PartsPerCent * off
      BY SMT, <1>5, Parts
    <3> HIDE DEF above, off
    <3>2. PartsPerCent * off = (2 * (PartsPerCent \div 2)) * off
      BY HalfPart
    <3> QED
      BY SMT, <1>5, <3>1, <3>2, HalfPart
  <2> DEFINE h == PartsPerCent \div 2
             x == 2 * off
  <2>2. h \in Nat /\ h > 0 /\ x \in Int /\ -unit <= x /\ x <= unit
    BY <1>3, <1>5, HalfPart
  <2>3. above = x * h /\ half = unit * h
    BY <2>1
  <2> HIDE DEF above, half, x, h
  <2>4. -(unit * h) <= x * h /\ x * h <= unit * h
    BY SMT, <1>2, <2>2
  <2>5. x * h = unit * h => x = unit
    BY SMT, <1>2, <2>2
  <2>6. x * h = -(unit * h) => x = -unit
    BY SMT, <1>2, <2>2
  <2> QED
    BY <2>3, <2>4, <2>5, <2>6 DEF x
<1> HIDE DEF half
<1> QED
  BY <1>3, <1>4, <1>5, <1>6 DEF Nearest, half

(* Rounding parts of a cent to cents.                                      *)
LEMMA RoundPartsNear ==
  ASSUME NEW sum \in Amount
  PROVE  LET k == HalfEven(sum.cents, sum.parts, PartsPerCent)
         IN  k \in Int /\ Nearest(k, 1, sum)
<1> DEFINE k == HalfEven(sum.cents, sum.parts, PartsPerCent)
           off == PartsPerCent * k - (PartsPerCent * sum.cents + sum.parts)
           above == PartsPerCent * (k - sum.cents) - sum.parts
           half == 1 * (PartsPerCent \div 2)
<1>1. sum.cents \in Int /\ sum.parts \in 0 .. PartsPerCent - 1 /\ PartsPerCent \in Nat
  BY AmountParts, Parts
<1>2. /\ k \in Int
      /\ -PartsPerCent <= 2 * off /\ 2 * off <= PartsPerCent
      /\ 2 * off = PartsPerCent \/ 2 * off = -PartsPerCent => k % 2 = 0
  BY <1>1, HalfEvenNear
<1> HIDE DEF k
<1>3. above = off /\ above \in Int /\ k \div 1 = k /\ k = k * 1
  BY SMT, <1>1, <1>2
<1>4. half \in Int /\ 2 * half = PartsPerCent
  BY SMT, HalfPart
<1> HIDE DEF above, half, off
<1>5. /\ -half <= above /\ above <= half
      /\ above \in {-half, half} => k % 2 = 0
  BY SMT, <1>1, <1>2, <1>3, <1>4
<1> QED
  BY <1>2, <1>3, <1>5 DEF Nearest, above, half, k

LEMMA RoundedNear ==
  ASSUME NEW sum \in Amount
  PROVE  /\ RoundedTotal(sum) \in Int
         /\ \E unit \in {1, 10, 100} : Nearest(RoundedTotal(sum), unit, sum)
<1>1. CASE sum.parts # 0
  <2>1. RoundedTotal(sum) = HalfEven(sum.cents, sum.parts, PartsPerCent)
    BY <1>1 DEF RoundedTotal
  <2> QED
    BY <2>1, RoundPartsNear
<1>2. CASE sum.parts = 0 /\ sum.cents % 10 # 0
  <2>1. RoundedTotal(sum) = RoundTo(sum.cents, 10)
    BY <1>2 DEF RoundedTotal
  <2> QED
    BY <1>2, <2>1, RoundToNear
<1>3. CASE sum.parts = 0 /\ sum.cents % 10 = 0 /\ sum.cents % 100 # 0
  <2>1. RoundedTotal(sum) = RoundTo(sum.cents, 100)
    BY <1>3 DEF RoundedTotal
  <2> QED
    BY <1>3, <2>1, RoundToNear
<1>4. CASE sum.parts = 0 /\ sum.cents % 10 = 0 /\ sum.cents % 100 = 0
  <2>1. RoundedTotal(sum) = sum.cents /\ sum.cents \in Int
    BY <1>4, AmountParts DEF RoundedTotal
  <2>2. /\ sum.cents \div 1 = sum.cents /\ sum.cents = sum.cents * 1
        /\ PartsPerCent * (sum.cents - sum.cents) - 0 = 0
        /\ -(1 * (PartsPerCent \div 2)) < 0 /\ 0 < 1 * (PartsPerCent \div 2)
    BY SMT, <2>1, Parts, HalfPart
  <2>3. Nearest(sum.cents, 1, sum)
    BY SMT, <1>4, <2>2, HalfPart DEF Nearest
  <2> QED
    BY <2>1, <2>3
<1> QED
  BY <1>1, <1>2, <1>3, <1>4

(* A total is within half a dollar of the sum it is rounded from.          *)
LEMMA WithinHalfDollar ==
  ASSUME NEW sum \in Amount
  PROVE  /\ 2 * (PartsPerCent * RoundedTotal(sum)) <= 2 * Value(sum) + Dollar
         /\ 2 * Value(sum) <= 2 * (PartsPerCent * RoundedTotal(sum)) + Dollar
<1> DEFINE total == RoundedTotal(sum)
<1>1. total \in Int
  BY RoundedNear
<1>2. PICK unit \in {1, 10, 100} : Nearest(total, unit, sum)
  BY RoundedNear
<1> HIDE DEF total
<1> DEFINE above == PartsPerCent * (total - sum.cents) - sum.parts
           half == unit * (PartsPerCent \div 2)
<1>3. -half <= above /\ above <= half
  BY <1>2 DEF Nearest
<1>4. 2 * half <= Dollar /\ half \in Int /\ Dollar \in Int
  BY SMT, HalfPart, Parts DEF Dollar
<1>5. sum.cents \in Int /\ sum.parts \in Int
  <2>1. PartsPerCent \in Int
    BY SMT, Parts
  <2> QED
    BY <2>1, AmountParts
<1>6. above = PartsPerCent * total - Value(sum) /\ PartsPerCent * total \in Int
  <2>1. PartsPerCent * total \in Int /\ PartsPerCent * sum.cents \in Int
    BY SMT, <1>1, <1>5, Parts
  <2>2. PartsPerCent * (total - sum.cents) = PartsPerCent * total - PartsPerCent * sum.cents
    BY SMT, <1>1, <1>5, Parts
  <2> QED
    BY SMT, <1>5, <2>1, <2>2 DEF Value
<1>7. Value(sum) \in Int
  BY ValueType
<1> HIDE DEF above, half
<1> QED
  BY SMT, <1>3, <1>4, <1>6, <1>7 DEF total

(* So sums a dollar apart keep their order.                                *)
LEMMA OrderKept ==
  ASSUME NEW a \in Amount, NEW b \in Amount, Value(b) >= Value(a) + Dollar
  PROVE  RoundedTotal(b) >= RoundedTotal(a)
<1> DEFINE p == RoundedTotal(a)
           q == RoundedTotal(b)
<1>1. p \in Int /\ q \in Int /\ Value(a) \in Int /\ Value(b) \in Int
  BY RoundedNear, ValueType
<1>2. /\ 2 * (PartsPerCent * p) <= 2 * Value(a) + Dollar
      /\ 2 * Value(b) <= 2 * (PartsPerCent * q) + Dollar
  BY WithinHalfDollar
<1> HIDE DEF p, q
<1>3. PartsPerCent * p <= PartsPerCent * q
  <2>1. PartsPerCent * p \in Int /\ PartsPerCent * q \in Int /\ Dollar \in Int
    BY SMT, Parts, <1>1 DEF Dollar
  <2> QED
    BY SMT, <1>1, <1>2, <2>1
<1>4. p <= q
  BY SMT, Parts, <1>1, <1>3
<1> QED
  BY <1>4 DEF p, q

-----------------------------------------------------------------------------
(* Surcharges add up to an integer.  The sum is defined by recursion on    *)
(* sets, so what it is takes two inductions: that there is such a function *)
(* and that its values are integers.  Neither states its hypothesis as an  *)
(* operator: the sets that lack it have a minimal member.                  *)

LEMMA SurchargeType ==
  ASSUME NEW seat, seat.class \in DOMAIN SurchargeTable
  PROVE  Surcharge(seat) \in Int
<1> DEFINE kinds == SurchargeTable[seat.class]
<1>1. \A k \in DOMAIN kinds : kinds[k] \in Int
  <2>1. CASE seat.class = "ECONOMY"
    BY <2>1 DEF SurchargeTable
  <2>2. CASE seat.class = "BUSINESS"
    BY <2>2 DEF SurchargeTable
  <2>3. CASE seat.class = "FIRST"
    BY <2>3 DEF SurchargeTable
  <2> QED BY <2>1, <2>2, <2>3 DEF SurchargeTable
<1> HIDE DEF kinds
<1>2. Surcharge(seat) = IF seat.kind \in DOMAIN kinds THEN 100 * kinds[seat.kind] ELSE 0
  BY DEF Surcharge, kinds
<1> QED BY <1>1, <1>2

(* One turn of the recursion, and the sets of no more than n seats.        *)
Turn(cabin, sum, s) ==
  IF s = {} THEN 0
  ELSE LET x == CHOOSE y \in s : TRUE IN Surcharge(cabin[x]) + sum[s \ {x}]

UpTo(n, S) == {s \in SUBSET S : Cardinality(s) <= n}

Sums(cabin, S, n) ==
  {sum \in [UpTo(n, S) -> Int] : \A s \in UpTo(n, S) : sum[s] = Turn(cabin, sum, s)}

(* The set of subsets of a finite set is well founded.                     *)
LEMMA MinimalSubset ==
  ASSUME NEW S, IsFiniteSet(S), NEW Bad, Bad \subseteq SUBSET S, Bad # {}
  PROVE  \E t \in Bad : \A u \in SUBSET t : u # t => u \notin Bad
<1>1. IsWellFoundedOn(StrictSubsetOrdering(S), SUBSET S)
  BY FS_StrictSubsetOrderingWellFounded, FS_FiniteSubsetsOfFinite
<1>2. PICK t \in Bad : \A u \in Bad : ~ (<<u, t>> \in StrictSubsetOrdering(S))
  BY <1>1, WFMin
<1>3. ASSUME NEW u \in SUBSET t, u # t, u \in Bad PROVE FALSE
  BY <1>2, <1>3 DEF StrictSubsetOrdering
<1> QED BY <1>3

LEMMA SumsExtend ==
  ASSUME NEW cabin, NEW S, IsFiniteSet(S), NEW n \in Nat, Sums(cabin, S, n) # {},
         \A s \in S : Surcharge(cabin[s]) \in Int
  PROVE  Sums(cabin, S, n + 1) # {}
<1>1. PICK sum \in [UpTo(n, S) -> Int] : \A s \in UpTo(n, S) : sum[s] = Turn(cabin, sum, s)
  BY DEF Sums
<1> DEFINE more == [s \in UpTo(n + 1, S) |-> Turn(cabin, sum, s)]
<1>2. ASSUME NEW s \in UpTo(n + 1, S), s # {}
      PROVE  LET x == CHOOSE y \in s : TRUE
             IN  x \in S /\ s \ {x} \in UpTo(n, S)
  <2> DEFINE x == CHOOSE y \in s : TRUE
  <2>1. x \in s
    BY <1>2
  <2>2. s \in SUBSET S /\ Cardinality(s) <= n + 1
    BY DEF UpTo
  <2>3. IsFiniteSet(s)
    BY <2>2, FS_Subset
  <2> HIDE DEF x
  <2>4. Cardinality(s) \in Nat /\ Cardinality(s \ {x}) = Cardinality(s) - 1
    BY <2>1, <2>3, FS_CardinalityType, FS_RemoveElement
  <2>5. s \ {x} \in UpTo(n, S)
    BY <2>2, <2>4 DEF UpTo
  <2> QED BY <2>1, <2>2, <2>5 DEF x
<1>3. \A s \in UpTo(n + 1, S) : Turn(cabin, sum, s) \in Int
  <2> SUFFICES ASSUME NEW s \in UpTo(n + 1, S), s # {} PROVE Turn(cabin, sum, s) \in Int
    BY DEF Turn
  <2> DEFINE x == CHOOSE y \in s : TRUE
  <2>1. x \in S /\ s \ {x} \in UpTo(n, S)
    BY <1>2
  <2>2. Turn(cabin, sum, s) = Surcharge(cabin[x]) + sum[s \ {x}]
    BY DEF Turn
  <2> HIDE DEF x
  <2>3. sum[s \ {x}] \in Int
    BY <1>1, <2>1
  <2> QED BY <2>1, <2>2, <2>3
<1>4. more \in [UpTo(n + 1, S) -> Int]
  BY <1>3
<1>5. \A s \in UpTo(n, S) : s \in UpTo(n + 1, S)
  <2> SUFFICES ASSUME NEW s \in UpTo(n, S) PROVE Cardinality(s) <= n + 1
    BY DEF UpTo
  <2>1. IsFiniteSet(s) /\ Cardinality(s) <= n
    BY FS_Subset DEF UpTo
  <2> QED BY <2>1, FS_CardinalityType
<1>6. \A s \in UpTo(n, S) : more[s] = sum[s]
  BY <1>1, <1>5
<1>7. \A s \in UpTo(n + 1, S) : more[s] = Turn(cabin, sum, s)
  OBVIOUS
<1> HIDE DEF more
<1>8. \A s \in UpTo(n + 1, S) : Turn(cabin, sum, s) = Turn(cabin, more, s)
  BY <1>2, <1>6 DEF Turn
<1>9. more \in Sums(cabin, S, n + 1)
  BY <1>4, <1>7, <1>8 DEF Sums
<1> QED BY <1>9

LEMMA SumsExist ==
  ASSUME NEW cabin, NEW S, IsFiniteSet(S), \A s \in S : Surcharge(cabin[s]) \in Int
  PROVE  Sums(cabin, S, Cardinality(S)) # {}
<1> DEFINE Bad == {t \in SUBSET S : Sums(cabin, S, Cardinality(t)) = {}}
<1>1. ASSUME Bad # {} PROVE FALSE
  <2>0. Bad \subseteq SUBSET S
    OBVIOUS
  <2> HIDE DEF Bad
  <2>1. PICK t \in Bad : \A u \in SUBSET t : u # t => u \notin Bad
    BY <2>0, <1>1, MinimalSubset
  <2> USE DEF Bad
  <2>2. t \in SUBSET S /\ Sums(cabin, S, Cardinality(t)) = {} /\ IsFiniteSet(t)
    BY FS_Subset
  <2>3. CASE t = {}
    <3>1. Cardinality(t) = 0
      BY <2>3, FS_EmptySet
    <3>2. \A s \in UpTo(0, S) : s = {}
      <4> SUFFICES ASSUME NEW s \in UpTo(0, S) PROVE s = {}
        OBVIOUS
      <4>1. IsFiniteSet(s) /\ Cardinality(s) <= 0
        BY FS_Subset DEF UpTo
      <4> QED BY <4>1, FS_CardinalityType, FS_EmptySet
    <3> DEFINE none == [s \in UpTo(0, S) |-> 0]
    <3>3. none \in [UpTo(0, S) -> Int]
      OBVIOUS
    <3>4. \A s \in UpTo(0, S) : none[s] = Turn(cabin, none, s)
      BY <3>2 DEF Turn
    <3>5. none \in Sums(cabin, S, 0)
      BY <3>3, <3>4 DEF Sums
    <3> QED BY <2>2, <3>1, <3>5
  <2>4. CASE t # {}
    <3>1. PICK x : x \in t
      BY <2>4
    <3>2. t \ {x} \in SUBSET t /\ t \ {x} # t /\ t \ {x} \in SUBSET S
      BY <2>2, <3>1
    <3>3. Sums(cabin, S, Cardinality(t \ {x})) # {}
      BY <2>1, <3>2
    <3>4. Cardinality(t) \in Nat /\ Cardinality(t \ {x}) = Cardinality(t) - 1
      BY <2>2, <3>1, FS_CardinalityType, FS_RemoveElement
    <3>5. Cardinality(t \ {x}) \in Nat
      BY <2>2, FS_RemoveElement, FS_CardinalityType
    <3>6. Sums(cabin, S, Cardinality(t \ {x}) + 1) # {}
      BY <3>3, <3>5, SumsExtend
    <3> QED BY <2>2, <3>4, <3>5, <3>6
  <2> QED BY <2>3, <2>4
<1> QED BY <1>1

LEMMA SurchargesType ==
  ASSUME NEW cabin, NEW seats, IsFiniteSet(seats),
         \A s \in DOMAIN cabin : cabin[s].class \in DOMAIN SurchargeTable
  PROVE  Surcharges(cabin, seats) \in Int
<1> DEFINE asked == seats \cap DOMAIN cabin
           whole == CHOOSE sum : sum = [s \in SUBSET asked |-> Turn(cabin, sum, s)]
<1>1. Surcharges(cabin, seats) = whole[asked]
  BY DEF Surcharges, MapThenSumSet, MapThenFoldSet, Turn
<1>2. IsFiniteSet(asked) /\ \A s \in asked : Surcharge(cabin[s]) \in Int
  BY FS_Intersection, SurchargeType
<1> HIDE DEF asked
<1>3. UpTo(Cardinality(asked), asked) = SUBSET asked
  BY <1>2, FS_Subset DEF UpTo
<1>4. PICK sum \in [SUBSET asked -> Int] : \A s \in SUBSET asked : sum[s] = Turn(cabin, sum, s)
  <2>1. PICK sum : sum \in Sums(cabin, asked, Cardinality(asked))
    BY <1>2, SumsExist
  <2>2. /\ sum \in [SUBSET asked -> Int]
        /\ \A s \in SUBSET asked : sum[s] = Turn(cabin, sum, s)
    BY <1>3, <2>1 DEF Sums
  <2> QED BY <2>2
<1>5. sum = [s \in SUBSET asked |-> Turn(cabin, sum, s)]
  BY <1>4
<1>6. whole = [s \in SUBSET asked |-> Turn(cabin, whole, s)]
  BY <1>5
<1> HIDE DEF whole
<1>7. \A s \in SUBSET asked : whole[s] = Turn(cabin, whole, s)
  BY <1>6
<1> DEFINE Bad == {t \in SUBSET asked : whole[t] \notin Int}
<1>8. ASSUME Bad # {} PROVE FALSE
  <2>0. Bad \subseteq SUBSET asked
    OBVIOUS
  <2> HIDE DEF Bad
  <2>1. PICK t \in Bad : \A u \in SUBSET t : u # t => u \notin Bad
    BY <2>0, <1>2, <1>8, MinimalSubset
  <2> USE DEF Bad
  <2>2. t \in SUBSET asked /\ whole[t] \notin Int
    OBVIOUS
  <2>3. CASE t = {}
    <3>1. whole[t] = Turn(cabin, whole, t)
      BY <1>7, <2>2
    <3> QED BY <2>2, <2>3, <3>1 DEF Turn
  <2>4. CASE t # {}
    <3> DEFINE x == CHOOSE y \in t : TRUE
    <3>1. x \in t
      BY <2>4
    <3>2. whole[t] = Surcharge(cabin[x]) + whole[t \ {x}]
      <4>1. whole[t] = Turn(cabin, whole, t)
        BY <1>7, <2>2
      <4> QED BY <2>4, <4>1 DEF Turn
    <3> HIDE DEF x
    <3>3. whole[t \ {x}] \in Int
      BY <2>1, <2>2, <3>1
    <3>4. Surcharge(cabin[x]) \in Int
      BY <1>2, <2>2, <3>1
    <3> QED BY <2>2, <3>2, <3>3, <3>4
  <2> QED BY <2>3, <2>4
<1> QED BY <1>1, <1>8

(* A fare, multiplied.                                                     *)
LEMMA MultipliedAmount ==
  ASSUME NEW fare \in Nat, NEW n \in Nat, NEW size \in Nat, NEW d \in Nat,
         NEW dow \in DOMAIN DayMultiplier
  PROVE  Multiplied(fare, n, size, d, dow) \in Amount
<1>1. InCents(fare) \in Amount
  BY InCentsValue
<1>2. TimeMultiplier(d) \in Nat /\ DayMultiplier[dow] \in Nat
  BY TimeSteps, DayRange
<1>3. DemandMultiplier(n, size) \in Nat
  BY DemandSteps
<1> QED
  BY <1>1, <1>2, <1>3, TimesType DEF Multiplied

(* pricing.price answers with a whole number of cents, whatever the seats, *)
(* the occupancy and the days: a seat map without some of the seats, a     *)
(* flight without seats and one that is overbooked included.               *)
THEOREM PricesAreMoney ==
  ASSUME NEW a, NEW n \in Nat, NEW d \in Nat,
         a.base_fare \in Nat, a.size \in Nat,
         a.dow \in DOMAIN DayMultiplier, a.route_kind \in DOMAIN TaxRate,
         IsFiniteSet(a.seat_ids),
         \A s \in DOMAIN a.cabin : a.cabin[s].class \in DOMAIN SurchargeTable
  PROVE  RawTotal(a, n, d) \in Amount /\ RoundedTotal(RawTotal(a, n, d)) \in Int
<1> DEFINE sum == Plus(Multiplied(a.base_fare, n, a.size, d, a.dow),
                       InCents(Surcharges(a.cabin, a.seat_ids)))
<1>1. Multiplied(a.base_fare, n, a.size, d, a.dow) \in Amount
  BY MultipliedAmount
<1>2. InCents(Surcharges(a.cabin, a.seat_ids)) \in Amount
  BY SurchargesType, InCentsValue
<1>3. sum \in Amount
  BY <1>1, <1>2, PlusValue
<1>4. RawTotal(a, n, d) = Taxed(sum, a.route_kind)
  BY DEF RawTotal
<1> HIDE DEF sum
<1>5. Value(sum) \in Int /\ Value(sum) >= Value(sum) + 0
  BY SMT, <1>3, ValueType
<1>6. Taxed(sum, a.route_kind) \in Amount
  BY <1>3, <1>5, TaxedGap
<1> QED
  BY <1>4, <1>6, RoundedNear

-----------------------------------------------------------------------------
(* The quotes of a traveler.                                               *)

LEMMA AskType ==
  ASSUME NEW a \in Ask
  PROVE  /\ a.base_fare \in Nat /\ a.base_fare >= 2500 /\ a.size \in Nat
         /\ a.occupied \in Nat /\ a.blocked \in Nat /\ a.occupied + a.blocked <= a.size
         /\ a.dow \in DOMAIN DayMultiplier /\ a.route_kind \in DOMAIN TaxRate
         /\ Surcharges(a.cabin, a.seat_ids) \in Int
         /\ \A n \in Nat, d \in Nat : RawTotal(a, n, d) \in Amount
<1>1. /\ a.base_fare \in Nat /\ a.base_fare >= 2500 /\ a.size \in Nat
      /\ a.occupied \in Nat /\ a.blocked \in Nat /\ a.occupied + a.blocked <= a.size
      /\ a.dow \in DOMAIN DayMultiplier /\ a.route_kind \in DOMAIN TaxRate
      /\ IsFiniteSet(a.seat_ids)
      /\ \A s \in DOMAIN a.cabin : a.cabin[s].class \in DOMAIN SurchargeTable
  BY FareCurveAssumption, FareAssumption
<1>2. Surcharges(a.cabin, a.seat_ids) \in Int
  BY <1>1, SurchargesType
<1>3. \A n \in Nat, d \in Nat : RawTotal(a, n, d) \in Amount
  BY <1>1, PricesAreMoney
<1> QED
  BY <1>1, <1>2, <1>3

LEMMA MultipliedType ==
  ASSUME NEW a \in Ask, NEW n \in Nat, NEW d \in Nat
  PROVE  Multiplied(a.base_fare, n, a.size, d, a.dow) \in Amount
BY AskType, MultipliedAmount

(* Surcharges and taxes keep two quotes of one flight apart.               *)
LEMMA RawGap ==
  ASSUME NEW a \in Ask, NEW n \in Nat, NEW k \in Nat, NEW d \in Nat, NEW e \in Nat,
         NEW g \in Nat,
         Value(Multiplied(a.base_fare, k, a.size, e, a.dow))
           >= Value(Multiplied(a.base_fare, n, a.size, d, a.dow)) + g
  PROVE  /\ RawTotal(a, n, d) \in Amount /\ RawTotal(a, k, e) \in Amount
         /\ Value(RawTotal(a, k, e)) >= Value(RawTotal(a, n, d)) + g
<1> DEFINE x == Multiplied(a.base_fare, n, a.size, d, a.dow)
           y == Multiplied(a.base_fare, k, a.size, e, a.dow)
           extra == InCents(Surcharges(a.cabin, a.seat_ids))
<1>1. x \in Amount /\ y \in Amount
  BY MultipliedType
<1>2. extra \in Amount
  BY AskType, InCentsValue
<1>3. Value(y) >= Value(x) + g
  OBVIOUS
<1>4. /\ RawTotal(a, n, d) = Taxed(Plus(x, extra), a.route_kind)
      /\ RawTotal(a, k, e) = Taxed(Plus(y, extra), a.route_kind)
  BY DEF RawTotal
<1> HIDE DEF x, y, extra
<1>5. /\ Plus(x, extra) \in Amount /\ Plus(y, extra) \in Amount
      /\ Value(Plus(x, extra)) = Value(x) + Value(extra)
      /\ Value(Plus(y, extra)) = Value(y) + Value(extra)
  BY <1>1, <1>2, PlusValue
<1>6. Value(x) \in Int /\ Value(y) \in Int /\ Value(extra) \in Int
  BY <1>1, <1>2, ValueType
<1>7. Value(Plus(y, extra)) >= Value(Plus(x, extra)) + g
  BY SMT, <1>3, <1>5, <1>6
<1>8. a.route_kind \in DOMAIN TaxRate
  BY AskType
<1> QED
  BY <1>4, <1>5, <1>7, <1>8, TaxedGap

(* One more booking, or fewer days.                                        *)
LEMMA BookingRaises ==
  ASSUME NEW a \in Ask, NEW n \in Nat, NEW d \in Nat
  PROVE  RoundedTotal(RawTotal(a, n + 1, d)) >= RoundedTotal(RawTotal(a, n, d))
<1> DEFINE x == DemandMultiplier(n, a.size)
           y == DemandMultiplier(n + 1, a.size)
<1>1. a.size \in Nat /\ a.base_fare \in Nat /\ a.base_fare >= 2500
  BY AskType
<1>2. n + 1 \in Nat
  OBVIOUS
<1>3. x \in Nat /\ y \in Nat /\ (y = x \/ y >= x + 3)
  <2>1. a.size \in Nat
    BY <1>1
  <2>2. y \in Nat
    BY <1>2, <2>1, DemandSteps
  <2>3. x \in Nat /\ (y = x \/ y >= x + 3)
    BY <2>1, DemandSteps
  <2> QED
    BY <2>2, <2>3
<1>4. /\ TimeMultiplier(d) \in Nat /\ TimeMultiplier(d) >= 17
      /\ DayMultiplier[a.dow] \in Nat /\ DayMultiplier[a.dow] >= 17
  BY AskType, TimeSteps, DayRange
<1>5. CASE y = x
  <2>1. RawTotal(a, n + 1, d) = RawTotal(a, n, d)
    BY <1>5 DEF RawTotal, Multiplied
  <2>2. RoundedTotal(RawTotal(a, n, d)) \in Int
    BY AskType, RoundedNear
  <2> QED
    BY <2>1, <2>2
<1>6. CASE y >= x + 3
  <2>1. Value(Multiplied(a.base_fare, n + 1, a.size, d, a.dow))
          >= Value(Multiplied(a.base_fare, n, a.size, d, a.dow)) + Dollar
    <3> HIDE DEF x, y
    <3> QED
      BY <1>1, <1>3, <1>4, <1>6, DemandGap DEF Multiplied, x, y
  <2>2. Dollar \in Nat
    BY SMT, Parts DEF Dollar
  <2>3. /\ RawTotal(a, n, d) \in Amount /\ RawTotal(a, n + 1, d) \in Amount
        /\ Value(RawTotal(a, n + 1, d)) >= Value(RawTotal(a, n, d)) + Dollar
    BY <1>2, <2>1, <2>2, RawGap
  <2> QED
    BY <2>3, OrderKept
<1> QED
  BY <1>3, <1>5, <1>6

LEMMA WaitingRaises ==
  ASSUME NEW a \in Ask, NEW n \in Nat, NEW d \in Nat, NEW e \in Nat, e < d
  PROVE  RoundedTotal(RawTotal(a, n, e)) >= RoundedTotal(RawTotal(a, n, d))
<1> DEFINE x == TimeMultiplier(d)
           y == TimeMultiplier(e)
<1>1. a.size \in Nat /\ a.base_fare \in Nat /\ a.base_fare >= 2500
  BY AskType
<1>2. x \in Nat /\ y \in Nat /\ (y = x \/ y >= x + 1)
  BY TimeSteps
<1>3. /\ DemandMultiplier(n, a.size) \in Nat /\ DemandMultiplier(n, a.size) >= 20
      /\ DayMultiplier[a.dow] \in Nat /\ DayMultiplier[a.dow] >= 17
  <2>1. a.size \in Nat
    BY <1>1
  <2>2. DemandMultiplier(n, a.size) \in Nat /\ DemandMultiplier(n, a.size) >= 20
    BY <2>1, DemandSteps
  <2>3. DayMultiplier[a.dow] \in Nat /\ DayMultiplier[a.dow] >= 17
    BY AskType, DayRange
  <2> QED
    BY <2>2, <2>3
<1>4. CASE y = x
  <2>1. RawTotal(a, n, e) = RawTotal(a, n, d)
    BY <1>4 DEF RawTotal, Multiplied
  <2>2. RoundedTotal(RawTotal(a, n, d)) \in Int
    BY AskType, RoundedNear
  <2> QED
    BY <2>1, <2>2
<1>5. CASE y >= x + 1
  <2>1. Value(Multiplied(a.base_fare, n, a.size, e, a.dow))
          >= Value(Multiplied(a.base_fare, n, a.size, d, a.dow)) + Dollar
    <3> HIDE DEF x, y
    <3> QED
      BY <1>1, <1>2, <1>3, <1>5, TimeGap DEF Multiplied, x, y
  <2>2. Dollar \in Nat
    BY SMT, Parts DEF Dollar
  <2>3. /\ RawTotal(a, n, d) \in Amount /\ RawTotal(a, n, e) \in Amount
        /\ Value(RawTotal(a, n, e)) >= Value(RawTotal(a, n, d)) + Dollar
    BY <2>1, <2>2, RawGap
  <2> QED
    BY <2>3, OrderKept
<1> QED
  BY <1>2, <1>4, <1>5

-----------------------------------------------------------------------------
LEMMA QuoteType ==
  ASSUME ask \in Ask, NEW n \in Nat, NEW d \in DaysAhead
  PROVE  /\ d \in Nat /\ ask.occupied + ask.blocked + n \in Nat
         /\ QuoteAt(n, d) \in Amount
<1>1. d \in Nat
  BY FareCurveAssumption
<1>2. ask.occupied + ask.blocked + n \in Nat
  BY AskType
<1> QED
  BY <1>1, <1>2, AskType DEF QuoteAt

LEMMA CurveTypeInit == CurveInit => FareTypeOK
<1> SUFFICES ASSUME CurveInit
             PROVE  FareTypeOK
  OBVIOUS
<1>1. ask \in Ask /\ booked = 0 /\ days \in DaysAhead /\ raw = QuoteAt(0, days)
  BY DEF CurveInit
<1>2. 0 \in 0 .. ask.size - ask.blocked
  BY <1>1, AskType
<1>3. raw \in Amount
  BY <1>1, QuoteType
<1>4. Total \in Int
  BY <1>3, RoundedNear DEF Total
<1> QED
  BY <1>1, <1>2, <1>3, <1>4 DEF FareTypeOK

LEMMA CurveTypeNext == FareTypeOK /\ [CurveNext]_fareVars => FareTypeOK'
<1> SUFFICES ASSUME FareTypeOK, [CurveNext]_fareVars
             PROVE  FareTypeOK'
  OBVIOUS
<1>1. ask \in Ask /\ booked \in Nat /\ booked \in 0 .. ask.size - ask.blocked /\ days \in DaysAhead
  BY AskType DEF FareTypeOK
<1>2. CASE SellSeat
  <2>1. /\ ask' = ask /\ days' = days /\ booked' = booked + 1
        /\ raw' = QuoteAt(booked + 1, days)
    BY <1>2 DEF SellSeat
  <2>2. booked + 1 \in 0 .. ask.size - ask.blocked /\ booked + 1 \in Nat
    BY <1>1, <1>2, AskType DEF SellSeat
  <2>3. raw' \in Amount
    BY <1>1, <2>1, <2>2, QuoteType
  <2>4. RoundedTotal(raw') \in Int
    BY <2>3, RoundedNear
  <2> QED
    BY <1>1, <2>1, <2>2, <2>3, <2>4 DEF FareTypeOK, QuoteAt, Total
<1>3. CASE DaysPass
  <2>1. /\ ask' = ask /\ booked' = booked /\ days' \in DaysAhead
        /\ raw' = QuoteAt(booked, days')
    BY <1>3 DEF DaysPass
  <2>2. raw' \in Amount
    BY <1>1, <2>1, QuoteType
  <2>3. RoundedTotal(raw') \in Int
    BY <2>2, RoundedNear
  <2> QED
    BY <1>1, <2>1, <2>2, <2>3 DEF FareTypeOK, QuoteAt, Total
<1>4. CASE UNCHANGED fareVars
  BY <1>4 DEF FareTypeOK, QuoteAt, Total, fareVars
<1> QED
  BY <1>2, <1>3, <1>4 DEF CurveNext

(* A quote is always an integer number of cents, for every cabin, fare and *)
(* calendar (quote_service.quote).                                         *)
THEOREM CurveTypes == CurveSpec => []FareTypeOK
BY CurveTypeInit, CurveTypeNext, PTL DEF CurveSpec

(* Whatever unit the rule picks, the total is a nearest multiple of it,    *)
(* the even one of two (_round_half_even_to_prior_digit).                  *)
THEOREM TotalsAreRounded == CurveSpec => []RoundsHalfEven
<1>1. FareTypeOK => RoundsHalfEven
  BY RoundedNear DEF FareTypeOK, RoundsHalfEven, Total
<1> QED
  BY <1>1, CurveTypes, PTL

(* From 25 dollars up, no booking and no day makes the seats cheaper.      *)
THEOREM WaitingNeverPays == CurveSpec => PriceNeverDrops
<1>1. FareTypeOK /\ [CurveNext]_fareVars => [Total' >= Total]_fareVars
  <2> SUFFICES ASSUME FareTypeOK, CurveNext
               PROVE  Total' >= Total
    OBVIOUS
  <2>1. /\ ask \in Ask /\ booked \in Nat /\ days \in DaysAhead /\ days \in Nat
        /\ raw = QuoteAt(booked, days)
    BY AskType, FareCurveAssumption DEF FareTypeOK
  <2> DEFINE n == ask.occupied + ask.blocked + booked
  <2>2. n \in Nat
    BY <2>1, QuoteType
  <2>3. CASE SellSeat
    <3>1. ask.occupied + ask.blocked + (booked + 1) = n + 1
      BY <2>1, AskType
    <3>2. raw' = RawTotal(ask, n + 1, days) /\ raw = RawTotal(ask, n, days)
      BY <2>1, <2>3, <3>1 DEF SellSeat, QuoteAt
    <3> HIDE DEF n
    <3> QED
      BY <2>1, <2>2, <3>2, BookingRaises DEF Total
  <2>4. CASE DaysPass
    <3>1. days' \in Nat /\ days' < days
      BY <2>4, FareCurveAssumption DEF DaysPass
    <3>2. raw' = RawTotal(ask, n, days') /\ raw = RawTotal(ask, n, days)
      BY <2>1, <2>4 DEF DaysPass, QuoteAt
    <3> HIDE DEF n
    <3> QED
      BY <2>1, <2>2, <3>1, <3>2, WaitingRaises DEF Total
  <2> QED
    BY <2>3, <2>4 DEF CurveNext
<1> QED
  BY <1>1, CurveTypes, PTL DEF CurveSpec, PriceNeverDrops
=============================================================================
