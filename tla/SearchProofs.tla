----------------------------- MODULE SearchProofs -----------------------------
(***************************************************************************)
(* For every catalog, every request and every page size: the pages a       *)
(* client reads one after the other add up to the result of the search,    *)
(* the result is every match once, and it comes in order.                  *)
(***************************************************************************)
EXTENDS Search, SequenceTheorems, FiniteSetTheorems, TLAPS

-----------------------------------------------------------------------------
(* Lists.                                                                  *)

(* What is arranged by a strict linear order is arranged: every index has  *)
(* a place, and who comes before has a lower one.                          *)
LEMMA ArrangedPlaces ==
  ASSUME NEW I, IsFiniteSet(I), NEW before \in [I -> SUBSET I],
         \A i \in I : i \notin before[i],
         \A i, j \in I : i # j => (i \in before[j] \/ j \in before[i]),
         \A i, j \in I : i \in before[j] => before[i] \subseteq before[j]
  PROVE  /\ Cardinality(I) \in Nat
         /\ Arranged(before) \in [1 .. Cardinality(I) -> I]
         /\ \A i \in I : \E p \in 1 .. Cardinality(I) : Arranged(before)[p] = i
         /\ \A p, q \in 1 .. Cardinality(I) :
              p < q => Arranged(before)[p] \in before[Arranged(before)[q]]
<1> DEFINE N    == Cardinality(I)
           rank == [i \in I |-> Cardinality(before[i])]
           at   == Arranged(before)
<1>1. N \in Nat
  BY FS_CardinalityType
<1>2. \A i \in I : IsFiniteSet(before[i]) /\ Cardinality(before[i]) \in 0 .. N - 1
  <2> SUFFICES ASSUME NEW i \in I
               PROVE  IsFiniteSet(before[i]) /\ Cardinality(before[i]) \in 0 .. N - 1
    OBVIOUS
  <2>1. before[i] \in SUBSET I /\ before[i] # I
    OBVIOUS
  <2>2. IsFiniteSet(before[i]) /\ Cardinality(before[i]) <= N /\ Cardinality(before[i]) # N
    BY <2>1, FS_Subset
  <2>3. Cardinality(before[i]) \in Nat
    BY <2>2, FS_CardinalityType
  <2> QED BY <1>1, <2>2, <2>3
<1>3. \A i, j \in I : i \in before[j] => Cardinality(before[i]) < Cardinality(before[j])
  <2> SUFFICES ASSUME NEW i \in I, NEW j \in I, i \in before[j]
               PROVE  Cardinality(before[i]) < Cardinality(before[j])
    OBVIOUS
  <2>1. before[i] \in SUBSET before[j] /\ before[i] # before[j]
    OBVIOUS
  <2>2. /\ Cardinality(before[i]) <= Cardinality(before[j])
        /\ Cardinality(before[i]) # Cardinality(before[j])
    BY <1>2, <2>1, FS_Subset
  <2> QED BY <1>2, <2>2
<1>4. \A i, j \in I : Cardinality(before[i]) = Cardinality(before[j]) => i = j
  BY <1>2, <1>3
<1>5. \A k \in 0 .. N - 1 : \E i \in I : Cardinality(before[i]) = k
  <2>1. rank \in Injection(I, 0 .. N - 1)
    BY <1>2, <1>4 DEF Injection, IsInjective
  <2>2. IsFiniteSet(0 .. N - 1) /\ Cardinality(0 .. N - 1) = N
    BY <1>1, FS_Interval
  <2>3. rank \in Surjection(I, 0 .. N - 1)
    BY <2>1, <2>2, FS_Injection
  <2> QED BY <2>3 DEF Surjection
<1>6. DOMAIN before = I
  OBVIOUS
<1>7. \A p \in 1 .. N : at[p] \in I /\ Cardinality(before[at[p]]) = p - 1
  <2> SUFFICES ASSUME NEW p \in 1 .. N
               PROVE  at[p] \in I /\ Cardinality(before[at[p]]) = p - 1
    OBVIOUS
  <2>1. at[p] = CHOOSE i \in I : Cardinality(before[i]) = p - 1
    BY <1>6 DEF Arranged
  <2>2. \E i \in I : Cardinality(before[i]) = p - 1
    BY <1>1, <1>5
  <2> QED BY <2>1, <2>2
<1>8. at \in [1 .. N -> I]
  <2>1. at = [p \in 1 .. N |-> at[p]]
    BY <1>6 DEF Arranged
  <2> QED BY <1>7, <2>1
<1>9. \A i \in I : \E p \in 1 .. N : at[p] = i
  <2> SUFFICES ASSUME NEW i \in I PROVE \E p \in 1 .. N : at[p] = i
    OBVIOUS
  <2>1. Cardinality(before[i]) + 1 \in 1 .. N
    BY <1>1, <1>2
  <2>2. Cardinality(before[at[Cardinality(before[i]) + 1]]) = Cardinality(before[i])
    BY <1>2, <1>7, <2>1
  <2> QED BY <1>4, <1>7, <2>1, <2>2
<1>10. \A p, q \in 1 .. N : p < q => at[p] \in before[at[q]]
  <2> SUFFICES ASSUME NEW p \in 1 .. N, NEW q \in 1 .. N, p < q
               PROVE  at[p] \in before[at[q]]
    OBVIOUS
  <2>1. at[p] # at[q] /\ at[q] \notin before[at[p]]
    BY <1>1, <1>3, <1>7
  <2> QED BY <1>7, <2>1
<1> QED BY <1>1, <1>8, <1>9, <1>10

(* A list built over the places of an arrangement.                         *)
LEMMA ListOfPlaces ==
  ASSUME NEW S, NEW N \in Nat, NEW list, DOMAIN list = 1 .. N,
         list = [p \in 1 .. N |-> list[p]],
         \A p \in 1 .. N : list[p] \in S
  PROVE  list \in Seq(S) /\ Len(list) = N
<1>1. list \in [1 .. N -> S]
  OBVIOUS
<1>2. list \in Seq(S)
  BY <1>1, SeqDef
<1> QED BY <1>2, LenProperties

(* A comprehension keeps the chosen items, those only, and their order.    *)
LEMMA KeptItems ==
  ASSUME NEW S, NEW items \in Seq(S), NEW indices \in SUBSET DOMAIN items
  PROVE  /\ Kept(items, indices) \in Seq(S)
         /\ \A i \in indices : \E p \in DOMAIN Kept(items, indices) :
              Kept(items, indices)[p] = items[i]
         /\ \A p \in DOMAIN Kept(items, indices) : \E i \in indices :
              Kept(items, indices)[p] = items[i]
         /\ \A p, q \in DOMAIN Kept(items, indices) : p < q =>
              \E i, j \in indices : /\ i < j
                                    /\ Kept(items, indices)[p] = items[i]
                                    /\ Kept(items, indices)[q] = items[j]
<1> DEFINE before == [i \in indices |-> {j \in indices : j < i}]
           at     == Arranged(before)
           N      == Cardinality(indices)
           kept   == Kept(items, indices)
<1>1. indices \subseteq 1 .. Len(items) /\ Len(items) \in Nat
  OBVIOUS
<1>2. IsFiniteSet(indices)
  BY <1>1, FS_Interval, FS_Subset
<1>3. before \in [indices -> SUBSET indices]
  OBVIOUS
<1>4. \A i \in indices : i \notin before[i]
  BY <1>1
<1>5. \A i, j \in indices : i # j => (i \in before[j] \/ j \in before[i])
  BY <1>1
<1>6. \A i, j \in indices : i \in before[j] => before[i] \subseteq before[j]
  BY <1>1
<1>7. \A p, q \in indices : p \in before[q] => p < q
  OBVIOUS
<1>8. kept = [place \in DOMAIN at |-> items[at[place]]]
  BY DEF Kept
<1> HIDE DEF before
<1>9. /\ N \in Nat
      /\ at \in [1 .. N -> indices]
      /\ \A i \in indices : \E p \in 1 .. N : at[p] = i
      /\ \A p, q \in 1 .. N : p < q => at[p] \in before[at[q]]
  BY <1>2, <1>3, <1>4, <1>5, <1>6, ArrangedPlaces
<1> HIDE DEF at, N, kept
<1>10. kept = [p \in 1 .. N |-> items[at[p]]]
  BY <1>8, <1>9
<1>11. \A p \in 1 .. N : kept[p] \in S
  BY <1>1, <1>9, <1>10
<1>12. kept \in Seq(S) /\ DOMAIN kept = 1 .. N
  BY <1>9, <1>10, <1>11, ListOfPlaces
<1>13. \A i \in indices : \E p \in DOMAIN kept : kept[p] = items[i]
  BY <1>9, <1>10, <1>12
<1>14. \A p \in DOMAIN kept : at[p] \in indices /\ kept[p] = items[at[p]]
  BY <1>9, <1>10, <1>12
<1>15. \A p, q \in DOMAIN kept : p < q => at[p] < at[q]
  BY <1>7, <1>9, <1>12
<1> QED BY <1>12, <1>13, <1>14, <1>15 DEF kept

(* The comprehension with two loops: every outbound with every return it   *)
(* connects to, those only, and by the places of the two.                  *)
LEMMA EligibleItems ==
  ASSUME NEW S, NEW T, NEW outs \in Seq(S), NEW returns \in Seq(T)
  PROVE  LET pairs == Eligible(outs, returns)
             Is(p, o, r) == /\ o \in DOMAIN outs /\ r \in DOMAIN returns
                            /\ Connects(outs[o], returns[r])
                            /\ pairs[p] = [outbound |-> outs[o], return |-> returns[r]]
         IN  /\ pairs \in Seq([outbound : S, return : T])
             /\ \A o \in DOMAIN outs, r \in DOMAIN returns :
                  Connects(outs[o], returns[r]) => \E p \in DOMAIN pairs : Is(p, o, r)
             /\ \A p \in DOMAIN pairs : \E o \in DOMAIN outs, r \in DOMAIN returns : Is(p, o, r)
             /\ \A p, q \in DOMAIN pairs : p < q =>
                  \E o, u \in DOMAIN outs, r, v \in DOMAIN returns :
                    Is(p, o, r) /\ Is(q, u, v) /\ (o < u \/ (o = u /\ r < v))
<1> DEFINE pairs == Eligible(outs, returns)
           Is(p, o, r) == /\ o \in DOMAIN outs /\ r \in DOMAIN returns
                          /\ Connects(outs[o], returns[r])
                          /\ pairs[p] = [outbound |-> outs[o], return |-> returns[r]]
           indices == {x \in (DOMAIN outs) \X (DOMAIN returns) :
                         Connects(outs[x[1]], returns[x[2]])}
           before  == [x \in indices |->
                         {y \in indices : y[1] < x[1] \/ (y[1] = x[1] /\ y[2] < x[2])}]
           at      == Arranged(before)
           N       == Cardinality(indices)
<1>1. /\ DOMAIN outs = 1 .. Len(outs) /\ Len(outs) \in Nat
      /\ DOMAIN returns = 1 .. Len(returns) /\ Len(returns) \in Nat
  OBVIOUS
<1>2. IsFiniteSet(indices)
  <2>1. IsFiniteSet(DOMAIN outs) /\ IsFiniteSet(DOMAIN returns)
    BY <1>1, FS_Interval
  <2>2. IsFiniteSet((DOMAIN outs) \X (DOMAIN returns))
    BY <2>1, FS_Product
  <2> QED BY <2>2, FS_Subset
<1>3. \A x \in indices : /\ x[1] \in Nat /\ x[2] \in Nat
                         /\ x[1] \in DOMAIN outs /\ x[2] \in DOMAIN returns
                         /\ x = <<x[1], x[2]>>
                         /\ Connects(outs[x[1]], returns[x[2]])
  BY <1>1
<1>4. before \in [indices -> SUBSET indices]
  OBVIOUS
<1>5. \A x \in indices : before[x] = {y \in indices : y[1] < x[1] \/ (y[1] = x[1] /\ y[2] < x[2])}
  OBVIOUS
<1>6. pairs = [place \in DOMAIN at |->
                 [outbound |-> outs[at[place][1]], return |-> returns[at[place][2]]]]
  BY DEF Eligible
<1>7. \A o \in DOMAIN outs, r \in DOMAIN returns :
        Connects(outs[o], returns[r]) => <<o, r>> \in indices
  OBVIOUS
<1> HIDE DEF before, indices
<1>8. \A x \in indices : x \notin before[x]
  BY <1>3, <1>5
<1>9. \A x, y \in indices : x # y => (x \in before[y] \/ y \in before[x])
  BY <1>3, <1>5
<1>10. \A x, y \in indices : x \in before[y] => before[x] \subseteq before[y]
  <2> SUFFICES ASSUME NEW x \in indices, NEW y \in indices, x \in before[y],
                      NEW z \in before[x]
               PROVE  z \in before[y]
    OBVIOUS
  <2>1. x[1] < y[1] \/ (x[1] = y[1] /\ x[2] < y[2])
    BY <1>5
  <2>2. z \in indices /\ (z[1] < x[1] \/ (z[1] = x[1] /\ z[2] < x[2]))
    BY <1>5
  <2>3. z[1] < y[1] \/ (z[1] = y[1] /\ z[2] < y[2])
    BY <1>3, <2>1, <2>2
  <2> QED BY <1>5, <2>2, <2>3
<1>11. /\ N \in Nat
       /\ at \in [1 .. N -> indices]
       /\ \A x \in indices : \E p \in 1 .. N : at[p] = x
       /\ \A p, q \in 1 .. N : p < q => at[p] \in before[at[q]]
  BY <1>2, <1>4, <1>8, <1>9, <1>10, ArrangedPlaces
<1> HIDE DEF at, N, pairs
<1>12. pairs = [p \in 1 .. N |-> [outbound |-> outs[at[p][1]], return |-> returns[at[p][2]]]]
  BY <1>6, <1>11
<1>13. \A p \in 1 .. N : Is(p, at[p][1], at[p][2])
  BY <1>3, <1>11, <1>12
<1>14. \A p \in 1 .. N : pairs[p] \in [outbound : S, return : T]
  BY <1>1, <1>3, <1>11, <1>12
<1>15. pairs \in Seq([outbound : S, return : T]) /\ DOMAIN pairs = 1 .. N
  BY <1>11, <1>12, <1>14, ListOfPlaces
<1>16. ASSUME NEW o \in DOMAIN outs, NEW r \in DOMAIN returns, Connects(outs[o], returns[r])
       PROVE  \E p \in DOMAIN pairs : Is(p, o, r)
  <2>1. PICK p \in 1 .. N : at[p] = <<o, r>>
    BY <1>7, <1>11, <1>16
  <2>2. Is(p, o, r)
    BY <1>13, <2>1
  <2> QED BY <1>15, <2>2
<1>17. ASSUME NEW p \in DOMAIN pairs, NEW q \in DOMAIN pairs, p < q
       PROVE  \E o, u \in DOMAIN outs, r, v \in DOMAIN returns :
                Is(p, o, r) /\ Is(q, u, v) /\ (o < u \/ (o = u /\ r < v))
  <2>1. at[p][1] < at[q][1] \/ (at[p][1] = at[q][1] /\ at[p][2] < at[q][2])
    BY <1>5, <1>11, <1>15, <1>17
  <2>2. Is(p, at[p][1], at[p][2]) /\ Is(q, at[q][1], at[q][2])
    BY <1>13, <1>15
  <2> HIDE DEF Is
  <2>3. /\ at[p][1] \in DOMAIN outs /\ at[q][1] \in DOMAIN outs
        /\ at[p][2] \in DOMAIN returns /\ at[q][2] \in DOMAIN returns
    BY <1>3, <1>11, <1>15
  <2> QED BY <2>1, <2>2, <2>3
<1>18. \A p \in DOMAIN pairs : \E o \in DOMAIN outs, r \in DOMAIN returns : Is(p, o, r)
  BY <1>3, <1>11, <1>13, <1>15
<1> QED BY <1>15, <1>16, <1>17, <1>18 DEF pairs

(* The stable sort permutes the pairs; who comes first leaves earlier, or  *)
(* not later and came first.                                               *)
LEMMA SortedItems ==
  ASSUME NEW S, NEW pairs \in Seq(S),
         \A i \in DOMAIN pairs : /\ pairs[i].outbound.departure_at \in Nat
                                 /\ pairs[i].return.departure_at \in Nat
  PROVE  LET sorted == SortPairs(pairs)
         IN  /\ sorted \in Seq(S)
             /\ \A i \in DOMAIN pairs : \E p \in DOMAIN sorted : sorted[p] = pairs[i]
             /\ \A p \in DOMAIN sorted : \E i \in DOMAIN pairs : sorted[p] = pairs[i]
             /\ \A p, q \in DOMAIN sorted : p < q =>
                  \E i, j \in DOMAIN pairs :
                    /\ sorted[p] = pairs[i] /\ sorted[q] = pairs[j]
                    /\ \/ Earlier(pairs[i], pairs[j])
                       \/ ~Earlier(pairs[j], pairs[i]) /\ i < j
<1> DEFINE sorted == SortPairs(pairs)
           Precedes(i, j) == \/ Earlier(pairs[i], pairs[j])
                             \/ ~Earlier(pairs[j], pairs[i]) /\ i < j
           I      == DOMAIN pairs
           before == [i \in I |-> {j \in I : Precedes(j, i)}]
           at     == Arranged(before)
           N      == Cardinality(I)
<1>1. I = 1 .. Len(pairs) /\ Len(pairs) \in Nat
  OBVIOUS
<1>2. IsFiniteSet(I)
  BY <1>1, FS_Interval
<1>3. before \in [I -> SUBSET I]
  OBVIOUS
<1>4. \A i, j \in I : j \in before[i] <=> Precedes(j, i)
  OBVIOUS
<1>5. sorted = [place \in DOMAIN at |-> pairs[at[place]]]
  BY DEF SortPairs
<1> HIDE DEF before
<1>6. \A i \in I : ~Precedes(i, i)
  BY <1>1 DEF Earlier
<1>7. \A i, j \in I : i # j => (Precedes(i, j) \/ Precedes(j, i))
  BY <1>1 DEF Earlier
<1>8. \A i, j, k \in I : Precedes(i, j) /\ Precedes(j, k) => Precedes(i, k)
  BY <1>1 DEF Earlier
<1> HIDE DEF Precedes
<1>9. \A i, j \in I : i \in before[j] => before[i] \subseteq before[j]
  BY <1>3, <1>4, <1>8
<1>10. \A i \in I : i \notin before[i]
  BY <1>4, <1>6
<1>11. \A i, j \in I : i # j => (i \in before[j] \/ j \in before[i])
  BY <1>4, <1>7
<1> HIDE DEF I
<1>12. /\ N \in Nat
       /\ at \in [1 .. N -> I]
       /\ \A i \in I : \E p \in 1 .. N : at[p] = i
       /\ \A p, q \in 1 .. N : p < q => at[p] \in before[at[q]]
  BY <1>2, <1>3, <1>9, <1>10, <1>11, ArrangedPlaces
<1> HIDE DEF at, N, sorted
<1>13. sorted = [p \in 1 .. N |-> pairs[at[p]]]
  BY <1>5, <1>12
<1>14. \A p \in 1 .. N : sorted[p] \in S
  BY <1>12, <1>13 DEF I
<1>15. sorted \in Seq(S) /\ DOMAIN sorted = 1 .. N
  BY <1>12, <1>13, <1>14, ListOfPlaces
<1>16. \A i \in I : \E p \in DOMAIN sorted : sorted[p] = pairs[i]
  BY <1>12, <1>13, <1>15
<1>17. \A p \in DOMAIN sorted : at[p] \in I /\ sorted[p] = pairs[at[p]]
  BY <1>12, <1>13, <1>15
<1>18. \A p, q \in DOMAIN sorted : p < q => Precedes(at[p], at[q])
  BY <1>4, <1>12, <1>15
<1> QED BY <1>15, <1>16, <1>17, <1>18 DEF sorted, Precedes, I

-----------------------------------------------------------------------------
(* The result of a search.                                                 *)

(* Every flight has one place in the catalog.                              *)
LEMMA FlightsHavePlaces ==
  /\ Catalog \in Seq(Flights)
  /\ \A i \in DOMAIN Catalog : Catalog[i] \in Flights /\ Place(Catalog[i]) = i
  /\ \A f \in Flights : /\ Place(f) \in DOMAIN Catalog /\ Catalog[Place(f)] = f
                         /\ Place(f) \in Nat
                         /\ f.departure_at \in Nat /\ f.arrival_at \in Nat
                         /\ f.base_fare \in Nat
<1>1. Catalog \in Seq(Flights)
  BY SearchAssumption DEF Flights
<1>2. \A i, j \in DOMAIN Catalog : Catalog[i] = Catalog[j] => i = j
  BY SearchAssumption
<1>3. \A i \in DOMAIN Catalog : Catalog[i] \in Flights /\ Place(Catalog[i]) = i
  BY <1>2 DEF Flights, Range, Place
<1>4. \A f \in Flights : \E i \in DOMAIN Catalog : f = Catalog[i]
  BY DEF Flights, Range
<1>5. \A i \in DOMAIN Catalog : i \in Nat
  BY <1>1
<1>6. \A f \in Flights : /\ f.departure_at \in Nat /\ f.arrival_at \in Nat
                         /\ f.base_fare \in Nat
  BY <1>4, SearchAssumption
<1> QED BY <1>1, <1>3, <1>4, <1>5, <1>6

LEMMA WholeDays ==
  ASSUME NEW t \in Nat, NEW hours \in Nat, hours > 0
  PROVE  /\ t \div hours \in Nat
         /\ (t \div hours) * hours <= t
         /\ t < (t \div hours) * hours + hours
<1>1. t \div hours \in Nat
  OBVIOUS
<1>2. (t \div hours) * hours <= t
  OBVIOUS
<1>3. t < (t \div hours) * hours + hours
  OBVIOUS
<1> QED BY <1>1, <1>2, <1>3

(* The date of a time is the day in whose hours it falls.                  *)
LEMMA DateOfHours ==
  ASSUME NEW t \in Nat, NEW date \in Nat
  PROVE  t \div Day = date <=> (date * Day <= t /\ t < (date + 1) * Day)
<1> DEFINE d == t \div Day
<1>1. Day \in Nat /\ Day > 0
  BY SearchAssumption
<1>2. d \in Nat /\ d * Day <= t /\ t < d * Day + Day
  BY <1>1, WholeDays
<1>3. (date + 1) * Day = date * Day + Day /\ (d + 1) * Day = d * Day + Day
  BY <1>1, <1>2
<1> HIDE DEF d
<1>4. ASSUME d < date PROVE (d + 1) * Day <= date * Day
  BY <1>1, <1>2, <1>4
<1>5. ASSUME date < d PROVE (date + 1) * Day <= d * Day
  BY <1>1, <1>2, <1>5
<1>6. date * Day \in Nat /\ d * Day \in Nat
  BY <1>1, <1>2
<1>7. ASSUME date * Day <= t, t < (date + 1) * Day PROVE d = date
  BY <1>1, <1>2, <1>3, <1>4, <1>5, <1>6, <1>7
<1>8. d = date => (date * Day <= t /\ t < (date + 1) * Day)
  BY <1>2, <1>3
<1> QED BY <1>7, <1>8 DEF d

(* Flights in the order of the catalog.                                    *)
InCatalogOrder(list) ==
  /\ list \in Seq(Flights)
  /\ \A p, q \in DOMAIN list : p < q => Place(list[p]) < Place(list[q])

LEMMA KeptInCatalogOrder ==
  ASSUME NEW list, InCatalogOrder(list), NEW indices \in SUBSET DOMAIN list
  PROVE  /\ InCatalogOrder(Kept(list, indices))
         /\ Range(Kept(list, indices)) = {list[i] : i \in indices}
<1> DEFINE kept == Kept(list, indices)
<1>0. list \in Seq(Flights)
  BY DEF InCatalogOrder
<1>1a. kept \in Seq(Flights)
  BY <1>0, KeptItems
<1>1b. \A i \in indices : \E p \in DOMAIN kept : kept[p] = list[i]
  BY <1>0, KeptItems
<1>1c. \A p \in DOMAIN kept : \E i \in indices : kept[p] = list[i]
  BY <1>0, KeptItems
<1>1d. \A p, q \in DOMAIN kept : p < q =>
         \E i, j \in indices : i < j /\ kept[p] = list[i] /\ kept[q] = list[j]
  BY <1>0, KeptItems
<1> HIDE DEF kept
<1>2. InCatalogOrder(kept)
  BY <1>1a, <1>1d DEF InCatalogOrder
<1>3. Range(kept) = {list[i] : i \in indices}
  BY <1>1b, <1>1c DEF Range
<1> QED BY <1>2, <1>3 DEF kept

(* The repository finds every flight of a leg.                             *)
LEMMA ScanFindsLeg ==
  ASSUME NEW origin, NEW destination, NEW date \in Nat
  PROVE  LET found == ScanCatalog(origin, destination, date, request.airline)
         IN  /\ InCatalogOrder(found)
             /\ Range(found) = {f \in Flights : Leg(f, origin, destination, date)}
<1> DEFINE indices == {i \in DOMAIN Catalog :
                         /\ Catalog[i].origin = origin
                         /\ Catalog[i].destination = destination
                         /\ DateOf(Catalog[i]) = date
                         /\ request.airline \in {None, Catalog[i].airline}}
           found   == ScanCatalog(origin, destination, date, request.airline)
<1>1. InCatalogOrder(Catalog)
  BY FlightsHavePlaces DEF InCatalogOrder
<1>2. found = Kept(Catalog, indices)
  BY DEF ScanCatalog
<1>3. indices \in SUBSET DOMAIN Catalog
  OBVIOUS
<1>4. \A i \in DOMAIN Catalog : i \in indices <=> Leg(Catalog[i], origin, destination, date)
  <2> SUFFICES ASSUME NEW i \in DOMAIN Catalog
               PROVE  i \in indices <=> Leg(Catalog[i], origin, destination, date)
    OBVIOUS
  <2>1. Catalog[i].departure_at \in Nat
    BY FlightsHavePlaces
  <2>2. DateOf(Catalog[i]) = date <=> /\ date * Day <= Catalog[i].departure_at
                                      /\ Catalog[i].departure_at < (date + 1) * Day
    BY <2>1, DateOfHours DEF DateOf
  <2> QED BY <2>2 DEF Leg
<1> HIDE DEF indices, found
<1>5. InCatalogOrder(found) /\ Range(found) = {Catalog[i] : i \in indices}
  BY <1>1, <1>2, <1>3, KeptInCatalogOrder
<1>6. \A f \in Flights : \E i \in DOMAIN Catalog : f = Catalog[i]
  BY DEF Flights, Range
<1>7. {Catalog[i] : i \in indices} = {f \in Flights : Leg(f, origin, destination, date)}
  BY <1>3, <1>4, <1>6, FlightsHavePlaces
<1> QED BY <1>5, <1>7 DEF found

(* What is offered when the request is for one way, or for a round trip.   *)
LEMMA OneWayResult ==
  ASSUME request \in SearchRequests, request.return_date = None
  PROVE  InCatalogOrder(OneWay(request)) /\ Range(OneWay(request)) = Wanted
<1> DEFINE matches == ScanCatalog(request.origin, request.destination,
                                  request.departure_date, request.airline)
           cheap   == {i \in DOMAIN matches : InPrice(matches[i].base_fare, request)}
           priced  == Kept(matches, cheap)
           timely  == {i \in DOMAIN priced : InWindow(priced[i], request)}
<1>1. InCatalogOrder(matches) /\ Range(matches) = {f \in Flights : There(f)}
  BY ScanFindsLeg, SearchAssumption DEF There
<1>2. OneWay(request) = Kept(priced, timely)
  BY DEF OneWay
<1> HIDE DEF matches
<1>3. InCatalogOrder(priced) /\ Range(priced) = {matches[i] : i \in cheap}
  BY <1>1, KeptInCatalogOrder
<1>3a. \A price : InPrice(price, request) <=> Priced(price)
  BY DEF Priced, InPrice, Within
<1>3b. \A f : f \in Range(matches) <=> \E i \in DOMAIN matches : f = matches[i]
  BY DEF Range
<1>4. Range(priced) = {f \in Flights : There(f) /\ Priced(f.base_fare)}
  BY <1>1, <1>3, <1>3a, <1>3b
<1> HIDE DEF priced
<1>5. /\ InCatalogOrder(OneWay(request))
      /\ Range(OneWay(request)) = {priced[i] : i \in timely}
  BY <1>2, <1>3, KeptInCatalogOrder
<1>5a. \A f : InWindow(f, request) <=> InHours(f)
  BY DEF InHours, InWindow, Within
<1>5b. \A f : f \in Range(priced) <=> \E i \in DOMAIN priced : f = priced[i]
  BY DEF Range
<1>6. Range(OneWay(request)) = {f \in Flights : There(f) /\ Priced(f.base_fare) /\ InHours(f)}
  BY <1>4, <1>5, <1>5a, <1>5b
<1> QED BY <1>5, <1>6 DEF Wanted

(* Pairs by the places of their two flights.                               *)
Pairs == [outbound : Flights, return : Flights]

ByPlaces(x, y) ==
  \/ Place(x.outbound) < Place(y.outbound)
  \/ Place(x.outbound) = Place(y.outbound) /\ Place(x.return) < Place(y.return)

InOrderOfPlaces(list) ==
  /\ list \in Seq(Pairs)
  /\ \A p, q \in DOMAIN list : p < q => ByPlaces(list[p], list[q])

LEMMA KeptInOrderOfPlaces ==
  ASSUME NEW list, InOrderOfPlaces(list), NEW indices \in SUBSET DOMAIN list
  PROVE  /\ InOrderOfPlaces(Kept(list, indices))
         /\ Range(Kept(list, indices)) = {list[i] : i \in indices}
<1> DEFINE kept == Kept(list, indices)
<1>0. list \in Seq(Pairs)
  BY DEF InOrderOfPlaces
<1>1a. kept \in Seq(Pairs)
  BY <1>0, KeptItems
<1>1b. \A i \in indices : \E p \in DOMAIN kept : kept[p] = list[i]
  BY <1>0, KeptItems
<1>1c. \A p \in DOMAIN kept : \E i \in indices : kept[p] = list[i]
  BY <1>0, KeptItems
<1>1d. \A p, q \in DOMAIN kept : p < q =>
         \E i, j \in indices : i < j /\ kept[p] = list[i] /\ kept[q] = list[j]
  BY <1>0, KeptItems
<1> HIDE DEF kept
<1>2. InOrderOfPlaces(kept)
  BY <1>1a, <1>1d DEF InOrderOfPlaces
<1>3. Range(kept) = {list[i] : i \in indices}
  BY <1>1b, <1>1c DEF Range
<1> QED BY <1>2, <1>3 DEF kept

LEMMA EligibleInOrderOfPlaces ==
  ASSUME NEW outs, InCatalogOrder(outs), NEW returns, InCatalogOrder(returns)
  PROVE  /\ InOrderOfPlaces(Eligible(outs, returns))
         /\ Range(Eligible(outs, returns)) =
              {pair \in [outbound : Range(outs), return : Range(returns)] :
                 Connects(pair.outbound, pair.return)}
<1> DEFINE pairs == Eligible(outs, returns)
           Is(p, o, r) == /\ o \in DOMAIN outs /\ r \in DOMAIN returns
                          /\ Connects(outs[o], returns[r])
                          /\ pairs[p] = [outbound |-> outs[o], return |-> returns[r]]
<1>1. outs \in Seq(Flights) /\ returns \in Seq(Flights)
  BY DEF InCatalogOrder
<1>2. /\ pairs \in Seq(Pairs)
      /\ \A o \in DOMAIN outs, r \in DOMAIN returns :
           Connects(outs[o], returns[r]) => \E p \in DOMAIN pairs : Is(p, o, r)
      /\ \A p \in DOMAIN pairs : \E o \in DOMAIN outs, r \in DOMAIN returns : Is(p, o, r)
      /\ \A p, q \in DOMAIN pairs : p < q =>
           \E o, u \in DOMAIN outs, r, v \in DOMAIN returns :
             Is(p, o, r) /\ Is(q, u, v) /\ (o < u \/ (o = u /\ r < v))
  BY <1>1, EligibleItems DEF Pairs
<1> HIDE DEF pairs
<1>3. ASSUME NEW p \in DOMAIN pairs, NEW q \in DOMAIN pairs, p < q
      PROVE  ByPlaces(pairs[p], pairs[q])
  <2>1. PICK o \in DOMAIN outs, u \in DOMAIN outs, r \in DOMAIN returns, v \in DOMAIN returns :
          Is(p, o, r) /\ Is(q, u, v) /\ (o < u \/ (o = u /\ r < v))
    BY <1>2, <1>3
  <2>2. /\ pairs[p].outbound = outs[o] /\ pairs[p].return = returns[r]
        /\ pairs[q].outbound = outs[u] /\ pairs[q].return = returns[v]
    BY <2>1
  <2>3. o < u => Place(outs[o]) < Place(outs[u])
    BY DEF InCatalogOrder
  <2>4. r < v => Place(returns[r]) < Place(returns[v])
    BY DEF InCatalogOrder
  <2> QED BY <2>1, <2>2, <2>3, <2>4 DEF ByPlaces
<1>4. InOrderOfPlaces(pairs)
  BY <1>2, <1>3 DEF InOrderOfPlaces
<1>5. ASSUME NEW pair \in Range(pairs)
      PROVE  /\ pair \in [outbound : Range(outs), return : Range(returns)]
             /\ Connects(pair.outbound, pair.return)
  <2>1. PICK p \in DOMAIN pairs : pair = pairs[p]
    BY DEF Range
  <2>2. PICK o \in DOMAIN outs, r \in DOMAIN returns : Is(p, o, r)
    BY <1>2
  <2>3. outs[o] \in Range(outs) /\ returns[r] \in Range(returns)
    BY DEF Range
  <2> QED BY <2>1, <2>2, <2>3
<1>6. ASSUME NEW pair \in [outbound : Range(outs), return : Range(returns)],
             Connects(pair.outbound, pair.return)
      PROVE  pair \in Range(pairs)
  <2>1. PICK o \in DOMAIN outs : pair.outbound = outs[o]
    BY DEF Range
  <2>2. PICK r \in DOMAIN returns : pair.return = returns[r]
    BY DEF Range
  <2>3. PICK p \in DOMAIN pairs : Is(p, o, r)
    BY <1>2, <1>6, <2>1, <2>2
  <2>4. pairs[p] = pair
    BY <2>1, <2>2, <2>3
  <2> QED BY <2>4 DEF Range
<1> QED BY <1>4, <1>5, <1>6 DEF pairs

LEMMA RoundTripResult ==
  ASSUME request \in SearchRequests, request.return_date # None
  PROVE  LET sorted == RoundTrip(request)
         IN  /\ sorted \in Seq(Pairs)
             /\ Range(sorted) = Wanted
             /\ \A p, q \in DOMAIN sorted : p < q =>
                  \/ Earlier(sorted[p], sorted[q])
                  \/ ~Earlier(sorted[q], sorted[p]) /\ ByPlaces(sorted[p], sorted[q])
<1> DEFINE outs     == ScanCatalog(request.origin, request.destination,
                                   request.departure_date, request.airline)
           returns  == ScanCatalog(request.destination, request.origin,
                                   request.return_date, request.airline)
           eligible == Eligible(outs, returns)
           cheap    == {i \in DOMAIN eligible : InPrice(PairPrice(eligible[i]), request)}
           priced   == Kept(eligible, cheap)
           inHours  == {i \in DOMAIN priced : InWindow(priced[i].outbound, request)}
           timely   == Kept(priced, inHours)
           sorted   == RoundTrip(request)
<1>1. InCatalogOrder(outs) /\ Range(outs) = {f \in Flights : There(f)}
  BY ScanFindsLeg, SearchAssumption DEF There
<1>2. InCatalogOrder(returns) /\ Range(returns) = {f \in Flights : Back(f)}
  BY ScanFindsLeg, SearchAssumption DEF Back
<1>3. sorted = SortPairs(timely)
  BY DEF RoundTrip
<1> HIDE DEF outs, returns, sorted
<1>4. /\ InOrderOfPlaces(eligible)
      /\ Range(eligible) = {pair \in [outbound : Range(outs), return : Range(returns)] :
                              Connects(pair.outbound, pair.return)}
  BY <1>1, <1>2, EligibleInOrderOfPlaces
<1> HIDE DEF eligible
<1>5. InOrderOfPlaces(priced) /\ Range(priced) = {eligible[i] : i \in cheap}
  BY <1>4, KeptInOrderOfPlaces
<1>6. \A i \in DOMAIN eligible : i \in cheap <=> Priced(PairPrice(eligible[i]))
  BY DEF Priced, InPrice, Within
<1> HIDE DEF priced, cheap
<1>7. InOrderOfPlaces(timely) /\ Range(timely) = {priced[i] : i \in inHours}
  BY <1>5, KeptInOrderOfPlaces
<1>8. \A i \in DOMAIN priced : i \in inHours <=> InHours(priced[i].outbound)
  BY DEF InHours, InWindow, Within
<1>9. cheap \subseteq DOMAIN eligible /\ inHours \subseteq DOMAIN priced
  BY DEF cheap
<1> HIDE DEF timely, inHours
<1>10. Range(priced) = {pair \in Range(eligible) : Priced(PairPrice(pair))}
  BY <1>5, <1>6, <1>9 DEF Range
<1>11. Range(timely) = {pair \in Range(priced) : InHours(pair.outbound)}
  BY <1>7, <1>8, <1>9 DEF Range
<1>12. \A f, g \in Flights : Connects(f, g) <=> f.arrival_at + MINIMUM_LAYOVER <= g.departure_at
  BY FlightsHavePlaces, SearchAssumption DEF Connects
<1>13. Range(timely) = Wanted
  <2> DEFINE Offered == {pair \in [outbound : {f \in Flights : There(f)},
                                   return : {f \in Flights : Back(f)}] :
                           /\ Connects(pair.outbound, pair.return)
                           /\ Priced(PairPrice(pair))
                           /\ InHours(pair.outbound)}
  <2>1. Range(timely) = Offered
    BY <1>1, <1>2, <1>4, <1>10, <1>11
  <2>2. Wanted = {pair \in [outbound : {f \in Flights : There(f) /\ InHours(f)},
                            return : {f \in Flights : Back(f)}] :
                    /\ pair.outbound.arrival_at + MINIMUM_LAYOVER <= pair.return.departure_at
                    /\ Priced(PairPrice(pair))}
    BY DEF Wanted
  <2>3. ASSUME NEW pair PROVE pair \in Offered <=> pair \in Wanted
    BY <1>12, <2>2
  <2> QED BY <2>1, <2>3
<1>14. timely \in Seq(Pairs)
  BY <1>7 DEF InOrderOfPlaces
<1>15. \A i \in DOMAIN timely : timely[i] \in Pairs
  BY <1>14
<1>16. \A i \in DOMAIN timely : /\ timely[i].outbound.departure_at \in Nat
                                /\ timely[i].return.departure_at \in Nat
  BY <1>15, FlightsHavePlaces DEF Pairs
<1>17. /\ sorted \in Seq(Pairs)
       /\ \A i \in DOMAIN timely : \E p \in DOMAIN sorted : sorted[p] = timely[i]
       /\ \A p \in DOMAIN sorted : \E i \in DOMAIN timely : sorted[p] = timely[i]
       /\ \A p, q \in DOMAIN sorted : p < q =>
            \E i, j \in DOMAIN timely :
              /\ sorted[p] = timely[i] /\ sorted[q] = timely[j]
              /\ \/ Earlier(timely[i], timely[j])
                 \/ ~Earlier(timely[j], timely[i]) /\ i < j
  BY <1>3, <1>14, <1>16, SortedItems
<1>18. Range(sorted) = Range(timely)
  BY <1>17 DEF Range
<1>19. \A i, j \in DOMAIN timely : i < j => ByPlaces(timely[i], timely[j])
  BY <1>7 DEF InOrderOfPlaces
<1>20. \A p, q \in DOMAIN sorted : p < q =>
         \/ Earlier(sorted[p], sorted[q])
         \/ ~Earlier(sorted[q], sorted[p]) /\ ByPlaces(sorted[p], sorted[q])
  BY <1>17, <1>19
<1> QED BY <1>13, <1>17, <1>18, <1>20 DEF sorted

(* Lists of one and of four numbers, compared from the left.               *)
Lower(k, l) == \E n \in DOMAIN k : k[n] < l[n] /\ \A m \in 1 .. n - 1 : k[m] = l[m]

LEMMA LowerOfFour ==
  ASSUME NEW a \in Nat, NEW b \in Nat, NEW c \in Nat, NEW d \in Nat,
         NEW e \in Nat, NEW f \in Nat, NEW g \in Nat, NEW h \in Nat,
         \/ a < e
         \/ a = e /\ b < f
         \/ a = e /\ b = f /\ c < g
         \/ a = e /\ b = f /\ c = g /\ d < h
  PROVE  Lower(<<a, b, c, d>>, <<e, f, g, h>>)
<1> DEFINE k == <<a, b, c, d>>
           l == <<e, f, g, h>>
<1>1. /\ DOMAIN k = 1 .. 4
      /\ k[1] = a /\ k[2] = b /\ k[3] = c /\ k[4] = d
      /\ l[1] = e /\ l[2] = f /\ l[3] = g /\ l[4] = h
  OBVIOUS
<1> HIDE DEF k, l
<1>2. CASE a < e
  <2>1. 1 \in DOMAIN k /\ k[1] < l[1] /\ \A m \in 1 .. 1 - 1 : k[m] = l[m]
    BY <1>1, <1>2
  <2> QED BY <2>1 DEF Lower, k, l
<1>3. CASE a = e /\ b < f
  <2>1. 2 \in DOMAIN k /\ k[2] < l[2] /\ \A m \in 1 .. 2 - 1 : k[m] = l[m]
    BY <1>1, <1>3
  <2> QED BY <2>1 DEF Lower, k, l
<1>4. CASE a = e /\ b = f /\ c < g
  <2>1. 3 \in DOMAIN k /\ k[3] < l[3] /\ \A m \in 1 .. 3 - 1 : k[m] = l[m]
    BY <1>1, <1>4
  <2> QED BY <2>1 DEF Lower, k, l
<1>5. CASE a = e /\ b = f /\ c = g /\ d < h
  <2>1. 4 \in DOMAIN k /\ k[4] < l[4] /\ \A m \in 1 .. 4 - 1 : k[m] = l[m]
    BY <1>1, <1>5
  <2> QED BY <2>1 DEF Lower, k, l
<1> QED BY <1>2, <1>3, <1>4, <1>5

LEMMA FourNumbers ==
  ASSUME NEW a \in Nat, NEW b \in Nat, NEW c \in Nat, NEW d \in Nat
  PROVE  <<a, b, c, d>> \in [1 .. 4 -> Nat]
<1> DEFINE k == <<a, b, c, d>>
<1>1. DOMAIN k = 1 .. 4 /\ k = [i \in 1 .. 4 |-> k[i]]
  OBVIOUS
<1>2. k[1] = a /\ k[2] = b /\ k[3] = c /\ k[4] = d
  OBVIOUS
<1> HIDE DEF k
<1>3. \A i \in 1 .. 4 : k[i] \in Nat
  BY <1>2
<1>4. k \in [1 .. 4 -> Nat]
  BY <1>1, <1>3
<1> QED BY <1>4 DEF k

LEMMA LowerIsStrict ==
  ASSUME NEW n \in Nat, NEW k \in [1 .. n -> Nat]
  PROVE  ~Lower(k, k)
BY DEF Lower

(* The search answers with every match once, in the order of the keys.     *)
LEMMA ResultIsOrdered ==
  ASSUME request \in SearchRequests
  PROVE  LET results == Results(request)
         IN  /\ results \in Seq(Wanted)
             /\ Range(results) = Wanted
             /\ \A p, q \in DOMAIN results : p < q =>
                  Lower(SortKey(results[p]), SortKey(results[q]))
             /\ \A item \in Wanted : ~Lower(SortKey(item), SortKey(item))
<1> DEFINE results == Results(request)
<1>1. \A S : results \in Seq(S) /\ Range(results) = Wanted => results \in Seq(Wanted)
  BY SeqOfRange
<1>2. CASE request.return_date = None
  <2>1. results = OneWay(request)
    BY <1>2 DEF Results
  <2> HIDE DEF results
  <2>2. InCatalogOrder(results) /\ Range(results) = Wanted
    BY <1>2, <2>1, OneWayResult
  <2>3. Wanted \subseteq Flights
    BY <1>2 DEF Wanted
  <2>4. \A item : SortKey(item) = <<Place(item)>>
    BY <1>2 DEF SortKey
  <2>5. results \in Seq(Flights) /\ results \in Seq(Wanted)
    BY <1>1, <2>2 DEF InCatalogOrder
  <2>6. ASSUME NEW p \in DOMAIN results, NEW q \in DOMAIN results, p < q
        PROVE  Lower(SortKey(results[p]), SortKey(results[q]))
    <3>1. Place(results[p]) < Place(results[q])
      BY <2>2, <2>6 DEF InCatalogOrder
    <3>2. \A m \in 1 .. 1 - 1 : <<Place(results[p])>>[m] = <<Place(results[q])>>[m]
      OBVIOUS
    <3>3. 1 \in DOMAIN <<Place(results[p])>>
      OBVIOUS
    <3> QED BY <2>4, <3>1, <3>2, <3>3 DEF Lower
  <2>7. ASSUME NEW item \in Wanted PROVE ~Lower(SortKey(item), SortKey(item))
    <3>1. Place(item) \in Nat
      BY <2>3, FlightsHavePlaces
    <3>2. SortKey(item) \in [1 .. 1 -> Nat]
      BY <2>4, <3>1
    <3> QED BY <3>2, LowerIsStrict
  <2> QED BY <2>2, <2>5, <2>6, <2>7 DEF results
<1>3. CASE request.return_date # None
  <2>1. results = RoundTrip(request)
    BY <1>3 DEF Results
  <2> HIDE DEF results
  <2>2. /\ results \in Seq(Pairs)
        /\ Range(results) = Wanted
        /\ \A p, q \in DOMAIN results : p < q =>
             \/ Earlier(results[p], results[q])
             \/ ~Earlier(results[q], results[p]) /\ ByPlaces(results[p], results[q])
    BY <1>3, <2>1, RoundTripResult
  <2>3. Wanted \subseteq Pairs
    BY <1>3 DEF Wanted, Pairs
  <2>4. \A item : SortKey(item) = <<item.outbound.departure_at, item.return.departure_at,
                                    Place(item.outbound), Place(item.return)>>
    BY <1>3 DEF SortKey
  <2>5. results \in Seq(Wanted)
    BY <1>1, <2>2
  <2>6. \A item \in Pairs : /\ item.outbound.departure_at \in Nat
                            /\ item.return.departure_at \in Nat
                            /\ Place(item.outbound) \in Nat /\ Place(item.return) \in Nat
    BY FlightsHavePlaces DEF Pairs
  <2>7. \A p \in DOMAIN results : results[p] \in Pairs
    BY <2>2
  <2>8. ASSUME NEW p \in DOMAIN results, NEW q \in DOMAIN results, p < q
        PROVE  Lower(SortKey(results[p]), SortKey(results[q]))
    <3> DEFINE x == results[p]
               y == results[q]
    <3>1. x \in Pairs /\ y \in Pairs
      BY <2>7
    <3>2. Earlier(x, y) \/ (~Earlier(y, x) /\ ByPlaces(x, y))
      BY <2>2, <2>8
    <3> HIDE DEF x, y
    <3>3. \/ x.outbound.departure_at < y.outbound.departure_at
          \/ /\ x.outbound.departure_at = y.outbound.departure_at
             /\ x.return.departure_at < y.return.departure_at
          \/ /\ x.outbound.departure_at = y.outbound.departure_at
             /\ x.return.departure_at = y.return.departure_at
             /\ Place(x.outbound) < Place(y.outbound)
          \/ /\ x.outbound.departure_at = y.outbound.departure_at
             /\ x.return.departure_at = y.return.departure_at
             /\ Place(x.outbound) = Place(y.outbound)
             /\ Place(x.return) < Place(y.return)
      BY <2>6, <3>1, <3>2 DEF Earlier, ByPlaces
    <3>4. Lower(SortKey(x), SortKey(y))
      BY <2>4, <2>6, <3>1, <3>3, LowerOfFour
    <3> QED BY <3>4 DEF x, y
  <2>9. ASSUME NEW item \in Wanted PROVE ~Lower(SortKey(item), SortKey(item))
    <3>1. /\ item.outbound.departure_at \in Nat /\ item.return.departure_at \in Nat
          /\ Place(item.outbound) \in Nat /\ Place(item.return) \in Nat
      BY <2>3, <2>6
    <3>2. SortKey(item) \in [1 .. 4 -> Nat]
      BY <2>4, <3>1, FourNumbers
    <3> QED BY <3>2, LowerIsStrict
  <2> QED BY <2>2, <2>5, <2>8, <2>9 DEF results
<1> QED BY <1>2, <1>3

-----------------------------------------------------------------------------
(* Pages.                                                                  *)

(* A clamped size is a size, and one that may be asked for.                *)
LEMMA ClampType ==
  ASSUME NEW size \in Nat \ {0}
  PROVE  Clamp(size) \in 1 .. MAX_PAGE_SIZE
BY PagingAssumption DEF Clamp

(* Some beginning of the list and the page that follows it are a longer    *)
(* beginning of the list, as long as the pages so far had anything to add. *)
LEMMA NextPageJoins ==
  ASSUME NEW S, NEW items \in Seq(S), NEW size \in Nat \ {0}, NEW n \in Nat,
         n * size <= Len(items)
  PROVE  /\ SubSeq(items, 1, AtMost(n * size, Len(items))) \o Page(items, n + 1, size)
              = SubSeq(items, 1, AtMost((n + 1) * size, Len(items)))
         /\ AtMost((n + 1) * size, Len(items)) \in 0 .. Len(items)
<1> DEFINE k == n * size
           m == AtMost(k + size, Len(items))
<1>1. k \in Nat
  OBVIOUS
<1>2. (n + 1) * size = k + size /\ Start(n + 1, size) = k
  BY DEF Start
<1>3. Len(items) \in Nat
  OBVIOUS
<1>4. AtMost(n * size, Len(items)) = k
  BY <1>1, <1>3 DEF AtMost
<1>5. m \in k .. Len(items)
  BY <1>1, <1>3 DEF AtMost
<1>6. Page(items, n + 1, size) = SubSeq(items, k + 1, m)
  BY <1>2 DEF Page
<1>7. SubSeq(items, 1, k) \o SubSeq(items, k + 1, m) = SubSeq(items, 1, m)
  <2>1. 1 \in 1 .. Len(items) + 1 /\ k \in 1 - 1 .. Len(items)
    BY <1>1, <1>3
  <2> HIDE DEF k, m
  <2> QED
    BY <2>1, <1>5, ConcatAdjacentSubSeq
<1>8. AtMost((n + 1) * size, Len(items)) = m
  BY <1>2
<1>9. m \in 0 .. Len(items)
  BY <1>1, <1>5
<1> HIDE DEF k, m
<1> QED
  BY <1>4, <1>6, <1>7, <1>8, <1>9

(* The beginning of a list is as long as it says.                          *)
LEMMA BeginningLength ==
  ASSUME NEW S, NEW items \in Seq(S), NEW n \in 0 .. Len(items)
  PROVE  Len(SubSeq(items, 1, n)) = n
<1>1. \A i \in 1 .. n : items[i] \in S
  OBVIOUS
<1> QED
  BY <1>1, SubSeqProperties

LEMMA ResultsAreLists ==
  request \in SearchRequests => Results(request) \in Seq(Range(Results(request)))
BY ResultIsOrdered

-----------------------------------------------------------------------------
(* PagesAddUp is inductive together with what the client knows of the      *)
(* total and with the types.                                               *)
WalkInv ==
  /\ request \in SearchRequests
  /\ page \in Nat
  /\ page > 0 => total = Len(Results(request))
  /\ PagesAddUp

LEMMA WalkInit == SearchInit => WalkInv
<1> SUFFICES ASSUME SearchInit PROVE WalkInv
  OBVIOUS
<1> USE DEF SearchInit
<1> DEFINE S == Range(Results(request))
<1>1. Results(request) \in Seq(S)
  BY ResultsAreLists
<1>2. Clamp(request.size) \in Nat /\ Len(Results(request)) \in Nat
  BY <1>1, ClampType, SearchAssumption, PagingAssumption
<1>3. AtMost(page * Clamp(request.size), Len(Results(request))) = 0
  BY <1>2 DEF AtMost
<1>4. SubSeq(Results(request), 1, 0) = <<>>
  BY SubSeqEmpty
<1>5. Len(received) = 0
  OBVIOUS
<1> QED
  BY <1>3, <1>4, <1>5 DEF WalkInv, PagesAddUp, Finished

LEMMA WalkNext == WalkInv /\ [ReadPage]_searchVars => WalkInv'
<1> SUFFICES ASSUME WalkInv, [ReadPage]_searchVars PROVE WalkInv'
  OBVIOUS
<1>1. CASE UNCHANGED searchVars
  BY <1>1 DEF WalkInv, PagesAddUp, Finished, searchVars
<1>2. CASE ReadPage
  <2> DEFINE results == Results(request)
             size    == Clamp(request.size)
             S       == Range(results)
             k       == AtMost(page * size, Len(results))
             m       == AtMost((page + 1) * size, Len(results))
  <2>1. request \in SearchRequests /\ page \in Nat
    BY DEF WalkInv
  <2>2. results \in Seq(S) /\ Len(results) \in Nat
    BY <2>1, ResultsAreLists
  <2>3. size \in Nat \ {0}
    BY <2>1, ClampType, SearchAssumption, PagingAssumption
  <2>4. received = SubSeq(results, 1, k) /\ Len(received) = k
    BY DEF WalkInv, PagesAddUp
  <2>5. page * size <= Len(results)
    <3>1. page * size \in Nat
      BY <2>1, <2>3
    <3>2. CASE page = 0
      BY <3>2, <2>2, <2>3
    <3>3. CASE page > 0
      <4>1. Len(received) # Len(results)
        BY <1>2, <3>3 DEF ReadPage, Finished, WalkInv
      <4> QED
        BY <4>1, <2>2, <2>4, <3>1 DEF AtMost
    <3> QED
      BY <2>1, <3>2, <3>3
  <2>6. /\ page' = page + 1
        /\ total' = Len(results)
        /\ received' = received \o Page(results, page + 1, size)
        /\ request' = request
    BY <1>2 DEF ReadPage, Answer
  <2>7. /\ SubSeq(results, 1, k) \o Page(results, page + 1, size) = SubSeq(results, 1, m)
        /\ m \in 0 .. Len(results)
    <3> HIDE DEF results, size, S
    <3> QED
      BY <2>1, <2>2, <2>3, <2>5, NextPageJoins
  <2>8. received' = SubSeq(results, 1, m)
    BY <2>4, <2>6, <2>7
  <2>9. Len(received') = m
    <3> HIDE DEF results, size, S, m
    <3> QED
      BY <2>2, <2>7, <2>8, BeginningLength
  <2>10. Finished' => received' = results
    <3> SUFFICES ASSUME Finished' PROVE received' = results
      OBVIOUS
    <3>1. m = Len(results)
      BY <2>6, <2>9 DEF Finished
    <3>2. SubSeq(results, 1, Len(results)) = results
      BY <2>2, SubSeqFull
    <3> QED
      BY <2>8, <3>1, <3>2
  <2>11. Results(request') = results
    BY <2>6
  <2> QED
    BY <2>1, <2>6, <2>8, <2>9, <2>10, <2>11 DEF WalkInv, PagesAddUp, results, size, m
<1> QED
  BY <1>1, <1>2 DEF ReadPage

(* What the walk knows of the result is all that the invariants say.       *)
LEMMA WalkReads ==
  ASSUME WalkInv
  PROVE  /\ Len(received) \in 0 .. Len(Results(request))
         /\ DOMAIN received = 1 .. Len(received)
         /\ \A i \in DOMAIN received : /\ i \in DOMAIN Results(request)
                                       /\ received[i] = Results(request)[i]
<1> DEFINE results == Results(request)
           n       == Len(received)
<1>1. results \in Seq(Wanted)
  BY ResultIsOrdered DEF WalkInv
<1>2. /\ received = SubSeq(results, 1, n)
      /\ n = AtMost(page * Clamp(request.size), Len(results))
  BY DEF WalkInv, PagesAddUp
<1>3. page \in Nat /\ Clamp(request.size) \in Nat
  BY ClampType, SearchAssumption, PagingAssumption DEF WalkInv
<1>4. page * Clamp(request.size) \in Nat
  BY <1>3
<1> HIDE DEF results, n
<1>5. Len(results) \in Nat
  BY <1>1
<1>6. n \in 0 .. Len(results)
  BY <1>2, <1>4, <1>5 DEF AtMost
<1>7. /\ DOMAIN SubSeq(results, 1, n) = 1 .. n
      /\ \A i \in 1 .. n : SubSeq(results, 1, n)[i] = results[i]
  BY <1>1, <1>5, <1>6
<1>8. \A i \in 1 .. n : i \in DOMAIN results
  BY <1>1, <1>6
<1> QED BY <1>2, <1>6, <1>7, <1>8 DEF results, n

LEMMA WalkInOrder == WalkInv => PagesInOrder
<1> SUFFICES ASSUME WalkInv, NEW i \in DOMAIN received, NEW j \in DOMAIN received, i < j
             PROVE  Lower(SortKey(received[i]), SortKey(received[j]))
  BY DEF PagesInOrder, Lower
<1>1. request \in SearchRequests
  BY DEF WalkInv
<1> QED BY <1>1, WalkReads, ResultIsOrdered

LEMMA WalkFindsOnce == WalkInv => EveryMatchOnce
<1> SUFFICES ASSUME WalkInv PROVE EveryMatchOnce
  OBVIOUS
<1> DEFINE results == Results(request)
<1>1. /\ results \in Seq(Wanted)
      /\ Range(results) = Wanted
      /\ \A p, q \in DOMAIN results : p < q =>
           Lower(SortKey(results[p]), SortKey(results[q]))
      /\ \A item \in Wanted : ~Lower(SortKey(item), SortKey(item))
  BY ResultIsOrdered DEF WalkInv
<1>2. /\ Len(received) \in Nat
      /\ DOMAIN received = 1 .. Len(received)
      /\ \A i \in DOMAIN received : i \in DOMAIN results /\ received[i] = results[i]
  BY WalkReads
<1>3. Finished => received = results
  BY DEF WalkInv, PagesAddUp
<1> HIDE DEF results
<1>4. \A i \in DOMAIN received : received[i] \in Wanted
  BY <1>1, <1>2
<1>5. \A i, j \in DOMAIN received : i < j => received[i] # received[j]
  BY <1>1, <1>2, <1>4
<1>6. IsInjective(received)
  BY <1>2, <1>5 DEF IsInjective
<1>7. Range(received) \subseteq Wanted
  BY <1>4 DEF Range
<1> QED BY <1>1, <1>3, <1>6, <1>7 DEF EveryMatchOnce

LEMMA WalkTyped == WalkInv => SearchTypeOK
<1> SUFFICES ASSUME WalkInv PROVE SearchTypeOK
  OBVIOUS
<1> DEFINE results == Results(request)
           size    == Clamp(request.size)
<1>1. /\ results \in Seq(Wanted)
      /\ Range(results) = Wanted
      /\ \A p, q \in DOMAIN results : p < q =>
           Lower(SortKey(results[p]), SortKey(results[q]))
      /\ \A item \in Wanted : ~Lower(SortKey(item), SortKey(item))
  BY ResultIsOrdered DEF WalkInv
<1>2. /\ request \in SearchRequests /\ page \in Nat
      /\ page > 0 => total = Len(results)
      /\ Len(received) = AtMost(page * size, Len(results))
      /\ Len(received) \in 0 .. Len(results)
  BY WalkReads DEF WalkInv, PagesAddUp
<1>3. /\ size \in 1 .. MAX_PAGE_SIZE /\ MAX_PAGE_SIZE \in Nat
      /\ size = AtMost(request.size, MAX_PAGE_SIZE)
  BY <1>2, ClampType, SearchAssumption, PagingAssumption DEF Clamp, AtMost
<1> HIDE DEF results, size
<1>4. Len(results) \in Nat /\ DOMAIN results = 1 .. Len(results)
  BY <1>1
<1>5. Cardinality(Wanted) = Len(results)
  <2>1. \A p \in DOMAIN results : results[p] \in Wanted
    BY <1>1
  <2>2. \A p, q \in DOMAIN results : p < q => results[p] # results[q]
    BY <1>1, <2>1
  <2>3. IsInjective(results)
    BY <1>4, <2>2 DEF IsInjective
  <2>4. results \in [1 .. Len(results) -> Wanted]
    BY <1>1, <1>4
  <2>5. \A item \in Wanted : \E p \in 1 .. Len(results) : results[p] = item
    BY <1>1, <1>4 DEF Range
  <2>6. results \in Bijection(1 .. Len(results), Wanted)
    BY <2>3, <2>4, <2>5 DEF Bijection, Injection, Surjection
  <2>7. ExistsBijection(1 .. Len(results), Wanted)
    BY <2>6 DEF ExistsBijection
  <2> QED BY <1>4, <2>7, FS_CountingElements
<1>6. page * size \in Nat /\ page * size <= page * MAX_PAGE_SIZE /\ page * MAX_PAGE_SIZE \in Nat
  BY <1>2, <1>3
<1>7. Len(received) <= page * MAX_PAGE_SIZE
  BY <1>2, <1>4, <1>6 DEF AtMost
<1>8. ASSUME ~Finished PROVE Len(received) = page * size
  <2>1. CASE page = 0
    BY <1>2, <1>3, <1>4, <2>1 DEF AtMost
  <2>2. CASE page > 0
    BY <1>2, <1>4, <1>6, <1>8, <2>2 DEF AtMost, Finished
  <2> QED BY <1>2, <2>1, <2>2
<1> QED BY <1>2, <1>3, <1>5, <1>7, <1>8 DEF SearchTypeOK

LEMMA WalkKeepsItsInvariant == SearchSpec => []WalkInv
BY WalkInit, WalkNext, PTL DEF SearchSpec

(* Whatever the catalog, the request and the page size, the pages read so  *)
(* far are the beginning of the result, and the walk ends with all of it:  *)
(* slicing loses and repeats nothing between two requests.                 *)
THEOREM PagesJoin == SearchSpec => []PagesAddUp
<1>1. WalkInv => PagesAddUp
  BY DEF WalkInv
<1> QED
  BY <1>1, WalkKeepsItsInvariant, PTL

(* The total of every page counts the matches of all pages, and only the   *)
(* last page may be short.                                                 *)
THEOREM SearchIsTyped == SearchSpec => []SearchTypeOK
BY WalkKeepsItsInvariant, WalkTyped, PTL

(* Whatever the filters and however many pages, the client is offered      *)
(* every flight or pair it asked for once, and nothing else.               *)
THEOREM MatchesFoundOnce == SearchSpec => []EveryMatchOnce
BY WalkKeepsItsInvariant, WalkFindsOnce, PTL

(* The stable sort gives pages of separate requests one order.             *)
THEOREM PagesComeInOrder == SearchSpec => []PagesInOrder
BY WalkKeepsItsInvariant, WalkInOrder, PTL
=============================================================================
