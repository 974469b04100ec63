------------------------------- MODULE MCSearch -------------------------------
(* Two outbounds that leave together, one that lands after midnight;       *)
(* returns that leave exactly two hours after a landing, one hour after,   *)
(* and together; dear and cheap ones; flights of other days and routes.    *)
EXTENDS Search

Trip(id, origin, destination, from, to, airline, fare) ==
  [id |-> id, origin |-> origin, destination |-> destination, departure_at |-> from,
   arrival_at |-> to, airline |-> airline, base_fare |-> fare]

MCCatalog ==
  <<Trip("n1", "LAX", "NYC", 8, 13, "AA", 300),
    Trip("n2", "LAX", "NYC", 8, 13, "UA", 200),
    Trip("n3", "LAX", "SEA", 8, 13, "AA", 300),
    Trip("n4", "LAX", "NYC", 20, 25, "AA", 100),
    Trip("n5", "LAX", "NYC", 24, 29, "AA", 300),
    Trip("b1", "NYC", "LAX", 15, 20, "AA", 300),
    Trip("b2", "NYC", "LAX", 14, 19, "UA", 200),
    Trip("b3", "NYC", "LAX", 27, 32, "UA", 200),
    Trip("b4", "NYC", "LAX", 27, 32, "AA", 400),
    Trip("b5", "NYC", "LAX", 26, 31, "AA", 300)>>

Request(return_date, airline, min, max, from, to, size) ==
  [origin |-> "LAX", destination |-> "NYC", departure_date |-> 0, return_date |-> return_date,
   airline |-> airline, min_price |-> min, max_price |-> max, departure_time_from |-> from,
   departure_time_to |-> to, size |-> size]

MCRequests ==
  {Request(return_date, airline, min, max, from, to, size) :
     return_date \in {None, 0, 1}, airline \in {None, "AA"}, min \in {None, 0, 300},
     max \in {None, 300, 500}, from \in {None, 8, 9}, to \in {None, 8, 19}, size \in 1 .. 4}
=============================================================================
