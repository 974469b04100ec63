-------------------------------- MODULE Search --------------------------------
(***************************************************************************)
(* GET /flights/search: the repository's scan, the filters of the search   *)
(* service, round trips, and the pages of the handler.  Nothing is kept    *)
(* between two requests: every page is a search of its own, and a client   *)
(* that walks the pages puts the result together again.                    *)
(*                                                                         *)
(* Times are hours since the start of day 0; the catalog is the list the   *)
(* repository's dictionary enumerates, in the order flights were added.    *)
(***************************************************************************)
EXTENDS Paging, FiniteSets, Functions

CONSTANTS
  Catalog,                \* a sequence of flights
  SearchRequests,
  None,                   \* no value: one way, or a filter that is not given
  Day,                    \* hours of a day
  MINIMUM_LAYOVER

ASSUME SearchAssumption ==
  /\ Day \in Nat \ {0}
  /\ MINIMUM_LAYOVER \in Nat
  /\ None \notin Nat
  /\ Catalog \in Seq(Range(Catalog))
  /\ \A i \in DOMAIN Catalog : /\ Catalog[i].departure_at \in Nat
                               /\ Catalog[i].arrival_at \in Nat
                               /\ Catalog[i].base_fare \in Nat
  /\ \A i, j \in DOMAIN Catalog : i # j => Catalog[i].id # Catalog[j].id
  /\ \A r \in SearchRequests : /\ r.size \in Nat \ {0}
                               /\ r.departure_date \in Nat
                               /\ r.return_date \in Nat \cup {None}

DateOf(flight) == flight.departure_at \div Day

TimeOf(flight) == flight.departure_at % Day

-----------------------------------------------------------------------------
(* Lists.  before[i] is the set of the indices that come before i.          *)

Arranged(before) ==
  [place \in 1 .. Cardinality(DOMAIN before) |->
     CHOOSE i \in DOMAIN before : Cardinality(before[i]) = place - 1]

(* [item for item in items if ...]: the items at some of the indices.       *)
Kept(items, indices) ==
  LET at == Arranged([i \in indices |-> {j \in indices : j < i}])
  IN  [place \in DOMAIN at |-> items[at[place]]]

-----------------------------------------------------------------------------
(* InMemoryFlightRepository.search.                                        *)

ScanCatalog(origin, destination, date, airline) ==
  Kept(Catalog, {i \in DOMAIN Catalog :
    /\ Catalog[i].origin = origin
    /\ Catalog[i].destination = destination
    /\ DateOf(Catalog[i]) = date
    /\ airline \in {None, Catalog[i].airline}})

(* Filters.  A bound that is given is inclusive.                           *)
Within(value, from, to) ==
  /\ from = None \/ value >= from
  /\ to = None \/ value <= to

InPrice(price, request) == Within(price, request.min_price, request.max_price)

InWindow(flight, request) ==
  Within(TimeOf(flight), request.departure_time_from, request.departure_time_to)

-----------------------------------------------------------------------------
(* SearchService.search: matches in the order of the catalog.              *)

OneWay(request) ==
  LET matches == ScanCatalog(request.origin, request.destination,
                             request.departure_date, request.airline)
      priced  == Kept(matches, {i \in DOMAIN matches : InPrice(matches[i].base_fare, request)})
  IN  Kept(priced, {i \in DOMAIN priced : InWindow(priced[i], request)})

(* SearchService.search_round_trip.                                        *)

(* Mutant: the layover is counted from the take-off.                       *)
LayoverFromDeparture(outbound, return) ==
  return.departure_at >= outbound.departure_at + MINIMUM_LAYOVER

(* The minimum itself is enough, as test_round_trip.py:8 has it; slice 08  *)
(* and user-stories.md:175 ask for more than two hours.                    *)
Connects(outbound, return) ==
  return.departure_at >= outbound.arrival_at + MINIMUM_LAYOVER

(* Every outbound with every return it connects to, the returns running    *)
(* faster.                                                                 *)
Eligible(outs, returns) ==
  LET indices == {x \in (DOMAIN outs) \X (DOMAIN returns) :
                    Connects(outs[x[1]], returns[x[2]])}
      at      == Arranged([x \in indices |->
                             {y \in indices : y[1] < x[1] \/ (y[1] = x[1] /\ y[2] < x[2])}])
  IN  [place \in DOMAIN at |->
         [outbound |-> outs[at[place][1]], return |-> returns[at[place][2]]]]

PairPrice(pair) == pair.outbound.base_fare + pair.return.base_fare

(* Mutant: only the outbound departure orders the pairs.                   *)
ByOutbound(p, q) == p.outbound.departure_at < q.outbound.departure_at

Earlier(p, q) ==
  \/ p.outbound.departure_at < q.outbound.departure_at
  \/ /\ p.outbound.departure_at = q.outbound.departure_at
     /\ p.return.departure_at < q.return.departure_at

(* list.sort is stable: pairs that leave at the same times keep the order  *)
(* they come in.                                                           *)
SortPairs(pairs) ==
  LET Precedes(i, j) == \/ Earlier(pairs[i], pairs[j])
                        \/ ~Earlier(pairs[j], pairs[i]) /\ i < j
      at == Arranged([i \in DOMAIN pairs |-> {j \in DOMAIN pairs : Precedes(j, i)}])
  IN  [place \in DOMAIN at |-> pairs[at[place]]]

RoundTrip(request) ==
  LET outs     == ScanCatalog(request.origin, request.destination,
                              request.departure_date, request.airline)
      returns  == ScanCatalog(request.destination, request.origin,
                              request.return_date, request.airline)
      eligible == Eligible(outs, returns)
      priced   == Kept(eligible, {i \in DOMAIN eligible : InPrice(PairPrice(eligible[i]), request)})
      timely   == Kept(priced, {i \in DOMAIN priced : InWindow(priced[i].outbound, request)})
  IN  SortPairs(timely)

Results(request) == IF request.return_date = None THEN OneWay(request) ELSE RoundTrip(request)

(* One answer: a page and what the client needs to ask for the others.     *)
Answer(request, page) ==
  LET results == Results(request)
      size    == Clamp(request.size)
  IN  [items |-> Page(results, page, size), page |-> page, size |-> size,
       total |-> Len(results)]

-----------------------------------------------------------------------------
(* A client reads the pages of a request one after the other, until it has *)
(* as many items as the last answer says there are.                        *)

VARIABLES
  request,                \* what it is looking for
  page,                   \* the last page it has read
  total,                  \* what that page said the total is
  received                \* the items of all its pages so far

searchVars == <<request, page, total, received>>

SearchInit ==
  /\ request \in SearchRequests
  /\ page = 0
  /\ total = 0
  /\ received = <<>>

Finished == page > 0 /\ Len(received) = total

ReadPage ==
  /\ ~Finished
  /\ LET answer == Answer(request, page + 1)
     IN  /\ page' = answer.page
         /\ total' = answer.total
         /\ received' = received \o answer.items
  /\ UNCHANGED request

SearchSpec == SearchInit /\ [][ReadPage]_searchVars

-----------------------------------------------------------------------------
(* Properties.                                                             *)

(* What the request asks for, condition by condition and without an order. *)
Leg(flight, origin, destination, date) ==
  /\ flight.origin = origin
  /\ flight.destination = destination
  /\ date * Day <= flight.departure_at /\ flight.departure_at < (date + 1) * Day
  /\ request.airline # None => flight.airline = request.airline

Priced(price) ==
  /\ request.min_price # None => price >= request.min_price
  /\ request.max_price # None => price <= request.max_price

InHours(flight) ==
  /\ request.departure_time_from # None => TimeOf(flight) >= request.departure_time_from
  /\ request.departure_time_to # None => TimeOf(flight) <= request.departure_time_to

There(flight) == Leg(flight, request.origin, request.destination, request.departure_date)
Back(flight)  == Leg(flight, request.destination, request.origin, request.return_date)

Flights == Range(Catalog)

Wanted ==
  IF request.return_date = None
    THEN {f \in Flights : There(f) /\ Priced(f.base_fare) /\ InHours(f)}
    ELSE {pair \in [outbound : {f \in Flights : There(f) /\ InHours(f)},
                    return   : {f \in Flights : Back(f)}] :
            /\ pair.outbound.arrival_at + MINIMUM_LAYOVER <= pair.return.departure_at
            /\ Priced(PairPrice(pair))}

(* Type invariant: the total of every page counts the matches of all       *)
(* pages, no page is longer than the maximum, and one that does not end    *)
(* the walk is full.                                                       *)
SearchTypeOK ==
  /\ request \in SearchRequests
  /\ page \in Nat
  /\ page > 0 => total = Cardinality(Wanted)
  /\ Len(received) <= page * MAX_PAGE_SIZE
  /\ ~Finished => Len(received) = page * AtMost(request.size, MAX_PAGE_SIZE)

(* What has been read is the beginning of the result, as much of it as the *)
(* pages hold, and all of it at the end: pages of separate requests join   *)
(* without a gap or an overlap.                                            *)
PagesAddUp ==
  LET results == Results(request)
  IN  /\ Len(received) = AtMost(page * Clamp(request.size), Len(results))
      /\ received = SubSeq(results, 1, Len(received))
      /\ Finished => received = results

(* Who reads all the pages gets every match once and nothing else: no      *)
(* filter hides the effect of another, and none is applied to the wrong    *)
(* leg.  Wanted has the layover rule of the code, which includes its       *)
(* bound; the documents that exclude it are named at Connects.             *)
EveryMatchOnce ==
  /\ IsInjective(received)
  /\ Range(received) \subseteq Wanted
  /\ Finished => Range(received) = Wanted

(* Across pages, round trips come by departure and then by return, and     *)
(* what leaves at the same times comes in the order of the catalog, so     *)
(* that pages of separate requests fit together.                           *)
Place(flight) == CHOOSE i \in DOMAIN Catalog : Catalog[i] = flight

SortKey(item) ==
  IF request.return_date = None
    THEN <<Place(item)>>
    ELSE <<item.outbound.departure_at, item.return.departure_at,
           Place(item.outbound), Place(item.return)>>

PagesInOrder ==
  \A i, j \in DOMAIN received : i < j =>
    LET p == SortKey(received[i])
        q == SortKey(received[j])
    IN  \E k \in DOMAIN p : p[k] < q[k] /\ \A m \in 1 .. k - 1 : p[m] = q[m]
=============================================================================
