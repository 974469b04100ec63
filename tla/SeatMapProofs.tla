---------------------------- MODULE SeatMapProofs ----------------------------
(***************************************************************************)
(* Seat maps, for every number of viewers, seats, threads and requests.    *)
(*                                                                         *)
(* Views change nothing of the write side, so every theorem about the      *)
(* booking system carries over to the system with views.  And although a   *)
(* view mixes several moments, each seat that stood still is shown as it   *)
(* is: each reading was true at some moment of the view, and the times the *)
(* readings use are not ahead of the clock.                                *)
(***************************************************************************)
EXTENDS SeatMapProperties, LedgerProofs

USE SeatMapAssumption

LEMMA SeatMapStepOfSystem == [SeatMapNext]_seatMapVars => [SystemNext]_systemVars
BY DEF SeatMapNext, seatMapVars

(* With seat maps being served, the write side behaves as specified on its *)
(* own: a view disturbs nobody.                                            *)
THEOREM ViewsLeaveTheSystem == SeatMapSpec => SystemSpec
<1>1. SeatMapInit => SystemInit
  BY DEF SeatMapInit
<1> QED BY <1>1, SeatMapStepOfSystem, PTL DEF SeatMapSpec, SystemSpec

-----------------------------------------------------------------------------

(* The records of the store have a time.                                   *)
LEMMA RecordsHaveTimes ==
  ASSUME LockInv, NEW s \in SeatId, bySeat[s] # None
  PROVE  bySeat[s].expires_at \in Nat
BY DEF LockInv, LockTypeOK, LockRecord

(* A lock that is live now is live for a view that goes by an older time.  *)
LEMMA LiveForOlderStamp ==
  ASSUME LockInv, NEW s \in SeatId, NEW now \in Nat, now <= clock, Live(bySeat[s], clock)
  PROVE  Live(bySeat[s], now)
<1>1. bySeat[s].expires_at \in Nat /\ clock \in Nat
  BY RecordsHaveTimes DEF Live, LockInv, LockTypeOK
<1> QED BY <1>1 DEF Live

LEMMA SeatsOfFlight ==
  ASSUME NEW f \in Flight PROVE f \in FlightId /\ DOMAIN Cabin[f] \subseteq SeatId
BY CatalogAssumption

LEMMA SeatMapInitInv == SeatMapInit => SeatMapInv
BY DEF SeatMapInit, ViewsInit, SeatMapInv, ViewsWellFormed, CaseNowSeen, SnapshotWasTrue,
       EverySeatAsked, QueriesWereTrue, AnswersAreFinished, SettledSeatsAreShown, Answered, ViewingAt

-----------------------------------------------------------------------------
(* What may happen to one view in a step.                                  *)

Stands(w) == viewing'[w] = viewing[w] /\ seatMap'[w] = seatMap[w]

MovesOn(w) ==
  \/ \E request \in ViewRequests : StartView(w, request)
  \/ SnapshotBookings(w)
  \/ StampView(w)
  \/ \E s \in SeatId : QueryLock(w, s)
  \/ PublishView(w)

LEMMA OneViewMoves ==
  ASSUME ViewsWellFormed, SeatMapNext, NEW w \in ViewWorkers
  PROVE  Stands(w) \/ (MovesOn(w) /\ UNCHANGED systemVars)
<1>1. CASE UNCHANGED viewVars
  BY <1>1 DEF Stands, viewVars
<1>2. ASSUME NEW v \in ViewWorkers, MovesOn(v), v # w PROVE Stands(w)
  BY <1>2 DEF MovesOn, Stands, StartView, SnapshotBookings, StampView, QueryLock,
              PublishView, ViewsWellFormed
<1>3. CASE ViewNext /\ UNCHANGED systemVars
  BY <1>2, <1>3 DEF ViewNext, ViewStep, MovesOn
<1> QED BY <1>1, <1>3 DEF SeatMapNext

ViewRecord(w) ==
  viewing[w] = [stage    |-> viewing[w].stage,
                request  |-> viewing[w].request,
                occupied |-> viewing[w].occupied,
                now      |-> viewing[w].now,
                unread   |-> viewing[w].unread,
                against  |-> viewing[w].against]

(* The three steps that add a reading to a view, field by field.           *)

LEMMA RecordFields ==
  ASSUME NEW view, NEW stage, NEW request, NEW occupied, NEW now, NEW unread, NEW against,
         view = [stage    |-> stage,
                 request  |-> request,
                 occupied |-> occupied,
                 now      |-> now,
                 unread   |-> unread,
                 against  |-> against]
  PROVE  /\ view.stage = stage /\ view.request = request /\ view.occupied = occupied
         /\ view.now = now /\ view.unread = unread /\ view.against = against
         /\ view = [stage    |-> view.stage,
                    request  |-> view.request,
                    occupied |-> view.occupied,
                    now      |-> view.now,
                    unread   |-> view.unread,
                    against  |-> view.against]
OBVIOUS

LEMMA SnapshotEffect ==
  ASSUME ViewsWellFormed, NEW w \in ViewWorkers, SnapshotBookings(w)
  PROVE  /\ viewing'[w].stage = "clock"
         /\ viewing'[w].request = viewing[w].request
         /\ viewing'[w].occupied = UNION {bookings[r].seat_ids :
                                          r \in BookingsOf(viewing[w].request.flight_id)}
         /\ viewing'[w].now = viewing[w].now
         /\ viewing'[w].unread = viewing[w].unread
         /\ viewing'[w].against = viewing[w].against
         /\ ViewRecord(w)'
         /\ viewing' = [v \in ViewWorkers |-> IF v = w THEN viewing'[w] ELSE viewing[v]]
<1> DEFINE occupied == UNION {bookings[r].seat_ids :
                                r \in BookingsOf(viewing[w].request.flight_id)}
<1>1. /\ viewing[w] # None
      /\ viewing' = [viewing EXCEPT ![w] = [[@ EXCEPT !.stage = "clock"]
                                              EXCEPT !.occupied = occupied]]
  BY DEF SnapshotBookings, ViewingAt
<1> HIDE DEF occupied
<1>2. viewing'[w] = [[viewing[w] EXCEPT !.stage = "clock"] EXCEPT !.occupied = occupied]
  BY <1>1 DEF ViewsWellFormed
<1>3. ViewRecord(w)
  BY <1>1 DEF ViewsWellFormed, ViewRecord
<1>4. viewing'[w] = [stage    |-> "clock",
                     request  |-> viewing[w].request,
                     occupied |-> occupied,
                     now      |-> viewing[w].now,
                     unread   |-> viewing[w].unread,
                     against  |-> viewing[w].against]
  BY <1>2, <1>3 DEF ViewRecord
<1>5. viewing' = [v \in ViewWorkers |-> IF v = w THEN viewing'[w] ELSE viewing[v]]
  BY <1>1 DEF ViewsWellFormed
<1> QED BY <1>4, <1>5, RecordFields DEF occupied, ViewRecord

LEMMA StampEffect ==
  ASSUME ViewsWellFormed, NEW w \in ViewWorkers, StampView(w)
  PROVE  /\ viewing'[w].stage = "locks"
         /\ viewing'[w].request = viewing[w].request
         /\ viewing'[w].occupied = viewing[w].occupied
         /\ viewing'[w].now = clock
         /\ viewing'[w].unread = viewing[w].unread
         /\ viewing'[w].against = viewing[w].against
         /\ ViewRecord(w)'
         /\ viewing' = [v \in ViewWorkers |-> IF v = w THEN viewing'[w] ELSE viewing[v]]
<1>1. /\ viewing[w] # None
      /\ viewing' = [viewing EXCEPT ![w] = [[@ EXCEPT !.stage = "locks"] EXCEPT !.now = clock]]
  BY DEF StampView, ViewingAt
<1>2. viewing'[w] = [[viewing[w] EXCEPT !.stage = "locks"] EXCEPT !.now = clock]
  BY <1>1 DEF ViewsWellFormed
<1>3. ViewRecord(w)
  BY <1>1 DEF ViewsWellFormed, ViewRecord
<1>4. viewing' = [v \in ViewWorkers |-> IF v = w THEN viewing'[w] ELSE viewing[v]]
  BY <1>1 DEF ViewsWellFormed
<1>5. viewing'[w] = [stage    |-> "locks",
                     request  |-> viewing[w].request,
                     occupied |-> viewing[w].occupied,
                     now      |-> clock,
                     unread   |-> viewing[w].unread,
                     against  |-> viewing[w].against]
  BY <1>2, <1>3 DEF ViewRecord
<1> QED BY <1>4, <1>5, RecordFields DEF ViewRecord

Found(w, s) == LockedAgainst(FindActiveLockForSeat(s, viewing[w].now),
                             viewing[w].request.session_id)

LEMMA QueryEffect ==
  ASSUME ViewsWellFormed, NEW w \in ViewWorkers, NEW s \in SeatId, QueryLock(w, s)
  PROVE  /\ viewing'[w].stage = viewing[w].stage
         /\ viewing'[w].request = viewing[w].request
         /\ viewing'[w].occupied = viewing[w].occupied
         /\ viewing'[w].now = viewing[w].now
         /\ viewing'[w].unread = viewing[w].unread \ {s}
         /\ viewing'[w].against = IF Found(w, s) THEN viewing[w].against \cup {s}
                                                ELSE viewing[w].against
         /\ ViewRecord(w)'
         /\ viewing' = [v \in ViewWorkers |-> IF v = w THEN viewing'[w] ELSE viewing[v]]
<1> DEFINE unread  == viewing[w].unread \ {s}
           against == IF Found(w, s) THEN viewing[w].against \cup {s} ELSE viewing[w].against
<1>1. ViewRecord(w) /\ viewing[w] # None
  BY DEF ViewsWellFormed, ViewRecord, QueryLock, ViewingAt
<1>2. viewing' = [viewing EXCEPT ![w].unread = @ \ {s},
                                 ![w].against = IF Found(w, s) THEN @ \cup {s} ELSE @]
  BY Zenon DEF QueryLock, Found
<1>3. viewing'[w] = [[viewing[w] EXCEPT !.unread = @ \ {s}]
                        EXCEPT !.against = IF Found(w, s) THEN @ \cup {s} ELSE @]
  <2> DEFINE found == Found(w, s)
  <2>1. viewing' = [viewing EXCEPT ![w].unread = @ \ {s},
                                   ![w].against = IF found THEN @ \cup {s} ELSE @]
    BY <1>2
  <2> HIDE DEF found
  <2>2. viewing'[w] = [[viewing[w] EXCEPT !.unread = @ \ {s}]
                        EXCEPT !.against = IF found THEN @ \cup {s} ELSE @]
    BY <2>1 DEF ViewsWellFormed
  <2> QED BY <2>2 DEF found
<1>4. viewing'[w] = [stage    |-> viewing[w].stage,
                     request  |-> viewing[w].request,
                     occupied |-> viewing[w].occupied,
                     now      |-> viewing[w].now,
                     unread   |-> unread,
                     against  |-> against]
  BY <1>1, <1>3 DEF ViewRecord
<1>5. viewing' = [v \in ViewWorkers |-> IF v = w THEN viewing'[w] ELSE viewing[v]]
  BY <1>2 DEF ViewsWellFormed
<1> QED BY <1>4, <1>5, RecordFields DEF ViewRecord

LEMMA OneViewReplaced ==
  ASSUME ViewsWellFormed, NEW w \in ViewWorkers, seatMap' = seatMap,
         viewing' = [v \in ViewWorkers |-> IF v = w THEN viewing'[w] ELSE viewing[v]],
         ViewRecord(w)',
         viewing'[w].now \in Nat, viewing'[w].request.flight_id \in Flight
  PROVE  ViewsWellFormed'
<1>1. ASSUME NEW v \in ViewWorkers, v # w PROVE viewing'[v] = viewing[v]
  BY <1>1
<1> SUFFICES ASSUME NEW v \in ViewWorkers, viewing'[v] # None
             PROVE  /\ ViewRecord(v)'
                    /\ viewing'[v].now \in Nat
                    /\ viewing'[v].request.flight_id \in Flight
  BY DEF ViewsWellFormed, ViewRecord
<1>2. CASE v = w
  BY <1>2
<1>3. CASE v # w
  BY <1>1, <1>3 DEF ViewsWellFormed, ViewRecord
<1> QED BY <1>2, <1>3

LEMMA WellFormedStep ==
  ASSUME ViewsWellFormed, LockInv, [SeatMapNext]_seatMapVars
  PROVE  ViewsWellFormed'
<1>0. clock \in Nat
  BY DEF LockInv, LockTypeOK
<1>1. CASE UNCHANGED viewVars
  BY <1>1 DEF viewVars, ViewsWellFormed
<1>2. ASSUME NEW w \in ViewWorkers, NEW request \in ViewRequests, StartView(w, request)
      PROVE  ViewsWellFormed'
  BY <1>2 DEF StartView, ViewsWellFormed
<1>3. ASSUME NEW w \in ViewWorkers, SnapshotBookings(w) PROVE ViewsWellFormed'
  <2>1. viewing[w].now \in Nat /\ viewing[w].request.flight_id \in Flight /\ seatMap' = seatMap
    BY <1>3 DEF SnapshotBookings, ViewingAt, ViewsWellFormed
  <2>2. viewing' = [v \in ViewWorkers |-> IF v = w THEN viewing'[w] ELSE viewing[v]]
    BY <1>3, SnapshotEffect
  <2>3. ViewRecord(w)' /\ viewing'[w].now \in Nat /\ viewing'[w].request.flight_id \in Flight
    BY <1>3, <2>1, SnapshotEffect
  <2> QED BY <2>1, <2>2, <2>3, OneViewReplaced
<1>4. ASSUME NEW w \in ViewWorkers, StampView(w) PROVE ViewsWellFormed'
  <2>1. viewing[w].now \in Nat /\ viewing[w].request.flight_id \in Flight /\ seatMap' = seatMap
    BY <1>4 DEF StampView, ViewingAt, ViewsWellFormed
  <2>2. viewing' = [v \in ViewWorkers |-> IF v = w THEN viewing'[w] ELSE viewing[v]]
    BY <1>4, StampEffect
  <2>3. ViewRecord(w)' /\ viewing'[w].now \in Nat /\ viewing'[w].request.flight_id \in Flight
    BY <1>0, <1>4, <2>1, StampEffect
  <2> QED BY <2>1, <2>2, <2>3, OneViewReplaced
<1>5. ASSUME NEW w \in ViewWorkers, NEW s \in SeatId, QueryLock(w, s) PROVE ViewsWellFormed'
  <2>1. viewing[w].now \in Nat /\ viewing[w].request.flight_id \in Flight /\ seatMap' = seatMap
    BY <1>5 DEF QueryLock, ViewingAt, ViewsWellFormed
  <2>2. viewing' = [v \in ViewWorkers |-> IF v = w THEN viewing'[w] ELSE viewing[v]]
    BY <1>5, QueryEffect
  <2>3. ViewRecord(w)' /\ viewing'[w].now \in Nat /\ viewing'[w].request.flight_id \in Flight
    BY <1>5, <2>1, QueryEffect
  <2> QED BY <2>1, <2>2, <2>3, OneViewReplaced
<1>6. ASSUME NEW w \in ViewWorkers, PublishView(w) PROVE ViewsWellFormed'
  BY <1>6 DEF PublishView, ViewingAt, ViewsWellFormed
<1> QED
  BY <1>1, <1>2, <1>3, <1>4, <1>5, <1>6 DEF SeatMapNext, ViewNext, ViewStep, seatMapVars, viewVars

-----------------------------------------------------------------------------
(* The history.                                                            *)

CaseOf(w, s) == Case(viewing[w].request.flight_id, viewing[w].request.session_id, s)

LEMMA WitnessBegins ==
  ASSUME Witness, NEW w \in ViewWorkers, viewing[w] = None, viewing'[w] # None
  PROVE  /\ DOMAIN seen'[w] = DOMAIN Cabin[viewing'[w].request.flight_id]
         /\ \A s \in DOMAIN seen'[w] : CaseOf(w, s)' \in seen'[w][s]
BY DEF Witness, CasesNow, CaseOf

LEMMA WitnessGrows ==
  ASSUME CaseNowSeen, Witness, NEW w \in ViewWorkers, viewing[w] # None, viewing'[w] # None,
         viewing'[w].request = viewing[w].request
  PROVE  /\ DOMAIN seen'[w] = DOMAIN seen[w]
         /\ \A s \in DOMAIN seen[w] : /\ seen'[w][s] = seen[w][s] \cup {CaseOf(w, s)'}
                                      /\ CaseOf(w, s)' \in seen'[w][s]
<1>1. seen'[w] = [s \in DOMAIN seen[w] |-> seen[w][s] \cup CasesNow(w)'[s]]
  BY DEF Witness
<1>2. DOMAIN seen[w] = DOMAIN Cabin[viewing'[w].request.flight_id]
  BY DEF CaseNowSeen
<1>3. \A s \in DOMAIN seen[w] : CasesNow(w)'[s] = {CaseOf(w, s)'}
  BY <1>2 DEF CasesNow, CaseOf
<1> QED BY <1>1, <1>3

(* A set that is not just {x} does not become {x} by growing.              *)
LEMMA StillMixed ==
  ASSUME NEW S, NEW x, NEW y, NEW z \in S, S # {x}
  PROVE  S \cup {y} # {x}
OBVIOUS

LEMMA StutterInv ==
  ASSUME SeatMapInv, UNCHANGED seatMapVars
  PROVE  SeatMapInv'
<1>1. /\ viewing' = viewing /\ seatMap' = seatMap /\ seen' = seen
      /\ bookings' = bookings /\ bySeat' = bySeat /\ clock' = clock
  BY DEF seatMapVars, viewVars, systemVars, lockVars
<1>2. ViewsWellFormed' /\ SnapshotWasTrue' /\ EverySeatAsked' /\ QueriesWereTrue' /\ AnswersAreFinished'
      /\ SettledSeatsAreShown'
  BY <1>1 DEF SeatMapInv, ViewsWellFormed, SnapshotWasTrue, EverySeatAsked,
     QueriesWereTrue, AnswersAreFinished, SettledSeatsAreShown, Answered, SellableSeats, ViewingAt
<1>3. CaseNowSeen'
  BY <1>1 DEF SeatMapInv, CaseNowSeen, Case, SeatAlreadyBooked, BookingsOf, References
<1> QED BY <1>2, <1>3 DEF SeatMapInv

-----------------------------------------------------------------------------
(* Each part of the invariant, across a step.                              *)

LEMMA SameRequest ==
  ASSUME SeatMapInv, SeatMapNext, NEW w \in ViewWorkers, viewing[w] # None, viewing'[w] # None
  PROVE  viewing'[w].request = viewing[w].request
<1>1. ViewsWellFormed
  BY DEF SeatMapInv
<1>2. CASE Stands(w)
  BY <1>2 DEF Stands
<1>3. CASE MovesOn(w)
  <2>1. ~PublishView(w)
    BY <1>1 DEF PublishView, ViewsWellFormed
  <2>2. \A request \in ViewRequests : ~StartView(w, request)
    BY DEF StartView
  <2>3. CASE SnapshotBookings(w)
    BY <1>1, <2>3, SnapshotEffect
  <2>4. CASE StampView(w)
    BY <1>1, <2>4, StampEffect
  <2>5. ASSUME NEW s \in SeatId, QueryLock(w, s) PROVE viewing'[w].request = viewing[w].request
    BY <1>1, <2>5, QueryEffect
  <2> QED BY <1>3, <2>1, <2>2, <2>3, <2>4, <2>5 DEF MovesOn
<1> QED BY <1>1, <1>2, <1>3, OneViewMoves

LEMMA CaseNowSeenStep == ASSUME SeatMapInv, SeatMapNext PROVE CaseNowSeen'
<1> SUFFICES ASSUME NEW w \in ViewWorkers, viewing'[w] # None
             PROVE  /\ DOMAIN seen'[w] = DOMAIN Cabin[viewing'[w].request.flight_id]
                    /\ \A s \in DOMAIN seen'[w] : CaseOf(w, s)' \in seen'[w][s]
  BY DEF CaseNowSeen, CaseOf
<1>1. Witness /\ CaseNowSeen
  BY DEF SeatMapNext, SeatMapInv
<1>2. CASE viewing[w] = None
  BY <1>1, <1>2, WitnessBegins
<1>3. CASE viewing[w] # None
  BY <1>1, <1>3, SameRequest, WitnessGrows DEF CaseNowSeen
<1> QED BY <1>2, <1>3

(* What a running view has seen of a seat only grows, and was not empty.   *)
LEMMA SeenGrows ==
  ASSUME SeatMapInv, SeatMapNext, NEW w \in ViewWorkers, viewing[w] # None, viewing'[w] # None
  PROVE  /\ DOMAIN seen'[w] = DOMAIN seen[w]
         /\ \A s \in DOMAIN seen[w] :
              /\ seen[w][s] \subseteq seen'[w][s]
              /\ CaseOf(w, s)' \in seen'[w][s]
              /\ \A x : seen[w][s] # {x} => seen'[w][s] # {x}
<1>1. Witness /\ CaseNowSeen
  BY DEF SeatMapNext, SeatMapInv
<1>2. /\ DOMAIN seen'[w] = DOMAIN seen[w]
      /\ \A s \in DOMAIN seen[w] : /\ seen'[w][s] = seen[w][s] \cup {CaseOf(w, s)'}
                                   /\ CaseOf(w, s)' \in seen'[w][s]
  BY <1>1, SameRequest, WitnessGrows
<1>3. \A s \in DOMAIN seen[w] : CaseOf(w, s) \in seen[w][s]
  BY <1>1 DEF CaseNowSeen, CaseOf
<1> QED BY <1>2, <1>3, StillMixed

LEMMA SnapshotStep == ASSUME SeatMapInv, SeatMapNext PROVE SnapshotWasTrue'
<1> SUFFICES ASSUME NEW w \in ViewWorkers, viewing'[w] # None, viewing'[w].stage # "bookings",
                    NEW s \in DOMAIN seen'[w]
             PROVE  IF s \in viewing'[w].occupied THEN "sold" \in seen'[w][s]
                                                  ELSE seen'[w][s] # {"sold"}
  BY DEF SnapshotWasTrue
<1>1. ViewsWellFormed /\ SnapshotWasTrue
  BY DEF SeatMapInv
<1>2. viewing[w] # None
  <2>1. CASE Stands(w)
    BY <2>1 DEF Stands
  <2>2. \A request \in ViewRequests : ~StartView(w, request)
    <3> SUFFICES ASSUME NEW request \in ViewRequests, StartView(w, request) PROVE FALSE
      OBVIOUS
    <3>1. viewing'[w].stage = "bookings"
      BY <1>1 DEF StartView, ViewsWellFormed
    <3> QED BY <3>1
  <2>3. CASE MovesOn(w)
    BY <2>2, <2>3 DEF MovesOn, SnapshotBookings, StampView, QueryLock, PublishView, ViewingAt
  <2> QED BY <1>1, <2>1, <2>3, OneViewMoves
<1>3. /\ s \in DOMAIN seen[w]
      /\ seen[w][s] \subseteq seen'[w][s]
      /\ CaseOf(w, s)' \in seen'[w][s]
      /\ seen[w][s] # {"sold"} => seen'[w][s] # {"sold"}
  BY <1>2, SeenGrows
<1>4. CASE viewing'[w].occupied = viewing[w].occupied /\ viewing[w].stage # "bookings"
  BY <1>1, <1>2, <1>3, <1>4 DEF SnapshotWasTrue
<1>5. CASE SnapshotBookings(w) /\ UNCHANGED systemVars
  <2>1. viewing'[w].occupied = UNION {bookings[r].seat_ids :
                                        r \in BookingsOf(viewing[w].request.flight_id)}
    BY <1>1, <1>5, SnapshotEffect
  <2>2. s \in viewing'[w].occupied <=> SeatAlreadyBooked(viewing[w].request.flight_id, s)
    BY <2>1 DEF SeatAlreadyBooked
  <2>3. bookings' = bookings
    BY <1>5 DEF systemVars
  <2>4. viewing'[w].request = viewing[w].request
    BY <1>2, SameRequest
  <2>5. s \in viewing'[w].occupied <=> CaseOf(w, s)' = "sold"
    BY <2>2, <2>3, <2>4 DEF CaseOf, Case, SeatAlreadyBooked, BookingsOf, References
  <2> QED BY <1>3, <2>5
<1>6. CASE Stands(w)
  BY <1>4, <1>6 DEF Stands
<1>7. CASE StampView(w) \/ \E t \in SeatId : QueryLock(w, t)
  <2>1. viewing[w].stage # "bookings"
    BY <1>7 DEF StampView, QueryLock, ViewingAt
  <2>2. viewing'[w].occupied = viewing[w].occupied
    <3>1. StampView(w) => viewing'[w].occupied = viewing[w].occupied
      BY <1>1, StampEffect
    <3>2. ASSUME NEW t \in SeatId, QueryLock(w, t) PROVE viewing'[w].occupied = viewing[w].occupied
      BY <1>1, <3>2, QueryEffect
    <3> QED BY <1>7, <3>1, <3>2
  <2> QED BY <1>4, <2>1, <2>2
<1>8. CASE MovesOn(w) /\ UNCHANGED systemVars
  <2>1. ~PublishView(w)
    BY <1>1 DEF PublishView, ViewsWellFormed
  <2>2. \A request \in ViewRequests : ~StartView(w, request)
    BY <1>2 DEF StartView
  <2> QED BY <1>5, <1>7, <1>8, <2>1, <2>2 DEF MovesOn
<1> QED BY <1>1, <1>6, <1>8, OneViewMoves

LEMMA EverySeatAskedStep == ASSUME SeatMapInv, SeatMapNext PROVE EverySeatAsked'
<1> DEFINE Kept(w) == /\ viewing[w] # None
                      /\ viewing'[w].unread = viewing[w].unread
                      /\ viewing'[w].against = viewing[w].against
           Goal(w) == /\ viewing'[w].against \cap viewing'[w].unread = {}
                      /\ viewing'[w].stage # "locks" => viewing'[w].unread = DOMAIN seen'[w]
<1> SUFFICES ASSUME NEW w \in ViewWorkers, viewing'[w] # None PROVE Goal(w)
  BY DEF EverySeatAsked
<1>1. ViewsWellFormed /\ EverySeatAsked
  BY DEF SeatMapInv
<1>2. CASE Kept(w) /\ (viewing'[w].stage # "locks" => viewing[w].stage # "locks")
  BY <1>1, <1>2, SeenGrows DEF EverySeatAsked
<1>3. CASE Stands(w)
  BY <1>2, <1>3 DEF Stands
<1>4. ASSUME NEW request \in ViewRequests, StartView(w, request) PROVE Goal(w)
  <2>1. /\ viewing[w] = None
        /\ viewing'[w].against = {}
        /\ viewing'[w].unread = DOMAIN Cabin[viewing'[w].request.flight_id]
    BY <1>1, <1>4 DEF StartView, ViewsWellFormed
  <2> QED BY <2>1, WitnessBegins DEF SeatMapNext
<1>5. CASE SnapshotBookings(w)
  <2>1. viewing[w] # None /\ viewing[w].stage # "locks"
    BY <1>5 DEF SnapshotBookings, ViewingAt
  <2>2. viewing'[w].unread = viewing[w].unread /\ viewing'[w].against = viewing[w].against
    BY <1>1, <1>5, SnapshotEffect
  <2> QED BY <1>2, <2>1, <2>2
<1>6. CASE StampView(w)
  <2>1. viewing[w] # None
    BY <1>6 DEF StampView, ViewingAt
  <2>2. /\ viewing'[w].unread = viewing[w].unread /\ viewing'[w].against = viewing[w].against
        /\ viewing'[w].stage = "locks"
    BY <1>1, <1>6, StampEffect
  <2> QED BY <1>2, <2>1, <2>2
<1>7. ASSUME NEW t \in SeatId, QueryLock(w, t) PROVE Goal(w)
  <2>1. viewing[w] # None /\ viewing[w].stage = "locks"
    BY <1>7 DEF QueryLock, ViewingAt
  <2>2. /\ viewing'[w].stage = viewing[w].stage
        /\ viewing'[w].unread = viewing[w].unread \ {t}
        /\ viewing'[w].against \subseteq viewing[w].against \cup {t}
    BY <1>1, <1>7, QueryEffect
  <2> QED BY <1>1, <2>1, <2>2 DEF EverySeatAsked
<1>8. ~PublishView(w)
  BY <1>1 DEF PublishView, ViewsWellFormed
<1> QED BY <1>1, <1>3, <1>4, <1>5, <1>6, <1>7, <1>8, OneViewMoves DEF MovesOn

(* A query that finds a lock found one that is live now, or the seat was   *)
(* not the requester's own; one that finds none was not asked of a seat    *)
(* that others hold.                                                       *)
LEMMA QueryWasTrue ==
  ASSUME SeatMapInv, LockInv, NEW w \in ViewWorkers, NEW s \in SeatId, QueryLock(w, s)
  PROVE  IF Found(w, s) THEN CaseOf(w, s) # "own" ELSE CaseOf(w, s) # "held"
<1> DEFINE now == viewing[w].now
           session == viewing[w].request.session_id
<1>1. now \in Nat /\ now <= clock
  BY DEF SeatMapInv, ViewsWellFormed, QueriesWereTrue, QueryLock, ViewingAt
<1>2. CASE Found(w, s)
  <2>1. LockedAgainst(bySeat[s], session)
    BY <1>2 DEF Found, FindActiveLockForSeat, LockedAgainst
  <2> QED BY <1>2, <2>1 DEF CaseOf, Case
<1>3. CASE ~Found(w, s)
  <2> SUFFICES ASSUME CaseOf(w, s) = "held" PROVE FALSE
    BY <1>3
  <2>1. Live(bySeat[s], clock) /\ LockedAgainst(bySeat[s], session)
    BY DEF CaseOf, Case
  <2>2. Live(bySeat[s], now)
    BY <1>1, <2>1, LiveForOlderStamp
  <2> QED BY <1>3, <2>1, <2>2 DEF Found, FindActiveLockForSeat
<1> QED BY <1>2, <1>3

LEMMA QueriesStep ==
  ASSUME SeatMapInv, LockInv, SeatMapNext PROVE QueriesWereTrue'
<1> SUFFICES ASSUME NEW w \in ViewWorkers, viewing'[w] # None, viewing'[w].stage = "locks"
             PROVE  /\ viewing'[w].now <= clock'
                    /\ \A s \in DOMAIN seen'[w] \ viewing'[w].unread :
                         IF s \in viewing'[w].against THEN seen'[w][s] # {"own"}
                                                      ELSE seen'[w][s] # {"held"}
  BY DEF QueriesWereTrue, ViewingAt
<1>1. ViewsWellFormed /\ EverySeatAsked /\ QueriesWereTrue
  BY DEF SeatMapInv
<1>2. clock \in Nat /\ clock' \in Nat /\ clock <= clock'
  BY SeatMapStepOfSystem, ClockAdvances
<1>3. CASE Stands(w)
  <2>1. ViewingAt(w, "locks") /\ viewing[w].now \in Nat
    BY <1>1, <1>3 DEF Stands, ViewingAt, ViewsWellFormed
  <2>2. viewing'[w].now <= clock'
    BY <1>1, <1>2, <1>3, <2>1 DEF QueriesWereTrue, Stands
  <2>3. viewing[w] # None
    BY <2>1 DEF ViewingAt
  <2> QED BY <1>1, <1>3, <2>1, <2>2, <2>3, SeenGrows DEF QueriesWereTrue, Stands
<1>4. CASE StampView(w)
  <2>1. viewing'[w].now = clock /\ viewing'[w].unread = viewing[w].unread
    BY <1>1, <1>4, StampEffect
  <2>2. viewing[w] # None /\ viewing[w].stage # "locks"
    BY <1>4 DEF StampView, ViewingAt
  <2>3. viewing'[w].unread = DOMAIN seen'[w]
    <3>1. viewing[w].unread = DOMAIN seen[w] /\ DOMAIN seen'[w] = DOMAIN seen[w]
      BY <1>1, <2>2, SeenGrows DEF EverySeatAsked
    <3> QED BY <2>1, <3>1
  <2> QED BY <1>2, <2>1, <2>3
<1>5. ASSUME NEW t \in SeatId, QueryLock(w, t), UNCHANGED systemVars
      PROVE  /\ viewing'[w].now <= clock'
             /\ \A s \in DOMAIN seen'[w] \ viewing'[w].unread :
                  IF s \in viewing'[w].against THEN seen'[w][s] # {"own"}
                                               ELSE seen'[w][s] # {"held"}
  <2>1. ViewingAt(w, "locks") /\ viewing[w] # None /\ viewing[w].now \in Nat
    BY <1>1, <1>5 DEF QueryLock, ViewingAt, ViewsWellFormed
  <2>2. /\ viewing'[w].now = viewing[w].now
        /\ viewing'[w].request = viewing[w].request
        /\ viewing'[w].unread = viewing[w].unread \ {t}
        /\ viewing'[w].against = IF Found(w, t) THEN viewing[w].against \cup {t}
                                                ELSE viewing[w].against
    BY <1>1, <1>5, QueryEffect
  <2>3. viewing'[w].now <= clock'
    BY <1>1, <1>2, <2>1, <2>2 DEF QueriesWereTrue
  <2>4. /\ DOMAIN seen'[w] = DOMAIN seen[w]
        /\ \A s \in DOMAIN seen[w] :
             /\ CaseOf(w, s)' \in seen'[w][s]
             /\ \A x : seen[w][s] # {x} => seen'[w][s] # {x}
    BY <2>1, SeenGrows
  <2>5. ASSUME NEW s \in DOMAIN seen[w], s # t, s \notin viewing'[w].unread
        PROVE  IF s \in viewing'[w].against THEN seen'[w][s] # {"own"}
                                            ELSE seen'[w][s] # {"held"}
    <3>1. s \notin viewing[w].unread
      BY <2>2, <2>5
    <3>2. s \in viewing'[w].against <=> s \in viewing[w].against
      BY <2>2, <2>5
    <3>3. IF s \in viewing[w].against THEN seen[w][s] # {"own"} ELSE seen[w][s] # {"held"}
      BY <1>1, <2>1, <2>5, <3>1 DEF QueriesWereTrue
    <3> QED BY <2>4, <2>5, <3>2, <3>3
  <2>6. ASSUME t \in DOMAIN seen[w]
        PROVE  IF t \in viewing'[w].against THEN seen'[w][t] # {"own"}
                                            ELSE seen'[w][t] # {"held"}
    <3>1. CaseOf(w, t)' = CaseOf(w, t)
      BY <1>5, <2>2 DEF systemVars, lockVars, CaseOf, Case, SeatAlreadyBooked, BookingsOf,
         References, Live, LockedAgainst
    <3>2. IF Found(w, t) THEN CaseOf(w, t) # "own" ELSE CaseOf(w, t) # "held"
      BY <1>5, QueryWasTrue
    <3>3. t \in viewing'[w].against <=> Found(w, t)
      <4>1. t \notin viewing[w].against
        BY <1>1, <1>5, <2>1 DEF EverySeatAsked, QueryLock
      <4> QED BY <2>2, <4>1
    <3> QED BY <2>4, <2>6, <3>1, <3>2, <3>3
  <2> QED BY <2>3, <2>4, <2>5, <2>6
<1>6. viewing[w] # None
  <2>1. \A request \in ViewRequests : ~StartView(w, request)
    <3> SUFFICES ASSUME NEW request \in ViewRequests, StartView(w, request) PROVE FALSE
      OBVIOUS
    <3>1. viewing'[w].stage = "bookings"
      BY <1>1 DEF StartView, ViewsWellFormed
    <3> QED BY <3>1
  <2> QED BY <1>1, <2>1, OneViewMoves
          DEF MovesOn, Stands, SnapshotBookings, StampView, QueryLock, PublishView, ViewingAt
<1>7. ~SnapshotBookings(w)
  BY <1>1, SnapshotEffect
<1>8. ~PublishView(w)
  BY <1>1 DEF PublishView, ViewsWellFormed
<1> QED BY <1>1, <1>3, <1>4, <1>5, <1>6, <1>7, <1>8, OneViewMoves DEF MovesOn, StartView

LEMMA AnswersStep == ASSUME SeatMapInv, SeatMapNext PROVE AnswersAreFinished'
<1> SUFFICES ASSUME NEW w \in ViewWorkers, seatMap'[w] # None
             PROVE  viewing'[w] = None /\ DOMAIN seen'[w] = DOMAIN seatMap'[w].status
  BY DEF AnswersAreFinished, Answered
<1>1. ViewsWellFormed /\ AnswersAreFinished /\ Witness /\ CaseNowSeen
  BY DEF SeatMapInv, SeatMapNext
<1>2. CASE Stands(w)
  BY <1>1, <1>2 DEF Stands, AnswersAreFinished, Answered, Witness
<1>3. CASE PublishView(w)
  <2>1. viewing'[w] = None /\ viewing[w] # None
    BY <1>1, <1>3 DEF PublishView, ViewsWellFormed, ViewingAt
  <2>2. seen'[w] = seen[w]
    BY <1>1, <2>1 DEF Witness
  <2>3. DOMAIN seatMap'[w].status = DOMAIN Cabin[viewing[w].request.flight_id]
    BY <1>1, <1>3 DEF PublishView, ViewsWellFormed
  <2> QED BY <1>1, <2>1, <2>2, <2>3 DEF CaseNowSeen
<1>4. ~PublishView(w) => ~MovesOn(w)
  <2>1. \A request \in ViewRequests : ~StartView(w, request)
    BY <1>1 DEF StartView, ViewsWellFormed
  <2>2. SnapshotBookings(w) \/ StampView(w) \/ (\E s \in SeatId : QueryLock(w, s))
          => viewing[w] # None /\ seatMap' = seatMap
    BY DEF SnapshotBookings, StampView, QueryLock, ViewingAt
  <2> QED BY <1>1, <2>1, <2>2 DEF MovesOn, AnswersAreFinished, Answered
<1> QED BY <1>1, <1>2, <1>3, <1>4, OneViewMoves

LEMMA SettledStep == ASSUME SeatMapInv, SeatMapNext PROVE SettledSeatsAreShown'
<1> SUFFICES ASSUME NEW w \in ViewWorkers, seatMap'[w] # None,
                    NEW s \in DOMAIN seatMap'[w].status,
                    Cabin[seatMap'[w].request.flight_id][s] # "BLOCKED"
             PROVE  /\ seen'[w][s] \in {{"sold"}, {"held"}} => seatMap'[w].status[s] = "OCCUPIED"
                    /\ seen'[w][s] = {"own"} => seatMap'[w].status[s] = "AVAILABLE"
  BY DEF SettledSeatsAreShown, Answered, SellableSeats
<1>1. /\ ViewsWellFormed /\ AnswersAreFinished /\ CaseNowSeen /\ SnapshotWasTrue
      /\ QueriesWereTrue /\ SettledSeatsAreShown /\ Witness
  BY DEF SeatMapInv, SeatMapNext
<1>2. CASE Stands(w)
  <2>1. viewing'[w] = None
    BY <1>1, <1>2 DEF Stands, AnswersAreFinished, Answered
  <2>2. seen'[w] = seen[w] /\ seatMap'[w] = seatMap[w]
    BY <1>1, <1>2, <2>1 DEF Stands, Witness
  <2> QED BY <1>1, <2>2 DEF SettledSeatsAreShown, Answered, SellableSeats
<1>3. CASE PublishView(w)
  <2> DEFINE view == viewing[w]
             f    == viewing[w].request.flight_id
  <2>1. viewing'[w] = None /\ view # None /\ ViewingAt(w, "locks") /\ view.unread = {}
    BY <1>1, <1>3 DEF PublishView, ViewsWellFormed, ViewingAt
  <2>2. seen'[w] = seen[w]
    BY <1>1, <2>1 DEF Witness
  <2>3. /\ seatMap'[w].request = view.request
        /\ seatMap'[w].status = [t \in DOMAIN Cabin[f] |-> StatusFor(f, t, view.occupied, view.against)]
    BY <1>1, <1>3 DEF PublishView, ViewsWellFormed
  <2>4. s \in DOMAIN seen[w]
    BY <1>1, <2>1, <2>3 DEF CaseNowSeen
  <2>5. seatMap'[w].status[s] = IF s \in view.occupied \cup view.against THEN "OCCUPIED"
                                                                    ELSE "AVAILABLE"
    BY <2>3 DEF StatusFor
  <2>6. IF s \in view.occupied THEN "sold" \in seen[w][s] ELSE seen[w][s] # {"sold"}
    BY <1>1, <2>1, <2>4 DEF SnapshotWasTrue, ViewingAt
  <2>7. IF s \in view.against THEN seen[w][s] # {"own"} ELSE seen[w][s] # {"held"}
    BY <1>1, <2>1, <2>4 DEF QueriesWereTrue
  <2> QED BY <2>2, <2>5, <2>6, <2>7
<1>4. ~PublishView(w) => ~MovesOn(w)
  <2>1. \A request \in ViewRequests : ~StartView(w, request)
    BY <1>1 DEF StartView, ViewsWellFormed
  <2>2. SnapshotBookings(w) \/ StampView(w) \/ (\E t \in SeatId : QueryLock(w, t))
          => viewing[w] # None /\ seatMap' = seatMap
    BY DEF SnapshotBookings, StampView, QueryLock, ViewingAt
  <2> QED BY <1>1, <2>1, <2>2 DEF MovesOn, AnswersAreFinished, Answered
<1> QED BY <1>1, <1>2, <1>3, <1>4, OneViewMoves

LEMMA SeatMapStepInv == SeatMapInv /\ LockInv /\ [SeatMapNext]_seatMapVars => SeatMapInv'
<1> SUFFICES ASSUME SeatMapInv, LockInv, SeatMapNext PROVE SeatMapInv'
  BY StutterInv
<1>1. ViewsWellFormed'
  BY WellFormedStep DEF SeatMapInv
<1> QED BY <1>1, CaseNowSeenStep, SnapshotStep, EverySeatAskedStep, QueriesStep, AnswersStep,
           SettledStep DEF SeatMapInv

(* Whatever holds, commits and expiries do in the middle of a view, the    *)
(* invariant relates its readings to what has been the case.               *)
THEOREM ViewsKeepTheirInvariant == SeatMapSpec => []SeatMapInv
<1>1. SeatMapInit => LockInv
  BY LockInitInv DEF SeatMapInit, SystemInit
<1>2. LockInv /\ [SeatMapNext]_seatMapVars => LockInv'
  BY SeatMapStepOfSystem, SystemLockInv
<1> QED BY <1>1, <1>2, SeatMapInitInv, SeatMapStepInv, PTL DEF SeatMapSpec

(* A seat that was sold, held by others, or held by the requester all the  *)
(* time a view ran is shown as what it is.                                 *)
THEOREM SettledSeats == SeatMapSpec => []SettledSeatsAreShown
<1>1. SeatMapInv => SettledSeatsAreShown
  BY DEF SeatMapInv
<1> QED BY <1>1, ViewsKeepTheirInvariant, PTL

-----------------------------------------------------------------------------
(* Types of the views and of their history.                                *)

ViewsTyped  == viewing \in [ViewWorkers -> Viewing \cup {None}]
MapsTyped   == seatMap \in [ViewWorkers -> SeatMapAnswer \cup {None}]
CasesTyped  ==
  \A w \in ViewWorkers : \A s \in DOMAIN seen[w] :
    seen[w][s] \subseteq {"sold", "free", "held", "own"}

(* A record of a view with one reading replaced.                           *)
LEMMA ViewTyped ==
  ASSUME ViewsWellFormed, ViewsTyped, NEW w \in ViewWorkers,
         viewing' = [v \in ViewWorkers |-> IF v = w THEN viewing'[w] ELSE viewing[v]],
         ViewRecord(w)',
         viewing'[w].stage \in {"bookings", "clock", "locks"},
         viewing'[w].request \in ViewRequests,
         viewing'[w].occupied \subseteq SeatId,
         viewing'[w].now \in Nat,
         viewing'[w].unread \subseteq SeatId,
         viewing'[w].against \subseteq SeatId
  PROVE  ViewsTyped'
<1>1. viewing'[w] \in Viewing
  BY DEF ViewRecord, Viewing
<1> QED BY <1>1 DEF ViewsTyped

LEMMA ViewsTypedStep ==
  ASSUME ViewsTyped, ViewsWellFormed, LedgerInv, [SeatMapNext]_seatMapVars
  PROVE  ViewsTyped'
<1>1. clock \in Nat
  BY DEF LedgerInv, CommitInv, LockInv, LockTypeOK
<1>2. CASE UNCHANGED viewVars
  BY <1>2 DEF viewVars, ViewsTyped
<1>3. ASSUME NEW w \in ViewWorkers, NEW request \in ViewRequests, StartView(w, request)
      PROVE  ViewsTyped'
  <2> DEFINE view == [stage    |-> "bookings",
                      request  |-> request,
                      occupied |-> {},
                      now      |-> 0,
                      unread   |-> DOMAIN Cabin[request.flight_id],
                      against  |-> {}]
  <2>1. DOMAIN Cabin[request.flight_id] \subseteq SeatId
    BY <1>3, SeatsOfFlight DEF StartView
  <2>2. view \in Viewing
    BY <2>1 DEF Viewing
  <2>3. viewing' = [viewing EXCEPT ![w] = view]
    BY <1>3 DEF StartView
  <2> QED BY <2>2, <2>3 DEF ViewsTyped
<1>4. ASSUME NEW w \in ViewWorkers, viewing[w] # None
      PROVE  /\ viewing[w].stage \in {"bookings", "clock", "locks"}
             /\ viewing[w].request \in ViewRequests
             /\ viewing[w].occupied \subseteq SeatId
             /\ viewing[w].now \in Nat
             /\ viewing[w].unread \subseteq SeatId
             /\ viewing[w].against \subseteq SeatId
  BY <1>4 DEF ViewsTyped, Viewing
<1>5. ASSUME NEW w \in ViewWorkers, SnapshotBookings(w) PROVE ViewsTyped'
  <2>1. viewing[w] # None
    BY <1>5 DEF SnapshotBookings, ViewingAt
  <2>2. UNION {bookings[r].seat_ids : r \in BookingsOf(viewing[w].request.flight_id)}
          \subseteq SeatId
    BY DEF BookingsOf, References, Booking, LedgerInv, SystemTypeOK
  <2> QED BY <1>4, <1>5, <2>1, <2>2, SnapshotEffect, ViewTyped
<1>6. ASSUME NEW w \in ViewWorkers, StampView(w) PROVE ViewsTyped'
  <2>1. viewing[w] # None
    BY <1>6 DEF StampView, ViewingAt
  <2> QED BY <1>1, <1>4, <1>6, <2>1, StampEffect, ViewTyped
<1>7. ASSUME NEW w \in ViewWorkers, NEW s \in SeatId, QueryLock(w, s) PROVE ViewsTyped'
  <2>1. viewing[w] # None
    BY <1>7 DEF QueryLock, ViewingAt
  <2>2. ViewRecord(w)' /\ viewing' = [v \in ViewWorkers |-> IF v = w THEN viewing'[w] ELSE viewing[v]]
    BY <1>7, QueryEffect
  <2>3. /\ viewing'[w].stage \in {"bookings", "clock", "locks"}
        /\ viewing'[w].request \in ViewRequests
        /\ viewing'[w].occupied \subseteq SeatId
        /\ viewing'[w].now \in Nat
    BY <1>4, <1>7, <2>1, QueryEffect
  <2>4. viewing'[w].unread \subseteq SeatId
    BY <1>4, <1>7, <2>1, QueryEffect
  <2>5. viewing'[w].against \subseteq SeatId
    <3>1. \/ viewing'[w].against = viewing[w].against \cup {s}
          \/ viewing'[w].against = viewing[w].against
      BY <1>7, QueryEffect
    <3> QED BY <3>1, <1>4, <2>1
  <2> QED BY <2>2, <2>3, <2>4, <2>5, ViewTyped
<1>8. ASSUME NEW w \in ViewWorkers, PublishView(w) PROVE ViewsTyped'
  BY <1>8 DEF PublishView, ViewsTyped
<1> QED
  BY <1>2, <1>3, <1>5, <1>6, <1>7, <1>8
  DEF SeatMapNext, ViewNext, ViewStep, seatMapVars, viewVars

LEMMA MapsTypedStep ==
  ASSUME MapsTyped, ViewsTyped, ViewsWellFormed, [SeatMapNext]_seatMapVars
  PROVE  MapsTyped'
<1>1. CASE UNCHANGED seatMap
  BY <1>1 DEF MapsTyped
<1>2. ASSUME NEW w \in ViewWorkers, NEW request \in ViewRequests, StartView(w, request)
      PROVE  MapsTyped'
  BY <1>2 DEF StartView, MapsTyped
<1>3. ASSUME NEW w \in ViewWorkers, PublishView(w) PROVE MapsTyped'
  <2> DEFINE view    == viewing[w]
             request == view.request
             f       == request.flight_id
             status  == [s \in DOMAIN Cabin[f] |-> StatusFor(f, s, view.occupied, view.against)]
             map     == [request |-> request, status |-> status]
  <2>1. request \in ViewRequests /\ f \in Flight
    BY <1>3 DEF PublishView, ViewingAt, ViewsTyped, Viewing, ViewsWellFormed
  <2>2. status \in [DOMAIN Cabin[f] -> SeatStatus]
    BY DEF StatusFor, SeatStatus
  <2>3. seatMap' = [seatMap EXCEPT ![w] = map]
    BY <1>3 DEF PublishView
  <2> HIDE DEF status
  <2>4. map \in SeatMapOf(request)
    BY <2>2 DEF SeatMapOf
  <2>5. map \in SeatMapAnswer
    BY <2>1, <2>4 DEF SeatMapAnswer
  <2> HIDE DEF map
  <2> QED BY <2>3, <2>5 DEF MapsTyped
<1>4. \A w \in ViewWorkers : SnapshotBookings(w) \/ StampView(w) \/ (\E s \in SeatId : QueryLock(w, s))
        => UNCHANGED seatMap
  BY DEF SnapshotBookings, StampView, QueryLock
<1> QED
  BY <1>1, <1>2, <1>3, <1>4 DEF SeatMapNext, ViewNext, ViewStep, seatMapVars, viewVars

LEMMA CasesTypedStep ==
  ASSUME CasesTyped, SeatMapInv, [SeatMapNext]_seatMapVars
  PROVE  CasesTyped'
<1>1. CASE UNCHANGED seatMapVars
  BY <1>1 DEF seatMapVars, CasesTyped
<1>2. CASE SeatMapNext
  <2> SUFFICES ASSUME NEW w \in ViewWorkers, NEW s \in DOMAIN seen'[w]
               PROVE  seen'[w][s] \subseteq {"sold", "free", "held", "own"}
    BY DEF CasesTyped
  <2>1. Witness /\ CaseNowSeen
    BY <1>2 DEF SeatMapNext, SeatMapInv
  <2>2. CaseOf(w, s)' \in {"sold", "free", "held", "own"}
    BY DEF CaseOf, Case
  <2>3. CASE viewing'[w] = None
    BY <2>1, <2>3 DEF Witness, CasesTyped
  <2>4. CASE viewing[w] = None /\ viewing'[w] # None
    <3>1. seen'[w][s] = {CaseOf(w, s)'}
      BY <2>1, <2>4 DEF Witness, CasesNow, CaseOf
    <3> QED BY <2>2, <3>1
  <2>5. CASE viewing[w] # None /\ viewing'[w] # None
    <3>1. DOMAIN seen'[w] = DOMAIN seen[w] /\ seen'[w][s] = seen[w][s] \cup {CaseOf(w, s)'}
      BY <1>2, <2>1, <2>5, SameRequest, WitnessGrows
    <3> QED BY <2>2, <3>1 DEF CasesTyped
  <2> QED BY <2>3, <2>4, <2>5
<1> QED BY <1>1, <1>2

(* Type correctness of the views and of what they have witnessed.          *)
THEOREM SeatMapsAreTyped == SeatMapSpec => []SeatMapTypeOK
<1> DEFINE Typed == ViewsTyped /\ MapsTyped /\ CasesTyped
<1>1. SeatMapInit => Typed
  BY DEF SeatMapInit, ViewsInit, ViewsTyped, MapsTyped, CasesTyped
<1>2. Typed /\ SeatMapInv /\ LedgerInv /\ [SeatMapNext]_seatMapVars => Typed'
  <2>1. SeatMapInv => ViewsWellFormed
    BY DEF SeatMapInv
  <2> QED BY <2>1, ViewsTypedStep, MapsTypedStep, CasesTypedStep
<1>3. Typed => SeatMapTypeOK
  BY DEF ViewsTyped, MapsTyped, CasesTyped, SeatMapTypeOK
<1> HIDE DEF Typed
<1> QED
  BY <1>1, <1>2, <1>3, ViewsKeepTheirInvariant, ViewsLeaveTheSystem, LedgerInvariant, PTL
  DEF SeatMapSpec
=============================================================================
