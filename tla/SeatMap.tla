------------------------------- MODULE SeatMap -------------------------------
(***************************************************************************)
(* SeatMapService.view: GET /flights/{id}/seats, beside the write side.    *)
(*                                                                         *)
(* A view takes no lock of its own.  It takes a snapshot of the bookings,  *)
(* then reads the clock once, then asks the seat-lock store about one seat *)
(* after the other; holds and commits go on between any two of these       *)
(* calls, so the map it returns need not be the map of any one moment.     *)
(***************************************************************************)
EXTENDS BookingService

CONSTANTS
  ViewWorkers,            \* threads serving GET /flights/{id}/seats
  ViewRequests

ViewRequest == [flight_id  : FlightId,
                session_id : SessionId \cup {None}]

Viewing == [stage    : {"bookings", "clock", "locks"},
            request  : ViewRequests,
            occupied : SUBSET SeatId,
            now      : Nat,
            unread   : SUBSET SeatId,
            against  : SUBSET SeatId]

(* What GET /seats answers: the status of every seat of the cabin.         *)
SeatMapOf(request) ==
  [request : {request}, status : [DOMAIN Cabin[request.flight_id] -> SeatStatus]]

SeatMapAnswer ==
  UNION {SeatMapOf(request) : request \in {v \in ViewRequests : v.flight_id \in Flight}}

ASSUME SeatMapAssumption ==
  /\ ViewRequests \subseteq ViewRequest
  /\ None \notin Viewing \cup SeatMapAnswer

VARIABLES
  viewing,                \* per worker: the view it is computing
  seatMap                 \* per worker: the map it returned last

viewVars == <<viewing, seatMap>>

ViewsInit ==
  /\ viewing = [w \in ViewWorkers |-> None]
  /\ seatMap = [w \in ViewWorkers |-> None]

ViewingAt(w, stage) == viewing[w] # None /\ viewing[w].stage = stage

(* An unknown flight is a 404, before anything is read: no step.           *)
StartView(w, request) ==
  /\ viewing[w] = None
  /\ request.flight_id \in Flight
  /\ viewing' = [viewing EXCEPT ![w] = [stage    |-> "bookings",
                                        request  |-> request,
                                        occupied |-> {},
                                        now      |-> 0,
                                        unread   |-> DOMAIN Cabin[request.flight_id],
                                        against  |-> {}]]
  /\ seatMap' = [seatMap EXCEPT ![w] = None]

(* _occupied_seat_ids, from one snapshot of the repository.                *)
SnapshotBookings(w) ==
  /\ ViewingAt(w, "bookings")
  /\ LET f == viewing[w].request.flight_id
     IN  viewing' = [viewing EXCEPT
                       ![w].stage = "clock",
                       ![w].occupied = UNION {bookings[r].seat_ids : r \in BookingsOf(f)}]
  /\ UNCHANGED seatMap

(* One reading of the clock serves all the lock queries that follow.       *)
StampView(w) ==
  /\ ViewingAt(w, "clock")
  /\ viewing' = [viewing EXCEPT ![w].stage = "locks", ![w].now = clock]
  /\ UNCHANGED seatMap

(* Mutant: a lock counts as expired one tick before it is.                 *)
FindActiveLockEarly(s, now) == IF Live(bySeat[s], now + 1) THEN bySeat[s] ELSE None

(* The store is asked by seat id alone: a lock on the same seat of another *)
(* flight is found as well.                                                *)
FindActiveLockForSeat(s, now) == IF Live(bySeat[s], now) THEN bySeat[s] ELSE None

(* A lock is transparent to its own session; to an anonymous request every *)
(* lock is somebody else's.                                                *)
LockedAgainst(record, session) ==
  record # None /\ (session = None \/ record.session_id # session)

(* One turn of the loop of _seats_locked_against_session.  The loop goes   *)
(* in the order in which the cabin was filled, which a catalog may choose. *)
QueryLock(w, s) ==
  /\ ViewingAt(w, "locks")
  /\ s \in viewing[w].unread
  /\ LET record == FindActiveLockForSeat(s, viewing[w].now)
         found  == LockedAgainst(record, viewing[w].request.session_id)
     IN  viewing' = [viewing EXCEPT
                       ![w].unread = @ \ {s},
                       ![w].against = IF found THEN @ \cup {s} ELSE @]
  /\ UNCHANGED seatMap

(* Mutant: a held seat has a status of its own.                            *)
StatusForHeld(f, s, occupied, against) ==
  IF Cabin[f][s] = "BLOCKED" THEN "BLOCKED"
  ELSE IF s \in occupied THEN "OCCUPIED"
  ELSE IF s \in against THEN "LOCKED" ELSE "AVAILABLE"

(* _status_for: the status OCCUPIED of a cabin is not looked at.           *)
StatusFor(f, s, occupied, against) ==
  IF Cabin[f][s] = "BLOCKED" THEN "BLOCKED"
  ELSE IF s \in occupied \cup against THEN "OCCUPIED" ELSE "AVAILABLE"

(* Mutant: the map is returned before every seat has been asked about.     *)
PublishViewEarly(w) ==
  /\ ViewingAt(w, "locks")
  /\ LET view == viewing[w]
         f    == view.request.flight_id
     IN  seatMap' = [seatMap EXCEPT ![w] =
           [request |-> view.request,
            status  |-> [s \in DOMAIN Cabin[f] |->
                           StatusFor(f, s, view.occupied, view.against)]]]
  /\ viewing' = [viewing EXCEPT ![w] = None]

PublishView(w) ==
  /\ ViewingAt(w, "locks")
  /\ viewing[w].unread = {}
  /\ LET view == viewing[w]
         f    == view.request.flight_id
     IN  seatMap' = [seatMap EXCEPT ![w] =
           [request |-> view.request,
            status  |-> [s \in DOMAIN Cabin[f] |->
                           StatusFor(f, s, view.occupied, view.against)]]]
  /\ viewing' = [viewing EXCEPT ![w] = None]

ViewStep(w) ==
  \/ SnapshotBookings(w)
  \/ StampView(w)
  \/ \E s \in SeatId : QueryLock(w, s)
  \/ PublishView(w)

ViewNext ==
  \E w \in ViewWorkers :
    \/ \E request \in ViewRequests : StartView(w, request)
    \/ ViewStep(w)
=============================================================================
