-------------------------- MODULE SeatMapProperties --------------------------
(***************************************************************************)
(* What a client may believe of a seat map that was put together while     *)
(* holds and commits went on.                                              *)
(*                                                                         *)
(* The history variable seen[w] records, for each seat of the flight, what *)
(* has been the case of it at any moment since the view began.  No step of *)
(* the program reads it.                                                   *)
(***************************************************************************)
EXTENDS SeatMap

VARIABLE seen

seatMapVars == <<systemVars, viewVars, seen>>

(* What is the case of a seat, as far as a requester is concerned.         *)
Case(f, session, s) ==
  IF SeatAlreadyBooked(f, s) THEN "sold"
  ELSE IF ~Live(bySeat[s], clock) THEN "free"
  ELSE IF LockedAgainst(bySeat[s], session) THEN "held" ELSE "own"

CasesNow(w) ==
  LET request == viewing[w].request
  IN  [s \in DOMAIN Cabin[request.flight_id] |->
         {Case(request.flight_id, request.session_id, s)}]

(* A view that has begun is a witness of every state until it is answered. *)
Witness ==
  seen' = [w \in ViewWorkers |->
             IF viewing'[w] = None THEN seen[w]
             ELSE IF viewing[w] = None THEN CasesNow(w)'
             ELSE [s \in DOMAIN seen[w] |-> seen[w][s] \cup CasesNow(w)'[s]]]

SeatMapInit == SystemInit /\ ViewsInit /\ seen = [w \in ViewWorkers |-> <<>>]

SeatMapNext ==
  /\ \/ SystemNext /\ UNCHANGED viewVars
     \/ ViewNext /\ UNCHANGED systemVars
  /\ Witness

SeatMapSpec == SeatMapInit /\ [][SeatMapNext]_seatMapVars

-----------------------------------------------------------------------------
(* Type invariant of the views and of their history.                       *)
SeatMapTypeOK ==
  /\ viewing \in [ViewWorkers -> Viewing \cup {None}]
  /\ seatMap \in [ViewWorkers -> SeatMapAnswer \cup {None}]
  /\ \A w \in ViewWorkers : \A s \in DOMAIN seen[w] :
       seen[w][s] \subseteq {"sold", "free", "held", "own"}

Answered(w) == seatMap[w] # None

SellableSeats(w) ==
  {s \in DOMAIN seatMap[w].status :
     Cabin[seatMap[w].request.flight_id][s] # "BLOCKED"}

(* What did not change while the view ran is shown: a seat that was sold   *)
(* all along is taken, so is a seat that others held all along, whoever    *)
(* they were, and a seat the requester held all along is on offer to it,   *)
(* although the view mixes a snapshot, a clock and one query per seat.     *)
SettledSeatsAreShown ==
  \A w \in ViewWorkers : Answered(w) =>
    \A s \in SellableSeats(w) :
      /\ seen[w][s] \in {{"sold"}, {"held"}} => seatMap[w].status[s] = "OCCUPIED"
      /\ seen[w][s] = {"own"} => seatMap[w].status[s] = "AVAILABLE"

(* Why that holds.  A view under way is a record of its request;           *)
ViewsWellFormed ==
  /\ viewing = [w \in ViewWorkers |-> viewing[w]]
  /\ seatMap = [w \in ViewWorkers |-> seatMap[w]]
  /\ \A w \in ViewWorkers : viewing[w] # None =>
       /\ viewing[w] = [stage    |-> viewing[w].stage,
                        request  |-> viewing[w].request,
                        occupied |-> viewing[w].occupied,
                        now      |-> viewing[w].now,
                        unread   |-> viewing[w].unread,
                        against  |-> viewing[w].against]
       /\ viewing[w].now \in Nat
       /\ viewing[w].request.flight_id \in Flight

(* the case a seat is in now has been seen;                                *)
CaseNowSeen ==
  \A w \in ViewWorkers : viewing[w] # None =>
    /\ DOMAIN seen[w] = DOMAIN Cabin[viewing[w].request.flight_id]
    /\ \A s \in DOMAIN seen[w] :
         Case(viewing[w].request.flight_id, viewing[w].request.session_id, s) \in seen[w][s]

(* what the snapshot says of a seat was the case, once, during the view;   *)
SnapshotWasTrue ==
  \A w \in ViewWorkers : viewing[w] # None /\ viewing[w].stage # "bookings" =>
    \A s \in DOMAIN seen[w] :
      IF s \in viewing[w].occupied THEN "sold" \in seen[w][s] ELSE seen[w][s] # {"sold"}

(* no seat is passed over, and what a lock query said of a seat was not    *)
(* always false, since the time the view goes by is not ahead of the clock; *)
EverySeatAsked ==
  \A w \in ViewWorkers : viewing[w] # None =>
    /\ viewing[w].against \cap viewing[w].unread = {}
    /\ viewing[w].stage # "locks" => viewing[w].unread = DOMAIN seen[w]

QueriesWereTrue ==
  \A w \in ViewWorkers : ViewingAt(w, "locks") =>
    /\ viewing[w].now <= clock
    /\ \A s \in DOMAIN seen[w] \ viewing[w].unread :
         IF s \in viewing[w].against THEN seen[w][s] # {"own"} ELSE seen[w][s] # {"held"}

(* and a view under way has no answer yet.                                 *)
AnswersAreFinished ==
  \A w \in ViewWorkers : Answered(w) =>
    viewing[w] = None /\ DOMAIN seen[w] = DOMAIN seatMap[w].status

SeatMapInv ==
  /\ ViewsWellFormed
  /\ CaseNowSeen
  /\ SnapshotWasTrue
  /\ EverySeatAsked
  /\ QueriesWereTrue
  /\ AnswersAreFinished
  /\ SettledSeatsAreShown

-----------------------------------------------------------------------------
(* Statements of the documents that the code contradicts.                  *)

(* "Seat map reflects current truth -- includes seats held by other active *)
(* locks" (journey-book-a-flight): a seat offered to a requester has been  *)
(* neither sold nor held by another at some moment of the view.            *)
OfferedSeatWasFree ==
  \A w \in ViewWorkers : Answered(w) =>
    \A s \in SellableSeats(w) :
      seatMap[w].status[s] = "AVAILABLE" => seen[w][s] \cap {"free", "own"} # {}
=============================================================================
