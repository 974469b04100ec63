----------------------------- MODULE RaceHarness ------------------------------
(***************************************************************************)
(* scripts/race_last_seat.py, the gate of KPI-T2: in every trial a fresh   *)
(* container is wired, a thread per session waits at a barrier until all   *)
(* are there, and each posts one seat lock for the one seat of the flight. *)
(* The clock of the container is frozen.                                   *)
(***************************************************************************)
EXTENDS SeatLockStore, HttpStatus, FiniteSets

CONSTANTS
  RaceFlight, RaceSeat,
  SessionOf,              \* the session each thread posts for: S-00, S-01, ...
  Trials

RaceRequest(w) ==
  [flight_id |-> RaceFlight, seat_ids |-> {RaceSeat}, session_id |-> SessionOf[w]]

ASSUME RaceAssumption ==
  /\ IsFiniteSet(HoldWorkers) /\ HoldWorkers # {}
  /\ LockId # {}
  /\ RaceFlight \in FlightId /\ RaceSeat \in SeatId
  /\ SessionOf \in [HoldWorkers -> SessionId]
  /\ \A v, w \in HoldWorkers : SessionOf[v] = SessionOf[w] => v = w
  /\ HoldRequests = {RaceRequest(w) : w \in HoldWorkers}
  /\ None \notin [request : HoldRequests, now : Nat]
  /\ Trials \in Nat

VARIABLES
  task,                   \* per thread: where its attempt is
  code,                   \* per thread: the status it got, 0 before that
  summary

raceVars == <<lockVars, task, code, summary>>

Running == {w \in HoldWorkers : task[w] \in {"barrier", "posting", "serving"}}

AtBarrier == {w \in HoldWorkers : task[w] = "barrier"}

(* Mutant: a pool that is one thread short of the barrier.                 *)
OneWorkerShort == Cardinality(HoldWorkers) - 1

MaxWorkers == Cardinality(HoldWorkers)

Parties == Cardinality(HoldWorkers)

RaceInit ==
  /\ LockInit
  /\ task = [w \in HoldWorkers |-> "queued"]
  /\ code = [w \in HoldWorkers |-> 0]
  /\ summary = [trials |-> 0, total_winners |-> 0, total_rejected |-> 0, double_bookings |-> 0]

-----------------------------------------------------------------------------
(* A thread of the pool takes an attempt up, if one is free; the last to   *)
(* arrive at the barrier opens it for all.                                 *)
Arrive(w) ==
  /\ task[w] = "queued"
  /\ summary.trials < Trials
  /\ Cardinality(Running) < MaxWorkers
  /\ task' = IF Cardinality(AtBarrier) + 1 = Parties
               THEN [v \in HoldWorkers |-> IF v \in AtBarrier \cup {w} THEN "posting" ELSE task[v]]
               ELSE [task EXCEPT ![w] = "barrier"]
  /\ UNCHANGED <<lockVars, code, summary>>

Post(w) ==
  /\ task[w] = "posting"
  /\ StampHold(w, RaceRequest(w))
  /\ task' = [task EXCEPT ![w] = "serving"]
  /\ UNCHANGED <<code, summary>>

(* acquire grants, refuses or raises.                                      *)
GetCode(w) ==
  /\ task[w] = "serving"
  /\ HoldStep(w)
  /\ task' = [task EXCEPT ![w] = "done"]
  /\ code' = [code EXCEPT ![w] = HoldStatus(answer'[w])]
  /\ UNCHANGED summary

Winners == {w \in HoldWorkers : code[w] = 201}
Rejections == {w \in HoldWorkers : code[w] = 409}

(* Any other code ends the harness with an error: no further trial.        *)
EndTrial ==
  /\ \A w \in HoldWorkers : task[w] = "done" /\ code[w] \in {201, 409}
  /\ summary' = [trials          |-> summary.trials + 1,
                 total_winners   |-> summary.total_winners + Cardinality(Winners),
                 total_rejected  |-> summary.total_rejected + Cardinality(Rejections),
                 double_bookings |-> summary.double_bookings
                                       + IF Cardinality(Winners) > 1 THEN 1 ELSE 0]
  /\ bySeat' = [s \in SeatId |-> None]
  /\ byLock' = [l \in LockId |-> None]
  /\ issued' = {}
  /\ hold'   = [w \in HoldWorkers |-> None]
  /\ answer' = [w \in HoldWorkers |-> None]
  /\ task'   = [w \in HoldWorkers |-> "queued"]
  /\ code'   = [w \in HoldWorkers |-> 0]
  /\ UNCHANGED clock

Attempt(w) == Arrive(w) \/ Post(w) \/ GetCode(w)

RaceNext == (\E w \in HoldWorkers : Attempt(w)) \/ EndTrial

RaceSpec == RaceInit /\ [][RaceNext]_raceVars

(* The threads of the pool run.                                            *)
FairRaceSpec ==
  /\ RaceSpec
  /\ \A w \in HoldWorkers : WF_raceVars(Attempt(w))
  /\ WF_raceVars(EndTrial)

-----------------------------------------------------------------------------
(* At every moment of a trial one thread at most has won, and when all     *)
(* have their answer one has and all others were turned away with a 409:   *)
(* no 500, no race without a winner.                                       *)
OneWinner ==
  /\ \A v, w \in Winners : v = w
  /\ (\A w \in HoldWorkers : task[w] = "done") =>
       \E v \in Winners : \A w \in HoldWorkers \ {v} : code[w] = 409

(* The summary the gate of KPI-T2 expects, after every trial: as many      *)
(* winners as trials, all the others rejected, no double booking.          *)
SummaryIsPerfect ==
  /\ summary.total_winners = summary.trials
  /\ summary.total_rejected = summary.trials * (Cardinality(HoldWorkers) - 1)
  /\ summary.double_bookings = 0

(* The harness gets through: no thread is left waiting at the barrier.     *)
HarnessEnds == <>(summary.trials = Trials)

(* The inductive strengthening, by parts.  A thread that is being served   *)
(* carries its request and the frozen time, and a code when it is done;    *)
ThreadsWellFormed ==
  /\ clock = 0
  /\ task \in [HoldWorkers -> {"queued", "barrier", "posting", "serving", "done"}]
  /\ hold = [w \in HoldWorkers |-> IF task[w] = "serving"
                                     THEN [request |-> RaceRequest(w), now |-> 0] ELSE None]
  /\ answer = [w \in HoldWorkers |-> answer[w]]
  /\ bySeat = [s \in SeatId |-> bySeat[s]]
  /\ code \in [HoldWorkers -> {0, 201, 409}]
  /\ \A w \in HoldWorkers : code[w] = 0 <=> task[w] # "done"

(* before a thread has won nothing is locked and nobody was turned away,   *)
NobodyYet ==
  bySeat[RaceSeat] = None /\ issued = {} /\ \A w \in HoldWorkers : code[w] = 0

(* and then the seat is its session's for the rest of the trial;           *)
WonBy(v) ==
  /\ code[v] = 201
  /\ \A w \in HoldWorkers \ {v} : code[w] # 201
  /\ Live(bySeat[RaceSeat], 0)
  /\ bySeat[RaceSeat].session_id = SessionOf[v]

(* and the trials that are over had one winner each.                       *)
CountedRight ==
  /\ summary = [trials          |-> summary.trials,
                total_winners   |-> summary.trials,
                total_rejected  |-> summary.trials * (Cardinality(HoldWorkers) - 1),
                double_bookings |-> 0]
  /\ summary.trials \in Nat

RaceInv ==
  /\ ThreadsWellFormed
  /\ NobodyYet \/ \E v \in HoldWorkers : WonBy(v)
  /\ CountedRight
=============================================================================
