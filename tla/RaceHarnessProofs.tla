-------------------------- MODULE RaceHarnessProofs ---------------------------
(***************************************************************************)
(* The race has one winner for every number of threads and trials, in      *)
(* whatever order they get through.                                        *)
(***************************************************************************)
EXTENDS RaceHarness, FiniteSetTheorems, TLAPS

LEMMA Threads == Cardinality(HoldWorkers) \in Nat
BY FS_CardinalityType, RaceAssumption

LEMMA OthersLeft ==
  ASSUME NEW v \in HoldWorkers
  PROVE  Cardinality(HoldWorkers \ {v}) = Cardinality(HoldWorkers) - 1
BY FS_RemoveElement, RaceAssumption

(* How a trial that is over is counted.                                    *)
LEMMA Counted ==
  ASSUME NEW v \in HoldWorkers, code[v] = 201, \A w \in HoldWorkers \ {v} : code[w] = 409
  PROVE  /\ Cardinality(Winners) = 1
         /\ Cardinality(Rejections) = Cardinality(HoldWorkers) - 1
<1>1. Winners = {v}
  BY DEF Winners
<1>2. Rejections = HoldWorkers \ {v}
  BY DEF Rejections
<1>3. Cardinality({v}) = 1
  BY FS_Singleton
<1> QED
  BY <1>1, <1>2, <1>3, OthersLeft

LEMMA RaceInitInv == RaceInit => RaceInv
<1> SUFFICES ASSUME RaceInit PROVE RaceInv
  OBVIOUS
<1>1. ThreadsWellFormed
  BY DEF RaceInit, ThreadsWellFormed, LockInit, ClockInit
<1>2. NobodyYet
  BY RaceAssumption DEF RaceInit, NobodyYet, LockInit
<1>3. CountedRight
  BY Threads DEF RaceInit, CountedRight
<1> QED
  BY <1>1, <1>2, <1>3 DEF RaceInv

-----------------------------------------------------------------------------
(* What keeps the two parts of the invariant that a step seldom touches.   *)

LEMMA SeatStands ==
  ASSUME NobodyYet \/ \E v \in HoldWorkers : WonBy(v), UNCHANGED <<bySeat, issued, code>>
  PROVE  NobodyYet' \/ \E v \in HoldWorkers : WonBy(v)'
BY DEF NobodyYet, WonBy, Live

LEMMA SummaryStands == CountedRight /\ UNCHANGED summary => CountedRight'
BY DEF CountedRight

LEMMA ArriveInv ==
  ASSUME RaceInv, NEW w \in HoldWorkers, Arrive(w)
  PROVE  RaceInv'
<1>1. /\ UNCHANGED <<clock, bySeat, byLock, issued, hold, answer, code, summary>>
      /\ task[w] = "queued"
  BY DEF Arrive, lockVars
<1>2. ThreadsWellFormed
  BY DEF RaceInv
<1>3. /\ task' \in [HoldWorkers -> {"queued", "barrier", "posting", "serving", "done"}]
      /\ \A v \in HoldWorkers : /\ task'[v] = "serving" <=> task[v] = "serving"
                                /\ task'[v] = "done" <=> task[v] = "done"
  <2>1. CASE task' = [task EXCEPT ![w] = "barrier"]
    BY <1>1, <1>2, <2>1 DEF ThreadsWellFormed
  <2>2. CASE task' = [v \in HoldWorkers |-> IF v \in AtBarrier \cup {w} THEN "posting" ELSE task[v]]
    BY <1>1, <1>2, <2>2 DEF ThreadsWellFormed, AtBarrier
  <2> QED
    BY <2>1, <2>2 DEF Arrive
<1>4. ThreadsWellFormed'
  BY <1>1, <1>2, <1>3 DEF ThreadsWellFormed, RaceRequest
<1> QED
  BY <1>1, <1>4, SeatStands, SummaryStands DEF RaceInv

LEMMA PostInv ==
  ASSUME RaceInv, NEW w \in HoldWorkers, Post(w)
  PROVE  RaceInv'
<1>1. /\ UNCHANGED <<clock, bySeat, byLock, issued, code, summary>>
      /\ task[w] = "posting"
      /\ task' = [task EXCEPT ![w] = "serving"]
      /\ hold' = [hold EXCEPT ![w] = [request |-> RaceRequest(w), now |-> clock]]
      /\ answer' = [answer EXCEPT ![w] = None]
  BY DEF Post, StampHold, storeVars
<1>2. ThreadsWellFormed
  BY DEF RaceInv
<1>3. ThreadsWellFormed'
  BY <1>1, <1>2 DEF ThreadsWellFormed, RaceRequest
<1> QED
  BY <1>1, <1>3, SeatStands, SummaryStands DEF RaceInv

-----------------------------------------------------------------------------
(* What an attempt that is being served finds.                             *)
LEMMA WhoIsServed ==
  ASSUME ThreadsWellFormed, NEW w \in HoldWorkers, task[w] = "serving"
  PROVE  /\ hold[w] = [request |-> RaceRequest(w), now |-> 0]
         /\ hold[w] # None
         /\ code[w] = 0
         /\ Conflicts(w) = {s \in {RaceSeat} :
                              Live(bySeat[s], 0) /\ bySeat[s].session_id # SessionOf[w]}
<1>1. hold[w] = [request |-> RaceRequest(w), now |-> 0] /\ code[w] = 0
  BY DEF ThreadsWellFormed
<1>2. [request |-> RaceRequest(w), now |-> 0] \in [request : HoldRequests, now : Nat]
  BY RaceAssumption
<1>3. hold[w] # None
  BY <1>1, <1>2, RaceAssumption
<1>4. /\ hold[w].request.seat_ids = {RaceSeat} /\ hold[w].request.session_id = SessionOf[w]
      /\ hold[w].now = 0
  BY <1>1 DEF RaceRequest
<1> QED
  BY <1>1, <1>3, <1>4 DEF Conflicts, FindConflicts

(* One who asks after the winner is in conflict with its session.          *)
LEMMA LateIsRefused ==
  ASSUME ThreadsWellFormed, NEW w \in HoldWorkers, task[w] = "serving",
         NEW v \in HoldWorkers, WonBy(v)
  PROVE  v # w /\ Conflicts(w) # {}
<1>1. code[w] = 0 /\ code[v] = 201
  BY WhoIsServed DEF WonBy
<1>2. v # w
  BY <1>1
<1>3. SessionOf[v] # SessionOf[w]
  BY <1>2, RaceAssumption
<1>4. Live(bySeat[RaceSeat], 0) /\ bySeat[RaceSeat].session_id = SessionOf[v]
  BY DEF WonBy
<1> QED
  BY <1>2, <1>3, <1>4, WhoIsServed

(* The fields of the threads, when one of them has its answer.             *)
LEMMA AnswerKeepsThreads ==
  ASSUME ThreadsWellFormed, NEW w \in HoldWorkers, task[w] = "serving", NEW result,
         NEW status \in {201, 409},
         clock' = clock, hold' = [hold EXCEPT ![w] = None], answer' = [answer EXCEPT ![w] = result],
         task' = [task EXCEPT ![w] = "done"], code' = [code EXCEPT ![w] = status],
         bySeat' = [s \in SeatId |-> bySeat'[s]]
  PROVE  ThreadsWellFormed'
<1>1. clock' = 0 /\ answer' = [v \in HoldWorkers |-> answer'[v]]
  <2>1. clock = 0 /\ answer = [v \in HoldWorkers |-> answer[v]]
    BY DEF ThreadsWellFormed
  <2>2. answer' = [v \in HoldWorkers |-> IF v = w THEN result ELSE answer[v]]
    BY <2>1
  <2> QED
    BY <2>1, <2>2
<1>2. /\ task' \in [HoldWorkers -> {"queued", "barrier", "posting", "serving", "done"}]
      /\ \A v \in HoldWorkers : task'[v] = IF v = w THEN "done" ELSE task[v]
  BY DEF ThreadsWellFormed
<1>3. /\ code' \in [HoldWorkers -> {0, 201, 409}]
      /\ \A v \in HoldWorkers : code'[v] = IF v = w THEN status ELSE code[v]
  BY DEF ThreadsWellFormed
<1>4. \A v \in HoldWorkers : code'[v] = 0 <=> task'[v] # "done"
  BY <1>2, <1>3 DEF ThreadsWellFormed
<1>5. hold' = [v \in HoldWorkers |-> IF task'[v] = "serving"
                                      THEN [request |-> RaceRequest(v), now |-> 0] ELSE None]
  BY <1>2 DEF ThreadsWellFormed
<1> QED
  BY <1>1, <1>2, <1>3, <1>4, <1>5 DEF ThreadsWellFormed, RaceRequest

LEMMA GrantedInv ==
  ASSUME RaceInv, NEW w \in HoldWorkers, GetCode(w), AcquireGranted(w)
  PROVE  RaceInv'
<1>1. /\ task[w] = "serving"
      /\ task' = [task EXCEPT ![w] = "done"]
      /\ code' = [code EXCEPT ![w] = HoldStatus(answer'[w])]
      /\ UNCHANGED summary
  BY DEF GetCode
<1>2. ThreadsWellFormed /\ CountedRight /\ (NobodyYet \/ \E v \in HoldWorkers : WonBy(v))
  BY DEF RaceInv
<1>3. NobodyYet
  BY <1>1, <1>2, LateIsRefused DEF AcquireGranted
<1>4. PICK id \in LockId \ issued : InstallLock(hold[w].request, hold[w].now, id)
                                     /\ Reply(w, Held(id, hold[w].now + LOCK_TTL))
  BY DEF AcquireGranted
<1>5. hold[w].request = RaceRequest(w) /\ hold[w].now = 0
  <2>1. hold[w] = [request |-> RaceRequest(w), now |-> 0]
    BY <1>1, <1>2, WhoIsServed
  <2> QED
    BY <2>1
<1> DEFINE record == [lock_id    |-> id,
                      flight_id  |-> RaceFlight,
                      seat_ids   |-> {RaceSeat},
                      session_id |-> SessionOf[w],
                      expires_at |-> 0 + LOCK_TTL]
<1>6. bySeat' = [s \in SeatId |-> IF s \in {RaceSeat} THEN record ELSE bySeat[s]]
  <2>1. /\ RaceRequest(w).flight_id = RaceFlight /\ RaceRequest(w).seat_ids = {RaceSeat}
        /\ RaceRequest(w).session_id = SessionOf[w]
    BY DEF RaceRequest
  <2> QED
    BY <1>4, <1>5, <2>1 DEF InstallLock
<1>7. Live(record, 0) /\ record.session_id = SessionOf[w]
  <2>1. 0 + LOCK_TTL \in Nat /\ 0 < 0 + LOCK_TTL
    BY LockStoreAssumption
  <2>2. record \in LockRecord
    BY <2>1, RaceAssumption DEF LockRecord
  <2>3. record # None
    BY <2>2, LockStoreAssumption
  <2> QED
    BY <2>1, <2>3 DEF Live
<1> HIDE DEF record
<1>8. /\ hold' = [hold EXCEPT ![w] = None]
      /\ answer' = [answer EXCEPT ![w] = Held(id, hold[w].now + LOCK_TTL)]
      /\ clock' = clock
  BY <1>4 DEF Reply, AcquireGranted
<1>9. HoldStatus(answer'[w]) = 201
  <2>1. answer'[w] = Held(id, hold[w].now + LOCK_TTL)
    BY <1>2, <1>8 DEF ThreadsWellFormed
  <2> QED
    BY <2>1 DEF HoldStatus, Held
<1>10. code' = [code EXCEPT ![w] = 201]
  BY <1>1, <1>9
<1>11. ThreadsWellFormed'
  <2>1. bySeat' = [s \in SeatId |-> bySeat'[s]]
    BY <1>6
  <2> QED
    BY <1>1, <1>2, <1>8, <1>10, <2>1, AnswerKeepsThreads
<1>12. WonBy(w)'
  <2>1. Live(bySeat'[RaceSeat], 0) /\ bySeat'[RaceSeat].session_id = SessionOf[w]
    BY <1>6, <1>7, RaceAssumption
  <2>2. code'[w] = 201 /\ \A v \in HoldWorkers \ {w} : code'[v] = 0
    BY <1>2, <1>3, <1>10 DEF ThreadsWellFormed, NobodyYet
  <2> QED
    BY <2>1, <2>2 DEF WonBy, Live
<1> QED
  BY <1>1, <1>2, <1>11, <1>12, SummaryStands DEF RaceInv

LEMMA RefusedInv ==
  ASSUME RaceInv, NEW w \in HoldWorkers, GetCode(w), AcquireRefused(w)
  PROVE  RaceInv'
<1>1. /\ task[w] = "serving"
      /\ task' = [task EXCEPT ![w] = "done"]
      /\ code' = [code EXCEPT ![w] = HoldStatus(answer'[w])]
      /\ UNCHANGED summary
  BY DEF GetCode
<1>2. ThreadsWellFormed /\ CountedRight /\ (NobodyYet \/ \E v \in HoldWorkers : WonBy(v))
  BY DEF RaceInv
<1>3. /\ UNCHANGED <<clock, bySeat, byLock, issued>> /\ Conflicts(w) # {}
      /\ hold' = [hold EXCEPT ![w] = None]
      /\ answer' = [answer EXCEPT ![w] = Refused(Conflicts(w))]
  BY DEF AcquireRefused, Reply, storeVars
<1>4. ~NobodyYet
  BY <1>1, <1>2, <1>3, WhoIsServed DEF NobodyYet, Live
<1>5. PICK v \in HoldWorkers : WonBy(v)
  BY <1>2, <1>4
<1>6. HoldStatus(answer'[w]) = 409
  <2>1. answer'[w] = Refused(Conflicts(w))
    BY <1>2, <1>3 DEF ThreadsWellFormed
  <2> QED
    BY <1>3, <2>1 DEF HoldStatus, Refused
<1>7. code' = [code EXCEPT ![w] = 409]
  BY <1>1, <1>6
<1>8. ThreadsWellFormed'
  <2>1. bySeat' = [s \in SeatId |-> bySeat'[s]]
    BY <1>2, <1>3 DEF ThreadsWellFormed
  <2> QED
    BY <1>1, <1>2, <1>3, <1>7, <2>1, AnswerKeepsThreads
<1>9. WonBy(v)'
  <2>1. v # w
    BY <1>1, <1>2, <1>5, LateIsRefused
  <2>2. code'[v] = 201 /\ \A u \in HoldWorkers \ {v} : code'[u] # 201
    BY <1>2, <1>5, <1>7, <2>1 DEF ThreadsWellFormed, WonBy
  <2> QED
    BY <1>3, <1>5, <2>2 DEF WonBy, Live
<1> QED
  BY <1>1, <1>2, <1>8, <1>9, SummaryStands DEF RaceInv

LEMMA GetCodeInv ==
  ASSUME RaceInv, NEW w \in HoldWorkers, GetCode(w)
  PROVE  RaceInv'
<1>1. task[w] = "serving" /\ HoldStep(w)
  BY DEF GetCode
<1>2. ThreadsWellFormed /\ (NobodyYet \/ \E v \in HoldWorkers : WonBy(v))
  BY DEF RaceInv
<1>3. ~AcquireOutOfIds(w)
  BY <1>1, <1>2, LateIsRefused, RaceAssumption DEF AcquireOutOfIds, NobodyYet
<1>4. \A request : ~StampHold(w, request)
  BY <1>1, <1>2, WhoIsServed DEF StampHold
<1> QED
  BY <1>1, <1>3, <1>4, GrantedInv, RefusedInv DEF HoldStep

-----------------------------------------------------------------------------
(* When all are done, somebody has won and all others were refused.        *)
LEMMA DoneMeansWon ==
  ASSUME RaceInv, \A w \in HoldWorkers : task[w] = "done"
  PROVE  \E v \in HoldWorkers : WonBy(v) /\ \A w \in HoldWorkers \ {v} : code[w] = 409
<1>1. \A w \in HoldWorkers : code[w] \in {201, 409}
  BY DEF RaceInv, ThreadsWellFormed
<1>2. ~NobodyYet
  BY <1>1, RaceAssumption DEF NobodyYet
<1>3. PICK v \in HoldWorkers : WonBy(v)
  BY <1>2 DEF RaceInv
<1>4. \A w \in HoldWorkers \ {v} : code[w] = 409
  BY <1>1, <1>3 DEF WonBy
<1> QED
  BY <1>3, <1>4

LEMMA EndTrialInv ==
  ASSUME RaceInv, EndTrial
  PROVE  RaceInv'
<1>1. PICK v \in HoldWorkers : WonBy(v) /\ \A w \in HoldWorkers \ {v} : code[w] = 409
  BY DoneMeansWon DEF EndTrial
<1>2. /\ Cardinality(Winners) = 1
      /\ Cardinality(Rejections) = Cardinality(HoldWorkers) - 1
  BY <1>1, Counted DEF WonBy
<1>3. CountedRight /\ ThreadsWellFormed
  BY DEF RaceInv
<1>4. CountedRight'
  <2> DEFINE n == summary.trials
             others == Cardinality(HoldWorkers) - 1
  <2>1. n \in Nat /\ others \in Int
    BY <1>3, Threads DEF CountedRight
  <2>2. (n + 1) * others = n * others + others
    BY SMT, <2>1
  <2>3. /\ summary.total_winners = n /\ summary.total_rejected = n * others
        /\ summary.double_bookings = 0
    BY <1>3 DEF CountedRight
  <2>4. summary' = [trials          |-> n + 1,
                    total_winners   |-> n + 1,
                    total_rejected  |-> (n + 1) * others,
                    double_bookings |-> 0]
    BY <1>2, <2>2, <2>3 DEF EndTrial
  <2> HIDE DEF n, others
  <2>5. summary'.trials = n + 1 /\ n + 1 \in Nat
    BY <2>1, <2>4
  <2> QED
    BY <2>4, <2>5 DEF CountedRight, others
<1>5. ThreadsWellFormed'
  BY <1>3 DEF EndTrial, ThreadsWellFormed
<1>6. NobodyYet'
  BY RaceAssumption DEF EndTrial, NobodyYet
<1> QED
  BY <1>4, <1>5, <1>6 DEF RaceInv

LEMMA RaceNextInv == RaceInv /\ [RaceNext]_raceVars => RaceInv'
<1> SUFFICES ASSUME RaceInv, [RaceNext]_raceVars PROVE RaceInv'
  OBVIOUS
<1>1. ASSUME NEW w \in HoldWorkers, Attempt(w) PROVE RaceInv'
  BY <1>1, ArriveInv, PostInv, GetCodeInv DEF Attempt
<1>2. CASE UNCHANGED raceVars
  <2>1. UNCHANGED <<clock, bySeat, byLock, issued, hold, answer, task, code, summary>>
    BY <1>2 DEF raceVars, lockVars
  <2>2. ThreadsWellFormed'
    BY <2>1 DEF RaceInv, ThreadsWellFormed, RaceRequest
  <2> QED
    BY <2>1, <2>2, SeatStands, SummaryStands DEF RaceInv
<1> QED
  BY <1>1, <1>2, EndTrialInv DEF RaceNext

THEOREM RaceInvariant == RaceSpec => []RaceInv
BY RaceInitInv, RaceNextInv, PTL DEF RaceSpec

(* However many threads race, and in whatever order their requests get     *)
(* through the store, exactly one gets the seat (_run_trial, ADR-008).     *)
THEOREM ExactlyOneWinner == RaceSpec => []OneWinner
<1>1. RaceInv => OneWinner
  <2> SUFFICES ASSUME RaceInv PROVE OneWinner
    OBVIOUS
  <2>1. \A v, w \in Winners : v = w
    BY DEF RaceInv, NobodyYet, WonBy, Winners
  <2>2. ASSUME \A w \in HoldWorkers : task[w] = "done"
        PROVE  \E v \in Winners : \A w \in HoldWorkers \ {v} : code[w] = 409
    BY <2>2, DoneMeansWon DEF WonBy, Winners
  <2> QED
    BY <2>1, <2>2 DEF OneWinner
<1> QED
  BY <1>1, RaceInvariant, PTL

(* The gate's summary is what run_harness says it expects, for every       *)
(* number of trials and threads.                                           *)
THEOREM GateHolds == RaceSpec => []SummaryIsPerfect
<1>1. RaceInv => SummaryIsPerfect
  BY DEF RaceInv, CountedRight, SummaryIsPerfect
<1> QED
  BY <1>1, RaceInvariant, PTL
=============================================================================
