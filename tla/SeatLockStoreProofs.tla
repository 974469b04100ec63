------------------------- MODULE SeatLockStoreProofs -------------------------
(***************************************************************************)
(* What holds of the seat-lock store for every number of seats, sessions,  *)
(* threads and lock ids and every TTL.                                     *)
(*                                                                         *)
(* Everything follows from LockInv.  The one argument that is not          *)
(* bookkeeping is in AcquireGranted: the thread judges expiry by a stamp   *)
(* that may be old, but a stamp is never ahead of the clock, so a record   *)
(* that is live now is live for the stamp too and is seen as a conflict.   *)
(***************************************************************************)
EXTENDS SeatLockStore, TLAPS

USE ClockAssumption, LockStoreAssumption

(* A lock that is live now was live at any earlier stamp.                  *)
LEMMA LiveEarlier ==
  ASSUME NEW record \in LockRecord \cup {None},
         NEW now \in Nat, NEW stamp \in Nat, stamp <= now,
         Live(record, now)
  PROVE  Live(record, stamp)
BY DEF Live, LockRecord

LEMMA LockInitInv == LockInit => LockInv
BY DEF LockInit, ClockInit, LockInv, LockTypeOK, IndexesAgree,
       RecordsUnderTheirId, StampsInThePast

(* A stamped request is well typed.                                        *)
LEMMA StampedRequest ==
  ASSUME LockTypeOK, NEW w \in HoldWorkers, hold[w] # None
  PROVE  /\ hold[w] \in [request : HoldRequests, now : 0..MaxTime]
         /\ hold[w].request \in HoldRequest
         /\ hold[w].now \in Nat
BY DEF LockTypeOK

LEMMA GrantedInv ==
  ASSUME LockInv, NEW w \in HoldWorkers, AcquireGranted(w)
  PROVE  LockInv'
<1> DEFINE request == hold[w].request
           now == hold[w].now
<1>1. PICK id \in LockId \ issued :
        /\ InstallLock(request, now, id)
        /\ Reply(w, Held(id, now + LOCK_TTL))
  BY DEF AcquireGranted
<1> DEFINE record == [lock_id    |-> id,
                      flight_id  |-> request.flight_id,
                      seat_ids   |-> request.seat_ids,
                      session_id |-> request.session_id,
                      expires_at |-> now + LOCK_TTL]
<1>2. request \in HoldRequest /\ now \in Nat
  BY StampedRequest DEF LockInv, AcquireGranted
<1>3. record \in LockRecord
  BY <1>2 DEF LockRecord, HoldRequest
<1>4. /\ byLock' = [byLock EXCEPT ![id] = record]
      /\ bySeat' = [s \in SeatId |-> IF s \in record.seat_ids THEN record ELSE bySeat[s]]
      /\ issued' = issued \cup {id}
      /\ hold' = [hold EXCEPT ![w] = None]
      /\ answer' = [answer EXCEPT ![w] = Held(id, now + LOCK_TTL)]
      /\ clock' = clock
  BY <1>1 DEF InstallLock, Reply, AcquireGranted
<1>5. Held(id, now + LOCK_TTL) \in SeatHoldResult
  <2>1. now + LOCK_TTL \in Nat
    BY <1>2
  <2> QED BY <2>1, Zenon DEF Held, SeatHoldResult
<1> HIDE DEF record
<1>6. LockTypeOK'
  BY <1>3, <1>4, <1>5 DEF LockInv, LockTypeOK
<1>7. IndexesAgree'
  <2> SUFFICES ASSUME NEW s \in SeatId, bySeat'[s] # None
               PROVE  s \in bySeat'[s].seat_ids /\ byLock'[bySeat'[s].lock_id] = bySeat'[s]
    BY DEF IndexesAgree
  <2>1. CASE s \in record.seat_ids
    <3>1. record.lock_id = id
      BY DEF record
    <3> QED BY <2>1, <3>1, <1>4 DEF LockInv, LockTypeOK
  <2>2. CASE s \notin record.seat_ids
    <3>1. bySeat'[s] = bySeat[s]
      BY <2>2, <1>4
    <3>2. bySeat[s] \in LockRecord /\ byLock[bySeat[s].lock_id] = bySeat[s]
      BY <3>1 DEF LockInv, LockTypeOK, IndexesAgree
    <3>3. bySeat[s].lock_id \in issued
      BY <3>1, <3>2 DEF LockInv, RecordsUnderTheirId, LockRecord
    <3> QED BY <3>1, <3>2, <3>3, <1>4 DEF LockInv, LockTypeOK, IndexesAgree
  <2> QED BY <2>1, <2>2
<1>8. RecordsUnderTheirId'
  <2>1. record.lock_id = id
    BY DEF record
  <2> QED BY <2>1, <1>4 DEF LockInv, LockTypeOK, RecordsUnderTheirId
<1>9. StampsInThePast'
  BY <1>4 DEF LockInv, LockTypeOK, StampsInThePast
<1> QED BY <1>6, <1>7, <1>8, <1>9 DEF LockInv

LEMMA ReleaseInv ==
  ASSUME LockInv, NEW id \in LockId, Release(id), UNCHANGED <<clock, hold, answer>>
  PROVE  LockInv'
<1>1. LockTypeOK'
  BY DEF LockInv, LockTypeOK, Release, GetLock, IndexedTo
<1>2. IndexesAgree'
  <2> SUFFICES ASSUME NEW s \in SeatId, bySeat'[s] # None
               PROVE  s \in bySeat'[s].seat_ids /\ byLock'[bySeat'[s].lock_id] = bySeat'[s]
    BY DEF IndexesAgree
  <2>1. bySeat'[s] = bySeat[s]
    BY DEF Release, GetLock, IndexedTo
  <2>2. bySeat[s] \in LockRecord /\ s \in bySeat[s].seat_ids
        /\ byLock[bySeat[s].lock_id] = bySeat[s]
    BY <2>1 DEF LockInv, LockTypeOK, IndexesAgree
  <2>3. bySeat[s].lock_id # id
    BY <2>1, <2>2 DEF Release, GetLock, IndexedTo
  <2> QED BY <2>1, <2>2, <2>3 DEF Release, GetLock, IndexedTo, LockInv, LockTypeOK, LockRecord
<1>3. RecordsUnderTheirId' /\ StampsInThePast'
  BY DEF LockInv, LockTypeOK, Release, GetLock, IndexedTo, RecordsUnderTheirId, StampsInThePast
<1> QED BY <1>1, <1>2, <1>3 DEF LockInv

LEMMA LockStepInv == LockInv /\ [LockNext]_lockVars => LockInv'
<1> SUFFICES ASSUME LockInv, [LockNext]_lockVars PROVE LockInv'
  OBVIOUS
<1>1. CASE UNCHANGED lockVars
  BY <1>1 DEF lockVars, storeVars, LockInv, LockTypeOK, IndexesAgree,
              RecordsUnderTheirId, StampsInThePast
<1>2. ASSUME NEW w \in HoldWorkers, NEW request \in HoldRequests, StampHold(w, request)
      PROVE  LockInv'
  BY <1>2 DEF StampHold, storeVars, LockInv, LockTypeOK, IndexesAgree,
              RecordsUnderTheirId, StampsInThePast
<1>3. ASSUME NEW w \in HoldWorkers, AcquireGranted(w) PROVE LockInv'
  BY <1>3, GrantedInv
<1>4. ASSUME NEW w \in HoldWorkers, AcquireRefused(w) PROVE LockInv'
  <2>1. Refused(Conflicts(w)) \in SeatHoldResult
    BY <1>4, StampedRequest
    DEF Refused, Conflicts, FindConflicts, SeatHoldResult, LockInv, AcquireRefused,
        HoldRequest
  <2> QED BY <1>4, <2>1 DEF AcquireRefused, Reply, storeVars, LockInv, LockTypeOK,
                            IndexesAgree, RecordsUnderTheirId, StampsInThePast
<1>5. ASSUME NEW w \in HoldWorkers, AcquireOutOfIds(w) PROVE LockInv'
  <2>1. Raised \in SeatHoldResult
    BY DEF Raised, SeatHoldResult
  <2> QED BY <1>5, <2>1 DEF AcquireOutOfIds, Reply, storeVars, LockInv, LockTypeOK,
                            IndexesAgree, RecordsUnderTheirId, StampsInThePast
<1>6. ASSUME NEW id \in LockId, ReleaseLock(id) PROVE LockInv'
  BY <1>6, ReleaseInv DEF ReleaseLock
<1>7. CASE LockTick
  BY <1>7 DEF LockTick, Tick, storeVars, LockInv, LockTypeOK, IndexesAgree,
              RecordsUnderTheirId, StampsInThePast
<1> QED BY <1>1, <1>2, <1>3, <1>4, <1>5, <1>6, <1>7 DEF LockNext, HoldStep

(* The two dictionaries of the store always agree, in whatever order       *)
(* threads acquire, renew and release: no seat is left blocked by a lock   *)
(* that release has purged.                                                *)
THEOREM StoreIndexesAgree == LockSpec => []IndexesAgree
<1>1. LockInv => IndexesAgree
  BY DEF LockInv
<1> QED BY <1>1, LockInitInv, LockStepInv, PTL DEF LockSpec

(* The inductive invariant itself, with the types.                         *)
THEOREM StoreInvariant == LockSpec => []LockInv
BY LockInitInv, LockStepInv, PTL DEF LockSpec

(* Type correctness of the store and of the threads that call it.          *)
THEOREM StoreIsTyped == LockSpec => []LockTypeOK
<1>1. LockInv => LockTypeOK
  BY DEF LockInv
<1> QED BY <1>1, StoreInvariant, PTL

-----------------------------------------------------------------------------
(* The action properties, each from LockInv before the step.               *)

LEMMA GrantedKeepsHolder ==
  ASSUME LockInv, NEW w \in HoldWorkers, AcquireGranted(w),
         NEW s \in SeatId, Live(bySeat[s], clock)
  PROVE  \/ bySeat'[s] = bySeat[s]
         \/ bySeat'[s] # None /\ bySeat'[s].session_id = bySeat[s].session_id
<1> DEFINE request == hold[w].request
           now == hold[w].now
<1>1. PICK id \in LockId \ issued : InstallLock(request, now, id)
  BY DEF AcquireGranted
<1>2. CASE s \notin request.seat_ids
  BY <1>1, <1>2 DEF InstallLock
<1>3. CASE s \in request.seat_ids
  <2>1. bySeat[s] \in LockRecord \cup {None} /\ clock \in Nat /\ now \in Nat /\ now <= clock
    BY StampedRequest DEF LockInv, LockTypeOK, StampsInThePast, AcquireGranted
  <2>2. Live(bySeat[s], now)
    BY <2>1, LiveEarlier
  <2>3. bySeat[s].session_id = request.session_id
    BY <1>3, <2>2 DEF AcquireGranted, Conflicts, FindConflicts
  <2>4. bySeat'[s].session_id = request.session_id
    BY <1>1, <1>3 DEF InstallLock
  <2>5. bySeat'[s] # None
    <3>1. LockInv'
      BY GrantedInv
    <3>2. bySeat'[s] = [lock_id    |-> id,
                        flight_id  |-> request.flight_id,
                        seat_ids   |-> request.seat_ids,
                        session_id |-> request.session_id,
                        expires_at |-> now + LOCK_TTL]
      BY <1>1, <1>3 DEF InstallLock
    <3>3. bySeat'[s] \in LockRecord
      <4>1. request \in HoldRequest /\ now + LOCK_TTL \in Nat
        BY StampedRequest DEF LockInv, AcquireGranted
      <4> QED BY <3>2, <4>1 DEF LockRecord, HoldRequest
    <3> QED BY <3>3
  <2> QED BY <2>3, <2>4, <2>5
<1> QED BY <1>2, <1>3

LEMMA ReleaseKeepsOthers ==
  ASSUME LockInv, NEW id \in LockId, Release(id), NEW s \in SeatId, bySeat[s] # None
  PROVE  \/ bySeat'[s] = bySeat[s]
         \/ bySeat'[s] = None /\ byLock'[bySeat[s].lock_id] = None
<1>1. bySeat[s] \in LockRecord /\ byLock[bySeat[s].lock_id] = bySeat[s]
  BY DEF LockInv, LockTypeOK, IndexesAgree
<1>2. CASE bySeat[s].lock_id = id
  BY <1>1, <1>2 DEF Release, GetLock, IndexedTo, LockInv, LockTypeOK, LockRecord
<1>3. CASE bySeat[s].lock_id # id
  BY <1>1, <1>3 DEF Release, GetLock, IndexedTo, LockInv, LockTypeOK, RecordsUnderTheirId
<1> QED BY <1>2, <1>3

(* A live lock loses a seat only to a renewal by its own session or to its *)
(* own release, however stale the stamp another thread acquires with.      *)
THEOREM LiveHolderIsKept == LockSpec => LiveHolderKeepsSeat
<1> DEFINE Kept == \A s \in SeatId : Live(bySeat[s], clock) =>
                     \/ bySeat'[s] = bySeat[s]
                     \/ bySeat'[s] # None /\ bySeat'[s].session_id = bySeat[s].session_id
                     \/ bySeat'[s] = None /\ byLock'[bySeat[s].lock_id] = None
<1>1. LockInv /\ [LockNext]_lockVars => [Kept]_lockVars
  <2> SUFFICES ASSUME LockInv, LockNext, NEW s \in SeatId, Live(bySeat[s], clock)
               PROVE  \/ bySeat'[s] = bySeat[s]
                      \/ bySeat'[s] # None /\ bySeat'[s].session_id = bySeat[s].session_id
                      \/ bySeat'[s] = None /\ byLock'[bySeat[s].lock_id] = None
    OBVIOUS
  <2>1. ASSUME NEW w \in HoldWorkers, HoldStep(w), ~AcquireGranted(w)
        PROVE  bySeat' = bySeat
    BY <2>1 DEF HoldStep, StampHold, AcquireRefused, AcquireOutOfIds, storeVars
  <2>2. ASSUME NEW w \in HoldWorkers, AcquireGranted(w)
        PROVE  \/ bySeat'[s] = bySeat[s]
               \/ bySeat'[s] # None /\ bySeat'[s].session_id = bySeat[s].session_id
    BY <2>2, GrantedKeepsHolder
  <2>3. ASSUME NEW id \in LockId, ReleaseLock(id)
        PROVE  \/ bySeat'[s] = bySeat[s]
               \/ bySeat'[s] = None /\ byLock'[bySeat[s].lock_id] = None
    BY <2>3, ReleaseKeepsOthers DEF ReleaseLock, Live
  <2>4. LockTick => bySeat' = bySeat
    BY DEF LockTick, storeVars
  <2> QED BY <2>1, <2>2, <2>3, <2>4 DEF LockNext
<1> QED BY <1>1, LockInitInv, LockStepInv, PTL DEF LockSpec, LiveHolderKeepsSeat

-----------------------------------------------------------------------------
(* The refinement of SeatLease.                                            *)

leases == [s \in SeatId |-> LeaseOf(bySeat[s])]

(* A seat's abstract lease runs exactly while its record is live.          *)
LEMMA LeaseRuns ==
  ASSUME LockInv, NEW s \in SeatId
  PROVE  /\ Lease!Running(s) <=> Live(bySeat[s], clock)
         /\ bySeat[s] # None => leases[s].session = bySeat[s].session_id
         /\ leases[s] # None <=> bySeat[s] # None
<1>1. bySeat[s] \in LockRecord \cup {None}
  BY DEF LockInv, LockTypeOK
<1>2. bySeat[s] # None =>
        [session |-> bySeat[s].session_id, until |-> bySeat[s].expires_at]
          \in [session : SessionId, until : Nat]
  BY <1>1 DEF LockRecord
<1> QED BY <1>2 DEF Lease!Running, Live, leases, LeaseOf

LEMMA GrantedRefines ==
  ASSUME LockInv, NEW w \in HoldWorkers, AcquireGranted(w)
  PROVE  Lease!Grant(hold[w].request.session_id, hold[w].request.seat_ids)
<1> DEFINE request == hold[w].request
           now == hold[w].now
           until == now + LOCK_TTL
<1>1. PICK id \in LockId \ issued : InstallLock(request, now, id)
  BY DEF AcquireGranted
<1>2. now \in Nat /\ clock \in Nat /\ now <= clock /\ request \in HoldRequest
  BY StampedRequest DEF LockInv, LockTypeOK, StampsInThePast, AcquireGranted
<1>3. ASSUME NEW s \in request.seat_ids, Lease!Running(s)
      PROVE  leases[s].session = request.session_id
  <2>1. s \in SeatId
    BY <1>2 DEF HoldRequest
  <2>2. Live(bySeat[s], clock) /\ bySeat[s] \in LockRecord \cup {None}
    BY <1>3, <2>1, LeaseRuns DEF LockInv, LockTypeOK
  <2>3. Live(bySeat[s], now)
    BY <1>2, <2>2, LiveEarlier
  <2>4. bySeat[s].session_id = request.session_id
    BY <2>1, <2>3 DEF AcquireGranted, Conflicts, FindConflicts
  <2> QED BY <2>1, <2>2, <2>4, LeaseRuns DEF Live
<1>4. until \in 0..(clock + LOCK_TTL)
  BY <1>2
<1>5. leases' = [s \in SeatId |-> IF s \in request.seat_ids
                                  THEN [session |-> request.session_id, until |-> until]
                                  ELSE leases[s]]
  <2> DEFINE record == [lock_id    |-> id,
                        flight_id  |-> request.flight_id,
                        seat_ids   |-> request.seat_ids,
                        session_id |-> request.session_id,
                        expires_at |-> until]
  <2>1. record \in LockRecord
    BY <1>2 DEF LockRecord, HoldRequest
  <2>2. LeaseOf(record) = [session |-> request.session_id, until |-> until]
    BY <2>1 DEF LeaseOf
  <2>3. bySeat' = [s \in SeatId |-> IF s \in request.seat_ids THEN record ELSE bySeat[s]]
    BY <1>1 DEF InstallLock
  <2> HIDE DEF record
  <2> QED BY <2>2, <2>3 DEF leases
<1>6. clock' = clock
  BY DEF AcquireGranted
<1> HIDE DEF until
<1> QED BY <1>3, <1>4, <1>5, <1>6 DEF Lease!Grant, leases

LEMMA ReleaseRefines ==
  ASSUME LockInv, NEW id \in LockId, ReleaseLock(id)
  PROVE  \E session \in SessionId, seats \in SUBSET SeatId : Lease!GiveUp(session, seats)
<1> DEFINE session == byLock[id].session_id
           seats == {s \in SeatId : bySeat[s] # None /\ bySeat[s].lock_id = id}
<1>1. byLock[id] \in LockRecord /\ byLock[id].lock_id = id
  BY DEF ReleaseLock, LockInv, LockTypeOK, RecordsUnderTheirId
<1>2. session \in SessionId /\ seats \in SUBSET SeatId
  BY <1>1 DEF LockRecord
<1>3. ASSUME NEW s \in seats PROVE leases[s] # None /\ leases[s].session = session
  <2>1. bySeat[s] = byLock[id]
    BY DEF LockInv, IndexesAgree
  <2> QED BY <2>1, LeaseRuns
<1>4. leases' = [s \in SeatId |-> IF s \in seats THEN None ELSE leases[s]]
  <2>1. ASSUME NEW s \in SeatId
        PROVE  bySeat'[s] = IF s \in seats THEN None ELSE bySeat[s]
    <3>1. s \in seats => s \in byLock[id].seat_ids
      BY DEF LockInv, IndexesAgree
    <3> QED BY <1>1, <3>1 DEF ReleaseLock, Release, GetLock, IndexedTo, GetLock, IndexedTo
  <2> HIDE DEF seats
  <2> QED BY <2>1 DEF leases, LeaseOf
<1>5. clock' = clock
  BY DEF ReleaseLock
<1> HIDE DEF session, seats
<1> QED BY <1>2, <1>3, <1>4, <1>5 DEF Lease!GiveUp, leases

(* The store implements the abstract lease: renewals, partial overlaps,    *)
(* stale stamps and releases are grants and give-ups of a lease, and no    *)
(* grant touches a lease of another session that still runs.               *)
THEOREM StoreImplementsLease == LockSpec => LeaseSpec
<1>1. LockInit => Lease!LeaseInit
  BY DEF LockInit, Lease!LeaseInit, Lease!ClockInit, ClockInit, LeaseOf
<1>2. LockInv /\ [LockNext]_lockVars => [Lease!LeaseNext]_(Lease!leaseVars)
  <2> SUFFICES ASSUME LockInv, [LockNext]_lockVars
               PROVE  [Lease!LeaseNext]_(Lease!leaseVars)
    OBVIOUS
  <2>1. CASE bySeat' = bySeat /\ clock' = clock
    BY <2>1 DEF Lease!leaseVars
  <2>2. ASSUME NEW w \in HoldWorkers, AcquireGranted(w) PROVE Lease!LeaseNext
    <3>1. hold[w].request.session_id \in SessionId /\ hold[w].request.seat_ids \in SUBSET SeatId
      BY <2>2, StampedRequest DEF LockInv, AcquireGranted, HoldRequest
    <3> QED BY <2>2, <3>1, GrantedRefines DEF Lease!LeaseNext
  <2>3. ASSUME NEW w \in HoldWorkers, HoldStep(w), ~AcquireGranted(w)
        PROVE  bySeat' = bySeat /\ clock' = clock
    BY <2>3 DEF HoldStep, StampHold, AcquireRefused, AcquireOutOfIds, storeVars
  <2>4. ASSUME NEW id \in LockId, ReleaseLock(id) PROVE Lease!LeaseNext
    BY <2>4, ReleaseRefines DEF Lease!LeaseNext
  <2>5. ASSUME LockTick PROVE Lease!LeaseNext
    BY <2>5 DEF LockTick, storeVars, Tick, Lease!LeaseNext, Lease!Tick
  <2>6. CASE UNCHANGED lockVars
    BY <2>1, <2>6 DEF lockVars
  <2> QED BY <2>1, <2>2, <2>3, <2>4, <2>5, <2>6 DEF LockNext
<1> QED BY <1>1, <1>2, LockInitInv, LockStepInv, PTL
        DEF LockSpec, LeaseSpec, Lease!LeaseSpec
=============================================================================
