---------------------------- MODULE SeatLockStore ----------------------------
(***************************************************************************)
(* InMemorySeatLockStore and SeatHoldService: ten-minute seat locks.       *)
(*                                                                         *)
(* The store keeps two dictionaries under one RLock.  bySeat is keyed by   *)
(* the seat id alone, not by flight and seat.  A lock displaced from       *)
(* bySeat by a later lock of its own session stays in byLock.              *)
(*                                                                         *)
(* The RLock makes every store call one step.  SeatHoldService reads the   *)
(* clock before the call, outside the RLock, so a worker thread takes two  *)
(* steps: it stamps the request, and later presents a stamp that may have  *)
(* become stale.                                                           *)
(***************************************************************************)
EXTENDS Clock, Ids

CONSTANTS
  LockId,                 \* the ids the injected generator can hand out
  LOCK_TTL,
  HoldWorkers,            \* threads serving POST /seat-locks
  HoldRequests            \* the requests clients may send

LockRecord == [lock_id    : LockId,
               flight_id  : FlightId,
               seat_ids   : SUBSET SeatId,
               session_id : SessionId,
               expires_at : Nat]

HoldRequest == [flight_id  : FlightId,
                seat_ids   : SUBSET SeatId,
                session_id : SessionId]

ASSUME LockStoreAssumption ==
  /\ LOCK_TTL \in Nat \ {0}
  /\ HoldRequests \subseteq HoldRequest
  /\ None \notin LockRecord \cup [session : SessionId, until : Nat]

VARIABLES
  bySeat,                 \* _by_seat
  byLock,                 \* _by_lock
  issued,                 \* the lock ids _ids() has returned
  hold,                   \* per worker: the stamped request it is serving
  answer                  \* per worker: the SeatHoldResult it returned last

storeVars == <<bySeat, byLock, issued>>
lockVars  == <<clock, bySeat, byLock, issued, hold, answer>>

-----------------------------------------------------------------------------
(* The answers of SeatHoldService.acquire; an exhausted id pool raises.    *)

Held(lockId, expiresAt) ==
  [success |-> TRUE, lock_id |-> lockId, expires_at |-> expiresAt]
(* Mutant: the flag of a refusal is swapped.                               *)
RefusedAsSuccess(seats) == [success |-> TRUE, conflicts |-> seats]

Refused(seats) == [success |-> FALSE, conflicts |-> seats]
Raised == [success |-> FALSE, conflicts |-> {}]

SeatHoldResult ==
  [success : {TRUE}, lock_id : LockId, expires_at : Nat]
    \cup [success : {FALSE}, conflicts : SUBSET SeatId]

-----------------------------------------------------------------------------

Live(record, now) == record # None /\ now < record.expires_at

(* Mutant: a lock counts as expired one tick before it is.                 *)
FindConflictsEarly(seats, session, now) ==
  {s \in seats : Live(bySeat[s], now + 1) /\ bySeat[s].session_id # session}

FindConflicts(seats, session, now) ==
  {s \in seats : Live(bySeat[s], now) /\ bySeat[s].session_id # session}

(* get: the raw record, or None for an id never issued or released.        *)
GetLock(id) == IF id \in LockId THEN byLock[id] ELSE None

IsValid(id, now) == Live(GetLock(id), now)

LockInit ==
  /\ ClockInit
  /\ bySeat = [s \in SeatId |-> None]
  /\ byLock = [l \in LockId |-> None]
  /\ issued = {}
  /\ hold   = [w \in HoldWorkers |-> None]
  /\ answer = [w \in HoldWorkers |-> None]

(* SeatHoldService.acquire evaluates clock.now() before it calls the store. *)
StampHold(w, request) ==
  /\ hold[w] = None
  /\ hold'   = [hold EXCEPT ![w] = [request |-> request, now |-> clock]]
  /\ answer' = [answer EXCEPT ![w] = None]
  /\ UNCHANGED <<clock, storeVars>>

Reply(w, result) ==
  /\ hold'   = [hold EXCEPT ![w] = None]
  /\ answer' = [answer EXCEPT ![w] = result]

(* Mutant: the generator forgets which ids it has handed out.              *)
InstallLockForgetful(request, now, id) ==
  LET record == [lock_id    |-> id,
                 flight_id  |-> request.flight_id,
                 seat_ids   |-> request.seat_ids,
                 session_id |-> request.session_id,
                 expires_at |-> now + LOCK_TTL]
  IN  /\ byLock' = [byLock EXCEPT ![id] = record]
      /\ bySeat' = [s \in SeatId |-> IF s \in request.seat_ids
                                       THEN record ELSE bySeat[s]]
      /\ UNCHANGED issued

InstallLock(request, now, id) ==
  LET record == [lock_id    |-> id,
                 flight_id  |-> request.flight_id,
                 seat_ids   |-> request.seat_ids,
                 session_id |-> request.session_id,
                 expires_at |-> now + LOCK_TTL]
  IN  /\ byLock' = [byLock EXCEPT ![id] = record]
      /\ bySeat' = [s \in SeatId |-> IF s \in request.seat_ids
                                       THEN record ELSE bySeat[s]]
      /\ issued' = issued \cup {id}

(* A thread inside acquire, with the conflicts its stamp makes it see.     *)
Conflicts(w) ==
  FindConflicts(hold[w].request.seat_ids, hold[w].request.session_id, hold[w].now)

AcquireGranted(w) ==
  /\ hold[w] # None
  /\ Conflicts(w) = {}
  /\ \E id \in LockId \ issued :
       /\ InstallLock(hold[w].request, hold[w].now, id)
       /\ Reply(w, Held(id, hold[w].now + LOCK_TTL))
  /\ UNCHANGED clock

AcquireRefused(w) ==
  /\ hold[w] # None
  /\ Conflicts(w) # {}
  /\ Reply(w, Refused(Conflicts(w)))
  /\ UNCHANGED <<clock, storeVars>>

(* DeterministicIdGenerator pops a finite list: IndexError before the store *)
(* has changed anything.                                                   *)
AcquireOutOfIds(w) ==
  /\ hold[w] # None
  /\ Conflicts(w) = {}
  /\ LockId \subseteq issued
  /\ Reply(w, Raised)
  /\ UNCHANGED <<clock, storeVars>>

(* Mutant: release does not look whose record the seat has.                *)
IndexedToAny(s, record) == bySeat[s] # None

IndexedTo(s, record) == bySeat[s] # None /\ bySeat[s].lock_id = record.lock_id

(* Mutant: release forgets the seat index.                                 *)
ReleaseKeepingSeats(id) ==
  /\ byLock' = [byLock EXCEPT ![id] = None]
  /\ UNCHANGED <<bySeat, issued>>

(* release(lock_id): the record goes, and with it the seats still indexed  *)
(* to it; a seat another lock has taken over keeps its record.  An unknown *)
(* id changes nothing.                                                     *)
Release(id) ==
  LET record == GetLock(id)
  IN  /\ byLock' = [byLock EXCEPT ![id] = None]
      /\ bySeat' = [s \in SeatId |->
                      IF record # None /\ s \in record.seat_ids /\ IndexedTo(s, record)
                      THEN None ELSE bySeat[s]]
      /\ UNCHANGED issued

(* The caller is BookingService.commit, at a moment the store cannot know. *)
ReleaseLock(id) ==
  /\ byLock[id] # None
  /\ Release(id)
  /\ UNCHANGED <<clock, hold, answer>>

LockTick == Tick /\ UNCHANGED <<storeVars, hold, answer>>

HoldStep(w) ==
  \/ \E request \in HoldRequests : StampHold(w, request)
  \/ AcquireGranted(w)
  \/ AcquireRefused(w)
  \/ AcquireOutOfIds(w)

LockNext ==
  \/ \E w \in HoldWorkers : HoldStep(w)
  \/ \E id \in LockId : ReleaseLock(id)
  \/ LockTick

LockSpec == LockInit /\ [][LockNext]_lockVars

-----------------------------------------------------------------------------
(* Type invariant of the store and of the threads that call it.            *)
LockTypeOK ==
  /\ clock  \in 0..MaxTime
  /\ bySeat \in [SeatId -> LockRecord \cup {None}]
  /\ byLock \in [LockId -> LockRecord \cup {None}]
  /\ issued \in SUBSET LockId
  /\ hold   \in [HoldWorkers -> [request : HoldRequests, now : 0..MaxTime] \cup {None}]
  /\ answer \in [HoldWorkers -> SeatHoldResult \cup {None}]

(* The two dictionaries agree: a seat is indexed to a record only if that  *)
(* record covers the seat and is the one stored under its lock id, so no   *)
(* seat stays blocked by a lock that release has already purged.           *)
IndexesAgree ==
  \A s \in SeatId : bySeat[s] # None =>
    /\ s \in bySeat[s].seat_ids
    /\ byLock[bySeat[s].lock_id] = bySeat[s]

RecordsUnderTheirId ==
  \A l \in LockId : byLock[l] # None => byLock[l].lock_id = l /\ l \in issued

StampsInThePast == \A w \in HoldWorkers : hold[w] # None => hold[w].now <= clock

(* The inductive strengthening of IndexesAgree: a lock is filed under its  *)
(* own id, which the generator has handed out, and no thread in acquire    *)
(* carries a stamp from the future.                                        *)
LockInv == LockTypeOK /\ IndexesAgree /\ RecordsUnderTheirId /\ StampsInThePast

(* No step takes a seat away from the live lock it is indexed to, unless   *)
(* the same session renewed it or that very lock was released: neither a   *)
(* request stamped long ago nor the release of a lock displaced earlier.   *)
LiveHolderKeepsSeat ==
  [][\A s \in SeatId : Live(bySeat[s], clock) =>
       \/ bySeat'[s] = bySeat[s]
       \/ bySeat'[s] # None /\ bySeat'[s].session_id = bySeat[s].session_id
       \/ bySeat'[s] = None /\ byLock'[bySeat[s].lock_id] = None]_lockVars

LeaseOf(record) ==
  IF record = None THEN None
  ELSE [session |-> record.session_id, until |-> record.expires_at]

Lease == INSTANCE SeatLease WITH lease <- [s \in SeatId |-> LeaseOf(bySeat[s])]

(* The store, with its ids, stamps and two dictionaries, implements a      *)
(* lease per seat that only its holder can lose while it runs.             *)
LeaseSpec == Lease!LeaseSpec
=============================================================================
