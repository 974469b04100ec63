----------------------------- MODULE BookingProofs -----------------------------
(***************************************************************************)
(* What holds of the booking system for every number of threads, flights,  *)
(* seats, sessions, ids and requests.                                      *)
(*                                                                         *)
(* First, the composed system only ever takes steps of the seat-lock       *)
(* store, so all that SeatLockStoreProofs shows carries over.  Then,       *)
(* CommitInv is inductive: whoever is inside commit is alone there, so     *)
(* bookings do not change under a commit's feet, and a lock it has         *)
(* validated is removed by nobody else.                                    *)
(***************************************************************************)
EXTENDS BookingProperties, SeatLockStoreProofs

USE BookingAssumption

-----------------------------------------------------------------------------
(* The store inside the system.                                            *)

(* Releasing an id the store does not hold changes nothing.                *)
LEMMA ReleaseUnknown ==
  ASSUME LockInv, NEW id, GetLock(id) = None, Release(id)
  PROVE  UNCHANGED storeVars
<1>1. byLock' = byLock
  BY DEF Release, GetLock, LockInv, LockTypeOK
<1>2. bySeat' = bySeat
  BY DEF Release, LockInv, LockTypeOK
<1> QED BY <1>1, <1>2 DEF Release, storeVars

LEMMA ReleaseSeatLockOfStore ==
  ASSUME LockInv, NEW w \in CommitWorkers, ReleaseSeatLock(w)
  PROVE  [LockNext]_lockVars
<1> DEFINE id == Request(w).lock_id
<1>1. Release(id) /\ UNCHANGED <<clock, hold, answer>>
  BY DEF ReleaseSeatLock
<1>2. CASE GetLock(id) = None
  BY <1>1, <1>2, ReleaseUnknown DEF lockVars, storeVars
<1>3. CASE GetLock(id) # None
  <2>1. id \in LockId /\ byLock[id] # None
    BY <1>3 DEF GetLock
  <2> QED BY <1>1, <2>1 DEF ReleaseLock, LockNext
<1> QED BY <1>2, <1>3

(* A step of the system is a step of the store or leaves the store alone.  *)
LEMMA SystemStepOfStore ==
  ASSUME LockInv, [SystemNext]_systemVars
  PROVE  [LockNext]_lockVars
<1>1. CASE UNCHANGED systemVars
  BY <1>1 DEF systemVars
<1>2. ASSUME NEW w \in CommitWorkers, NEW request \in CommitRequests, ReceiveCommit(w, request)
      PROVE  UNCHANGED lockVars
  BY <1>2 DEF ReceiveCommit
<1>3. ASSUME NEW w \in CommitWorkers, CommitStep(w), ~ReleaseSeatLock(w)
      PROVE  UNCHANGED lockVars
  BY <1>3 DEF CommitStep, EnterCommit, ReadValidQuote, ReadRawQuote, ValidateSeats,
              CheckLockValid, CheckLockOwner, ReadRawLock, Charge, ChargeDeclined,
              SaveAndConfirm, OutOfReferences, AuditCommit,
              OnlyReads, OnlyAudits, OnlyCharges
<1>4. ASSUME NEW w \in CommitWorkers, ReleaseSeatLock(w) PROVE [LockNext]_lockVars
  BY <1>4, ReleaseSeatLockOfStore
<1>5. ASSUME NEW w \in HoldWorkers, HoldBeside(w) PROVE LockNext
  BY <1>5 DEF HoldBeside, LockNext
<1>6. ASSUME NEW w \in QuoteWorkers, QuoteBeside(w) PROVE UNCHANGED lockVars
  BY <1>6 DEF QuoteBeside
<1>7. CASE TickBeside
  BY <1>7 DEF TickBeside, LockNext
<1> QED BY <1>1, <1>2, <1>3, <1>4, <1>5, <1>6, <1>7 DEF SystemNext

LEMMA SystemLockInv == LockInv /\ [SystemNext]_systemVars => LockInv'
BY SystemStepOfStore, LockStepInv

(* Inside the running system, with commits releasing locks between their   *)
(* save and their audit event, the seat-lock store behaves as specified on *)
(* its own.                                                                *)
LEMMA SystemRunsTheStore == SystemSpec => LockSpec
<1>1. SystemInit => LockInit
  BY DEF SystemInit
<1>2. LockInv /\ [SystemNext]_systemVars => [LockNext]_lockVars
  BY SystemStepOfStore
<1> QED BY <1>1, <1>2, LockInitInv, SystemLockInv, PTL DEF SystemSpec, LockSpec

(* Seat locks keep their promise inside the running system: a running      *)
(* lease is lost only by its own session's renewal or release.             *)
THEOREM SystemImplementsLease == SystemSpec => LeaseSpec
BY SystemRunsTheStore, StoreImplementsLease

-----------------------------------------------------------------------------
(* The commits.                                                            *)

LEMMA SystemInitInv == SystemInit => CommitInv
<1> SUFFICES ASSUME SystemInit PROVE CommitInv
  OBVIOUS
<1>1. LockInv
  BY LockInitInv DEF SystemInit
<1>2. CommitsWellFormed
  BY DEF SystemInit, BookingsInit, CommitsWellFormed, Phases
<1>3. OneCommitter /\ SeatsStillFree /\ CheckedLockStays /\ LockKeptThroughCommit
  BY DEF SystemInit, OneCommitter, InCommit, SeatsStillFree, CheckedLockStays,
         LockKeptThroughCommit
<1>4. NoDoubleBooking
  BY DEF SystemInit, BookingsInit, NoDoubleBooking, References
<1> QED BY <1>1, <1>2, <1>3, <1>4 DEF CommitInv

(* What a step of one commit may do to its own thread: it stays well       *)
(* formed and keeps its request, and leaves every other thread alone.      *)
LEMMA CommitStepLocal ==
  ASSUME CommitsWellFormed, NEW w \in CommitWorkers, CommitStep(w)
  PROVE  /\ phase[w] # "idle"
         /\ \A v \in CommitWorkers \ {w} : phase'[v] = phase[v] /\ local'[v] = local[v]
         /\ phase' \in [CommitWorkers -> Phases]
         /\ local' = [v \in CommitWorkers |-> local'[v]]
         /\ phase'[w] # "idle" =>
              /\ local'[w] = [request   |-> local'[w].request,
                              now       |-> local'[w].now,
                              quote     |-> local'[w].quote,
                              reference |-> local'[w].reference]
              /\ local'[w].request = local[w].request
              /\ phase[w] # "waiting" => local'[w].now = local[w].now
<1> DEFINE shape == [request   |-> local[w].request,
                     now       |-> local[w].now,
                     quote     |-> local[w].quote,
                     reference |-> local[w].reference]
           Goal == /\ phase[w] # "idle"
                   /\ \A v \in CommitWorkers \ {w} :
                        phase'[v] = phase[v] /\ local'[v] = local[v]
                   /\ phase' \in [CommitWorkers -> Phases]
                   /\ local' = [v \in CommitWorkers |-> local'[v]]
                   /\ phase'[w] # "idle" =>
                        /\ local'[w] = [request   |-> local'[w].request,
                                        now       |-> local'[w].now,
                                        quote     |-> local'[w].quote,
                                        reference |-> local'[w].reference]
                        /\ local'[w].request = local[w].request
                        /\ phase[w] # "waiting" => local'[w].now = local[w].now
<1>1. phase[w] # "idle"
  BY DEF CommitStep, EnterCommit, ReadValidQuote, ReadRawQuote, ValidateSeats,
         CheckLockValid, CheckLockOwner, ReadRawLock, Charge, ChargeDeclined,
         SaveAndConfirm, OutOfReferences, ReleaseSeatLock, AuditCommit
<1>2. local[w] = shape
  BY <1>1 DEF CommitsWellFormed
<1>3. ASSUME NEW outcome, Leave(w, outcome) PROVE Goal
  BY <1>1, <1>3 DEF Leave, CommitsWellFormed, Phases
<1>4. ASSUME NEW next \in Phases, Goto(w, next), UNCHANGED local PROVE Goal
  BY <1>1, <1>2, <1>4 DEF Goto, CommitsWellFormed
<1>5. CASE EnterCommit(w)
  <2>1. CASE Request(w).flight_id \notin Flight
    BY <1>3, <1>5, <2>1 DEF EnterCommit
  <2>2. CASE Request(w).flight_id \in Flight
    <3>1. local' = [local EXCEPT ![w] = [shape EXCEPT !.now = clock]]
      BY <1>2, <1>5, <2>2 DEF EnterCommit
    <3>2. phase' \in [CommitWorkers -> Phases] /\ \A v \in CommitWorkers \ {w} : phase'[v] = phase[v]
      BY <1>5, <2>2 DEF EnterCommit, CommitsWellFormed, Phases
    <3>3. phase[w] = "waiting"
      BY <1>5 DEF EnterCommit
    <3> QED BY <3>1, <3>2, <3>3 DEF CommitsWellFormed
  <2> QED BY <2>1, <2>2
<1>6. CASE ReadValidQuote(w)
  BY <1>1, <1>2, <1>6 DEF ReadValidQuote, Goto, CommitsWellFormed, Phases
<1>7. CASE SaveAndConfirm(w)
  BY <1>1, <1>2, <1>7 DEF SaveAndConfirm, Goto, CommitsWellFormed, Phases
<1>8. CASE ReadRawQuote(w) \/ ReadRawLock(w) \/ ChargeDeclined(w)
             \/ OutOfReferences(w) \/ AuditCommit(w)
  BY <1>3, <1>8 DEF ReadRawQuote, ReadRawLock, ChargeDeclined, OutOfReferences, AuditCommit
<1>9. CASE ValidateSeats(w)
  BY <1>3, <1>4, <1>9 DEF ValidateSeats, Phases
<1>10. CASE CheckLockValid(w) \/ CheckLockOwner(w)
  BY <1>3, <1>4, <1>10 DEF CheckLockValid, CheckLockOwner, Phases
<1>11. CASE Charge(w) \/ ReleaseSeatLock(w)
  BY <1>4, <1>11 DEF Charge, ReleaseSeatLock, Phases
<1> QED BY <1>5, <1>6, <1>7, <1>8, <1>9, <1>10, <1>11 DEF CommitStep

(* Whoever takes a step of a commit is alone inside commit.                *)
LEMMA CommitStepAlone ==
  ASSUME CommitInv, NEW w \in CommitWorkers, CommitStep(w)
  PROVE  /\ \A v \in CommitWorkers \ {w} : ~InCommit(v)
         /\ InCommit(w)' => commitLock' = w
         /\ commitLock' \in CommitWorkers \cup {None}
<1>1. EnterCommit(w) \/ InCommit(w)
  BY DEF CommitStep, InCommit, EnterCommit, ReadValidQuote, ReadRawQuote, ValidateSeats,
         CheckLockValid, CheckLockOwner, ReadRawLock, Charge, ChargeDeclined,
         SaveAndConfirm, OutOfReferences, ReleaseSeatLock, AuditCommit
<1>2. \A v \in CommitWorkers \ {w} : ~InCommit(v)
  BY <1>1 DEF CommitInv, OneCommitter, EnterCommit
<1> DEFINE Holds == /\ InCommit(w)' => commitLock' = w
                    /\ commitLock' \in CommitWorkers \cup {None}
<1>3. ASSUME EnterCommit(w) PROVE Holds
  BY <1>3 DEF EnterCommit, Leave, InCommit, CommitInv, CommitsWellFormed
<1>4. ASSUME InCommit(w), ~EnterCommit(w) PROVE Holds
  <2>1. commitLock = w
    BY <1>4 DEF CommitInv, OneCommitter
  <2>2. \/ commitLock' = commitLock
        \/ commitLock' = None /\ phase' = [phase EXCEPT ![w] = "idle"]
    BY <1>4 DEF CommitStep, ReadValidQuote, ReadRawQuote, ValidateSeats,
                CheckLockValid, CheckLockOwner, ReadRawLock, Charge, ChargeDeclined,
                SaveAndConfirm, OutOfReferences, ReleaseSeatLock, AuditCommit, Goto, Leave
  <2> QED BY <2>1, <2>2 DEF InCommit, CommitInv, CommitsWellFormed
<1> QED BY <1>1, <1>2, <1>3, <1>4

(* Only SaveAndConfirm writes a booking, and only ReleaseSeatLock, after   *)
(* it, touches the lock index.                                             *)
LEMMA CommitStepWrites ==
  ASSUME NEW w \in CommitWorkers, CommitStep(w)
  PROVE  /\ SaveAndConfirm(w) \/ bookings' = bookings
         /\ ReleaseSeatLock(w) \/ byLock' = byLock
BY DEF CommitStep, EnterCommit, ReadValidQuote, ReadRawQuote, ValidateSeats,
       CheckLockValid, CheckLockOwner, ReadRawLock, Charge, ChargeDeclined,
       SaveAndConfirm, OutOfReferences, ReleaseSeatLock, AuditCommit,
       OnlyReads, OnlyAudits, OnlyCharges, lockVars, storeVars

(* Where a commit can have come from.                                      *)
LEMMA CommitStepFrom ==
  ASSUME CommitsWellFormed, NEW w \in CommitWorkers, CommitStep(w)
  PROVE  /\ phase'[w] \in {"lock", "owner", "rawLock", "charge", "save"} =>
              \/ ValidateSeats(w) /\ SeatErrors(Request(w)) = {}
              \/ phase[w] \in {"lock", "owner", "rawLock", "charge", "save"}
                   /\ ~SaveAndConfirm(w)
         /\ phase'[w] = "owner" =>
              CheckLockValid(w) /\ IsValid(Request(w).lock_id, local[w].now)
         /\ phase'[w] \in {"charge", "save", "release"} =>
              \/ ValidateSeats(w) /\ Request(w).lock_id = None
              \/ CheckLockOwner(w) /\ OwnsLock(w)
              \/ phase[w] \in {"charge", "save"} /\ ~ReleaseSeatLock(w)
<1>1. w \in DOMAIN phase
  BY DEF CommitsWellFormed
<1>2. CASE EnterCommit(w)
  BY <1>1, <1>2 DEF EnterCommit, Leave
<1>3. CASE ReadValidQuote(w)
  BY <1>1, <1>3 DEF ReadValidQuote, Goto
<1>4. CASE ReadRawQuote(w) \/ ReadRawLock(w) \/ ChargeDeclined(w)
             \/ OutOfReferences(w) \/ AuditCommit(w)
  BY <1>1, <1>4 DEF ReadRawQuote, ReadRawLock, ChargeDeclined, OutOfReferences,
                    AuditCommit, Leave
<1>5. CASE ValidateSeats(w)
  BY <1>1, <1>5 DEF ValidateSeats, Leave, Goto
<1>6. CASE CheckLockValid(w)
  BY <1>1, <1>6 DEF CheckLockValid, Goto, SaveAndConfirm
<1>7. CASE CheckLockOwner(w)
  BY <1>1, <1>7 DEF CheckLockOwner, Goto, Leave, SaveAndConfirm
<1>8. CASE Charge(w)
  BY <1>1, <1>8 DEF Charge, Goto, SaveAndConfirm, ReleaseSeatLock
<1>9. CASE SaveAndConfirm(w)
  BY <1>1, <1>9 DEF SaveAndConfirm, Goto, ReleaseSeatLock
<1>10. CASE ReleaseSeatLock(w)
  BY <1>1, <1>10 DEF ReleaseSeatLock, Goto
<1> QED BY <1>2, <1>3, <1>4, <1>5, <1>6, <1>7, <1>8, <1>9, <1>10 DEF CommitStep

(* A commit whose seats passed the check may save them: they are in no     *)
(* booking of the flight yet.                                              *)
LEMMA SavedSeatsWereFree ==
  ASSUME CommitInv, NEW w \in CommitWorkers, SaveAndConfirm(w)
  PROVE  \E r \in BookingReference \ References :
           /\ \A q \in BookingReference \ {r} : bookings'[q] = bookings[q]
           /\ bookings'[r].flight_id = Request(w).flight_id
           /\ bookings'[r].seat_ids = Request(w).seat_ids
           /\ \A q \in BookingsOf(Request(w).flight_id) :
                Request(w).seat_ids \cap bookings[q].seat_ids = {}
<1>1. PICK r \in BookingReference \ References :
        SaveBooking(NewBooking(w, r))
  BY DEF SaveAndConfirm
<1>2. r \in BookingReference \ References
  OBVIOUS
<1>3. /\ \A q \in BookingReference \ {r} : bookings'[q] = bookings[q]
      /\ bookings'[r].flight_id = Request(w).flight_id
      /\ bookings'[r].seat_ids = Request(w).seat_ids
  BY <1>1 DEF SaveBooking, NewBooking, CommitInv, CommitsWellFormed
<1>4. \A s \in Request(w).seat_ids : ~SeatAlreadyBooked(Request(w).flight_id, s)
  BY DEF SaveAndConfirm, CommitInv, SeatsStillFree
<1>5. \A q \in BookingsOf(Request(w).flight_id) :
        Request(w).seat_ids \cap bookings[q].seat_ids = {}
  BY <1>4 DEF SeatAlreadyBooked
<1> QED BY <1>2, <1>3, <1>5

LEMMA CommitStepNoDoubleBooking ==
  ASSUME CommitInv, NEW w \in CommitWorkers, CommitStep(w)
  PROVE  NoDoubleBooking'
<1>1. CASE bookings' = bookings
  BY <1>1 DEF CommitInv, NoDoubleBooking, References
<1>2. CASE SaveAndConfirm(w)
  <2>1. PICK r \in BookingReference \ References :
          /\ \A q \in BookingReference \ {r} : bookings'[q] = bookings[q]
          /\ bookings'[r].flight_id = Request(w).flight_id
          /\ bookings'[r].seat_ids = Request(w).seat_ids
          /\ \A q \in BookingsOf(Request(w).flight_id) :
               Request(w).seat_ids \cap bookings[q].seat_ids = {}
    BY <1>2, SavedSeatsWereFree
  <2> SUFFICES ASSUME NEW r1 \in References', NEW r2 \in References', r1 # r2,
                      bookings'[r1].flight_id = bookings'[r2].flight_id
               PROVE  bookings'[r1].seat_ids \cap bookings'[r2].seat_ids = {}
    BY DEF NoDoubleBooking
  <2>2. ASSUME NEW q \in References', q # r
        PROVE  q \in References /\ bookings'[q] = bookings[q]
    BY <2>1, <2>2 DEF References
  <2>3. CASE r1 # r /\ r2 # r
    BY <2>2, <2>3 DEF CommitInv, NoDoubleBooking
  <2>4. CASE r1 = r
    <3>1. r2 \in BookingsOf(Request(w).flight_id) /\ bookings'[r2] = bookings[r2]
      BY <2>1, <2>2, <2>4 DEF BookingsOf
    <3> QED BY <2>1, <2>4, <3>1
  <2>5. CASE r2 = r
    <3>1. r1 \in BookingsOf(Request(w).flight_id) /\ bookings'[r1] = bookings[r1]
      BY <2>1, <2>2, <2>5 DEF BookingsOf
    <3> QED BY <2>1, <2>5, <3>1
  <2> QED BY <2>3, <2>4, <2>5
<1> QED BY <1>1, <1>2, CommitStepWrites

(* A seat that is booked is an error of every request that asks for it.    *)
LEMMA BookedSeatIsError ==
  ASSUME NEW request, NEW s \in request.seat_ids, SeatErrors(request) = {}
  PROVE  ~SeatAlreadyBooked(request.flight_id, s)
<1> DEFINE cabin == Cabin[request.flight_id]
           Error(t) == CASE t \notin DOMAIN cabin  -> "UNKNOWN_SEAT"
                         [] cabin[t] = "BLOCKED"   -> "SEAT_NOT_FOR_SALE"
                         [] OTHER                  -> "SEAT_ALREADY_BOOKED"
           Bad(t)   == \/ t \notin DOMAIN cabin
                       \/ cabin[t] = "BLOCKED"
                       \/ SeatAlreadyBooked(request.flight_id, t)
<1>1. SeatErrors(request) = {Error(t) : t \in {u \in request.seat_ids : Bad(u)}}
  BY DEF SeatErrors
<1> HIDE DEF Error
<1>2. Bad(s) => Error(s) \in SeatErrors(request)
  BY <1>1
<1> QED BY <1>2

LEMMA CommitStepInv ==
  ASSUME CommitInv, NEW w \in CommitWorkers, CommitStep(w)
  PROVE  CommitInv'
<1>1. LockInv'
  BY SystemLockInv DEF SystemNext, CommitInv
<1>2. CommitsWellFormed
  BY DEF CommitInv
<1>3. \A v \in CommitWorkers \ {w} : /\ phase'[v] = phase[v] /\ local'[v] = local[v]
                                    /\ ~InCommit(v) /\ ~InCommit(v)'
  BY <1>2, CommitStepLocal, CommitStepAlone DEF InCommit
<1>4. phase'[w] # "idle" => Request(w)' = Request(w)
  BY <1>2, CommitStepLocal DEF Request
<1>5. CommitsWellFormed'
  <2>1. bookings' = [r \in BookingReference |-> bookings'[r]]
    BY <1>2, CommitStepWrites DEF CommitsWellFormed, SaveAndConfirm, SaveBooking
  <2>2. ASSUME NEW v \in CommitWorkers, phase'[v] # "idle"
        PROVE  /\ local'[v] = [request   |-> local'[v].request,
                               now       |-> local'[v].now,
                               quote     |-> local'[v].quote,
                               reference |-> local'[v].reference]
               /\ local'[v].request \in CommitRequests
    BY <1>2, <1>3, <2>2, CommitStepLocal DEF CommitsWellFormed
  <2> QED BY <1>2, <2>1, <2>2, CommitStepLocal, CommitStepAlone DEF CommitsWellFormed
<1>6. OneCommitter'
  BY <1>3, CommitStepAlone DEF OneCommitter
<1>7. SeatsStillFree'
  <2> SUFFICES ASSUME phase'[w] \in {"lock", "owner", "rawLock", "charge", "save"},
                      NEW s \in Request(w).seat_ids
               PROVE  ~SeatAlreadyBooked(Request(w).flight_id, s)'
    BY <1>3, <1>4 DEF SeatsStillFree, InCommit, SeatAlreadyBooked, BookingsOf, References
  <2>1. bookings' = bookings
    BY <1>2, CommitStepFrom, CommitStepWrites DEF ValidateSeats, SaveAndConfirm
  <2>2. ~SeatAlreadyBooked(Request(w).flight_id, s)
    <3>1. CASE SeatErrors(Request(w)) = {}
      BY <3>1, BookedSeatIsError
    <3>2. CASE phase[w] \in {"lock", "owner", "rawLock", "charge", "save"}
      BY <3>2 DEF CommitInv, SeatsStillFree
    <3> QED BY <1>2, <3>1, <3>2, CommitStepFrom
  <2> QED BY <1>4, <2>1, <2>2 DEF SeatAlreadyBooked, BookingsOf, References
<1>8. CheckedLockStays'
  <2> SUFFICES ASSUME phase'[w] = "owner"
               PROVE  IsValid(Request(w).lock_id, local[w].now)'
    BY <1>3 DEF CheckedLockStays, InCommit
  <2>1. CheckLockValid(w) /\ IsValid(Request(w).lock_id, local[w].now)
    BY <1>2, CommitStepFrom
  <2>2. byLock' = byLock /\ local' = local
    BY <2>1, CommitStepWrites DEF CheckLockValid, ReleaseSeatLock
  <2> QED BY <2>1, <2>2 DEF IsValid, GetLock, Request
<1>9. LockKeptThroughCommit'
  <2> SUFFICES ASSUME phase'[w] \in {"charge", "save", "release"},
                      Request(w)'.lock_id # None
               PROVE  IsValid(Request(w).lock_id, local[w].now)' /\ OwnsLock(w)'
    BY <1>3 DEF LockKeptThroughCommit, InCommit
  <2>1. Request(w)' = Request(w) /\ local'[w].now = local[w].now /\ byLock' = byLock
    BY <1>2, <1>4, CommitStepFrom, CommitStepLocal, CommitStepWrites
    DEF ValidateSeats, CheckLockOwner, ReleaseSeatLock
  <2>2. IsValid(Request(w).lock_id, local[w].now) /\ OwnsLock(w)
    BY <1>2, <2>1, CommitStepFrom
    DEF CommitInv, CheckedLockStays, LockKeptThroughCommit, CheckLockOwner
  <2> QED BY <2>1, <2>2 DEF IsValid, GetLock, OwnsLock
<1> QED BY <1>1, <1>5, <1>6, <1>7, <1>8, <1>9, CommitStepNoDoubleBooking DEF CommitInv

-----------------------------------------------------------------------------
(* The other threads.                                                      *)

LEMMA ReceiveCommitInv ==
  ASSUME CommitInv, NEW w \in CommitWorkers, NEW request \in CommitRequests,
         ReceiveCommit(w, request)
  PROVE  CommitInv'
<1>1. LockInv'
  BY SystemLockInv DEF SystemNext, CommitInv
<1>2. /\ phase[w] = "idle"
      /\ phase' = [phase EXCEPT ![w] = "waiting"]
      /\ \A v \in CommitWorkers \ {w} : local'[v] = local[v]
      /\ UNCHANGED <<byLock, bookings, commitLock>>
  BY DEF ReceiveCommit, CommitInv, CommitsWellFormed, lockVars, storeVars
<1>3. CommitsWellFormed'
  BY DEF ReceiveCommit, CommitInv, CommitsWellFormed, Phases
<1>4. OneCommitter'
  BY <1>2 DEF CommitInv, CommitsWellFormed, OneCommitter, InCommit
<1>5. \A v \in CommitWorkers : InCommit(v)' => phase'[v] = phase[v] /\ local'[v] = local[v]
  BY <1>2 DEF CommitInv, CommitsWellFormed, InCommit
<1>6. SeatsStillFree'
  BY <1>2, <1>5 DEF CommitInv, SeatsStillFree, InCommit, Request,
                    SeatAlreadyBooked, BookingsOf, References
<1>7. CheckedLockStays' /\ LockKeptThroughCommit'
  BY <1>2, <1>5 DEF CommitInv, CheckedLockStays, LockKeptThroughCommit, InCommit,
                    IsValid, OwnsLock, GetLock, Request
<1>8. NoDoubleBooking'
  BY <1>2 DEF CommitInv, NoDoubleBooking, References
<1> QED BY <1>1, <1>3, <1>4, <1>6, <1>7, <1>8 DEF CommitInv

(* A hold never touches a lock that is already in the store.               *)
LEMMA HoldKeepsLocks ==
  ASSUME LockInv, NEW w \in HoldWorkers, HoldStep(w),
         NEW l \in LockId, byLock[l] # None
  PROVE  byLock'[l] = byLock[l]
BY DEF HoldStep, StampHold, AcquireGranted, InstallLock, AcquireRefused, AcquireOutOfIds,
       storeVars, LockInv, LockTypeOK, RecordsUnderTheirId

LEMMA BesideInv ==
  ASSUME CommitInv, LockInv', UNCHANGED <<bookings, commitVars>>,
         \A l \in LockId : byLock[l] # None => byLock'[l] = byLock[l]
  PROVE  CommitInv'
<1>1. CommitsWellFormed' /\ OneCommitter' /\ SeatsStillFree' /\ NoDoubleBooking'
  BY DEF CommitInv, commitVars, CommitsWellFormed, OneCommitter, InCommit, SeatsStillFree,
         NoDoubleBooking, Request, SeatAlreadyBooked, BookingsOf, References
<1>2. ASSUME NEW id, NEW now, IsValid(id, now)
      PROVE  IsValid(id, now)' /\ GetLock(id)' = GetLock(id)
  BY <1>2 DEF IsValid, GetLock, Live
<1>3. CheckedLockStays' /\ LockKeptThroughCommit'
  BY <1>2 DEF CommitInv, commitVars, CheckedLockStays, LockKeptThroughCommit, OwnsLock, Request
<1> QED BY <1>1, <1>3 DEF CommitInv

LEMMA SystemStepInv == CommitInv /\ [SystemNext]_systemVars => CommitInv'
<1> SUFFICES ASSUME CommitInv, [SystemNext]_systemVars PROVE CommitInv'
  OBVIOUS
<1>1. LockInv'
  BY SystemLockInv DEF CommitInv
<1>2. CASE UNCHANGED systemVars
  BY <1>1, <1>2, BesideInv DEF systemVars, lockVars, storeVars
<1>3. ASSUME NEW w \in CommitWorkers, NEW request \in CommitRequests, ReceiveCommit(w, request)
      PROVE  CommitInv'
  BY <1>3, ReceiveCommitInv
<1>4. ASSUME NEW w \in CommitWorkers, CommitStep(w) PROVE CommitInv'
  BY <1>4, CommitStepInv
<1>5. ASSUME NEW w \in HoldWorkers, HoldBeside(w) PROVE CommitInv'
  BY <1>1, <1>5, HoldKeepsLocks, BesideInv DEF HoldBeside, CommitInv
<1>6. ASSUME NEW w \in QuoteWorkers, QuoteBeside(w) PROVE CommitInv'
  BY <1>1, <1>6, BesideInv DEF QuoteBeside, lockVars, storeVars
<1>7. CASE TickBeside
  BY <1>1, <1>7, BesideInv DEF TickBeside, LockTick, storeVars
<1> QED BY <1>2, <1>3, <1>4, <1>5, <1>6, <1>7 DEF SystemNext

(* The inductive invariant of the booking system.                          *)
THEOREM CommitInvariant == SystemSpec => []CommitInv
BY SystemInitInv, SystemStepInv, PTL DEF SystemSpec

(* No seat of a flight is ever in two bookings, however many threads       *)
(* commit, hold, quote and fail at once.                                   *)
THEOREM SeatsSoldOnce == SystemSpec => []NoDoubleBooking
<1>1. CommitInv => NoDoubleBooking
  BY DEF CommitInv
<1> QED BY <1>1, CommitInvariant, PTL

(* A commit charges and saves under a lock that is still in the store and  *)
(* still its session's.                                                    *)
THEOREM LockIsKept == SystemSpec => []LockKeptThroughCommit
<1>1. CommitInv => LockKeptThroughCommit
  BY DEF CommitInv
<1> QED BY <1>1, CommitInvariant, PTL

(* Only SaveAndConfirm, of some commit, ever changes the bookings.         *)
LEMMA BookingsChangeBySave ==
  ASSUME [SystemNext]_systemVars, bookings' # bookings
  PROVE  \E w \in CommitWorkers : SaveAndConfirm(w)
BY CommitStepWrites DEF SystemNext, systemVars, ReceiveCommit, HoldBeside, QuoteBeside,
                        TickBeside

-----------------------------------------------------------------------------
(* The refinement of SeatSale.                                             *)

(* Saving a booking sells its seats, all in that step, to that booking.    *)
LEMMA SaveSells ==
  ASSUME CommitInv, NEW w \in CommitWorkers, SaveAndConfirm(w), bookings' # bookings
  PROVE  \E r \in BookingReference : Sale!Sell(r, Request(w).flight_id, Request(w).seat_ids)
<1> DEFINE f == Request(w).flight_id
           seats == Request(w).seat_ids
<1>1. PICK r \in BookingReference \ References :
        /\ \A q \in BookingReference \ {r} : bookings'[q] = bookings[q]
        /\ bookings'[r].flight_id = f
        /\ bookings'[r].seat_ids = seats
        /\ \A q \in BookingsOf(f) : seats \cap bookings[q].seat_ids = {}
  BY SavedSeatsWereFree
<1>2. f \in FlightId /\ seats \in SUBSET SeatId
  <2>1. Request(w) \in CommitRequest
    BY DEF SaveAndConfirm, CommitInv, CommitsWellFormed, Request
  <2> QED BY <2>1 DEF CommitRequest
<1>3. bookings'[r] # None
  <2>1. bookings' = [q \in BookingReference |-> bookings'[q]]
    BY DEF SaveAndConfirm, SaveBooking, CommitInv, CommitsWellFormed
  <2>2. bookings = [q \in BookingReference |-> bookings[q]]
    BY DEF CommitInv, CommitsWellFormed
  <2>3. bookings[r] = None
    BY <1>1 DEF References
  <2> QED BY <1>1, <2>1, <2>2, <2>3
<1>4. References' = References \cup {r}
  BY <1>1, <1>3 DEF References
<1>5. \A g \in FlightId : BookingsOf(g)' = IF g = f THEN BookingsOf(g) \cup {r} ELSE BookingsOf(g)
  BY <1>1, <1>4 DEF BookingsOf, References
<1>6. ASSUME NEW s \in seats PROVE soldTo[<<f, s>>] = {}
  BY <1>1, <1>2, <1>6 DEF soldTo, Buyers
<1>7. ASSUME NEW g \in FlightId, NEW s \in SeatId
      PROVE  Buyers(g, s)' = IF g = f /\ s \in seats THEN {r} ELSE Buyers(g, s)
  <2>1. CASE g = f /\ s \in seats
    BY <1>1, <1>5, <2>1 DEF Buyers, BookingsOf, References
  <2>2. CASE ~(g = f /\ s \in seats)
    BY <1>1, <1>5, <2>2 DEF Buyers, BookingsOf, References
  <2> QED BY <2>1, <2>2
<1>8. soldTo' = [place \in FlightId \X SeatId |->
                   IF place[1] = f /\ place[2] \in seats THEN {r} ELSE soldTo[place]]
  <2> HIDE DEF f, seats
  <2> QED BY <1>7 DEF soldTo
<1>9. Sale!Sell(r, f, seats)
  <2> HIDE DEF f, seats
  <2> QED BY <1>6, <1>8 DEF Sale!Sell
<1> QED BY <1>9

(* The commit, one store call at a time, implements the sale of whole sets *)
(* of seats, each at most once.                                            *)
THEOREM SystemSellsSeats == SystemSpec => SaleSpec
<1>1. SystemInit => Sale!SaleInit
  BY DEF SystemInit, BookingsInit, Sale!SaleInit, soldTo, Buyers, BookingsOf, References
<1>2. CommitInv /\ [SystemNext]_systemVars => [Sale!SaleNext]_soldTo
  <2> SUFFICES ASSUME CommitInv, [SystemNext]_systemVars, bookings' # bookings
               PROVE  Sale!SaleNext
    BY DEF soldTo, Buyers, BookingsOf, References
  <2>1. PICK w \in CommitWorkers : SaveAndConfirm(w)
    BY BookingsChangeBySave
  <2>2. Request(w).flight_id \in FlightId /\ Request(w).seat_ids \in SUBSET SeatId
    <3>1. Request(w) \in CommitRequest
      BY <2>1 DEF SaveAndConfirm, CommitInv, CommitsWellFormed, Request
    <3> QED BY <3>1 DEF CommitRequest
  <2>3. \E r \in BookingReference : Sale!Sell(r, Request(w).flight_id, Request(w).seat_ids)
    BY <2>1, SaveSells
  <2> QED BY <2>2, <2>3, Zenon DEF Sale!SaleNext
<1> QED BY <1>1, <1>2, CommitInvariant, PTL DEF SystemSpec, SaleSpec, Sale!SaleSpec
=============================================================================
