----------------------------- MODULE HttpApiProofs -----------------------------
(***************************************************************************)
(* What clients are told, for every number of threads, requests, quotes,   *)
(* locks and references.                                                   *)
(*                                                                         *)
(* HttpInv is inductive.  A commit is refused only from a phase before its *)
(* charge, and until then nothing has become of its request; it is         *)
(* confirmed only by the step that writes its audit event, after exactly   *)
(* one charge and with its booking saved; the bookings never lose          *)
(* anything, and the log only to a torn line, which makes it unreadable.   *)
(***************************************************************************)
EXTENDS HttpApi, LedgerProofs

LEMMA HttpStepOfSystem == [HttpNext]_httpVars => [SystemNext]_systemVars
BY DEF HttpNext, httpVars, PostBooking, ServeBooking, SystemNext

(* The observer of the answers changes nothing of the system it observes.  *)
THEOREM HttpLeavesTheSystem == HttpSpec => SystemSpec
<1>1. HttpInit => SystemInit
  BY DEF HttpInit
<1> QED BY <1>1, HttpStepOfSystem, PTL DEF HttpSpec, SystemSpec

-----------------------------------------------------------------------------
(* The status codes.                                                       *)

LEMMA StatusOfConfirmed == CommitStatus("CONFIRMED") = 201
BY DEF CommitStatus

LEMMA StatusOfException ==
  ASSUME NEW outcome \in Exceptions PROVE CommitStatus(outcome) = 500
BY DEF CommitStatus, Exceptions, _COMMIT_ERROR_HTTP_STATUS

Refusals == {"UNKNOWN_SEAT", "SEAT_ALREADY_BOOKED", "SEAT_NOT_FOR_SALE", "FLIGHT_NOT_FOUND",
             "PAYMENT_DECLINED", "QUOTE_EXPIRED", "QUOTE_NOT_FOUND", "LOCK_EXPIRED",
             "LOCK_NOT_FOUND", "LOCK_SESSION_MISMATCH"}

LEMMA StatusOfRefusal ==
  ASSUME NEW outcome \in Refusals PROVE CommitStatus(outcome) \in 400 .. 499
BY DEF CommitStatus, Refusals, _COMMIT_ERROR_HTTP_STATUS

-----------------------------------------------------------------------------
(* How a commit ends.                                                      *)

Early(w) == phase[w] \notin {"idle", "save", "release", "audit"}

LEMMA SeatErrorsAreRefusals ==
  ASSUME NEW request PROVE SeatErrors(request) \subseteq Refusals
BY DEF SeatErrors, Refusals

LEMMA EndsOfCommit ==
  ASSUME CommitsWellFormed, OneOfEachWorker, NEW w \in CommitWorkers, CommitStep(w)
  PROVE  /\ response' = [v \in CommitWorkers |-> response'[v]]
         /\ \A v \in CommitWorkers \ {w} : response'[v] = response[v]
         /\ phase'[w] = "idle" =>
              /\ local'[w] = None
              /\ \/ Early(w) /\ response'[w] \in Refusals /\ UNCHANGED charges
                 \/ response'[w] \in Exceptions
                 \/ /\ response'[w] = "CONFIRMED"
                    /\ AuditCommit(w) /\ WriteAudit(BookingCommitted(w))
<1> DEFINE Goal == /\ response' = [v \in CommitWorkers |-> response'[v]]
                   /\ \A v \in CommitWorkers \ {w} : response'[v] = response[v]
<1>1. w \in DOMAIN phase /\ w \in DOMAIN response /\ w \in DOMAIN local
  BY DEF CommitsWellFormed, OneOfEachWorker
<1>2. ASSUME NEW outcome, Leave(w, outcome) PROVE Goal /\ local'[w] = None /\ response'[w] = outcome
  BY <1>1, <1>2 DEF Leave, OneOfEachWorker
<1>3. ASSUME UNCHANGED response PROVE Goal
  BY <1>3 DEF OneOfEachWorker
<1>4. ASSUME NEW next, Goto(w, next) PROVE Goal /\ phase'[w] = next
  BY <1>1, <1>3, <1>4 DEF Goto
<1>5. CASE EnterCommit(w)
  <2>1. CASE Request(w).flight_id \in Flight
    BY <1>1, <1>3, <1>5, <2>1 DEF EnterCommit
  <2>2. CASE Request(w).flight_id \notin Flight
    <3>1. Leave(w, "FLIGHT_NOT_FOUND") /\ UNCHANGED charges /\ Early(w)
      BY <1>5, <2>2 DEF EnterCommit, OnlyReads, Early
    <3> QED BY <1>2, <3>1 DEF Refusals
  <2> QED BY <2>1, <2>2
<1>6. CASE ReadValidQuote(w)
  BY <1>4, <1>6 DEF ReadValidQuote
<1>7. CASE ReadRawQuote(w)
  BY <1>2, <1>7 DEF ReadRawQuote, OnlyReads, Early, Refusals
<1>8. CASE ValidateSeats(w)
  <2>1. UNCHANGED charges /\ Early(w)
    BY <1>8 DEF ValidateSeats, OnlyReads, Early
  <2>2. CASE \E error \in SeatErrors(Request(w)) : Leave(w, error)
    BY <1>2, <2>1, <2>2, SeatErrorsAreRefusals
  <2>3. CASE Goto(w, IF Request(w).lock_id = None THEN "charge" ELSE "lock")
    BY <1>4, <2>3
  <2> QED BY <1>8, <2>2, <2>3 DEF ValidateSeats
<1>9. CASE CheckLockValid(w) \/ Charge(w) \/ SaveAndConfirm(w) \/ ReleaseSeatLock(w)
  BY <1>4, <1>9 DEF CheckLockValid, Charge, SaveAndConfirm, ReleaseSeatLock
<1>10. CASE CheckLockOwner(w)
  <2>1. UNCHANGED charges /\ Early(w)
    BY <1>10 DEF CheckLockOwner, OnlyReads, Early
  <2> QED BY <1>2, <1>4, <1>10, <2>1 DEF CheckLockOwner, Refusals
<1>11. CASE ReadRawLock(w)
  BY <1>2, <1>11 DEF ReadRawLock, OnlyReads, Early, Refusals
<1>12. CASE ChargeDeclined(w)
  <2>1. UNCHANGED charges /\ Early(w)
    BY <1>12 DEF ChargeDeclined, OnlyAudits, Early
  <2> QED BY <1>2, <1>12, <2>1 DEF ChargeDeclined, Refusals, Exceptions
<1>13. CASE OutOfReferences(w)
  BY <1>2, <1>13 DEF OutOfReferences, Exceptions
<1>14. CASE AuditCommit(w)
  BY <1>2, <1>14 DEF AuditCommit, Exceptions
<1> QED BY <1>5, <1>6, <1>7, <1>8, <1>9, <1>10, <1>11, <1>12, <1>13, <1>14 DEF CommitStep

(* Until its charge a commit has neither charged nor drawn a reference.    *)
LEMMA StepsBeforeCharge ==
  ASSUME CommitsWellFormed, NEW w \in CommitWorkers, CommitStep(w), Early(w)'
  PROVE  Early(w) /\ UNCHANGED charges /\ local'[w].reference = local[w].reference
<1>1. w \in DOMAIN phase /\ w \in DOMAIN local
  BY DEF CommitsWellFormed
<1>2. ASSUME NEW outcome, Leave(w, outcome) PROVE FALSE
  BY <1>1, <1>2 DEF Leave, Early
<1>3. CASE EnterCommit(w)
  BY <1>1, <1>2, <1>3 DEF EnterCommit, OnlyReads, Early, CommitsWellFormed
<1>4. CASE ReadValidQuote(w)
  BY <1>1, <1>4 DEF ReadValidQuote, OnlyReads, Early, CommitsWellFormed
<1>5. CASE ReadRawQuote(w) \/ ReadRawLock(w) \/ ChargeDeclined(w) \/ OutOfReferences(w)
             \/ AuditCommit(w)
  BY <1>2, <1>5 DEF ReadRawQuote, ReadRawLock, ChargeDeclined, OutOfReferences, AuditCommit
<1>6. CASE ValidateSeats(w) \/ CheckLockValid(w) \/ CheckLockOwner(w)
  BY <1>2, <1>6 DEF ValidateSeats, CheckLockValid, CheckLockOwner, OnlyReads, Early
<1>7. CASE Charge(w) \/ ReleaseSeatLock(w)
  BY <1>1, <1>7 DEF Charge, ReleaseSeatLock, Goto, Early
<1>8. CASE SaveAndConfirm(w)
  BY <1>1, <1>8 DEF SaveAndConfirm, Goto, Early
<1> QED BY <1>3, <1>4, <1>5, <1>6, <1>7, <1>8 DEF CommitStep

-----------------------------------------------------------------------------
(* The three kinds of steps, and what they do to one thread.               *)

LEMMA HttpSteps ==
  ASSUME [HttpNext]_httpVars
  PROVE  \/ \E w \in CommitWorkers : \E request \in CommitRequests : PostBooking(w, request)
         \/ \E w \in CommitWorkers : ServeBooking(w)
         \/ UNCHANGED <<bookings, commitVars, attempt, confirmed>>
BY DEF HttpNext, httpVars, systemVars, HoldBeside, QuoteBeside, TickBeside

(* A request begins with nothing.                                          *)
LEMMA PostStarts ==
  ASSUME HttpInv, NEW w \in CommitWorkers, NEW request \in CommitRequests,
         PostBooking(w, request)
  PROVE  /\ OneOfEachWorker'
         /\ phase'[w] = "waiting" /\ response'[w] = "none" /\ attempt'[w] = NothingYet
         /\ local'[w].reference = None
         /\ \A v \in CommitWorkers \ {w} : /\ phase'[v] = phase[v]
                                           /\ local'[v] = local[v]
                                           /\ response'[v] = response[v]
                                           /\ attempt'[v] = attempt[v]
         /\ UNCHANGED <<bookings, confirmed>>
<1>1. CommitsWellFormed /\ OneOfEachWorker
  BY DEF HttpInv, LedgerInv, CommitInv
<1>2. /\ phase'    = [phase EXCEPT ![w] = "waiting"]
      /\ response' = [response EXCEPT ![w] = "none"]
      /\ attempt'  = [attempt EXCEPT ![w] = NothingYet]
      /\ local'[w].reference = None
      /\ \A v \in CommitWorkers \ {w} : local'[v] = local[v]
      /\ UNCHANGED <<bookings, confirmed>>
  BY <1>1 DEF PostBooking, ReceiveCommit, CommitsWellFormed
<1> QED BY <1>1, <1>2 DEF CommitsWellFormed, OneOfEachWorker

(* A step of a commit is seen by its own client only.                      *)
LEMMA ServeSeenByOne ==
  ASSUME HttpInv, NEW w \in CommitWorkers, ServeBooking(w)
  PROVE  /\ OneOfEachWorker'
         /\ CommitStep(w) /\ CommitsWellFormed /\ phase[w] # "idle"
         /\ attempt'[w] = [paid |-> attempt[w].paid + Len(charges') - Len(charges),
                           made |-> IF local'[w] = None THEN attempt[w].made
                                                        ELSE local'[w].reference]
         /\ \A v \in CommitWorkers \ {w} : /\ phase'[v] = phase[v]
                                           /\ local'[v] = local[v]
                                           /\ response'[v] = response[v]
                                           /\ attempt'[v] = attempt[v]
<1>1. CommitStep(w) /\ CommitsWellFormed /\ OneOfEachWorker
  BY DEF ServeBooking, HttpInv, LedgerInv, CommitInv
<1>2. attempt' = [attempt EXCEPT ![w] =
                    [paid |-> attempt[w].paid + Len(charges') - Len(charges),
                     made |-> IF local'[w] = None THEN attempt[w].made
                                                  ELSE local'[w].reference]]
  BY <1>1 DEF ServeBooking, OneOfEachWorker
<1> QED BY <1>1, <1>2, CommitStepLocal, EndsOfCommit DEF OneOfEachWorker

(* Without a charge and a new reference, a request stays what it was.      *)
LEMMA AttemptStays ==
  ASSUME HttpInv, NEW w \in CommitWorkers, ServeBooking(w), UNCHANGED charges,
         NEW made, attempt[w] = [paid |-> attempt[w].paid, made |-> made],
         attempt[w].paid \in Nat,
         local'[w] = None \/ local'[w].reference = made
  PROVE  attempt'[w] = attempt[w]
<1>1. Len(charges) \in Nat
  <2>1. charges \in Seq(Money)
    BY DEF HttpInv, LedgerInv, SystemTypeOK
  <2> QED BY <2>1, LenProperties
<1>2. attempt[w].made = made
  OBVIOUS
<1>3. attempt[w].paid + Len(charges') - Len(charges) = attempt[w].paid
  BY <1>1
<1> QED BY <1>2, <1>3, ServeSeenByOne

-----------------------------------------------------------------------------
(* A refusal leaves no trace.                                              *)

LEMMA ServeEarly ==
  ASSUME HttpInv, NEW w \in CommitWorkers, ServeBooking(w), Early(w), UNCHANGED charges,
         local'[w] = None \/ local'[w].reference = local[w].reference
  PROVE  attempt'[w] = NothingYet
<1>1. attempt[w] = NothingYet /\ local[w].reference = None
  BY DEF HttpInv, NothingBeforeCharge, Early
<1> QED BY <1>1, AttemptStays DEF NothingYet

LEMMA TraceKept ==
  ASSUME HttpInv, [HttpNext]_httpVars
  PROVE  OneOfEachWorker' /\ NothingBeforeCharge' /\ RefusalLeavesNoTrace'
<1>1. NothingBeforeCharge /\ RefusalLeavesNoTrace /\ OneOfEachWorker
  BY DEF HttpInv
<1>2. ASSUME NEW w \in CommitWorkers, NEW request \in CommitRequests, PostBooking(w, request)
      PROVE  OneOfEachWorker' /\ NothingBeforeCharge' /\ RefusalLeavesNoTrace'
  BY <1>1, <1>2, PostStarts DEF NothingBeforeCharge, RefusalLeavesNoTrace, Answered
<1>3. ASSUME NEW w \in CommitWorkers, ServeBooking(w)
      PROVE  OneOfEachWorker' /\ NothingBeforeCharge' /\ RefusalLeavesNoTrace'
  <2>1. ASSUME Early(w)' PROVE attempt'[w] = NothingYet /\ local'[w].reference = None
    <3>1. Early(w) /\ UNCHANGED charges /\ local'[w].reference = local[w].reference
      BY <1>3, <2>1, ServeSeenByOne, StepsBeforeCharge
    <3> QED BY <1>1, <1>3, <3>1, ServeEarly DEF NothingBeforeCharge, Early
  <2>2. ASSUME phase'[w] = "idle", CommitStatus(response'[w]) \in 400 .. 499
        PROVE  attempt'[w] = NothingYet
    <3>1. CommitStep(w) /\ CommitsWellFormed
      BY <1>3, ServeSeenByOne
    <3>2. local'[w] = None /\ Early(w) /\ UNCHANGED charges
      BY <1>1, <2>2, <3>1, EndsOfCommit, StatusOfConfirmed, StatusOfException
    <3> QED BY <1>3, <3>2, ServeEarly
  <2>3. NothingBeforeCharge'
    BY <1>1, <1>3, <2>1, ServeSeenByOne DEF NothingBeforeCharge, Early
  <2>4. RefusalLeavesNoTrace'
    <3>1. \A v \in CommitWorkers \ {w} : /\ phase'[v] = phase[v]
                                        /\ response'[v] = response[v]
                                        /\ attempt'[v] = attempt[v]
      BY <1>3, ServeSeenByOne
    <3> QED BY <1>1, <2>2, <3>1 DEF RefusalLeavesNoTrace, Answered
  <2> QED BY <1>3, <2>3, <2>4, ServeSeenByOne
<1>4. CASE UNCHANGED <<bookings, commitVars, attempt, confirmed>>
  BY <1>1, <1>4 DEF OneOfEachWorker, NothingBeforeCharge, RefusalLeavesNoTrace, Answered,
                    commitVars
<1> QED BY <1>2, <1>3, <1>4, HttpSteps

-----------------------------------------------------------------------------
(* One charge, then one booking.                                           *)

(* What GET /bookings/{reference} says of the booking of a commit.         *)
LEMMA BookingIsServed ==
  ASSUME LedgerInv, NEW w \in CommitWorkers, Settling(w)
  PROVE  /\ local[w] # None
         /\ local[w].reference \in References
         /\ SerializeBooking(bookings[local[w].reference]) = BodyOf(w)
         /\ GetBooking(local[w].reference) = [status |-> 200, body |-> BodyOf(w)]
<1> DEFINE r == local[w].reference
<1>1. local[w] # None /\ r \in References /\ bookings[r] = NewBooking(w, r)
  BY DEF LedgerInv, CommitsKnowTheirBooking, Settling
<1>2. bookings[r] # None
  BY <1>1 DEF References
<1>3. SerializeBooking(NewBooking(w, r)) = BodyOf(w)
  BY DEF SerializeBooking, NewBooking, BodyOf
<1> QED BY <1>1, <1>2, <1>3 DEF GetBooking

(* A commit charges once, between its checks and its save.                 *)
LEMMA ServeCharges ==
  ASSUME HttpInv, NEW w \in CommitWorkers, ServeBooking(w), Charge(w)
  PROVE  phase'[w] = "save" /\ attempt'[w] = [paid |-> 1, made |-> None]
           /\ local'[w].reference = None
<1>1. CommitsWellFormed /\ charges \in Seq(Money)
  BY DEF HttpInv, LedgerInv, CommitInv, SystemTypeOK
<1>2. /\ phase[w] = "charge" /\ phase'[w] = "save"
      /\ UNCHANGED local
      /\ charges' = Append(charges, Total(w))
  BY <1>1 DEF Charge, Goto, CommitsWellFormed
<1>3. Total(w) \in Money
  BY <1>2, TotalIsMoney DEF HttpInv, InCommit
<1>4. Len(charges) \in Nat /\ Len(charges') = Len(charges) + 1
  BY <1>1, <1>2, <1>3, LenProperties, AppendProperties
<1>5. attempt[w] = [paid |-> 0, made |-> None] /\ local[w].reference = None
  BY <1>2 DEF HttpInv, NothingBeforeCharge, NothingYet
<1>6. local[w] # None
  BY <1>2 DEF HttpInv, LedgerInv, CommitsKnowTheirBooking
<1>7. attempt[w].paid + Len(charges') - Len(charges) = 1
  BY <1>4, <1>5
<1> QED BY <1>2, <1>5, <1>6, <1>7, ServeSeenByOne

LEMMA PaidKept ==
  ASSUME HttpInv, [HttpNext]_httpVars
  PROVE  PaidThenBooked'
<1>1. LedgerInv /\ PaidThenBooked /\ CommitsWellFormed /\ LedgerInv' /\ charges \in Seq(Money)
  BY HttpStepOfSystem, LedgerStep DEF HttpInv, LedgerInv, CommitInv, SystemTypeOK
<1>2. ASSUME NEW v \in CommitWorkers, Settling(v)'
      PROVE  /\ local'[v] # None
             /\ local'[v].reference \in References'
             /\ GetBooking(local[v].reference)' = [status |-> 200, body |-> BodyOf(v)']
  <2> DEFINE r == local[v].reference
  <2>1. local'[v] # None /\ r' \in References' /\ bookings'[r'] = NewBooking(v, r)'
    BY <1>1, <1>2 DEF LedgerInv, CommitsKnowTheirBooking, Settling
  <2>2. bookings'[r'] # None
    BY <2>1 DEF References
  <2>3. SerializeBooking(NewBooking(v, r)') = BodyOf(v)'
    BY DEF SerializeBooking, NewBooking, BodyOf
  <2> QED BY <2>1, <2>2, <2>3 DEF GetBooking
<1>3. ASSUME NEW v \in CommitWorkers,
             phase'[v] = "save" =>
               attempt'[v] = [paid |-> 1, made |-> None] /\ local'[v].reference = None,
             Settling(v)' => attempt'[v] = [paid |-> 1, made |-> local'[v].reference]
      PROVE  /\ phase'[v] = "save" =>
                  attempt'[v] = [paid |-> 1, made |-> None] /\ local'[v].reference = None
             /\ phase'[v] \in {"release", "audit"} =>
                  /\ attempt'[v] = [paid |-> 1, made |-> local'[v].reference]
                  /\ local'[v].reference \in References'
                  /\ GetBooking(local[v].reference)' = [status |-> 200, body |-> BodyOf(v)']
  BY <1>2, <1>3 DEF Settling
<1>4. ASSUME NEW v \in CommitWorkers, phase'[v] = phase[v], local'[v] = local[v],
             attempt'[v] = attempt[v]
      PROVE  /\ phase'[v] = "save" =>
                  attempt'[v] = [paid |-> 1, made |-> None] /\ local'[v].reference = None
             /\ Settling(v)' => attempt'[v] = [paid |-> 1, made |-> local'[v].reference]
  BY <1>1, <1>4 DEF PaidThenBooked, Settling
<1>5. ASSUME NEW w \in CommitWorkers, ServeBooking(w)
      PROVE  /\ phase'[w] = "save" =>
                  attempt'[w] = [paid |-> 1, made |-> None] /\ local'[w].reference = None
             /\ Settling(w)' => attempt'[w] = [paid |-> 1, made |-> local'[w].reference]
  <2>1. CommitStep(w)
    BY <1>5, ServeSeenByOne
  <2>2. CASE Charge(w)
    BY <1>5, <2>2, ServeCharges DEF Settling
  <2>3. CASE SaveAndConfirm(w)
    <3>1. phase[w] = "save" /\ Settling(w)' /\ UNCHANGED charges
      BY <1>1, <2>3 DEF SaveAndConfirm, Goto, CommitsWellFormed, Settling
    <3>2. attempt[w] = [paid |-> 1, made |-> None] /\ local'[w] # None
      BY <1>1, <1>2, <3>1 DEF PaidThenBooked
    <3>3. attempt[w].paid + Len(charges') - Len(charges) = 1
      BY <1>1, <3>1, <3>2, LenProperties
    <3> QED BY <1>5, <3>1, <3>2, <3>3, ServeSeenByOne DEF Settling
  <2>4. CASE ReleaseSeatLock(w)
    <3>1. Settling(w) /\ phase'[w] = "audit" /\ UNCHANGED <<charges, local>>
      BY <1>1, <2>4 DEF ReleaseSeatLock, Goto, CommitsWellFormed, Settling
    <3>2. attempt[w] = [paid |-> 1, made |-> local[w].reference]
      BY <1>1, <3>1 DEF PaidThenBooked, Settling
    <3>3. attempt'[w] = attempt[w]
      BY <1>5, <3>1, <3>2, AttemptStays
    <3> QED BY <3>1, <3>2, <3>3
  <2>5. CASE ~Charge(w) /\ ~SaveAndConfirm(w) /\ ~ReleaseSeatLock(w)
    <3>1. phase'[w] \notin {"save", "release", "audit"}
      BY <1>1, <2>1, <2>5
      DEF CommitStep, EnterCommit, ReadValidQuote, ReadRawQuote, ValidateSeats, CheckLockValid,
          CheckLockOwner, ReadRawLock, ChargeDeclined, OutOfReferences, AuditCommit, Goto, Leave,
          CommitsWellFormed
    <3> QED BY <3>1 DEF Settling
  <2> QED BY <2>2, <2>3, <2>4, <2>5
<1>6. \A v \in CommitWorkers :
        /\ phase'[v] = "save" =>
             attempt'[v] = [paid |-> 1, made |-> None] /\ local'[v].reference = None
        /\ Settling(v)' => attempt'[v] = [paid |-> 1, made |-> local'[v].reference]
  <2>1. ASSUME NEW w \in CommitWorkers, NEW request \in CommitRequests, PostBooking(w, request),
               NEW v \in CommitWorkers
        PROVE  /\ phase'[v] = "save" =>
                    attempt'[v] = [paid |-> 1, made |-> None] /\ local'[v].reference = None
               /\ Settling(v)' => attempt'[v] = [paid |-> 1, made |-> local'[v].reference]
    BY <1>4, <2>1, PostStarts DEF Settling
  <2>2. ASSUME NEW w \in CommitWorkers, ServeBooking(w), NEW v \in CommitWorkers
        PROVE  /\ phase'[v] = "save" =>
                    attempt'[v] = [paid |-> 1, made |-> None] /\ local'[v].reference = None
               /\ Settling(v)' => attempt'[v] = [paid |-> 1, made |-> local'[v].reference]
    BY <1>4, <1>5, <2>2, ServeSeenByOne
  <2>3. CASE UNCHANGED <<bookings, commitVars, attempt, confirmed>>
    BY <1>4, <2>3 DEF commitVars
  <2> QED BY <2>1, <2>2, <2>3, HttpSteps
<1> QED BY <1>3, <1>6 DEF PaidThenBooked

-----------------------------------------------------------------------------
(* What a confirmation means.                                              *)

(* The step that answers 201 is the one that writes the event.             *)
LEMMA ConfirmationIsWritten ==
  ASSUME HttpInv, NEW w \in CommitWorkers, ServeBooking(w),
         phase'[w] = "idle", CommitStatus(response'[w]) = 201
  PROVE  /\ AuditCommit(w) /\ WriteAudit(BookingCommitted(w))
         /\ phase[w] = "audit" /\ Settling(w)
         /\ local'[w] = None
         /\ UNCHANGED <<bookings, charges>>
<1>1. AuditCommit(w) /\ WriteAudit(BookingCommitted(w)) /\ local'[w] = None
  <2>1. CommitStep(w) /\ CommitsWellFormed /\ OneOfEachWorker
    BY ServeSeenByOne DEF HttpInv
  <2> QED BY <2>1, EndsOfCommit, StatusOfRefusal, StatusOfException
<1> QED BY <1>1 DEF AuditCommit, OnlyAudits, Settling

(* A client that is told 201 has paid once and has one booking.            *)
LEMMA ConfirmedPaidKept ==
  ASSUME HttpInv, [HttpNext]_httpVars
  PROVE  ConfirmedIsPaidOnce'
<1>1. ConfirmedIsPaidOnce /\ LedgerInv /\ PaidThenBooked /\ [SystemNext]_systemVars
  BY HttpStepOfSystem DEF HttpInv
<1>2. ASSUME NEW v \in CommitWorkers, phase'[v] = phase[v], response'[v] = response[v],
             attempt'[v] = attempt[v], Answered(v, {201})'
      PROVE  attempt'[v].paid = 1 /\ attempt'[v].made \in References'
  <2>1. Answered(v, {201})
    BY <1>2 DEF Answered
  <2>2. attempt[v].paid = 1 /\ attempt[v].made \in References
    BY <1>1, <2>1 DEF ConfirmedIsPaidOnce
  <2> QED BY <1>1, <1>2, <2>2, BookingsStand
<1>3. ASSUME NEW w \in CommitWorkers, ServeBooking(w), Answered(w, {201})'
      PROVE  attempt'[w].paid = 1 /\ attempt'[w].made \in References'
  <2>1. phase'[w] = "idle" /\ CommitStatus(response'[w]) = 201
    BY <1>3 DEF Answered
  <2>2. Settling(w) /\ local'[w] = None /\ UNCHANGED <<bookings, charges>>
    BY <1>3, <2>1, ConfirmationIsWritten
  <2>3. attempt[w] = [paid |-> 1, made |-> local[w].reference] /\ local[w].reference \in References
    BY <1>1, <2>2 DEF PaidThenBooked, Settling
  <2>4. attempt'[w] = attempt[w]
    BY <1>3, <2>2, <2>3, AttemptStays
  <2> QED BY <1>1, <2>3, <2>4, BookingsStand
<1>4. ASSUME NEW w \in CommitWorkers, NEW request \in CommitRequests, PostBooking(w, request),
             NEW v \in CommitWorkers, Answered(v, {201})'
      PROVE  attempt'[v].paid = 1 /\ attempt'[v].made \in References'
  <2>1. v # w
    BY <1>4, PostStarts DEF Answered
  <2> QED BY <1>2, <1>4, <2>1, PostStarts
<1>5. ASSUME NEW w \in CommitWorkers, ServeBooking(w), NEW v \in CommitWorkers, Answered(v, {201})'
      PROVE  attempt'[v].paid = 1 /\ attempt'[v].made \in References'
  BY <1>2, <1>3, <1>5, ServeSeenByOne
<1>6. ASSUME UNCHANGED <<bookings, commitVars, attempt, confirmed>>,
             NEW v \in CommitWorkers, Answered(v, {201})'
      PROVE  attempt'[v].paid = 1 /\ attempt'[v].made \in References'
  BY <1>2, <1>6 DEF commitVars
<1> QED BY <1>4, <1>5, <1>6, HttpSteps DEF ConfirmedIsPaidOnce

(* A body that a client gets for the first time is that of this step.      *)
LEMMA NewBodies ==
  ASSUME HttpInv, [HttpNext]_httpVars, NEW body \in confirmed' \ confirmed
  PROVE  \E w \in CommitWorkers :
           /\ ServeBooking(w)
           /\ phase'[w] = "idle" /\ CommitStatus(response'[w]) = 201
           /\ body = BodyOf(w)
<1>1. \A w \in CommitWorkers : \A request \in CommitRequests :
        PostBooking(w, request) => UNCHANGED confirmed
  BY DEF PostBooking
<1> QED BY <1>1, HttpSteps DEF ServeBooking

(* The body of a confirmation is, and stays, that of its booking.          *)
LEMMA BodiesKept ==
  ASSUME HttpInv, [HttpNext]_httpVars
  PROVE  BodiesOfBookings'
<1>1. BodiesOfBookings /\ LedgerInv /\ [SystemNext]_systemVars
  BY HttpStepOfSystem DEF HttpInv
<1>2. ASSUME NEW body, body.bookingReference \in References,
             body = SerializeBooking(bookings[body.bookingReference])
      PROVE  /\ body.bookingReference \in References'
             /\ body = SerializeBooking(bookings'[body.bookingReference])
  BY <1>1, <1>2, BookingsStand
<1>3. ASSUME NEW body \in confirmed' \ confirmed
      PROVE  /\ body.bookingReference \in References
             /\ body = SerializeBooking(bookings[body.bookingReference])
  <2>1. PICK w \in CommitWorkers : Settling(w) /\ body = BodyOf(w)
    BY <1>3, NewBodies, ConfirmationIsWritten
  <2>2. body.bookingReference = local[w].reference
    BY <2>1 DEF BodyOf
  <2> QED BY <1>1, <2>1, <2>2, BookingIsServed
<1>4. ASSUME NEW body \in confirmed'
      PROVE  /\ body.bookingReference \in References'
             /\ body = SerializeBooking(bookings'[body.bookingReference])
  BY <1>1, <1>2, <1>3 DEF BodiesOfBookings
<1> QED BY <1>4 DEF BodiesOfBookings, SerializeBooking

(* So whoever asks again is told the same.                                 *)
LEMMA BodiesStand == BodiesOfBookings => ConfirmedStands
<1> SUFFICES ASSUME BodiesOfBookings, NEW body \in confirmed
             PROVE  /\ GetBooking(body.bookingReference) = [status |-> 200, body |-> body]
                    /\ \A other \in confirmed :
                         other.bookingReference = body.bookingReference => other = body
  BY DEF ConfirmedStands
<1>1. \A other \in confirmed : /\ bookings[other.bookingReference] # None
                               /\ other = SerializeBooking(bookings[other.bookingReference])
  BY DEF BodiesOfBookings, References
<1> QED BY <1>1 DEF GetBooking

(* The event of a confirmation stays in the log for as long as the log can *)
(* be read: a line that is lost leaves a garbled one.                      *)
LEMMA AuditedKept ==
  ASSUME HttpInv, [HttpNext]_httpVars
  PROVE  ConfirmedIsAudited'
<1> SUFFICES ASSUME Readable', NEW body \in confirmed'
             PROVE  \E i \in Events("BookingCommitted")' :
                      /\ audit'[i].booking_reference = body.bookingReference
                      /\ audit'[i].total_charged = body.totalCharged
  BY DEF ConfirmedIsAudited
<1>1. LedgerInv /\ [SystemNext]_systemVars
  BY HttpStepOfSystem DEF HttpInv
<1>2. CASE body \in confirmed
  <2> Readable /\ \A i \in DOMAIN audit : i \in DOMAIN audit' /\ audit'[i] = audit[i]
    BY <1>1, LogAfter
  <2>1. PICK i \in Events("BookingCommitted") :
          /\ audit[i].booking_reference = body.bookingReference
          /\ audit[i].total_charged = body.totalCharged
    BY <1>2 DEF HttpInv, ConfirmedIsAudited
  <2>2. i \in Events("BookingCommitted")' /\ audit'[i] = audit[i]
    BY DEF Events
  <2> QED BY <2>1, <2>2
<1>3. CASE body \notin confirmed
  <2>1. PICK w \in CommitWorkers :
          body = BodyOf(w) /\ phase[w] = "audit" /\ WriteAudit(BookingCommitted(w))
    BY <1>3, NewBodies, ConfirmationIsWritten
  <2>2. BookingCommitted(w) \in Event
    BY <1>1, <2>1, CommitEventsTyped DEF LedgerInv, SystemTypeOK, InCommit
  <2>3. PICK i \in DOMAIN audit' : audit'[i] = BookingCommitted(w)
    <3>1. NewLine(BookingCommitted(w)) \/ LostLine
      BY <1>1, <2>1, <2>2, LineAppended DEF WriteAudit
    <3>2. ~LostLine
      BY DEF LostLine, Readable, Events, Garbled
    <3> QED BY <3>1, <3>2 DEF NewLine
  <2>4. i \in Events("BookingCommitted")'
    BY <2>3 DEF Events, BookingCommitted
  <2>5. /\ audit'[i].booking_reference = body.bookingReference
        /\ audit'[i].total_charged = body.totalCharged
    BY <2>1, <2>3 DEF BookingCommitted, BodyOf
  <2> QED BY <2>4, <2>5
<1> QED BY <1>2, <1>3

-----------------------------------------------------------------------------
(* The inductive invariant and what follows from it.                       *)

LEMMA HttpInitInv == HttpInit => HttpInv
<1> SUFFICES ASSUME HttpInit PROVE HttpInv
  OBVIOUS
<1>1. LedgerInv
  BY LedgerInit DEF HttpInit
<1>2. OneOfEachWorker /\ NothingBeforeCharge /\ PaidThenBooked
  BY DEF HttpInit, SystemInit, OneOfEachWorker, NothingBeforeCharge, PaidThenBooked
<1>3. RefusalLeavesNoTrace /\ ConfirmedIsPaidOnce
  BY DEF HttpInit, SystemInit, RefusalLeavesNoTrace, ConfirmedIsPaidOnce, Answered
<1>4. BodiesOfBookings /\ ConfirmedStands /\ ConfirmedIsAudited
  BY DEF HttpInit, BodiesOfBookings, ConfirmedStands, ConfirmedIsAudited
<1> QED BY <1>1, <1>2, <1>3, <1>4 DEF HttpInv

LEMMA HttpStepInv == HttpInv /\ [HttpNext]_httpVars => HttpInv'
<1> SUFFICES ASSUME HttpInv, [HttpNext]_httpVars PROVE HttpInv'
  OBVIOUS
<1>1. LedgerInv'
  BY HttpStepOfSystem, LedgerStep DEF HttpInv
<1>2. OneOfEachWorker' /\ NothingBeforeCharge' /\ RefusalLeavesNoTrace'
  BY TraceKept
<1>3. PaidThenBooked' /\ ConfirmedIsPaidOnce'
  BY PaidKept, ConfirmedPaidKept
<1>4. BodiesOfBookings' /\ ConfirmedIsAudited'
  BY BodiesKept, AuditedKept
<1>5. ConfirmedStands'
  BY <1>4, BodiesStand, PTL
<1> QED BY <1>1, <1>2, <1>3, <1>4, <1>5 DEF HttpInv

(* What becomes of every request is known from where its commit is.        *)
THEOREM HttpInvariant == HttpSpec => []HttpInv
BY HttpInitInv, HttpStepInv, PTL DEF HttpSpec

(* Whoever is answered 4xx has paid nothing and has no booking, so that    *)
(* the request may be sent again.                                          *)
THEOREM RefusalsLeaveNoTrace == HttpSpec => []RefusalLeavesNoTrace
<1>1. HttpInv => RefusalLeavesNoTrace
  BY DEF HttpInv
<1> QED BY <1>1, HttpInvariant, PTL

(* Whoever is answered 201 has paid once and has one booking, whatever     *)
(* other requests, quotes, holds and failures came in between.             *)
THEOREM ConfirmationsArePaidOnce == HttpSpec => []ConfirmedIsPaidOnce
<1>1. HttpInv => ConfirmedIsPaidOnce
  BY DEF HttpInv
<1> QED BY <1>1, HttpInvariant, PTL

(* What a 201 has said GET /bookings/{reference} repeats ever after, and   *)
(* no two clients have been given the same reference.                      *)
THEOREM ConfirmationsStand == HttpSpec => []ConfirmedStands
<1>1. HttpInv => ConfirmedStands
  BY DEF HttpInv
<1> QED BY <1>1, HttpInvariant, PTL

(* A client that holds a confirmation is in the audit log, with what it    *)
(* was charged, whatever writes fail before and after, as long as the log  *)
(* can be read at all.                                                     *)
THEOREM ConfirmationsAreAudited == HttpSpec => []ConfirmedIsAudited
<1>1. HttpInv => ConfirmedIsAudited
  BY DEF HttpInv
<1> QED BY <1>1, HttpInvariant, PTL
=============================================================================
