------------------------------ MODULE HttpStatus ------------------------------
(***************************************************************************)
(* The status codes the HTTP adapter answers with.  What a service raises  *)
(* is caught by no handler and becomes a 500.                              *)
(***************************************************************************)
EXTENDS Integers

_COMMIT_ERROR_HTTP_STATUS ==
  [UNKNOWN_SEAT          |-> 400,
   SEAT_ALREADY_BOOKED   |-> 409,
   SEAT_NOT_FOR_SALE     |-> 409,
   FLIGHT_NOT_FOUND      |-> 400,
   PAYMENT_DECLINED      |-> 402,
   QUOTE_EXPIRED         |-> 410,
   QUOTE_NOT_FOUND       |-> 404,
   LOCK_EXPIRED          |-> 410,
   LOCK_NOT_FOUND        |-> 404,
   LOCK_SESSION_MISMATCH |-> 403]

Exceptions == {"OSError", "IndexError"}

(* Mutant: an exception falls back to 400 as an unlisted error code does.  *)
CommitStatusFallback(outcome) ==
  IF outcome = "CONFIRMED" THEN 201
  ELSE IF outcome \in DOMAIN _COMMIT_ERROR_HTTP_STATUS THEN _COMMIT_ERROR_HTTP_STATUS[outcome]
  ELSE 400

(* post_booking, by the outcome of BookingService.commit.                  *)
CommitStatus(outcome) ==
  IF outcome = "CONFIRMED" THEN 201
  ELSE IF outcome \in DOMAIN _COMMIT_ERROR_HTTP_STATUS THEN _COMMIT_ERROR_HTTP_STATUS[outcome]
  ELSE IF outcome \in Exceptions THEN 500
  ELSE 400

(* post_seat_lock, by the SeatHoldResult; a refusal names its conflicts.   *)
HoldStatus(result) ==
  IF result.success THEN 201 ELSE IF result.conflicts # {} THEN 409 ELSE 500
=============================================================================
