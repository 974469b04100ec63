--------------------------------- MODULE Ids ---------------------------------
(***************************************************************************)
(* The value objects of domain/model/ids.py that every component shares.   *)
(* Their text never matters, only whether two of them are equal.           *)
(***************************************************************************)
CONSTANTS
  FlightId, SeatId, SessionId,
  None                    \* Python's None
=============================================================================
