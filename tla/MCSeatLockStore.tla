--------------------------- MODULE MCSeatLockStore ---------------------------
(* Two sessions, two threads, three lock ids: enough for a renewal, a      *)
(* partial overlap, a request for the same seat id on another flight, and  *)
(* stamps that have become stale.                                          *)
EXTENDS SeatLockStore, TLC

Req(f, S, c) == [flight_id |-> f, seat_ids |-> S, session_id |-> c]

MCFlightId == {"A", "B"}
MCSessionId == {"s1", "s2"}
MCSeatId == {"1A", "1B"}
MCHoldRequests ==
  {Req("A", {"1A", "1B"}, "s1"), Req("A", {"1A"}, "s1"),
   Req("A", {"1A"}, "s2"), Req("B", {"1B"}, "s2")}

LockSymmetry == Permutations(LockId) \cup Permutations(HoldWorkers)
=============================================================================
