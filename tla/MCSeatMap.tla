------------------------------ MODULE MCSeatMap ------------------------------
(* Seat maps of one flight beside holds and bookings of its seats, and of  *)
(* the same seat on another flight.                                        *)
EXTENDS MCBooking, SeatMapProperties

View(f, c) == [flight_id |-> f, session_id |-> c]

Viewers == {View("A", "s1"), View("A", None), View("X", "s1")}
ViewedHolds == {Hold("A", {"1A"}, "s1"), Hold("A", {"1A", "1C"}, "s2")}
ViewedCommits ==
  {Commit("A", {"1A", "1C"}, "ok", None, l, "s2") : l \in LockId}
    \cup {Commit("B", {"1A"}, "ok", None, None, "s1")}

LockSymmetry == Permutations(LockId)

OthersHold == {Hold("A", {"1A"}, "s2")}
OthersCommit == {Commit("A", {"1A"}, "ok", None, l, "s2") : l \in LockId}
=============================================================================
