-------------------------------- MODULE Clock --------------------------------
(***************************************************************************)
(* The clock every service reads through the Clock port: SystemClock, and  *)
(* the FrozenClock the containers are wired with.  Time is a number of     *)
(* ticks; only its order and the differences with a TTL matter.  The clock *)
(* never goes back: FrozenClock.set can, but only a test calls it.         *)
(***************************************************************************)
EXTENDS Naturals

CONSTANT MaxTime          \* bound: the clock stops here

ASSUME ClockAssumption == MaxTime \in Nat

VARIABLE clock

ClockInit == clock = 0

Tick == /\ clock < MaxTime
        /\ clock' = clock + 1
=============================================================================
