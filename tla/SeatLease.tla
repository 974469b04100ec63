------------------------------ MODULE SeatLease ------------------------------
(***************************************************************************)
(* What a seat-lock store promises its callers, without lock ids, threads  *)
(* or stamps: each seat is leased to at most one session until some time,  *)
(* judged by the real clock.  A lease that is still running goes to nobody *)
(* else; several seats are leased in one step or not at all; seats are     *)
(* given up for one session at a time.                                     *)
(***************************************************************************)
EXTENDS Clock

CONSTANTS SeatId, SessionId, LOCK_TTL, None

VARIABLE lease

leaseVars == <<clock, lease>>

Running(s) == lease[s] # None /\ clock < lease[s].until

LeaseInit == ClockInit /\ lease = [s \in SeatId |-> None]

(* The lease ends at most LOCK_TTL from now.                               *)
Grant(session, seats) ==
  /\ \A s \in seats : Running(s) => lease[s].session = session
  /\ \E until \in 0..(clock + LOCK_TTL) :
       lease' = [s \in SeatId |-> IF s \in seats
                                    THEN [session |-> session, until |-> until]
                                    ELSE lease[s]]
  /\ UNCHANGED clock

GiveUp(session, seats) ==
  /\ \A s \in seats : lease[s] # None /\ lease[s].session = session
  /\ lease' = [s \in SeatId |-> IF s \in seats THEN None ELSE lease[s]]
  /\ UNCHANGED clock

LeaseNext ==
  \/ \E session \in SessionId, seats \in SUBSET SeatId :
       Grant(session, seats) \/ GiveUp(session, seats)
  \/ Tick /\ UNCHANGED lease

LeaseSpec == LeaseInit /\ [][LeaseNext]_leaseVars
=============================================================================
