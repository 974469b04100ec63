---------------------------- MODULE MCRaceHarness ----------------------------
(* Four threads and two trials.                                            *)
EXTENDS RaceHarness, TLC

MCSessionOf == ("t1" :> "S-00") @@ ("t2" :> "S-01") @@ ("t3" :> "S-02") @@ ("t4" :> "S-03")
MCHoldWorkers == DOMAIN MCSessionOf
MCSessionId == {MCSessionOf[w] : w \in MCHoldWorkers}
MCHoldRequests == {RaceRequest(w) : w \in MCHoldWorkers}
=============================================================================
