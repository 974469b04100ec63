------------------------------ MODULE MCBooking ------------------------------
(* One or two flights with the same seat ids, two sessions.  Each cfg      *)
(* picks the requests of the question it asks; amounts differ wherever a   *)
(* mix-up should show.                                                     *)
EXTENDS QuotePricing, TLC

MCFlightId == {"A", "B", "X"}
MCFlight == {"A", "B"}
MCSeatId == {"1A", "1B", "1C"}
MCCabin == [f \in MCFlight |->
  IF f = "A" THEN [s \in MCSeatId |-> CASE s = "1A" -> "AVAILABLE"
                                         [] s = "1B" -> "BLOCKED"
                                         [] s = "1C" -> "OCCUPIED"]
             ELSE [s \in {"1A"} |-> "AVAILABLE"]]
MCBaseFare == [f \in MCFlight |-> IF f = "A" THEN 10000 ELSE 29900]
MCDeparture == [f \in MCFlight |-> 1]
MCSessionId == {"s1", "s2"}
MCMintedSession == {"s2"}
MCDeclinedTokens == {"fail"}
MCNone == {}

MCSeatType == [f \in MCFlight |->
  [s \in DOMAIN MCCabin[f] |->
     [class |-> "ECONOMY", kind |-> CASE s = "1A" -> "WINDOW"
                                      [] s = "1B" -> "STANDARD"
                                      [] s = "1C" -> "MIDDLE"]]]
MCDepartureDow == [f \in MCFlight |-> IF f = "A" THEN "FRI" ELSE "TUE"]
MCRouteKind == [f \in MCFlight |-> IF f = "A" THEN "DOMESTIC" ELSE "INTERNATIONAL"]

Hold(f, seats, c) == [flight_id |-> f, seat_ids |-> seats, session_id |-> c]

Commit(f, seats, token, q, l, c) ==
  [flight_id |-> f, seat_ids |-> seats, payment_token |-> token,
   quote_id |-> q, lock_id |-> l, session_id |-> c]

(* The race for one seat: with and without a lock, one's own, someone      *)
(* else's, made up; good and bad card.                                     *)
RaceHolds == {Hold("A", {"1A"}, c) : c \in MCSessionId}
RaceCommits ==
  {Commit("A", {"1A"}, "ok", None, l, c) : l \in LockId \cup {UnknownId}, c \in MCSessionId}
    \cup {Commit("A", {"1A"}, "ok", None, l, None) : l \in LockId \cup {None}}
    \cup {Commit("A", {"1A"}, "fail", None, l, "s1") : l \in LockId}

(* Quotes and the commits that cite them: for one seat, for a seat of the  *)
(* other flight, for several seats, for seats and flights that do not      *)
(* exist or are not for sale.                                              *)
Quoted(f, seats, c) == [flight_id |-> f, seat_ids |-> seats, session_id |-> c]
TrustQuotes == {Quoted("A", {"1A"}, "s1"), Quoted("B", {"1A"}, None)}
TrustCommits ==
  {Commit("A", {"1A"}, "ok", q, None, "s1") : q \in QuoteId \cup {None, UnknownId}}
    \cup {Commit("B", {"1A"}, "ok", q, None, "s2") : q \in QuoteId}
    \cup {Commit("A", {"1A", "1B"}, "ok", None, None, "s1"),
          Commit("B", {"1B"}, "ok", None, None, "s1"),
          Commit("A", {"1A", "1C"}, "ok", None, None, "s2"),
          Commit("X", {"1A"}, "ok", None, None, "s1")}

TrustSymmetry == Permutations(CommitWorkers) \cup Permutations(QuoteWorkers)
                   \cup Permutations(BookingReference)

(* Few requests of every kind, for runs about failures and progress.       *)
FewHolds == {Hold("A", {"1A"}, "s1")}
FewQuotes == {Quoted("A", {"1C"}, "s1")}
FewCommits ==
  {Commit("A", {"1A"}, "ok", None, l, "s1") : l \in LockId \cup {None}}
    \cup {Commit("A", {"1C"}, "ok", q, None, "s1") : q \in QuoteId}
    \cup {Commit("A", {"1A"}, "fail", None, l, "s1") : l \in LockId}

(* And where no time passes, ids nobody was given for those that expire.   *)
LiveCommits ==
  FewCommits \cup {Commit("A", {"1A"}, "ok", UnknownId, None, None),
                  Commit("A", {"1A"}, "ok", None, UnknownId, None)}

(* Progress does not depend on amounts, and exact ones are slow to compute *)
(* where TLC asks whether a step is possible.                              *)
PriceByOccupancy(f, seats, occupied, now) == BaseFare[f] + occupied

(* One small set of requests per statement the code does not keep.         *)
RenewedHolds == {Hold("A", {"1A"}, "s1"), Hold("A", {"1A"}, "s2")}
LockedCommits == {Commit("A", {"1A"}, "ok", None, l, "s1") : l \in LockId}
UnlockedCommits == {Commit("A", {"1A"}, "ok", None, None, "s1")}

(* Threads and generated ids are interchangeable.  Only for runs without   *)
(* liveness properties.                                                    *)
RaceSymmetry == Permutations(CommitWorkers) \cup Permutations(LockId)
                  \cup Permutations(BookingReference)
=============================================================================
