# The flight-booking system in TLA+

This directory specifies the flight-booking system (`src/src/flights`): seat locks, quotes,
booking commits and the audit log as the concurrent threads of one process use them, the seat
map that is read beside them, prices, search, the HTTP answers, and the race script that gates
the merge. TLC checks it on small instances; TLAPS proves every safety property the runs check,
for every size. Source paths below are relative to `src/src/flights/` unless they begin with `scripts/`,
`tests/` or `docs/`, which are directories of the repository.

## The system

A single Python process serves HTTP requests on a pool of worker threads. Each request
calls one application service; the services share in-memory stores.

| Component | State | Operations | Runs under |
|---|---|---|---|
| Seat-lock store, `adapters/inmemory/seat_lock_store.py` | `_by_seat`, `_by_lock` | `acquire`, `release`, `is_valid`, `get`, `find_active_lock_for_seat` | its own RLock, per call |
| Seat holds, `application/seat_hold_service.py` | none | `acquire`: reads the clock, then calls the store | no lock |
| Quotes, `application/quote_service.py` | none | `quote`: clock, bookings snapshot, price, save, audit | no lock |
| Quote store, `adapters/inmemory/quote_store.py` | `_quotes` | `save`, `get_valid`, `get` | its own RLock, per call |
| Booking commit, `application/booking_service.py` | `commit_lock` | `commit`: quote, seats, lock, charge, save, mail, release, audit | `commit_lock` for the whole commit |
| Booking repository, `adapters/inmemory/booking_repository.py` | `_bookings` | `save`, `iter_all`, `get` | its own RLock, per call |
| Audit log, `adapters/mocks/audit.py` | list or JSONL file | `write`, `read_all` | its own RLock, per call |
| Flight repository and aggregate | flights, never written after start | `get`, `search` | none |
| Gateway, mail, clock, id generators, `adapters/mocks` | queued mails, the time, ids left | `charge`, `queue_confirmation`, `now`, `new_*` | none |
| Pricing, `domain/pricing.py`, `domain/model/quote.py` | none | multiplier tables, surcharges, taxes, rounding | pure |
| Seat map, `application/seat_map_service.py` | none | `view`: bookings, clock, one lock query per seat | no lock |
| Search, `application/search_service.py` | none | one-way and round trips, filters, sort | pure |
| HTTP adapter, `adapters/http/app.py` | none | handlers, error maps, pages, serialisation | none |
| Race script, `scripts/race_last_seat.py` | a summary | trials of many threads and one seat | a thread pool and a barrier |
| Composition, `composition/wire.py` | none | wires one container | none |

What is hard here is what happens between two store calls. Every store is safe by itself,
but only `commit` spans several calls under one lock, and nothing else takes that lock. So:

- a hold judges expiry by a time it read before it got the store's lock;
- a quote is priced from a snapshot of the bookings, saved, and only then audited, while
  commits go on;
- a seat map mixes a snapshot of the bookings, one reading of the clock and one lock query
  per seat, all of different moments;
- holds come and go in the middle of a commit, and clients choose which quote and lock ids
  a commit cites, their own, another's or a guess;
- why a commit is refused is found out by asking a store twice, with other calls in between;
- the JSONL audit log and the id generators raise, and nobody catches: a commit may end
  after the charge, or after the save, with an exception, and a write may leave a torn line.

And in the pure parts: a rounding whose unit depends on the number of digits, occupancy
beyond 100%, pages that are cut out of a search made anew for each of them.
`PROJECT.json` lists these hazards line by line with the properties that cover each.

What makes each component correct:

- **Seat-lock store**: a seat under a live lock changes hands only by that session's renewal
  or that lock's release; the two dictionaries never disagree.
- **Commit**: no double booking; the amount charged is the amount quoted; one charge, one
  mail and one audit event per booking; locks are released by their booking only; a refusal
  names its true reason; every call returns and gives `commit_lock` back.
- **Quotes and audit**: a quote a client was given is already in the log; what a log that can
  be read says of a commit agrees with what it says of its quote, and explains the total.
- **Repository**: bookings answer for ever as they were confirmed. That a booking is never
  overwritten is not the repository's doing: it rests on the generator's fresh references.
- **Seat map**: what did not change while a view ran is shown.
- **Prices**: rounded half to even, and never lower for the one who waits.
- **Search**: the pages of a result join to exactly the matches, in one order.
- **HTTP answers**: a refusal leaves no trace; a confirmation is paid, audited and stands.
- **Race script**: one winner per trial, and it gets through.

## The modules

| Module | Models |
|---|---|
| `Ids`, `Clock`, `Catalog` | shared value objects; a clock that advances; flights as constants |
| `SeatLockStore` | the store and `SeatHoldService.acquire` |
| `SeatLease` | abstract: what the store promises, without ids, stamps or threads |
| `BookingRepository`, `AuditLog` | the two stores as state and operators |
| `QuoteService` | `QuoteService.quote` and the quote store; the amount is the constant `QuotedTotal` |
| `BookingService` | `commit`, step by step, and the composition of everything above |
| `SeatSale` | abstract: each seat of a flight is sold at most once, whole bookings at a time |
| `BookingProperties` | the properties of the composed system and the two refinement mappings |
| `SeatMap`, `SeatMapProperties` | `SeatMapService.view` beside the write side; a history of what was the case meanwhile |
| `Pricing` | Appendix A and B, taxes, the exact sum and its rounding |
| `FareCurve` | a traveler who keeps asking for the same seats while others book and days go by |
| `QuotePricing` | `Pricing` as the `QuotedTotal` of the write side |
| `Paging`, `Search` | page slices; the catalog scan, filters, round trips, and a client that walks the pages |
| `HttpStatus`, `HttpApi` | the status maps; `POST /bookings` and `GET /bookings/{reference}` as clients see them |
| `RaceHarness` | `scripts/race_last_seat.py` on top of `SeatLockStore` |
| `SeatLockStoreProofs`, `BookingProofs`, `LedgerProofs`, `SeatMapProofs`, `HttpApiProofs`, `FareCurveProofs`, `SearchProofs`, `RaceHarnessProofs` | theorems and proofs |
| `MCSeatLockStore`, `MCBooking`, `MCHttpApi`, `MCSeatMap`, `MCFareCurve`, `MCSearch`, `MCRaceHarness` | values for the constants, for TLC |

`BookingService` extends `SeatLockStore` and `QuoteService`, which extend the rest. `SeatMap`
and `HttpApi` extend it in turn, so views and answers run beside the whole write side.
`RaceHarness` needs only the seat-lock store. `Pricing`, `FareCurve` and `Search` stand alone.
The variables are shared, as the objects are in the container.

Operators named "Mutant" in a comment are plausible mistakes in the operator that follows
them; no specification uses them. Substituting one for its original makes the property named
in `PROJECT.json` fail, which shows that the property depends on that code.

### The write side

`bySeat` and `byLock` are `_by_seat` and `_by_lock`, with `None` for a missing key. `bySeat`
is keyed by seat id alone, as in the code. `issued` are the ids the generator has returned.
`hold[w]` is a thread that has evaluated `clock.now()` but not entered the store yet;
`StampHold` puts it there, and `AcquireGranted`, `AcquireRefused` and `AcquireOutOfIds`
are the three ends of the call. `Release` keeps a seat that another lock has taken over.

A quote thread passes three stages, each one step: `CountOccupied` (the snapshot),
`SaveQuote` (ids and save) and `AuditQuote`. `minted` are the sessions the generator has made
up for clients without one; sessions run out like every other id. Only `AuditQuote` adds the
id to `delivered`, the ids that clients were given. The handler takes any string, and the ids
of a seeded generator are predictable, so a commit may also cite an id in `Guessed`, before
its quote is saved, or between its save and its event. All other ids are like `UnknownId`.

The log is the list of its lines, `audit`, and whether the last one has been `ended`. A write
that raises may leave nothing, a piece of its line (`Garbled`) or all of it, and if it leaves
no newline, the next event spoils that line. `Readable` says that `read_all` can parse them.

A commit is a thread with a `phase`. Each phase is the stretch between two calls of shared
objects, because another thread may act in between:

| Phase | Action | Code in `booking_service.py` |
|---|---|---|
| `waiting` | `EnterCommit` | `with commit_lock`, flight lookup, `clock.now()` |
| `validQuote`, `rawQuote` | `ReadValidQuote`, `ReadRawQuote` | `_resolve_quote` |
| `seats` | `ValidateSeats` | `_validate_seats` |
| `lock`, `owner`, `rawLock` | `CheckLockValid`, `CheckLockOwner`, `ReadRawLock` | `_validate_lock` |
| `charge` | `Charge`, `ChargeDeclined` | payment and the declined branch |
| `save` | `SaveAndConfirm`, `OutOfReferences` | reference, save, mail |
| `release` | `ReleaseSeatLock` | `release` |
| `audit` | `AuditCommit` | the audit event and the return |

`Leave` is every way out: the `with` block releases `commit_lock` on return and on exception.

### The seat map

`viewing[w]` is a view under way: `SnapshotBookings` is `_occupied_seat_ids`, `StampView` the
`clock.now()`, each `QueryLock` one turn of the loop of `_seats_locked_against_session`, and
`PublishView` applies `_status_for` and answers. `seen` is a history variable of the
properties: for each seat, whether at some moment since the view began it was sold, free, held
by another session or held by the requester.

### Prices

An amount is a number of cents and a number of parts of a cent, so that the Decimal
arithmetic of the code is exact here as well; the multipliers are twentieths. `RoundedTotal`
is `_round_half_even_to_prior_digit`: to cents when there is anything below a cent, else to
dimes when there are cents, else to dollars. `FareCurve` has two actions, `SellSeat` and
`DaysPass`: what can change the price of a fixed request. A seat marked OCCUPIED in its cabin
can be booked (below), so occupancy may pass 100% and the model lets it.

### Search

A search keeps nothing; what has a state is the client. `ReadPage` asks for the next page,
which is a slice of `Results(request)` computed anew, and appends it to `received`. `Results`
follows the code: the scan by route, day and airline, then price, then window; for round
trips both scans, the pairs that connect, price of the trip, window of the outbound, and the
stable sort. A comprehension or a sort of the code is an arrangement of indices (`Arranged`):
the item at a place is the one that has just as many others before it. The properties compare it with `Wanted`, a set without any order of evaluation.

### HTTP answers

`ServeBooking` is a step of a commit, and if it is the last one also the answer: `CommitStatus`
is the map of the handler, with a 500 for what nobody catches. `attempt` (what was charged and
booked for the request) and `confirmed` (bodies of 201 answers) are what an outside observer
knows; `HttpLeavesTheSystem` proves that observing changes nothing.

### The race script

`Arrive` is a pool thread that takes an attempt up and comes to the barrier, the last one
opening it; `Post` and `GetCode` are the request; `EndTrial` counts the codes and wires a fresh
container. The pool has `MaxWorkers` threads, the barrier `Parties`; the code uses one number
for both, and `HarnessEnds` needs that.

### Abstractions

- Time is a number of ticks. Only its order and differences with a TTL matter, and in
  `QuotePricing` the number of days to departure, so a tick is a day there.
- Requests are sets of seats, not tuples. The first bad seat of the tuple decides the
  error code, so any bad seat may be first. A request that names one seat twice is not
  modelled.
- `POST /bookings` sends one seat. `commit` itself takes several, so `BookingService` does too;
  `HttpApi` assumes one (`OneSeatAssumption`).
- Ids and references are fresh whenever they are drawn: that is what the generators promise,
  and nothing in the code checks it. No property is about it.
- `SaveAndConfirm` draws the reference, saves and queues the mail in one step. Only the save is
  something another thread can see: references and mails are touched by commits alone, one at a
  time. A write of the log is one step too, for the same reason: readers and writers of it hold
  its RLock.
- Every booking is `CONFIRMED`; no code changes a status, so the field is left out.
- Passenger details, currencies and time zones play no part in any property.
- `FrozenClock.set` could move time back, but only a test calls it.

## The runs

`tlc -workers 2 -config <cfg>.cfg <module>`.

| Run | Module, cfg | Shows |
|---|---|---|
| `seat_lock_store` | `MCSeatLockStore` | dictionaries agree, a live holder keeps its seat, and the store implements `SeatLease` |
| `booking_race` | `MCBooking`, `MCBookingRace` | no double booking, charges match bookings, one mail and one event each, locks kept and released by their booking, refusals over a lock true; the inductive invariant `LedgerInv`; the system implements `SeatSale` |
| `booking_quotes` | `MCBooking`, `MCBookingQuotes` | the quoted total is charged inside the TTL window, refusals over a quote are true, the log replays at every moment and explains every total; one of the two quote ids may be guessed |
| `booking_live` | `MCBooking`, `MCBookingLive` | every commit that arrives is answered, failures of the log and of the reference generator included |
| `http_api` | `MCHttpApi` | with audit writes that fail and tear lines, and two references for two clients: a 4xx leaves no trace; a 201 is one charge, one event in a readable log and a booking that `GET` repeats for ever, under a reference of its own; a readable log replays |
| `seat_map` | `MCSeatMap` | a seat that was sold, held by others or the requester's own all through a view is shown as such; the inductive invariant |
| `fare_curve` | `MCFareCurve` | totals are rounded half to even, and never drop for the one who waits |
| `search` | `MCSearch` | the pages join to the result, the result is the set of matches, once each and in order |
| `race_harness` | `MCRaceHarness` | one winner per trial, a perfect summary, and the script ends |
| `claim_holds`, `claim_two_locks`, `claim_torn_map` | see below | three sentences of the documents the code contradicts |

`ReplayVerifies` is `verify_commits` of `tests/support/audit_replay.py`, and
`AuditExplainsTotals` its `replay_quote` with the full price, both stated of every state and
not only of the final log.

### Bounds, and why they are enough

- `MaxTime` stops the clock. It is at least one tick past the TTL in the runs where expiry
  matters: two ticks for a TTL of one, three for a TTL of two. The edge `now = expires_at`
  is reached, and so is a stamp as old as the TTL.
- Two sessions, two hold threads and three lock ids in the store run: a holder, a rival, a
  renewal, and one more lock after the renewal.
- Two commits (`MaxCommits`, two `CommitWorkers`): a conflict is between two. With two
  references, references suffice, and both clients of `http_api` may be confirmed; with one
  (`booking_live`), the second commit runs out after its charge. `HttpInvariant` is proved for
  any number of either.
- One of the two quote ids of `booking_quotes` and the lock id of `http_api` are guessed
  (`Guessed`): known to every client from the start.
- Two flights with a common seat id, three seats (one per cabin status), an unknown flight
  and an unknown seat: each error of `_validate_seats` and the mix-up between flights.
- `seat_map`: one view, one hold thread, one commit, two locks and two seats on sale: each of
  the three readings of a view can be overtaken by a hold, an expiry and a sale.
- `fare_curve`: cabins of 20 seats put an occupancy on both sides of each bucket edge, a cabin
  of five with occupied and blocked seats passes 100%, cabins of none and one seat are the
  extremes; the days are both sides of every bucket; fares and seats give sums that round to
  cents, dimes and dollars. The assumption `AppendixB` checks the worked examples of the
  documents.
- `search`: ten flights with ties, a landing after midnight and layovers of one, two and more
  hours; every combination of filters given or not; page sizes below, at and above the maximum.
- `race_harness`: four threads and two trials, the second to see that nothing of the first is
  left.
- Symmetry is declared on threads and generated ids only, which no definition tells apart,
  and not in the runs with a liveness property.
- Deadlock checking is off where the system stops: `booking_quotes` has no hold threads and
  ends when commits and quote ids are used up, the curve ends on the day of departure, a search
  at its last page, the race script after its trials. Elsewhere a hold thread can always stamp
  another request.
- `booking_live` prices a quote by its occupancy only (`PriceByOccupancy`) and stops the clock
  at once: progress depends neither on amounts nor on what has expired, as every answer of a
  store has its way out of `commit`. The other runs of the write side use `PriceOf`.

### Fairness

`FairSystemSpec` assumes weak fairness of the next step of every commit thread and every
quote thread: a thread that has been given a request keeps running. Nothing is assumed of
clients, of holds or of the clock. `commit_lock` is an `RLock` and not fair, and the model
does not make it so: a waiting thread gets in because only finitely many commits arrive
(`MaxCommits`), so whoever holds the lock leaves and nobody overtakes for ever.

`FairRaceSpec` assumes the same of the threads of the pool and of the main thread of the
script, which runs as long as the process does.

### Where the code and its documents differ

Three differences need several threads to show, and each has a run: TLC finds the behaviour of
the code that contradicts one sentence of the repository, which `PROJECT.json` quotes.

| Run | Property | What happens |
|---|---|---|
| `claim_holds` | `BookingRespectsHolds` | A commit without a `lock_id` is not checked against locks, and books a seat another session holds. |
| `claim_two_locks` | `OneValidLockPerSeat` | A renewal leaves the old record valid in `_by_lock`; after the renewed lock is released, another session acquires the seat and both are valid. |
| `claim_torn_map` | `OfferedSeatWasFree` | A view reads the bookings before, and the locks after, the holder of a seat commits: a seat that was never free is offered. |

Others can be read off a definition; the model has the behaviour of the code. Services are in
`application/`, stores in `adapters/inmemory/`, the slices in
`docs/feature/flight-booking-system/slices/`, the ADRs in `docs/product/architecture/`.

| Where | The code | The document |
|---|---|---|
| `booking_service.py:243`, `ReadValidQuote` | does not compare the session of a quote with the request's | ADR-007: the commit rejects another `session_id` with 403 |
| `booking_service.py:280`, `SeatErrors` | sells a seat whose cabin status is OCCUPIED | slice 03, line 25: 409 |
| `booking_service.py:319`, `CheckLockValid` | asks for expiry before ownership: 410 for another's expired lock | `booking_service.py:310`: 403 "regardless of TTL" |
| `booking_service.py:246`, `ReadRawQuote` | says QUOTE_EXPIRED also of a guessed id that comes into use between the two lookups (so excepted in `RefusalsAreTrue`) | `booking_service.py:237`: "the only possible cause is TTL expiry" |
| `booking_service.py:101`, `EnterCommit` | accepts a commit for a flight that has left | `docs/product/journeys/book-a-flight.yaml:49`: 409 |
| `booking_service.py:177`, `OutOfReferences` | charges, then fails to draw a reference | `docs/product/journeys/book-a-flight.yaml:81`: charge and booking are one transaction |
| `booking_service.py:211`, `AuditCommit` | leaves a booking without its event when the write raises | slice 06, line 10: one entry per commit |
| `seat_lock_store.py:64`, `FindConflicts` | a lock on one flight refuses the same seat id on every other | slice 07, line 24: no race without a winner for a seat that is available |
| `seat_map_service.py:146`, `StatusFor` | offers a seat whose cabin status is OCCUPIED | slice 03, lines 8 and 23 |
| `quote_service.py:149`, `CountOccupied` | counts a seat twice that is OCCUPIED and booked | `domain/pricing.py:128`: "0..100" |
| `domain/model/quote.py:91`, `RoundedTotal` | rounds whole cents to dimes and whole dimes to dollars | `domain/model/quote.py:76`: two or fewer fractional digits are rounded "at cent precision" |
| `quote_service.py:220`, `QuoteCreated` | writes no surcharges or taxes, so a replay of the event alone cannot give the total | `adr-006-quote-store-and-audit-log.md:31` |
| `search_service.py:188`, `SortPairs` | sorts round trips by departure only | slice 08, line 10: by total price unless asked otherwise |
| `search_service.py:182`, `RoundTrip` | applies the time window to the outbound only | slice 08, line 7: a pair with "both meeting all other filters" |
| `search_service.py:164`, `Connects` | pairs a return that leaves exactly two hours after the landing, as `search_service.py:132` and `tests/integration/http/test_round_trip.py:8` have it | slice 08, line 41, and `docs/feature/flight-booking-system/discuss/user-stories.md:175`: `return.departure > outbound.arrival + 2h` |
| `adapters/http/app.py:247`, `SearchRequests` | reads the filter by class and ignores it | slice 08, line 8 |

## What is proved

`tlapm <module>.tla` for the eight modules of proofs. Every invariant and every action property
of the runs that pass, and the two refinements, are stated by a theorem; what remains for TLC is
liveness.

The assumptions are the named `ASSUME`s of the modules: TTLs are positive, requests are well
typed, `None` is not a record, an id or a thread, a search has its days from a calendar and a
catalog gives each flight an id of its own. Nothing is assumed of how many threads, seats,
flights, ids, requests or trials there are, but that the seats and the booking references are
finite (`RepositoryAssumption`): `len` of a list in the code, and without it a cardinality would
mean nothing. Two assumptions are of another kind:

- `FareAssumption`: fares are 25 dollars or more, without which `PriceNeverDrops` is false.
- `PricingAssumption`: `QuotedTotal` is an amount of money for every occupancy the counting can
  arrive at and every day up to departure. That is all `QuoteService` needs of `pricing.price`;
  TLC evaluates it for `PriceOf` in the runs that use it, and `PricesAreMoney` proves what is
  behind it: an integer number of cents for finitely many seats of the classes the code has.

Two theorems have a hypothesis that is a mode of the system, and both modes are run:
`BookingsAreAnnounced` is about an audit log that does not raise (`~AuditMayFail`), since with
one that raises a booking stays without its event; `ChargesAndBookingsAgree` is about no fewer
references than commits (`MaxCommits <= Cardinality(BookingReference)`), since a commit that
cannot draw a reference has charged already. `booking_race` is within both, and `booking_live`
is outside both. Two more conditions stand in the statements themselves: what is said of the
log is said of one that can be read (`Readable`), and what is said of the order of quote and
commit is not said of an id in `Guessed`.

**The store.** `LockInv` is inductive: types, `IndexesAgree`, `RecordsUnderTheirId` (a record
is filed under its own id, which was handed out) and `StampsInThePast`. The last two are the
strengthening. `IndexesAgree` alone is not inductive, because a new lock could overwrite a
record that a seat points to, and it is `RecordsUnderTheirId` that makes a fresh id new. `StampsInThePast`
carries the one real argument: a thread may judge expiry by an old stamp, but a stamp is
never ahead of the clock, so a lock that is live now is live for the stamp too, and is seen
as a conflict. A stale stamp can refuse a seat that is free; it can never steal one.
From `LockInv` follow `StoreIsTyped`, `StoreIndexesAgree`, `LiveHolderIsKept` and
`StoreImplementsLease`.

**The write side.** Every step of the composed system is by its form a step of `LockSpec` or
leaves the store alone (the lemma `SystemRunsTheStore`), so the theorems on the store carry over
(`SystemImplementsLease`). `CommitInv` is inductive. It adds to `LockInv`
that at most one thread is inside `commit` (`OneCommitter`), that between its seat check and
its save the seats of a commit are in no booking (`SeatsStillFree`), and that a lock a commit
has seen valid is still there (`CheckedLockStays`). `NoDoubleBooking` alone is not inductive: a
save is harmless only because the seats, checked several steps earlier, are still free.
`CheckedLockStays` needs the store's invariant, since holds do run during a commit and are
harmless to it only because they never rewrite a record. From it follow `SeatsSoldOnce`,
`LockIsKept` and the refinement `SystemSellsSeats`.

**Money and paper.** `LedgerInv` is `CommitInv` and what a commit carries from one phase to the
next. Its parts, in the order in which they depend on each other:

- the types of every variable (`SystemIsTyped`), among them those of the local variables of a
  commit, and that a snapshot of the bookings counts at most `MaxOccupied` seats;
- every stored quote has the TTL, the day and the total it was made with, and an occupancy that
  explains that total; what a thread between save and audit holds is the quote it saved; a quote
  in `delivered` is in the log. None of these can be had alone: the event is written from
  variables of the thread, so what they say has to be carried over from the save;
- a commit that has passed `ReadValidQuote` works with a stored quote that was valid at its
  own stamp, and that was delivered unless its id was guessed, and a booking repeats what its commit worked with. The lookup and the booking are
  up to seven steps apart, with other quotes saved and other commits charged in between;
- a commit about to ask a store again is about to be told what the first answer meant: what was
  not valid then is not valid now, unless its id was guessed (`RefusalsInTheMaking`). It holds
  because neither records nor quotes are ever rewritten;
- every event of a commit cites a booking, every booking without an event belongs to a commit in
  `release` or `audit`, and no booking has two events or two mails (`LoggedOnce`, `MailedOnce`);
- the bookings, with the commits still on their way to one (`Unsaved`), are no more than the
  calls that have arrived (`ReferencesReserved`).

`QuotesAreHonoured`, `ReplayAlwaysVerifies`, `TotalsAreExplained`, `LocksLeaveByBooking` and
`RefusalsTellTheTruth` follow from it. The log is the one thing here that can lose something: a
line is lost only when a garbled one takes its place (`LogAfter`), so a log that can be read now
could be read before, with the same lines. `BookingsAreAnnounced` turns it into cardinalities. `ChargesAndBookingsAgree` needs one
more induction: the balance of an amount is kept by a charge, which adds an index to `Charged`
and a thread to `Saving`, and by a save, which moves that thread to a booking (`ChargeBalances`,
`SaveBalances`); what never happens is `OutOfReferences`, because each booking uses up one of the
arrivals (`ReferencesSuffice`).

**The seat map.** `SeatMapInv` relates what a view has read to what was the case at some
moment since it began (`SnapshotWasTrue`, `QueriesWereTrue`), because at the moment it answers
none of it need be the case any more. `QueriesWereTrue` includes that the view's time is not
ahead of the clock: a lock that stood all along was live at that time too. From it follows
`SettledSeats`; `SeatMapsAreTyped` needs the types of the bookings from `LedgerInv` as well.

**HTTP answers.** `EndsOfCommit` goes through the ways out of a commit: a refusal from a phase
before the charge, an exception, or a confirmation in the step that writes the audit event.
With `NothingBeforeCharge` the first gives `RefusalsLeaveNoTrace`; with `LogAfter` the third
gives `ConfirmationsAreAudited`. `HttpInv` adds that an attempt has been charged
once when its commit has passed the charge (`PaidThenBooked`), and that every body is the body of
a booking (`BodiesOfBookings`), which fresh references let stand (`BookingsStand`): `ConfirmationsArePaidOnce`
and `ConfirmationsStand`.

**Prices.** `PricesAreMoney`: whatever it is asked for, the price is an integer number of cents.
The surcharges are the hard part of it, a sum over a set that the library defines by recursion on
sets. Both that such a function exists and that its values are integers take an induction, which
is made by contradiction: among the sets that lack the property there would be one none of whose
proper subsets lacks it (`MinimalSubset`). `TotalsAreRounded` says that the total is the nearest multiple of its unit with
ties to the even one. `WaitingNeverPays` compares two exact sums: either they are equal, or
they differ by a dollar or more, which is the most that two roundings can take away
(`OrderKept`). The second is where the fare of 25 dollars enters, and where each bucket of a
table is compared with the next (`DemandGap`, `TimeGap`).

**Search.** `PagesJoin`: after any number of pages the client has exactly the beginning of the
result, as long as the pages are, so the next slice begins where the last one ended. What that
result is follows from one lemma on lists, `ArrangedPlaces`: a strict linear order of finitely
many indices gives each of them a place, and the one before has the lower place, because the map
from an index to the number of those before it is an injection into as many numbers as there are
indices. `KeptItems`, `EligibleItems` and `SortedItems` instantiate it for the filters, the two
loops and the stable sort, and `ResultIsOrdered` puts them together: the result is a list of
`Wanted` in the order of `SortKey`. With `PagesJoin` that is `MatchesFoundOnce`,
`PagesComeInOrder` and `SearchIsTyped`.

**The race script.** `RaceInv`: before the first grant nothing is locked, and after it the
seat is that thread's for the rest of the trial, the clock being frozen. `ExactlyOneWinner` and
`GateHolds` follow, the second with the cardinality of the losers.

**Only model-checked.** `EveryCommitAnswered` and `HarnessEnds`, because liveness under fairness
is out of the prover's reach. That `PriceOf` satisfies `PricingAssumption`, which TLC evaluates:
`PricesAreMoney` is about the operators `PriceOf` is made of, and the two modules are not joined
yet. The three claims are refuted by a behaviour, which is TLC's to find.

## What is not modelled

- Validation of fields by Pydantic and the JSON of flights, quotes and seat maps: they keep no
  state and decide only whether a request enters, and what it looks like.
- `UuidIdGenerator` and `build_production_container` raise in this commit, and so does every
  method of `domain/rules.py`; `domain/ports.py` has only signatures.
- Exit codes and printing of the race script and of the audit tools.
- A process crash: all state is in memory and a restart begins at `SystemInit`. The JSONL log
  survives, but nothing in the program reads it back.
- Liveness of holds and views: each is a bounded sequence of calls without a wait.

## Plan

1. `PriceOf` satisfies `PricingAssumption`, from `PricesAreMoney`: the lemmas on amounts move from
   `FareCurveProofs` to a module that `QuotePricing` can be put beside.
2. An abstract specification of what a booking client is promised (one payment, one booking, one
   answer), implemented by `HttpApi`, on top of `ConfirmedIsPaidOnce` and `ConfirmedStands`.
3. One of the audit log: an append-only list in which each commit follows its quote, implemented
   by the write side.
