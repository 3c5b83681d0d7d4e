# ConnectSphere: a verification project

ConnectSphere is an event planner: a FastAPI/SQLAlchemy backend over PostgreSQL
(`src/backend/app`) and a React frontend. Organisers request events,
coordinators arrange venues, equipment, staff and safety for them, and
attendees register. Requests run concurrently in separate transactions at READ
COMMITTED; there is no scheduler, so whatever is limited in time lapses when it
is next read ("lapse on read"). These modules model the parts whose correctness
depends on how those transactions interleave.

Contents: 1 inventory · 2 plan · 3 Waitlist · 4 VenueBookings · 5 EquipmentReservations ·
6 the life of an event · 7 Notices · 8 proofs · 9 findings · 10 what is not modelled

## 1. Inventory

| component | state | operations | hard behaviour | what makes it correct |
|---|---|---|---|---|
| registration and waitlist (`registration/service.py`) | `registrations` rows (status, `waitlist_joined_at`, `offer_expires_at`), the event's capacity, window and status | register, join_waitlist, accept, decline, withdraw, expire_offer, `expire_lapsed_offers` (run by every read) | two transactions per request with a gap between; offers lapse by a clock read before either; one event lock | never overbooked; offers in line order; no seat idle while people wait; an offer good for its window |
| board and roster (`event/service.py`, `registration/roster_service.py`) | none of their own | browse, list, both sweep | sweep with an event loaded before the sweep's lock | a cancelled event offers nothing |
| confirmation, preparation, completion (`event/confirmation_service.py`) | `events.status`, registration window | confirm, start_preparation, complete | reads bookings, lines, staff, safety under locks taken event first | a confirmed event is ready |
| cancellation (`event/cancellation_service.py`) | `event_cancellations`, the event, its bookings and reservations | request, cancel, approve, reject | bookings locked before the event, then read again | everything is released, once |
| change requests, edits, decisions, review flags (`event/change_*`, `edit_service`, `review_flag_service`) | `event_change_requests`, flags, audit entries | request, approve, reject, edit, clear a flag | a request decided on an event that changed since; a significant change reopens confirmation and safety | stale requests are refused; nothing confirmed rests on an unreviewed change |
| venue bookings, holds, replacement, restore (`venue/booking_service.py`, `hold_service.py`) | `venue_bookings` rows | create, place/confirm hold, withdraw, approve, reject, make_primary, replace, restore, lapse | several row locks per transaction, in different orders; reads before locks | no two bookings overlap; one primary; a replacement or a restore, never both |
| unavailability periods (`venue/block_service.py`) | `venue_blocks`, the marker on bookings | create, end_early | races requests, approvals and each other | every booking a period hits is marked |
| catalogue and availability (`venue/service.py`, `availability.py`) | `venues` rows, stored occupied windows | edit (buffers re-measure bookings), activate | venue locked before its bookings | the stored window stays free |
| equipment and staff (`equipment/`) | request lines, reservations, assignments | request, review, reserve, release, assign | stock counted over overlapping events | never over-reserved, nobody in two places |
| event requests (`event/request_service`, `clarification_`, `assignment_`, `decision_service`) | the event before planning | draft, submit, clarify, assign, transfer, decide | a decision racing a reassignment | nobody decides their own request; a decision is by who is assigned |
| safety (`safety/service.py`) | reviews, the event's approval | request, decide | cleared by a significant change | an approval covers the event as it is |
| agenda (`agenda/`) | sessions | add, edit, delete | event lock | sessions inside the event |
| notices (`notification/`, and the `_notify` of every service) | inbox rows | tell, after the commit or inside it | recipients gathered in the transaction or looked up after it, while the event changes hands; a notice fails, a worker dies | whoever must act or come knows; nobody is told what did not happen |
| identity, seed, migrations, frontend | tokens; demo data; schema; screens | – | – | not modelled |

Components interact through rows, not messages: registration reads `events`,
which confirmation, cancellation, change decisions and unavailability periods
write; the booking services share `venue_bookings`, `events` and `venues` under
row locks, and so do the equipment services lines, reservations and staff; a
service that is done tells people one after another, after its commit.

## 2. Plan

| order | modules | what | state |
|---|---|---|---|
| 1 | `Waitlist`, `SeatLedger`, `WaitlistLedger`, `WaitlistProofs` | the seats and the waitlist of one event, under all operations that touch it | checked; every safety property and the refinement proved |
| 2 | `VenueBookings`, `VenueCalendar`, `VenueBookingsCalendar`, `VenueBookingsProofs` | transactions as lock steps and a commit over bookings, events and venues | checked; every safety property and the refinement proved |
| 3 | `EquipmentReservations`, `EquipmentReservationsProofs` | lines, checks, stock over overlapping events, technical staff, as lock steps | checked; every property proved |
| 4 | `EventRow`, `EventRequests`, `EventChanges`, `EventReadiness`, composed by `EventLife`; `Lifecycle`, `EventLifeProofs` | one event from its draft to its end, with the changes asked of it | checked and proved, with the refinement |
| 5 | `Notices`, `NoticesProofs` | whom each operation tells, when, and what a failure leaves untold | checked; every property proved |

Each `MC` module holds the values a component's runs need. The abstract
specifications are `SeatLedger`, `VenueCalendar` and `Lifecycle`; each is
implemented by its component through a mapping of variables. What could follow:
an abstract specification of the stock that `EquipmentReservations` implements.

Two kinds of module divide the work. Where a service holds one row's lock from
its first read to its commit, an operation is one action (`Waitlist`,
`EventLife`). Where it locks rows of several tables one after another,
a transaction is a record that moves from statement to statement
(`VenueBookings`, `EquipmentReservations`). The two meet at the same operations:
`VenueBookings` says that a confirmation holds the event and its bookings
together, and `EventReadiness` then takes the confirmation as one step.

## 3. Waitlist

`Waitlist` models one event. No transaction of the registration service locks
two events, each event has its own rows and its own lock, so one is enough.

**State.** `event` and `window` are the events row; `status`, `owner`, `joined`,
`expires` are columns of the registrations rows, by row id; `clock` is the
server's; `req` is what each request in flight has in hand: its `now`, what it
is about, how far it is (`sweep` or `act`) and the event it had loaded. `joined`
is kept only while a row waits and `expires` only while it is offered: no code
reads them afterwards except to show them.

**Actions.** A request is three steps, because the code commits twice:

| action | code |
|---|---|
| `Arrive` | the router reads `now`; the unlocked check of `expire_lapsed_offers` decides whether to sweep |
| `Sweep` | `expire_lapsed_offers` under the event's lock: ends every lapsed offer, then `offer_freed_seat` until nothing is free or nobody waits, unless the event has started; commits |
| `Register`, `JoinWaitlist`, `AcceptOffer`, `DeclineOffer`, `ExpireOffer`, `Withdraw` | the operation's own transaction, from the event's lock to the commit; `MayX` collects its refusals |
| `Refuse` | a `DomainError`: nothing of the operation is kept, the sweep's commit stands |
| `Confirm`, `StartPreparation`, `Complete`, `BackToPlanning`, `CancelEvent`, `ApproveChange` | what the rest of the application does to the events row |
| `Tick` | time |

Each transaction holds the event row's lock from its first read of the
registrations to its commit, so it is one action. Row ids are numbers because
ids break ties; they are random in the code, so `Insert` takes any unused one.
The board and the roster differ from all other callers: they load the event
before the sweep, and the sweep's own locking read does not refresh an object
the session holds (`Loaded`, `EventAsRead`).

**Bounds.** `MaxTime` stops the clock, `MaxAge` limits how long one request
lives, and a newcomer arrives only while an unused row is left for it. The
assumption `MaxAge < OfferWindow` (a request lives less than the 24 hours of an
offer) is what the code relies on silently: without it, an offer made after a
request's sweep could lapse by another request's clock before it acts, though
never by its own. Three people, one seat, two requests and three rows give: a
full event, somebody with an offer, somebody waiting, and every pair of
operations on them racing, or a line of two behind a lapsed offer. Times up to 3
with a window of 2 let an offer lapse and be handed on, and lapse again when the
event starts. `waitlist_life` has two people and two rows, so that two requests
and every step of the event (it starts at 2, so that it may also complete) fit
without symmetry, which a liveness property needs; longer lines and larger
capacities are left to the proofs.

| run | question | properties |
|---|---|---|
| `waitlist_race` | two requests race for one seat and its line, offers lapse, the event is cancelled | `TypeOK`, `SeatsWithinCapacity`, `NothingLapsesUnderWay`, `NoIdleSeat`, `UnexpiredOfferHolds`, `NoSeatOnCancelledEvent`, `NoQueueJumping`, `OffersInOrder` |
| `waitlist_life` | the event's whole life: capacity raised and lowered, reopened, prepared, completed, cancelled | `ImplementsLedger`, `LapsedOfferEnds` |
| `offer_once_started`, `offer_on_cancelled` | two of the findings of section 9 | one each, violated |

`RaceSpec` (in `MCWaitlist`) is `Spec` with fewer event steps, to keep the race
of two requests small. `NoIdleSeat` is about an event
whose capacity and start are left alone: raising the capacity while people
wait offers nothing until somebody leaves or an offer lapses, which the code
does not treat as an error.

**Refinement.** `SeatLedger` says what the registrations of an event promise:
every place is claimed once and only moves on (waiting, offered, seated, left),
nobody is seated from the line without an offer, nobody returns, and no step
seats or offers more than the event holds. `WaitlistLedger` maps rows to it, and
`ImplementsLedger` checks and `Implementation` proves the mapping.

**Fairness.** `LapsedOfferEnds` assumes only `WF_vars(Sweep(r))`: a request that
has entered its sweep is run to the sweep's commit. The sweep waits for one
lock, PostgreSQL grants it in order and every holder commits or rolls back. No
fairness is assumed of arrivals: if nobody ever looks, an offer stays, which is
what lapse on read means.

**Deadlock checking** is off: a run ends when every row is used up and the
clock stands at its bound.

## 4. VenueBookings

`VenueBookings` models `backend/app/venue` (booking, hold, period and catalogue
services) with the parts of confirmation, cancellation and change decisions that
read or write bookings. Unlike registration, these transactions lock rows of
three tables in several orders and read some of them before they hold them, so
a transaction cannot be one action.

**State.** `status`, `asked` (event, venue, times, `replaces_booking_id`),
`occupied`, `primary`, `mark` (`rearrangement_block_id`), `restore` and `expiry`
are columns of `venue_bookings`; `eventStatus`, `buffers` and `period` are the
events, venues and `venue_blocks` rows. `req` is the transaction of each request
in flight: its operation and arguments, the statement it is at, the rows that
statement has still to lock, the rows it has locked FOR UPDATE (`has`) and FOR
SHARE (`shares`), and `seen`, what it read of rows before it locked them.

**Statements.** `Plan` gives each operation its locking statements in the code's
order (`CreateRows`, `ApproveRows`, ...); `Found` is what a statement's query
finds when it begins; `MayX` says what operation X insists on after each
statement. A statement called "write" is the insert or update itself, where the
code first asks whether the event has a primary venue and then writes: other
requests may run in between.

| action | code |
|---|---|
| `Begin` | the request arrives; `expire_lapsed_holds` has committed what was due (for the operations that call it); what `make_primary` loads with `db.get` |
| `Lock` | a row is granted. Rows are taken by id where the query says so, in any order where it does not. FOR SHARE excludes FOR UPDATE only |
| `Proceed` | the checks after a statement pass and the next one begins |
| `Create` ... `ChangeEvent` | after the last statement: the writes and the commit |
| `Refuse` | a `DomainError`, the transaction is rolled back |
| `Abort` | PostgreSQL ends one request of a deadlock. `create` is run again by `_insert_with_retry`, which is one more request |
| `HoldDue`, `LapseHold` | a hold or a request made from one passes its expiry; some request's sweep expires it under its row lock |

`evaluate_window` and the exclusion constraint `venue_bookings_no_overlap` are
two definitions, `Free` (before the insert) and `Apart` (at the insert), because
the first sees only what has committed and the second also stops a request that
passed the first.

**Abstractions.** All times asked for lie ahead of the clock, so `BOOKING_EXPIRED`
and its like never fire and a hold's expiry is a flag that turns at any moment.
Roles, capacity, opening hours, a venue's activation and a booking's preparation
are left out; they refuse more, so every behaviour without them that a property
forbids is still looked for. `planning` stands for `approved` too, `confirmed`
for `preparation` too.

**Bounds.** One venue, because no statement reads the bookings of two; two
requests in flight, because each hazard is a race of two; two or three
bookings, because each property relates at most three (a booking and two
replacements); times that touch, so that a buffer or a period makes the
difference between free and taken.

| run | rows | question | properties |
|---|---|---|---|
| `venue_race` | 2 bookings, 2 events, 2 times, 2 buffers | two events compete for one venue while its buffers are edited; or one event's holds, requests and `make_primary` race for its primary venue | `TypeOK`, `NoDoubleBooking`, `WindowsCurrent`, `ImplementsCalendar`, `OnePrimary` |
| `venue_rearranged` | 3 bookings, 1 event, 3 times, 1 period | a period is recorded and ended around requests, approvals, replacements, restores, a confirmation, a change of times and a cancellation | `NoTwinVenues`, `PeriodsMark`, `ConfirmedVenuesStand`, `ApprovedWhileBookable` |
| `venue_decisions` | 1 booking, 1 period | every operation but the edit of buffers on one booking: each request ends, and the row is consistent | `RowsConsistent`, `EveryRequestEnds` |
| `primary_not_live`, `cancel_approve_deadlock` | 1 or 2 bookings | two of the findings of section 9 | one each, violated |

Two events are needed only where the race is for a venue: a request locks its
event, so two requests of one event follow each other. Each run offers the
operations its question is about (`Offered`); between them every operation is
offered. The two requests are interchangeable and the safety runs use that
symmetry; `venue_decisions` checks liveness and does not. Two of the runs keep
to part of the state space (in `MCVenueBookings`): `RaceSpec` leaves out states
in which both of its questions are under way, and in `RearrangedSpec` the
evening is only asked for once noon was, the two being equally free. What they
leave out is covered by the proofs, which are about `Spec`.

`PeriodsMark` holds while a venue's buffers stay as they are: a longer setup or
turnaround may stretch a pending booking into a recorded period, which nothing
marks (its approval is then refused). No run offers both, and the theorem
assumes that `edit_buffers` is not offered.

**Refinement.** `VenueCalendar` says what the table promises with no requests and
no locks: a claim only moves forward (held, requested, granted, over), claims at
a venue stay apart, and a granted claim keeps its hours. `VenueBookingsCalendar`
maps the rows to it; `ImplementsCalendar` is checked with the buffers, the one
thing that moves a claim's hours, being edited.

**Fairness.** `FairSpec` assumes `SF_vars(Lock(r))`, since PostgreSQL queues those
who wait for a row and a row that is free again and again is granted in the end,
and `WF_vars(GoOn(r))`, since a request that has its locks runs on. `GoOn`
includes `Abort`: the deadlock detector acts on a deadlock that lasts. Nothing is
assumed of arrivals.

## 5. EquipmentReservations

`EquipmentReservations` models `backend/app/equipment` (lines, availability
checks, reviews, reservations, staff) with what confirming, preparing,
cancelling and re-dating an event do to them. Transactions are modelled as in
`VenueBookings`: `Plan` lists each operation's locking statements, `Found` the
rows a statement's query finds, `MayX` what the operation insists on after each.

**State.** `line` is an `equipment_request_lines` row (status, event, type,
quantity, recorded shortfall), `reserved` its `equipment_reservations` row if it
has one, `event` the events' status and times, `assigned` the active
`tech_staff_assignments`, `req` the transactions. Two parts are history, written
by the model for the properties: `flagged` in a reservation (a change of times
raised a review flag on it) and `moved` in an event (its times changed once).

**Actions.** `Begin`, `Lock`, `Proceed`, `Refuse`, `Abort` as before, and
one action for what each of the thirteen operations writes and commits. A request takes its first row as it arrives, or waits outside:
until then it holds nothing and has read nothing. One that would be refused at
once does not arrive.

**What is hard here.** `reserve` counts what other events hold without locking
their lines or events; only the lock on the type orders two of them. `assign`
reads other events' times unlocked; only the lock on each person orders two
assignments. An approved change of times asks neither stock nor staff again: it
flags the reservations and leaves the assignments (D103). `StockSuffices` is
therefore about unflagged reservations, at every instant and not by whole
events, and `NoAssignmentOverlaps` about events that never moved. `confirm` locks the event and then the lines,
`review` and `reserve` a line and then the event: the two may deadlock, which
`Abort` resolves.

**Bounds.** Two lines, two events, one type with a stock of 2, quantities 1 and
2, two times that touch, one technician, two requests. With these two events
may each ask for everything, or share; a second technician would only repeat
the first. `FollowedSpec` (in `MCEquipmentReservations`) goes on only from
states in which either lines of several quantities, their edits and checks, or
staff and confirmation are under way, with one check, one event that leaves
planning and one change of times. The rest of the operations are in both.

| run | question | properties |
|---|---|---|
| `equipment` | lines of two events are added, edited, checked, reviewed, reserved, staffed, confirmed, re-dated and cancelled by racing requests | `TypeOK`, `StockSuffices`, `ReservationsStand`, `ChecksStillApply`, `NoAssignmentOverlaps`, `ConfirmedAsArranged` |

Deadlock checking is off: the lines are used up once all were removed.

## 6. The life of an event

Four modules model `backend/app/event` and `backend/app/safety` over one events
row. Every operation locks that row before it reads it and commits once, so it
is one action; the exception is the decision on a change request.

| module | state | operations |
|---|---|---|
| `EventRow` | `event` (status, coordinator, safety approval), `detail` (the columns changes are about), `now` | the day passes |
| `EventRequests` | `thread` (rounds of clarification), `history` (`coordinator_assignments`) | `UpdateDraft`, `Submit`, `Assign`, `Reassign`, `AskClarification`, `Reply`, `Approve`, `Reject` |
| `EventChanges` | `asked` (pending change requests with the values they saw), `reached` (decisions in flight), `flagged`, `arranged` (the booking, the line, the registrations), `current` | `RequestChange`, `EditHeld`, `EditAtOnce`, `Reach`, `GiveUp`, `ApproveChange`, `RejectChange`, `ClearFlag`; `Ask`, `ApproveLine`, `Settle`, `Undo` stand for what venues, equipment and registration do |
| `EventReadiness` | `revise`, `cancellation` | `Review`, `RequestReview`, `Confirm`, `StartPreparation`, `Complete`, `VenueLost`, `RequestCancel`, `CancelDirect`, `ApproveCancellation`, `RejectCancellation` |
| `EventLife` | all of it | their composition |

A decision finds its change request first (`Reach`, the code's `_reachable`) and
locks the event and the request afterwards, so who may decide, what the request
says and the stage of the event are all asked again (`Lock`, `Stale`): a
reassignment, another approval or a cancellation may lie in between.

`current` is history: which arrangements, and whether the safety approval, were
made or looked at since the event's date last changed. Nothing in the code
records it; it says what `flagged`, `safety_approved_by_user_id` and the status
are meant to guarantee together.

**Refinement.** `Lifecycle` says what everybody relies on about an event, with
four variables and no people, queues or flags: status, coordinator, whether it
is safe, and its date; that only something safe is confirmed, that another date
takes both away, that it ends once. `ImplementsLifecycle` is its specification
under the mapping in `EventLife`.

**Bounds.** Four people: an organiser, a coordinator who is a safety officer
too, a coordinator who is also a Lead, and a Lead who is a safety officer, so
that everybody who might decide their own matter can try. Two days and one other
field, two change requests, so that one goes stale through the other; two rounds
of clarification, two handovers, one decision in flight (what a second one could
do between the two steps of the first is what any other step does).
`FollowedSpec` (in `MCEventLife`) explores the conversation and the handovers
fully up to the decision and goes on from one outcome of them; two change
requests are queued only while nothing is arranged and there is no cancellation;
at most two of booking, line and registrations are about at a time. The proofs have no such limits.

| run | question | properties |
|---|---|---|
| `event_life` | an event from its draft to its end, in any order of the people involved | `TypeOK`, `ConfirmedForThisDate`, `SafetyIsForThisDate`, `NothingLeftOpen`, `ThreadMatchesStatus`, `HistoryNamesCoordinator`, `ImplementsLifecycle`, `ChangesApplyToWhatWasSeen`, `DecidedByWhoMay` |

Deadlock checking is off: a cancelled event has nothing left to do.

In planning, an edit of the coordinator that leaves the schedule alone is
applied at once (`EditAtOnce`): it takes no safety approval away and raises no
flag, although the same change asked for by the organiser does (D103, D104,
D106). The documents have it so, and `ConfirmedForThisDate` is about the date.

## 7. Notices

`Notices` models whom each operation tells: the services' `_notify`, `_send` and
`_recipients`, and `RecordingNotifier`, which records a notice in a transaction
of its own after the one it speaks of.

**State.** `event` is what notices depend on (status, coordinator, approved
venue, reservation, staff, attendees, open requests). `op` is each request: its
operation, whom it is about, and the notices it has still to send now and after
its commit. `told` and `untold` are what came of them, `log` the order of
commits.

**Actions.** `Begin` takes the locks and gathers in the transaction (`Gathered`),
`Commit` changes the event, `LookUp` queries the rest in a new
transaction (`LookedUp`), `Tell` records one notice. `Rollback`, `LookUpFails`,
`NotTold` (swallowed, or raised and ending the loop for the kinds in `OneTry`)
and `Crash` are the faults; `MaxMishaps` bounds them. A waitlist
offer is the one notice sent before a commit (`ToldInside`), so it may speak of
something that then rolls back, which the recorder accepts (D116); `NoFalseNotice`
excepts it, and no property is about it. Two requests exclude each other as their
locks on the event and its bookings do (`Excludes`).

Abstracted: the wording, notices that differ in it alone, the order in
which looked-up people are told; an e-mail address is its user; nobody is
deactivated meanwhile; offers do not lapse (`Waitlist`).

**Bounds.** Three requests: one does anything, one asks, cancels,
reassigns, staffs or registers, one only reassigns, and that only when the first
asks, assigns or cancels (`MixedSpec`), for a second handover matters only to whom a
request or a cancellation reached. One mishap, one seat, three coordinators, of
whom one is inactive, one user who is both technical staff and attendee, one who
is both venue and technical staff (and is told of an event's arrangements twice, in two
kinds of notice). That gives 1 072 621 states.

| run | question | properties |
|---|---|---|
| `notices` | who knows, after requests that tell people race and one query, notice or worker fails | `TypeOK`, `CancellationReachesEveryone`, `DecidersKnow`, `NoFalseNotice` |

A failed notice is not retried: the properties say that whoever was not told was
the recipient of a notice that failed, never somebody left out of the list. Deadlock checking is off: every
request ends.

## 8. Proofs

Forty-five theorems in five modules, checked by TLAPS for every value of the
constants that meets the named assumptions. All are about `Spec`, without the
bounds of the runs.

**`WaitlistProofs`**, for every set of rows, attendees and requests, every
finite set of capacities and starts and every clock bound:

| theorem | states |
|---|---|
| `TypeCorrect` | `Spec => []TypeOK` |
| `Inductive` | `Spec => []IInv` |
| `SweptStaysSwept` | `[]NothingLapsesUnderWay` |
| `NeverOverbooked` | `[]SeatsWithinCapacity` |
| `QueueInOrder` | `OffersInOrder` |
| `OffersHold` | `UnexpiredOfferHolds` |
| `CancelledSeatsNobody` | `NoSeatOnCancelledEvent` |
| `NoneIdle` | `Spec /\ [][EventKept]_vars => []NoIdleSeat` |
| `NoneJumps` | `Spec /\ [][EventKept]_vars => NoQueueJumping` |
| `OneEventIsKept` | `Spec => [][EventKept]_vars`, if there is one capacity and one start |
| `Implementation` | `Spec => ImplementsLedger` |

Assumptions: `Rows` is a finite set of numbers, `Nobody` is neither an attendee
nor a row, capacities and starts are numbers, and `MaxAge < OfferWindow`.

The argument. `SeatsWithinCapacity` is not inductive: `register` counts only
offers that have not lapsed, so a state with a lapsed offer and a request about
to act would let it overbook. What excludes that state is
`NothingLapsesUnderWay`, and what keeps *that* true is that a request is never
older than `MaxAge` (`Ages`), so an offer made by any request lapses after the
`now` of every request in flight. `IInv` is the conjunction of `TypeOK`, `Ages`,
`Errands` (what a request at each step is about), `NothingLapsesUnderWay` and
`SeatsWithinCapacity`. The counting steps rest on lemmas about
`Cardinality` of the waiting line: the first n of a strict order are n, and
`PassOn` never offers more than `SeatsRemaining`.

`NoIdleSeat` needs the opposite bound, and that `PassOn` skips nobody: if
somebody waits beyond place k, the places up to k are all taken
(`LineHasNoGap`, by pigeonhole over the rest of the line), so a transaction that
leaves somebody waiting made as many offers as it freed seats, or left no seat
free (`HandedOn`). It is inductive with `IInv` and `LoadedFresh` (the event that
a read holds while it sweeps differs from the row at most in a cancellation).
Raising the capacity breaks it, and so does a later start, which is what `EventKept` excludes; the
instance of `waitlist_race` has one capacity and one start, so by
`OneEventIsKept` it is an instance of these theorems.

**`VenueBookingsProofs`**, for every set of bookings, events, venues, times,
buffers, periods and requests:

| theorem | states |
|---|---|
| `Invariance` | `Spec => []IInv` |
| `TypeCorrect` | `[]TypeOK` |
| `NeverDoubleBooked` | `[]NoDoubleBooking` |
| `WindowsStayCurrent` | `[]WindowsCurrent` |
| `Refinement` | `Spec => ImplementsCalendar` |
| `ApprovalsInTime` | `ApprovedWhileBookable` |
| `ConfirmedVenuesHold` | `[]ConfirmedVenuesStand` |
| `RowsStayConsistent` | `[]RowsConsistent` |
| `NeverTwoPrimaries`, `NeverTwins` | `[]OnePrimary`, `[]NoTwinVenues` |
| `PeriodsAlwaysMark` | `[]PeriodsMark`, if `edit_buffers` is not offered |

Assumptions: ids are distinct and bookings' ids are numbers
(`RowsAssumption`), times and buffers are numbers in order
(`WindowsAssumption`), `Nothing` is no id (`NothingAssumption`), and `Offered`
holds operations of `Plan` (`OfferedAssumption`).

The argument. A transaction reads in one step and writes in another, so what a
commit relies on has to be carried over. `IInv` says of each request in flight
that it is `Sound`: it holds the lock of every row that its past statements
locked (`Taken`), and what it found of rows it holds is still so (`Judged`); and
that no two requests hold one row (`Exclusive`) or insert one booking
(`Distinct`). Lemma `Step` shows that every step keeps this and is a `Change`:
one of six things that can happen to bookings at all. The theorems follow in
layers. No double booking and the calendar need only `Change`, for the insert's
own constraint and the measuring of an edit. `Undisturbed` says what cannot be
taken from a confirmed event, `Consistent` adds the rows' constraints, and
`Replaces` with `RequestsKeep` what the locks of an original and of an event
reserve for the request that holds them. For `PeriodsMark` it is the venue's
row, shared by whoever claims it and locked by whoever records a period, that keeps
what an insert found free (`Clear`) free until its commit.

**`EquipmentReservationsProofs`**, for every finite set of lines, all events,
types, stocks, quantities, staff, times and requests:

| theorem | states |
|---|---|
| `Invariance`, `TypeCorrect` | `Spec => []IInv`, `[]TypeOK` |
| `StockHolds` | `[]StockSuffices` |
| `ReservationsAgree` | `[]ReservationsStand` |
| `ChecksCurrent` | `[]ChecksStillApply` |
| `NobodyTwice` | `[]NoAssignmentOverlaps` |
| `LocksExclusive` | `[]Exclusive` |
| `ConfirmedArranged` | `ConfirmedAsArranged` |

Assumptions: the lines are finitely many (`LinesAssumption`), times are
non-empty spans (`SpansAssumption`), quantities are positive and stocks are numbers
(`QuantitiesAssumption`), staff are numbers (`StaffAssumption`), `Nothing` is no
id (`NothingAssumption`), and `Offered` holds operations of `Plan`
(`OfferedAssumption`).

The argument. Units are counted as a set of pieces, so that the units of some
lines grow with the set of lines and one more line adds its quantity at most
(`Pieces`). What has to be carried from the statement that counts to the commit
that writes is `Room` for a reservation and `Spare` for an assignment: `Room`
sums every reservation that overlaps the event at any instant, which is more
than any instant has, and nobody else can use it up while the request holds the
type's lock; `Spare` likewise with each person's lock. Both also rest on the
event's row, which `change_dates` locks and the others share, so the times they
were worked out with are still the event's. `IInv` is `Tables` (the rows' types and the
properties of rows), `RequestsSound` (each request has the locks of its past
statements, `Taken`, and what it judged still holds, `Judged`), `Exclusive` and
`Distinct`. A flagged reservation is not counted, and `change_dates` flags all
of its event's, which is why the sum never grows by a move.
`ConfirmedAsArranged` follows from what a confirmation found under its locks
(`Arranged`).

**`NoticesProofs`**, for every finite set of users with any roles, any
organiser and number of seats, any requests, and any number of mishaps:

| theorem | states |
|---|---|
| `Invariance`, `TypeCorrect` | `Spec => []IInv`, `[]TypeOK` |
| `CancellationTellsAll` | `[]CancellationReachesEveryone` |
| `DecidersAreTold` | `[]DecidersKnow` |
| `NothingFalse` | `[]NoFalseNotice` |

Assumptions: the users are finitely many (`FiniteAssumption`: recipients are told
one after another), roles are roles and the active users are users (`UsersAssumption`), the
organiser is active (`OrganiserAssumption`), `Nobody` is no user
(`NobodyAssumption`), and `Offered` holds operations (`OfferedAssumption`).

The argument. The properties compare what people were told with what was
committed, but what makes them true happens in between, while others commit. `Speaks` says of
each request what it has told and will tell: nothing twice, before the commit
only offers, and nothing yet of what it will look up after the commit. `Stands`
says that what an open request gathered is what it owes (`Due`) as the event
stands, not as it stood, which holds because whoever could change it is
excluded by its lock (`Locked`), and that once it committed each of these notices is told, still
to be told, or failed (`Informed`). `DecidersKnow` is not inductive, since the event
may change hands after the question was asked: `Known` adds that the deciders of
an open request were told, or that the coordinator who took over since was
(`Succeeded`), or that a change request has yet to look them up.

**`EventLifeProofs`**, for every set of people with any roles, all days, texts
and change requests, and any number of decisions in flight:

| theorem | states |
|---|---|
| `Inductive`, `TypeCorrect` | `Spec => []IInv`, `[]TypeOK` |
| `ThreadAgrees` | `[]ThreadMatchesStatus` |
| `SafeForThisDate`, `ConfirmedStands` | `[]SafetyIsForThisDate`, `[]ConfirmedForThisDate` |
| `CancelledForGood` | `[]NothingLeftOpen` |
| `HistoryIsTrue` | `[]HistoryNamesCoordinator` |
| `DecidersMay`, `ChangesFit` | `DecidedByWhoMay`, `ChangesApplyToWhatWasSeen` |
| `Implementation` | `Spec => ImplementsLifecycle` |

Assumptions: roles are roles and the creator is a user (`PeopleAssumption`),
days are numbers (`DaysAssumption`), `TextsAssumption`, `NothingAssumption`, and
`MaxRounds` is a number (`RoundsAssumption`).

The argument. `ConfirmedForThisDate` is not inductive: a planned event may hold
an approval and a settled booking from before its date changed, and `Confirm`
looks at neither's age. What excludes that state is `SeenOrFlagged`: every live
arrangement was made or looked at since the last change of date, or has an open
flag, which `Confirm` does look at. Releasing a reservation
keeps its flag, withdrawing a booking drops it together with the booking, and a lost
venue keeps both flags and approval; each has a step of its own. `IInv` is
`TypeOK`, `ThreadMatchesStatus`, `AnswersFollow`, `Dated` (from planning on
there is a date), `SafetyIsForThisDate`, `SeenOrFlagged` and `ConfirmedIsSafe`. `NothingLeftOpen` and
`HistoryNamesCoordinator` are inductive on top of it.

**Only model-checked:** liveness (`LapsedOfferEnds`, `EveryRequestEnds`), which
is beyond the prover, and the four violated properties of section 9, which are
not theorems. TLC finds the inductive invariants of `EquipmentReservations` and
`Notices` to hold on the instances of their runs, too.

## 9. Findings

| run | what the code does | what it says |
|---|---|---|
| `offer_once_started` | `_release_offer` hands a declined offer on without looking at `start_at` | `registration/service.py:242`: "Once the event is on, the place goes to no one" |
| `offer_on_cancelled` | the board's sweep decides with the event it loaded before a cancellation | `registration/service.py:128`: "a cancelled event's places go to no one" |
| `primary_not_live` | `make_primary` loads the booking, waits for the event, and then judges the status it loaded: its locking read does not refresh the object | `venue/booking_service.py:789`: "only a live booking can be the primary venue" |
| `cancel_approve_deadlock` | a cancellation reads the bookings again under the event's lock and may meet one that an approval holds | `event/cancellation_service.py:225`: they "wait for each other instead of deadlocking" |

Each of these runs checks one property and TLC reports the violation.

Relatives have no run of their own. Offering `make_primary` in place of
`cancel_event` deadlocks too: it locks the event and then the booking, `approve`
the booking and then the event (`docs/c4/README.md:132` says they "lock rows in a
fixed order"). So does offering
`record_period`, which reads its bookings again under the venue's lock. PostgreSQL ends one of the two; only
`create` is tried again. And the place in line is the clock reading on arrival,
with ties broken by a random id, so a join that commits later may go in front of
an earlier one (`registration/service.py:94` says "stable positions", of rows
with one timestamp); `OffersInOrder` compares the readings, so it does not tell the
two orders apart. `mark_read` reads `read_at` without a lock, so
of two calls the later may win (`notification/inbox_service.py:37` says that
the first is kept).

## 10. Not modelled

- The agenda: sessions are added, edited and deleted under the event's lock, the
  event's window (D94) and overlaps (D95) are checked after the lock, and an
  exclusion constraint stands behind them; no two actors race.
- The inbox (lists, mark as read), search, the venue calendar, the roster's and
  the board's lists: reads, or a single column.
- Identity, and who may do what outside `EventLife`: role checks without state.
- Preparation of a venue (`set_preparation`), opening hours, capacity, a venue's
  activation, equipment units out of service: each only refuses more.
- The attendance log, answers to registration fields, audit entries and the log of past
  assignments: written with the change they record, read by nothing modelled.
- Liveness across components: nothing in the code runs unless
  somebody asks, so an event that nobody touches stays as it is.
- Seed data, migrations (their constraints are modelled where an operation relies on
  them), the frontend, the texts of notices.

Two things the code lets happen have no property, because no document says
otherwise: an approved booking of a confirmed event may be withdrawn (D77), and
longer buffers may stretch a pending booking into an unavailability period.

`PROJECT.json` lists every component with its status, and every hazard with the
properties that cover it or why none does.
