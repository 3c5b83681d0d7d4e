------------------------------ MODULE Waitlist ------------------------------
(***************************************************************************)
(* The seats and the waitlist of one event, as                             *)
(* backend/app/registration/service.py keeps them.                         *)
(*                                                                         *)
(* A request is not one step.  It reads the clock when it arrives, may     *)
(* commit a first transaction that expires lapsed offers and hands their   *)
(* seats on (the sweep), and then runs the transaction of its own          *)
(* operation.  Each transaction holds the event row's lock from its first  *)
(* read to its commit, so it is one action here; between the two, and      *)
(* between arrival and either, every other request may run.  Each event    *)
(* has its own rows and its own lock, and no transaction locks two, so one *)
(* event is the whole system.                                              *)
(*                                                                         *)
(* Left out: answers to registration fields, notices, the attendance log   *)
(* (written in the transaction of the change it records), and e-mail-only  *)
(* rows, which no code creates any more.                                   *)
(***************************************************************************)
EXTENDS Integers, FiniteSets

CONSTANTS
  Rows,             \* ids of registrations rows; numbers, because ids break ties
  Attendees,        \* attendees who may register
  Nobody,           \* no attendee, or no subject
  Requests,         \* requests that may be in flight together
  Capacities,       \* values approved change requests give events.capacity
  Starts,           \* values they give events.start_at
  EventLength,      \* events.end_at - events.start_at
  WaitlistEnabled,  \* events.waitlist_enabled, which no operation writes
  OfferWindow,      \* WAITLIST_OFFER_WINDOW
  MaxAge,           \* bound: how long a request may live
  MaxTime           \* bound: the clock stops here

ASSUME RowsAssumption == Rows \subseteq Nat /\ IsFiniteSet(Rows)
ASSUME AttendeesAssumption == Nobody \notin Attendees /\ Nobody \notin Rows
ASSUME EventAssumption ==
  /\ Capacities \subseteq Nat
  /\ Starts \subseteq Nat
  /\ EventLength \in Nat
  /\ WaitlistEnabled \in BOOLEAN
(* Requests last seconds and the window is 24 hours, so no request is      *)
(* still running when an offer made after it arrived has lapsed.           *)
ASSUME TimeAssumption ==
  /\ OfferWindow \in Nat
  /\ MaxAge \in Nat
  /\ MaxAge < OfferWindow
  /\ MaxTime \in Nat

VARIABLES
  event,    \* the events row: its status, capacity and start_at
  window,   \* its registration_enabled, registration_opens_at and _closes_at
  status,   \* the status of each registrations row, "none" before it is inserted
  owner,    \* its attendee_id
  joined,   \* its waitlist_joined_at, while it is waitlisted: not read after
  expires,  \* its offer_expires_at, while it is offered: only displayed after
  clock,    \* the server's clock
  req       \* what each request has in hand

rowVars == <<status, owner, joined, expires>>
eventVars == <<event, window>>
vars == <<event, window, status, owner, joined, expires, clock, req>>

Never == 0  \* a time that was not set

ActiveStatuses == {"confirmed", "waitlisted", "offered"}
RowStatuses == ActiveStatuses \cup {"none", "withdrawn", "declined", "expired"}
EventStatuses == {"planning", "confirmed", "preparation", "completed", "cancelled"}

Reads == {"browse", "my_registrations"}
Newcomers == {"register", "join_waitlist"}
Holders == {"accept", "decline", "withdraw", "expire_offer"}
Operations == Reads \cup Newcomers \cup Holders

EventRow == [status : EventStatuses, capacity : Nat, startAt : Nat]
Unloaded == [status |-> "planning", capacity |-> 0, startAt |-> 0]

(* A request: where it is, what it asks and of whom, the `now` it was      *)
(* given, and the events row it had already loaded when it swept.          *)
Request == [pc : {"idle", "sweep", "act"}, op : Operations,
            subject : Attendees \cup Rows \cup {Nobody},
            now : Nat, loaded : EventRow]

Idle == [pc |-> "idle", op |-> "browse", subject |-> Nobody,
         now |-> 0, loaded |-> Unloaded]

-----------------------------------------------------------------------------
(***************************************************************************)
(* Seats and places in line.  Each is an operator of a status function s,  *)
(* because a transaction counts again after it has changed some rows.      *)
(***************************************************************************)

Waiting(s) == {r \in Rows : s[r] = "waitlisted"}
Held(s) == {r \in Rows : s[r] \in {"confirmed", "offered"}}

\* Variant for the checks: an offer does not hold its seat.
SeatsIgnoringOffers(s, ev, now) ==
  ev.capacity - Cardinality({r \in Rows : s[r] = "confirmed"})

\* RegistrationService.seats_remaining: an unexpired offer holds its seat.
SeatsRemaining(s, ev, now) ==
  ev.capacity - Cardinality({r \in Rows :
                               \/ s[r] = "confirmed"
                               \/ s[r] = "offered" /\ expires[r] > now})

WaitlistAvailable(s, ev, now) ==
  WaitlistEnabled /\ SeatsRemaining(s, ev, now) <= 0

\* Ordered by (waitlist_joined_at, id).
AheadOf(q, r) == joined[q] < joined[r] \/ (joined[q] = joined[r] /\ q < r)

\* Variant for the checks: last come, first served.
PositionFromBack(s, r) == Cardinality({q \in Waiting(s) : q = r \/ AheadOf(r, q)})

\* RegistrationService.waitlist_position, 1 for the head of the waitlist.
Position(s, r) == Cardinality({q \in Waiting(s) : q = r \/ AheadOf(q, r)})

(* The rows that up to n calls of offer_freed_seat turn into offers: the   *)
(* first n in line, as far as the free seats go, none once cancelled.      *)
NextInLine(s, ev, now, n) ==
  IF ev.status = "cancelled" THEN {}
  ELSE {r \in Waiting(s) : /\ Position(s, r) <= n
                           /\ Position(s, r) <= SeatsRemaining(s, ev, now)}

(* Ends a transaction that gave the rows the statuses s: hands free seats  *)
(* to at most n people in line.                                            *)
PassOn(s, ev, now, n) ==
  LET next == NextInLine(s, ev, now, n)
  IN  /\ status' = [r \in Rows |-> IF r \in next THEN "offered" ELSE s[r]]
      /\ joined' = [r \in Rows |-> IF r \in Waiting(s) \ next THEN joined[r] ELSE Never]
      /\ expires' = [r \in Rows |-> IF r \in next THEN now + OfferWindow
                                    ELSE IF s[r] = "offered" THEN expires[r] ELSE Never]
      /\ UNCHANGED owner

\* Variant for the checks: an offer lapses one tick early.
LapsedEarly(now) == {r \in Rows : status[r] = "offered" /\ expires[r] <= now + 1}

LapsedOffers(now) == {r \in Rows : status[r] = "offered" /\ expires[r] <= now}

HasActiveRow(a) == \E r \in Rows : owner[r] = a /\ status[r] \in ActiveStatuses

\* RegistrationService._check_registration_open.
RegistrationOpen(now) ==
  /\ event.status \in {"confirmed", "preparation"}
  /\ window.enabled
  /\ window.opensAt <= now
  /\ now < window.closesAt

-----------------------------------------------------------------------------
(***************************************************************************)
(* A request arrives.  Its `now` is read here, once, and so is the cheap   *)
(* check without a lock that decides whether it sweeps at all.             *)
(***************************************************************************)

(* Who or what each operation is about.  About a row that does not exist,  *)
(* is someone else's or has ended, a request is refused and does no more   *)
(* than a read of the event does.                                          *)
Subjects(op) ==
  CASE op \in Reads -> {Nobody}
    [] op \in Newcomers -> Attendees
    [] op \in Holders -> {r \in Rows : status[r] \in ActiveStatuses}

\* Bound: an unused row for every newcomer in flight.
RowsLeft ==
  Cardinality({r \in Requests : req[r].op \in Newcomers})
    < Cardinality({r \in Rows : status[r] = "none"})

(* The board and the organiser's roster hold the events row from before    *)
(* the sweep, so the sweep's own read of it does not replace what they     *)
(* loaded; the other operations load it under the lock.  The roster shows  *)
(* events in all the statuses modelled here.                               *)
Loaded(op) == IF op = "browse" THEN event ELSE Unloaded

\* Variant for the checks: nothing is swept before the operation.
FirstStepNoSweep(op) == "act"

(* expire_offer, the forced path, never sweeps; the others skip the sweep  *)
(* when the unlocked check finds nothing.                                  *)
FirstStep(op) ==
  IF op = "expire_offer" \/ LapsedOffers(clock) = {} THEN "act" ELSE "sweep"

Arrive(r, op, x) ==
  /\ req[r].pc = "idle"
  /\ x \in Subjects(op)
  /\ op \in Newcomers => RowsLeft
  /\ op \in Reads => FirstStep(op) = "sweep"   \* a read that sweeps nothing changes nothing
  /\ req' = [req EXCEPT ![r] = [pc |-> FirstStep(op), op |-> op, subject |-> x,
                                now |-> clock, loaded |-> Loaded(op)]]
  /\ UNCHANGED <<rowVars, eventVars, clock>>

-----------------------------------------------------------------------------
(***************************************************************************)
(* The sweep (expire_lapsed_offers): under the event's lock, look again    *)
(* for lapsed offers, expire them all, and while the event has not started *)
(* offer their seats until none is free or nobody waits.                   *)
(***************************************************************************)

EventAsRead(r) == IF req[r].op = "browse" THEN req[r].loaded ELSE event

AfterSweep(r) ==
  IF req[r].op \in Reads THEN Idle ELSE [req[r] EXCEPT !.pc = "act"]

\* How many of the freed seats the sweep may pass on.
SweepOffers(ev, now) == IF now < ev.startAt THEN Cardinality(Rows) ELSE 0

\* Variant for the checks: the sweep leaves the lapsed offers as they are.
EndNone(lapsed) == status

\* RegistrationService._end_offer for every lapsed offer.
EndLapsed(lapsed) == [r \in Rows |-> IF r \in lapsed THEN "expired" ELSE status[r]]

Sweep(r) ==
  /\ req[r].pc = "sweep"
  /\ LET now == req[r].now
         lapsed == LapsedOffers(now)
         ev == EventAsRead(r)
     IN  IF lapsed = {}
         THEN UNCHANGED rowVars
         ELSE PassOn(EndLapsed(lapsed), ev, now, SweepOffers(ev, now))
  /\ req' = [req EXCEPT ![r] = AfterSweep(r)]
  /\ UNCHANGED <<eventVars, clock>>

-----------------------------------------------------------------------------
(***************************************************************************)
(* The operations, each the second transaction of its request.  May...     *)
(* collects an operation's refusals, in the code's terms.                  *)
(***************************************************************************)

Acting(r, op) == req[r].pc = "act" /\ req[r].op = op

Answer(r) ==
  /\ req' = [req EXCEPT ![r] = Idle]
  /\ UNCHANGED <<eventVars, clock>>

\* Variant for the checks: the row is stored without its attendee.
InsertAnonymous(a, st, now) ==
  \E r \in Rows :
    /\ status[r] = "none"
    /\ status' = [status EXCEPT ![r] = st]
    /\ joined' = [joined EXCEPT ![r] = IF st = "waitlisted" THEN now ELSE Never]
    /\ UNCHANGED <<owner, expires>>

\* A new row gets a random id: any one not taken.
Insert(a, st, now) ==
  \E r \in Rows :
    /\ status[r] = "none"
    /\ status' = [status EXCEPT ![r] = st]
    /\ owner' = [owner EXCEPT ![r] = a]
    /\ joined' = [joined EXCEPT ![r] = IF st = "waitlisted" THEN now ELSE Never]
    /\ UNCHANGED expires

MayRegister(a, now) ==
  /\ RegistrationOpen(now)
  /\ ~HasActiveRow(a)
  /\ SeatsRemaining(status, event, now) > 0

Register(r) ==
  /\ Acting(r, "register")
  /\ MayRegister(req[r].subject, req[r].now)
  /\ Insert(req[r].subject, "confirmed", req[r].now)
  /\ Answer(r)

MayJoin(a, now) ==
  /\ RegistrationOpen(now)
  /\ ~HasActiveRow(a)
  /\ WaitlistAvailable(status, event, now)

JoinWaitlist(r) ==
  /\ Acting(r, "join_waitlist")
  /\ MayJoin(req[r].subject, req[r].now)
  /\ Insert(req[r].subject, "waitlisted", req[r].now)
  /\ Answer(r)

\* Variant for the checks: an offer on a cancelled event can be taken up.
MayAcceptCancelled(x, now) ==
  /\ status[x] = "offered"
  /\ expires[x] > now
  /\ now < event.startAt

\* Variant for the checks: whoever waits may confirm themselves.
MayAcceptWaiting(x, now) ==
  /\ status[x] \in {"offered", "waitlisted"}
  /\ event.status # "cancelled"
  /\ now < event.startAt

MayAccept(x, now) ==
  /\ status[x] = "offered"
  /\ expires[x] > now
  /\ event.status # "cancelled"
  /\ now < event.startAt

AcceptOffer(r) ==
  LET x == req[r].subject
  IN  /\ Acting(r, "accept")
      /\ MayAccept(x, req[r].now)
      /\ status' = [status EXCEPT ![x] = "confirmed"]
      /\ expires' = [expires EXCEPT ![x] = Never]
      /\ UNCHANGED <<owner, joined>>
      /\ Answer(r)

MayDecline(x, now) == status[x] = "offered" /\ expires[x] > now

DeclineOffer(r) ==
  LET x == req[r].subject
  IN  /\ Acting(r, "decline")
      /\ MayDecline(x, req[r].now)
      /\ PassOn([status EXCEPT ![x] = "declined"], event, req[r].now, 1)
      /\ Answer(r)

\* The forced path for tests: any caller, any time.
ExpireOffer(r) ==
  LET x == req[r].subject
  IN  /\ Acting(r, "expire_offer")
      /\ status[x] = "offered"
      /\ PassOn([status EXCEPT ![x] = "expired"], event, req[r].now, 1)
      /\ Answer(r)

MayWithdraw(x, now) ==
  /\ status[x] \in {"confirmed", "waitlisted"}
  /\ now < event.startAt

\* Variant for the checks: the seat of a withdrawn registration is kept back.
SeatsFreedNone(x) == 0

\* Leaving the waitlist frees no seat.
SeatsFreed(x) == IF status[x] = "confirmed" THEN 1 ELSE 0

Withdraw(r) ==
  LET x == req[r].subject
  IN  /\ Acting(r, "withdraw")
      /\ MayWithdraw(x, req[r].now)
      /\ PassOn([status EXCEPT ![x] = "withdrawn"], event, req[r].now, SeatsFreed(x))
      /\ Answer(r)

Refusable(r) ==
  LET x == req[r].subject
      now == req[r].now
  IN  CASE req[r].op = "register" -> ~MayRegister(x, now)
        [] req[r].op = "join_waitlist" -> ~MayJoin(x, now)
        [] req[r].op = "accept" -> ~MayAccept(x, now)
        [] req[r].op = "decline" -> ~MayDecline(x, now)
        [] req[r].op = "expire_offer" -> status[x] # "offered"
        [] req[r].op = "withdraw" -> ~MayWithdraw(x, now)

\* A DomainError: nothing of this transaction is kept, the sweep's commit stands.
Refuse(r) ==
  /\ req[r].pc = "act"
  /\ Refusable(r)
  /\ Answer(r)
  /\ UNCHANGED rowVars

-----------------------------------------------------------------------------
(***************************************************************************)
(* What the rest of the application does to the events row.  Each of these *)
(* locks the row FOR UPDATE.  What makes an event ready to be confirmed,   *)
(* safe or affected by a venue closing is not this module's concern.       *)
(***************************************************************************)

OthersUnchanged == UNCHANGED <<rowVars, clock, req>>

\* confirm: the first confirmation opens registration until the event starts.
Confirm ==
  /\ event.status = "planning"
  /\ event' = [event EXCEPT !.status = "confirmed"]
  /\ window' = IF window.enabled THEN window
               ELSE [enabled |-> TRUE, opensAt |-> clock, closesAt |-> event.startAt]
  /\ OthersUnchanged

StartPreparation ==
  /\ event.status = "confirmed"
  /\ event' = [event EXCEPT !.status = "preparation"]
  /\ UNCHANGED window
  /\ OthersUnchanged

Complete ==
  /\ event.status = "preparation"
  /\ event.startAt + EventLength <= clock
  /\ event' = [event EXCEPT !.status = "completed"]
  /\ UNCHANGED window
  /\ OthersUnchanged

\* A venue block that hits one of the event's bookings.
BackToPlanning ==
  /\ event.status \in {"confirmed", "preparation"}
  /\ event' = [event EXCEPT !.status = "planning"]
  /\ UNCHANGED window
  /\ OthersUnchanged

CancelEvent ==
  /\ event.status \in {"planning", "confirmed", "preparation"}
  /\ clock < event.startAt
  /\ event' = [event EXCEPT !.status = "cancelled"]
  /\ UNCHANGED window
  /\ OthersUnchanged

(* An approved change of capacity or start: nothing compares the capacity  *)
(* with the seats held, nor moves registration_closes_at with the start.   *)
ApproveChange(c, s) ==
  /\ event.status \in {"planning", "confirmed"}
  /\ <<c, s>> # <<event.capacity, event.startAt>>
  /\ event' = [status |-> "planning", capacity |-> c, startAt |-> s]
  /\ UNCHANGED window
  /\ OthersUnchanged

Tick ==
  /\ clock < MaxTime
  /\ \A r \in Requests : req[r].pc # "idle" => clock < req[r].now + MaxAge
  /\ clock' = clock + 1
  /\ UNCHANGED <<eventVars, rowVars, req>>

-----------------------------------------------------------------------------
Init ==
  /\ event \in [status : {"planning"}, capacity : Capacities, startAt : Starts]
  /\ window = [enabled |-> FALSE, opensAt |-> Never, closesAt |-> Never]
  /\ status = [r \in Rows |-> "none"]
  /\ owner = [r \in Rows |-> Nobody]
  /\ joined = [r \in Rows |-> Never]
  /\ expires = [r \in Rows |-> Never]
  /\ clock = 0
  /\ req = [r \in Requests |-> Idle]

RequestStep(r) ==
  \/ \E op \in Operations, x \in Attendees \cup Rows \cup {Nobody} : Arrive(r, op, x)
  \/ Sweep(r)
  \/ Register(r)
  \/ JoinWaitlist(r)
  \/ AcceptOffer(r)
  \/ DeclineOffer(r)
  \/ ExpireOffer(r)
  \/ Withdraw(r)
  \/ Refuse(r)

EventStep ==
  \/ Confirm
  \/ StartPreparation
  \/ Complete
  \/ BackToPlanning
  \/ CancelEvent
  \/ \E c \in Capacities, s \in Starts : ApproveChange(c, s)

Next == (\E r \in Requests : RequestStep(r)) \/ EventStep \/ Tick

Spec == Init /\ [][Next]_vars

(* A request that has begun its sweep is run to the sweep's commit.        *)
Fairness == \A r \in Requests : WF_vars(Sweep(r))
FairSpec == Spec /\ Fairness

-----------------------------------------------------------------------------
(***************************************************************************)
(* Properties.                                                             *)
(***************************************************************************)

(* Every row in use belongs to an attendee, every time is one the server   *)
(* could have read, and a request in flight is about what its operation    *)
(* takes.                                                                  *)
TypeOK ==
  /\ event \in EventRow /\ event.capacity \in Capacities /\ event.startAt \in Starts
  /\ window \in [enabled : BOOLEAN, opensAt : Nat, closesAt : Nat]
  /\ status \in [Rows -> RowStatuses]
  /\ owner \in [Rows -> Attendees \cup {Nobody}]
  /\ \A x \in Rows : status[x] # "none" => owner[x] \in Attendees
  /\ joined \in [Rows -> Nat]
  /\ expires \in [Rows -> Nat]
  /\ clock \in Nat
  /\ req \in [Requests -> Request]
  /\ \A r \in Requests :
       req[r].pc # "idle" =>
         /\ req[r].op \in Newcomers => req[r].subject \in Attendees
         /\ req[r].op \in Holders => req[r].subject \in Rows

(* Whatever meets whatever, the event is never overbooked: confirmed       *)
(* registrations and offers, lapsed ones not yet swept included, never     *)
(* outnumber the largest capacity the event has been given.  Register's    *)
(* count leaves lapsed offers out, so this rests on the sweep before it.   *)
SeatsWithinCapacity == \E c \in Capacities : Cardinality(Held(status)) <= c

(* Between a request's sweep and its operation nothing lapses for it:      *)
(* whatever others commit in between, no offer it will count, refuse or    *)
(* accept has expired by its own reading of the clock.                     *)
NothingLapsesUnderWay ==
  \A r \in Requests :
    req[r].pc = "act" /\ req[r].op # "expire_offer" => LapsedOffers(req[r].now) = {}

(* No seat stays free while somebody waits, up to the start of the event:  *)
(* whoever gives a seat up hands it on in the same commit.  (For an event  *)
(* whose capacity and start are not changed under it.)                     *)
NoIdleSeat ==
  event.status # "cancelled" /\ clock < event.startAt /\ Waiting(status) # {}
    => Cardinality(Held(status)) >= event.capacity

(* A newcomer never takes a seat over the heads of people in line: a       *)
(* lapsed offer's seat "goes to the waitlist first, not to this newcomer". *)
NoQueueJumping ==
  [][clock < event.startAt =>
       \A x \in Rows : status[x] = "none" /\ status'[x] = "confirmed"
                         => Waiting(status) = {}]_vars

(* Offers are made in the order people joined, ids breaking ties, however  *)
(* many seats one transaction hands on.                                    *)
OffersInOrder ==
  [][\A x, y \in Rows :
       /\ status[x] = "waitlisted" /\ status'[x] = "offered"
       /\ status[y] = "waitlisted" /\ status'[y] = "waitlisted"
       => joined[x] < joined[y] \/ (joined[x] = joined[y] /\ x < y)]_vars

(* An offer is good for its whole window: before expires it ends as        *)
(* "expired" only by the forced path, never by another request's sweep,    *)
(* however its clock reading and its lock wait fall.                       *)
UnexpiredOfferHolds ==
  [][\A x \in Rows :
       status[x] = "offered" /\ status'[x] = "expired" /\ clock < expires[x]
         => \E r \in Requests : Acting(r, "expire_offer") /\ req[r].subject = x]_vars

(* A cancelled event confirms nobody, though offers made before the        *)
(* cancellation and registrations already past their sweep are in flight.  *)
NoSeatOnCancelledEvent ==
  [][event.status = "cancelled" =>
       \A x \in Rows : status'[x] = "confirmed" => status[x] = "confirmed"]_vars

(* "A cancelled event's places go to no one" (offer_freed_seat).           *)
NoOfferOnCancelledEvent ==
  [][event.status = "cancelled" =>
       \A x \in Rows : status'[x] = "offered" => status[x] = "offered"]_vars

(* "Once the event is on, the place goes to no one" (expire_lapsed_offers):*)
(* the forced path for tests apart, no offer is made by a request whose    *)
(* clock reads start_at or later.                                          *)
NoOfferOnceStarted ==
  [][(\A r \in Requests : ~Acting(r, "expire_offer")) =>
       \A x \in Rows : status[x] # "offered" /\ status'[x] = "offered"
         => expires'[x] - OfferWindow < event.startAt]_vars

(* One read is enough: an offer that a request has found lapsed ends, with *)
(* no scheduler and whatever the other requests do.                        *)
LapsedOfferEnds ==
  \A r \in Requests, x \in Rows :
    (req[r].pc = "sweep" /\ status[x] = "offered" /\ expires[x] <= req[r].now)
      ~> status[x] # "offered"
=============================================================================
