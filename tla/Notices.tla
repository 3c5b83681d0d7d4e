------------------------------ MODULE Notices -------------------------------
(***************************************************************************)
(* Who is told of what happens to an event.  Every service gathers some of *)
(* the people it tells in its transaction and looks the others up after    *)
(* its commit, tells them one after another through the notifier of        *)
(* backend/app/notification, and carries on when it cannot: a notice is    *)
(* recorded in a transaction of its own, at best once, and lost with the   *)
(* worker that was to send it.  Meanwhile other requests move the event    *)
(* to another coordinator, take registrations or cancel it.                *)
(*                                                                         *)
(* One event, with at most one venue booking, hold and equipment line.     *)
(* Left out: what a notice says, the dates and checks that only refuse,    *)
(* notices that differ in their wording alone, and the order in which a    *)
(* service goes through the people it looked up.  A user's e-mail address  *)
(* is the user, and nobody is deactivated while the requests run.          *)
(***************************************************************************)
EXTENDS FiniteSets, Integers, SequencesExt

CONSTANTS
  Users,      \* ids of users rows
  RolesOf,    \* each user's roles
  Active,     \* the users whose is_active is true
  Organiser,  \* who created the event
  Requests,   \* HTTP requests
  Offered,    \* the operations each request may be
  Seats,      \* the event's capacity
  MaxMishaps, \* bound: how often a request, a query or a notice fails
  Nobody      \* no coordinator, no argument

Roles == {"coordinator", "coordinator_lead", "venue_staff", "tech_support", "attendee"}

(* What tells somebody something, or decides who is told.                  *)
Operations ==
  {"submit", "assign", "reassign", "request_transfer", "clarify", "decide_request", "confirm",
   "review_safety", "ask_safety_changes", "ask_change", "ask_cancellation", "reject_cancellation",
   "cancel", "approve_change", "reject_change", "request_booking", "approve_booking",
   "approve_replacement", "reject_booking", "withdraw_booking", "ask_restore", "decide_restore",
   "record_period", "end_period", "place_hold", "sweep_hold", "edit_venue", "review_line",
   "assign_staff", "register", "join", "withdraw"}

ASSUME FiniteAssumption == IsFiniteSet(Users)
ASSUME UsersAssumption == RolesOf \in [Users -> SUBSET Roles] /\ Active \subseteq Users
ASSUME OrganiserAssumption == Organiser \in Active
ASSUME OfferedAssumption == \A r \in Requests : Offered[r] \subseteq Operations
ASSUME NobodyAssumption == Nobody \notin Users

VARIABLES
  event,   \* its status, coordinator, approved venue, reservation, staff, attendees and open requests
  op,      \* per request: what it does, for whom, how far it is, the notices to send now and after the commit
  told,    \* per request: the notices recorded, in order
  untold,  \* per request: the notices that could not be recorded
  log      \* the requests that committed, in order

vars == <<event, op, told, untold, log>>

With(role) == {u \in Active : role \in RolesOf[u]}
Coordinators == {u \in Users : "coordinator" \in RolesOf[u]}
Attendees == {u \in Users : "attendee" \in RolesOf[u]}
InLine == {"registered", "waitlisted", "offered"}

(* The notifier's methods, by the kind of notice they record.  What        *)
(* arrangement_flagged says of a booking and of a reservation is told      *)
(* apart, for who works with both hears of both.                           *)
RequestNotices == {"waitlist_offer", "clarification_requested"}
BookingNotices == {"venue_booking_requested", "venue_booking_decided", "venue_booking_withdrawn"}
AssignmentNotices == {"request_queued", "assignment_made", "event_reassigned", "transfer_requested"}
ArrangementNotices == {"equipment_line_reviewed", "request_decided", "tech_staff_assigned", "event_confirmed"}
ReviewNotices == {"safety_review_decided", "safety_changes_requested", "change_requested",
                  "cancellation_requested", "cancellation_rejected", "event_cancelled", "registration_changed"}
ChangeNotices == {"change_request_decided", "booking_flagged", "reservation_flagged", "venue_held"}
VenueNotices == {"venue_unavailable", "venue_restore_requested", "venue_restore_decided", "venue_changed",
                 "venue_period_ended", "venue_booking_needs_review"}
Kinds == RequestNotices \cup BookingNotices \cup AssignmentNotices \cup ArrangementNotices
         \cup ReviewNotices \cup ChangeNotices \cup VenueNotices

Notice(kind, to) == [kind |-> kind, to |-> to]
Notices(kind, S) == [i \in DOMAIN SetToSeq(S) |-> Notice(kind, SetToSeq(S)[i])]
Going == {a \in Attendees : event.going[a] \in InLine}

EachOnce(s) == SetToSeq(ToSet(s))
-----------------------------------------------------------------------------
(* What each service tells, and whom.                                      *)

\* Variants for the checks: without an active coordinator nobody hears, and
\* whatever stands in the column is taken for one.
CoordinatorOnly(kind) == Notices(kind, {event.coordinator} \cap Active)
WhoeverIsNamed(kind) == Notices(kind, {event.coordinator})

CoordinatorOrLeads(kind) ==
  Notices(kind, IF event.coordinator \in Active THEN {event.coordinator} ELSE With("coordinator_lead"))

TheCoordinator(kind) == Notices(kind, {event.coordinator} \cap Active)
BothOnce(kind, asker) == Notices(kind, {asker, event.coordinator} \cap Active)
ForOrganiser(kind) == Notices(kind, {Organiser})
ForLeads(kind) == Notices(kind, With("coordinator_lead"))
VenueStaff(kind) == Notices(kind, With("venue_staff"))

Queued == ForLeads("request_queued")
Appointed(who) == Notices("assignment_made", {who})
Moved(who) == Notices("event_reassigned", {who, event.coordinator})
TransferAsked == ForLeads("transfer_requested")
Clarify == ForOrganiser("clarification_requested")
RequestDecided == ForOrganiser("request_decided")
Confirmed == ForOrganiser("event_confirmed")
SafetyReviewed(kind) == Notices(kind, {event.coordinator})

ChangeAsked == CoordinatorOrLeads("change_requested")
ChangeDecided(asker, approved) ==
  Notices("change_request_decided", {asker} \cap Active)
  \o (IF approved /\ asker # Organiser THEN ForOrganiser("change_request_decided") ELSE <<>>)
Flagged ==
  (IF event.venue THEN VenueStaff("booking_flagged") ELSE <<>>)
  \o (IF event.reserved THEN Notices("reservation_flagged", With("tech_support")) ELSE <<>>)

CancellationAsked == CoordinatorOrLeads("cancellation_requested")
CancellationRejected == ForOrganiser("cancellation_rejected")
Cancelled ==
  EachOnce(ForOrganiser("event_cancelled")
           \o (IF event.venue THEN VenueStaff("event_cancelled") ELSE <<>>)
           \o Notices("event_cancelled", event.staff \cap Active)
           \o Notices("event_cancelled", Going))

BookingAsked(kind) == VenueStaff(kind)
BookingWithdrawn == VenueStaff("venue_booking_withdrawn")
BookingDecided(kind, asker) == BothOnce(kind, asker)
VenueMoved == Notices("venue_changed", Going)
Held == TheCoordinator("venue_held")
Unavailable == TheCoordinator("venue_unavailable") \o ForOrganiser("venue_unavailable")
PeriodEnded == TheCoordinator("venue_period_ended")
NeedsReview ==
  EachOnce(VenueStaff("venue_booking_needs_review") \o TheCoordinator("venue_booking_needs_review"))

LineReviewed(asker) == Notices("equipment_line_reviewed", {asker})
StaffAssigned(who) == Notices("tech_staff_assigned", {who})
SeatChanged(attendee) == Notices("registration_changed", {attendee})

\* Gathered in the transaction, sent after it.
Gathered(kind, who) ==
  CASE kind = "assign" -> Appointed(who)
    [] kind = "reassign" -> Moved(who)
    [] kind = "review_safety" -> SafetyReviewed("safety_review_decided")
    [] kind = "ask_safety_changes" -> SafetyReviewed("safety_changes_requested")
    [] kind = "ask_cancellation" -> CancellationAsked
    [] kind = "cancel" -> Cancelled
    [] kind = "approve_change" -> ChangeDecided(who, TRUE) \o Flagged
    [] kind = "reject_change" -> ChangeDecided(who, FALSE)
    [] kind = "approve_replacement" -> VenueMoved
    [] kind = "record_period" -> Unavailable
    [] kind = "end_period" -> PeriodEnded
    [] kind = "sweep_hold" -> Held
    [] kind = "assign_staff" -> StaffAssigned(who)
    [] kind \in {"register", "withdraw"} -> SeatChanged(who)
    [] OTHER -> <<>>

\* Looked up once it has committed.
LookedUp(kind, who) ==
  CASE kind = "submit" -> Queued
    [] kind = "assign" -> ForOrganiser("assignment_made")
    [] kind = "reassign" -> ForOrganiser("event_reassigned")
    [] kind = "request_transfer" -> TransferAsked
    [] kind = "clarify" -> Clarify
    [] kind = "decide_request" -> RequestDecided
    [] kind = "confirm" -> Confirmed
    [] kind = "ask_change" -> ChangeAsked
    [] kind = "reject_cancellation" -> CancellationRejected
    [] kind = "request_booking" -> BookingAsked("venue_booking_requested")
    [] kind \in {"approve_booking", "approve_replacement", "reject_booking"} ->
         BookingDecided("venue_booking_decided", who)
    [] kind = "withdraw_booking" -> BookingWithdrawn
    [] kind = "ask_restore" -> BookingAsked("venue_restore_requested")
    [] kind = "decide_restore" -> BookingDecided("venue_restore_decided", who)
    [] kind = "place_hold" -> Held
    [] kind = "edit_venue" -> NeedsReview
    [] kind = "review_line" -> LineReviewed(who)
    [] OTHER -> <<>>

(* A place that a withdrawal frees is offered, and the offer told, before  *)
(* the withdrawal commits.                                                 *)
Waiting == {a \in Attendees : event.going[a] = "waitlisted"}
NextInLine == CHOOSE a \in Waiting : TRUE
FreesAPlace(a) == event.going[a] = "registered" /\ Waiting # {} /\ event.status # "cancelled"

\* Variant for the checks: whoever is assigned hears it before the commit.
ToldEarly(kind, who) ==
  CASE kind = "withdraw" -> IF FreesAPlace(who) THEN Notices("waitlist_offer", {NextInLine}) ELSE <<>>
    [] kind = "assign" -> Gathered(kind, who)
    [] OTHER -> <<>>

ToldInside(kind, who) ==
  IF kind = "withdraw" /\ FreesAPlace(who) THEN Notices("waitlist_offer", {NextInLine}) ELSE <<>>

\* One try around the loop over everybody: a notifier that raises ends it.
OneTry == {"venue_booking_requested", "venue_booking_withdrawn", "venue_booking_decided",
           "venue_restore_requested", "venue_restore_decided"}
-----------------------------------------------------------------------------
(* The event, as far as notices depend on it.                              *)

Assigned == {"under_review", "planning", "confirmed"}
Cancellable == {"planning", "confirmed"}
Requestable == {"submitted"} \cup Assigned

Taken == Cardinality({a \in Attendees : event.going[a] \in {"registered", "offered"}})
Asked(kind) == {q \in event.open : op[q].kind = kind}

\* Who an operation may be about: the new coordinator, who asked for what is
\* decided, the staff assigned, the attendee.
About(kind) ==
  CASE kind = "assign" -> (Coordinators \cap Active) \ {Organiser}
    [] kind = "reassign" -> (Coordinators \cap Active) \ {Organiser, event.coordinator}
    [] kind \in {"approve_change", "reject_change"} ->
         (IF event.status \in Cancellable THEN Coordinators ELSE {})
         \cup {op[q].who : q \in Asked("ask_change")}
    [] kind \in {"approve_booking", "approve_replacement", "reject_booking",
                 "decide_restore", "review_line"} -> Coordinators
    [] kind = "assign_staff" -> With("tech_support") \ event.staff
    [] kind \in {"register", "join"} -> {a \in Attendees : event.going[a] = "none"}
    [] kind = "withdraw" -> {a \in Attendees : event.going[a] \in {"registered", "waitlisted"}}
    [] kind \in {"ask_change", "ask_cancellation"} -> {Organiser}
    [] OTHER -> {Nobody}

May(kind) ==
  CASE kind = "submit" -> event.status = "draft"
    [] kind = "assign" -> event.status = "submitted"
    [] kind \in {"reassign", "request_transfer"} -> event.status \in Assigned
    [] kind \in {"clarify", "decide_request"} -> event.status = "under_review"
    [] kind = "confirm" -> event.status = "planning" /\ event.venue
    [] kind \in {"review_safety", "ask_safety_changes"} -> event.status \in Cancellable
    [] kind = "ask_change" -> event.status \in Requestable
    [] kind = "ask_cancellation" -> event.status \in Cancellable /\ Asked("ask_cancellation") = {}
    [] kind = "reject_cancellation" -> Asked("ask_cancellation") # {}
    [] kind = "cancel" -> event.status \in Cancellable
    [] kind \in {"approve_change", "reject_change"} -> event.status \in Assigned
    [] kind \in {"request_booking", "place_hold"} -> event.status = "planning"
    [] kind \in {"approve_booking", "reject_booking"} -> event.status = "planning" /\ ~event.venue
    [] kind = "approve_replacement" -> event.status = "planning" /\ event.venue
    [] kind = "register" -> event.status = "confirmed" /\ Taken < Seats
    [] kind = "join" -> event.status = "confirmed" /\ Taken >= Seats
    [] kind = "withdraw" -> TRUE
    [] kind \in {"assign_staff", "review_line", "sweep_hold"} -> event.status \in Cancellable
    [] OTHER -> event.status \in Cancellable /\ event.venue

\* The request that a decision on one of who's is about.
Decided(who) == IF who = Organiser THEN {{q} : q \in Asked("ask_change")} ELSE {{}}

Withdrawn(a) ==
  [event EXCEPT !.going = [b \in Attendees |-> IF b = a THEN "none"
                           ELSE IF FreesAPlace(a) /\ b = NextInLine THEN "offered" ELSE @[b]]]

\* What becomes of the event.
After(r) ==
  LET kind == op[r].kind
      who == op[r].who
  IN CASE kind = "submit" -> {[event EXCEPT !.status = "submitted"]}
       [] kind = "assign" -> {[event EXCEPT !.status = "under_review", !.coordinator = who]}
       [] kind = "reassign" -> {[event EXCEPT !.coordinator = who]}
       [] kind = "decide_request" -> {[event EXCEPT !.status = s] : s \in {"planning", "rejected"}}
       [] kind = "confirm" -> {[event EXCEPT !.status = "confirmed"]}
       [] kind \in {"ask_change", "ask_cancellation"} -> {[event EXCEPT !.open = @ \cup {r}]}
       [] kind = "reject_cancellation" -> {[event EXCEPT !.open = @ \ Asked("ask_cancellation")]}
       [] kind = "cancel" -> {[event EXCEPT !.status = "cancelled", !.venue = FALSE, !.reserved = FALSE,
                                                    !.open = {}]}
       [] kind = "reject_change" -> {[event EXCEPT !.open = @ \ D] : D \in Decided(who)}
       [] kind = "approve_change" ->
            {[event EXCEPT !.open = @ \ D, !.status = IF @ = "confirmed" THEN "planning" ELSE @] : D \in Decided(who)}
       [] kind = "record_period" -> {[event EXCEPT !.status = "planning"]}
       [] kind = "approve_booking" -> {[event EXCEPT !.venue = TRUE]}
       [] kind = "withdraw_booking" -> {[event EXCEPT !.venue = FALSE]}
       [] kind = "assign_staff" -> {[event EXCEPT !.staff = @ \cup {who}]}
       [] kind = "register" -> {[event EXCEPT !.going[who] = "registered"]}
       [] kind = "join" -> {[event EXCEPT !.going[who] = "waitlisted"]}
       [] kind = "withdraw" -> {Withdrawn(who)}
       [] OTHER -> {event}

\* The event's row is locked FOR UPDATE, FOR SHARE, and a booking of it.
OfEvent == {"submit", "assign", "reassign", "clarify", "decide_request", "confirm", "review_safety",
                   "ask_safety_changes", "ask_cancellation", "reject_cancellation", "cancel",
                   "approve_change", "reject_change", "request_booking", "record_period", "place_hold"}
ForSeats == {"register", "join", "withdraw"}

\* Variant for the checks: places are given out without the event's lock.
SeatsUnlocked == OfEvent

Exclusive == OfEvent \cup ForSeats
Shared == {"ask_change", "approve_booking", "approve_replacement", "review_line", "assign_staff"}
OfBooking == {"confirm", "cancel", "approve_change", "record_period", "end_period", "approve_booking",
              "approve_replacement", "reject_booking", "withdraw_booking", "ask_restore", "decide_restore",
              "sweep_hold"}

Excludes(k, l) ==
  \/ k \in Exclusive /\ l \in Exclusive \cup Shared
  \/ k \in Shared /\ l \in Exclusive
  \/ k \in OfBooking /\ l \in OfBooking
-----------------------------------------------------------------------------
Idle == [kind |-> Nobody, who |-> Nobody, stage |-> "idle", now |-> <<>>, later |-> <<>>]

Mishaps ==
  Cardinality({r \in Requests : op[r].stage \in {"refused", "crashed"}})
  + Cardinality(UNION {{<<r, n>> : n \in untold[r]} : r \in Requests})

(* A request takes its locks, checks and gathers.                          *)
Begin(r, kind) ==
  /\ op[r] = Idle
  /\ kind \in Offered[r]
  /\ May(kind)
  /\ \A q \in Requests : op[q].stage = "open" => ~Excludes(kind, op[q].kind)
  /\ \E who \in About(kind) :
       op' = [op EXCEPT ![r] = [kind |-> kind, who |-> who, stage |-> "open",
                                now |-> ToldInside(kind, who), later |-> Gathered(kind, who)]]
  /\ UNCHANGED <<event, told, untold, log>>

Commit(r) ==
  /\ op[r].stage = "open" /\ op[r].now = <<>>
  /\ event' \in After(r)
  /\ op' = [op EXCEPT ![r].stage = "committed", ![r].now = op[r].later, ![r].later = <<>>]
  /\ log' = Append(log, r)
  /\ UNCHANGED <<told, untold>>

(* A deadlock, a constraint or a lost connection.                          *)
Rollback(r) ==
  /\ Mishaps < MaxMishaps
  /\ op[r].stage = "open" /\ op[r].now = <<>>
  /\ op' = [op EXCEPT ![r].stage = "refused", ![r].later = <<>>]
  /\ UNCHANGED <<event, told, untold, log>>

LookUp(r) ==
  /\ op[r].stage = "committed"
  /\ op' = [op EXCEPT ![r].stage = "telling", ![r].now = @ \o LookedUp(op[r].kind, op[r].who)]
  /\ UNCHANGED <<event, told, untold, log>>

(* The query fails: the people gathered before still hear.                 *)
LookUpFails(r) ==
  /\ Mishaps < MaxMishaps
  /\ op[r].stage = "committed"
  /\ LET missed == LookedUp(op[r].kind, op[r].who)
     IN /\ missed # <<>>
        /\ untold' = [untold EXCEPT ![r] = @ \cup ToSet(missed)]
  /\ op' = [op EXCEPT ![r].stage = "telling"]
  /\ UNCHANGED <<event, told, log>>

Telling(r) == op[r].stage \in {"open", "telling"} /\ op[r].now # <<>>

Tell(r) ==
  /\ Telling(r)
  /\ told' = [told EXCEPT ![r] = Append(@, Head(op[r].now))]
  /\ op' = [op EXCEPT ![r].now = Tail(@)]
  /\ UNCHANGED <<event, untold, log>>

\* What is left to send when the notifier raises: the notices of a loop
\* stand together.
Alike(s) == Cardinality({i \in DOMAIN s : s[i].kind = Head(s).kind})
Rest(s) == IF Head(s).kind \in OneTry THEN SubSeq(s, Alike(s) + 1, Len(s)) ELSE Tail(s)

(* It cannot be recorded, which the notifier swallows, or the notifier     *)
(* raises.                                                                 *)
NotTold(r) ==
  /\ Mishaps < MaxMishaps
  /\ Telling(r)
  /\ \E rest \in {Tail(op[r].now), Rest(op[r].now)} :
       /\ op' = [op EXCEPT ![r].now = rest]
       /\ untold' = [untold EXCEPT ![r] = @ \cup {Head(op[r].now)}]
  /\ UNCHANGED <<event, told, log>>

(* The worker dies: what was open is rolled back, nobody else is told.     *)
Crash(r) ==
  /\ Mishaps < MaxMishaps
  /\ op[r].stage \in {"open", "committed", "telling"}
  /\ op' = [op EXCEPT ![r].stage = "crashed", ![r].now = <<>>, ![r].later = <<>>]
  /\ UNCHANGED <<event, told, untold, log>>

Init ==
  /\ event \in [status : {"draft", "submitted"} \cup Assigned, coordinator : Coordinators \cup {Nobody},
                venue : BOOLEAN, reserved : BOOLEAN, staff : {{}}, open : {{}},
                going : [Attendees -> {"none", "registered", "waitlisted"}]]
  /\ event.status \in Assigned <=> event.coordinator # Nobody
  /\ event.coordinator # Organiser
  /\ event.venue => event.status \in Cancellable
  /\ event.reserved <=> event.status \in Cancellable
  /\ event.status = "confirmed" => event.venue
  /\ event.status # "confirmed" => Going = {}
  /\ Taken <= Seats /\ (Waiting # {} => Taken = Seats)
  /\ op = [r \in Requests |-> Idle]
  /\ told = [r \in Requests |-> <<>>]
  /\ untold = [r \in Requests |-> {}]
  /\ log = <<>>

Next ==
  \E r \in Requests :
    \/ \E kind \in Offered[r] : Begin(r, kind)
    \/ Commit(r) \/ Rollback(r) \/ LookUp(r) \/ LookUpFails(r)
    \/ Tell(r) \/ NotTold(r) \/ Crash(r)

Spec == Init /\ [][Next]_vars
-----------------------------------------------------------------------------
Stages == {"idle", "open", "refused", "committed", "telling", "crashed"}
Over(r) == op[r].stage \in {"idle", "refused", "crashed"} \/ (op[r].stage = "telling" /\ op[r].now = <<>>)

TypeOK ==
  /\ event.status \in {"draft", "rejected", "cancelled"} \cup Requestable
  /\ event.coordinator \in Coordinators \cup {Nobody}
  /\ event.staff \subseteq Users /\ event.open \subseteq Requests
  /\ event.going \in [Attendees -> {"none"} \cup InLine]
  /\ \A r \in Requests :
       /\ op[r].stage \in Stages
       /\ op[r].who \in Users \cup {Nobody}
       /\ ToSet(op[r].now \o op[r].later \o told[r]) \cup untold[r] \subseteq [kind : Kinds, to : Users]
  /\ ToSet(log) \subseteq Requests

\* Request r told u, could not tell u, or died before it could.
Reached(r, kind, u) == Notice(kind, u) \in ToSet(told[r]) \cup untold[r] \/ op[r].stage = "crashed"

Committed(kind) == {r \in ToSet(log) : op[r].kind = kind}

(* Once the cancellation of an event is over, its organiser, the technical *)
(* staff assigned to it and everyone who still has a place or a place in   *)
(* line has been told, or the notice to that very person failed: nobody    *)
(* joined unseen while the recipients were gathered                        *)
(* (CancellationService._recipients, _send).                               *)
CancellationReachesEveryone ==
  \A r \in Committed("cancel") :
    Over(r) =>
      \A u \in {Organiser} \cup (event.staff \cap Active) \cup Going : Reached(r, "event_cancelled", u)

\* Request q came before request r.
Before(q, r) == \E i, j \in DOMAIN log : i < j /\ log[i] = q /\ log[j] = r

AskedKind(q) == IF op[q].kind = "ask_change" THEN "change_requested" ELSE "cancellation_requested"
AppointedAfter(q, u) ==
  \E r \in Requests :
    /\ Before(q, r)
    /\ \/ op[r].kind = "assign" /\ op[r].who = u /\ Reached(r, "assignment_made", u)
       \/ op[r].kind = "reassign" /\ op[r].who = u /\ Reached(r, "event_reassigned", u)

(* While an organiser's request to change or cancel the event is open and  *)
(* nothing is under way, whoever decides it knows: the coordinator was     *)
(* told of it or was told of the event since it was made, and without one  *)
(* every Lead was, however the event changed hands meanwhile               *)
(* (ChangeRequestService._notify, CancellationService._notify_requested).  *)
DecidersKnow ==
  (\A r \in Requests : Over(r)) =>
    \A q \in event.open :
      IF event.coordinator \in Active
      THEN Reached(q, AskedKind(q), event.coordinator) \/ AppointedAfter(q, event.coordinator)
      ELSE \A u \in With("coordinator_lead") : Reached(q, AskedKind(q), u)

(* What people are told has happened, and they are told once: a notice is  *)
(* recorded only for a request that committed, except the offer of a place *)
(* (RecordingNotifier), and no request tells anyone the same thing twice.  *)
NoFalseNotice ==
  \A r \in Requests :
    /\ \A n \in ToSet(told[r]) : n.kind = "waitlist_offer" \/ r \in ToSet(log)
    /\ IsInjective(told[r])
=============================================================================
