---------------------------- MODULE VenueBookings ----------------------------
(***************************************************************************)
(* Venue bookings, holds and unavailability periods, as backend/app/venue  *)
(* keeps them under concurrent requests.                                   *)
(*                                                                         *)
(* A request is a transaction at READ COMMITTED: a sequence of statements, *)
(* each of which takes row locks, and a commit.  Between any two steps     *)
(* other requests run.  What the code reads of a row it has locked cannot  *)
(* change before it commits; what it read before it had the lock can, and  *)
(* is kept in the request (seen).  PostgreSQL aborts a request that is     *)
(* part of a deadlock.                                                     *)
(*                                                                         *)
(* Every time asked for lies ahead of the clock, so of the guards on time  *)
(* only a hold's expiry is left.  Also left out: who may do what, a        *)
(* venue's capacity, hours and activation, a booking's preparation, and    *)
(* the schedule of the event.  "planning" stands for approved too and      *)
(* "confirmed" for preparation too, which bookings do not tell apart.      *)
(***************************************************************************)
EXTENDS Integers, Sequences, FiniteSets

CONSTANTS
  Bookings,  \* ids of venue_bookings rows; numbers, because rows are locked by id
  Events,    \* ids of events rows, likewise
  Venues,    \* ids of venues rows, likewise
  Windows,   \* the times asked for: [from, to]
  Buffers,   \* the setup and turnaround a venue may have: [setup, turnaround]
  Periods,   \* the periods that may be recorded: [venue, from, to]
  Requests,  \* requests that may be in flight together
  Offered,   \* the operations they may ask for
  Nothing    \* no booking, no period, no row

Window == [from : Nat, to : Nat]

ASSUME RowsAssumption ==
  /\ Bookings \subseteq Nat /\ Events \subseteq Nat /\ Venues \subseteq Nat
  /\ Bookings \cap Events = {} /\ Bookings \cap Venues = {} /\ Events \cap Venues = {}
ASSUME WindowsAssumption ==
  /\ Windows \subseteq Window
  /\ Buffers \subseteq [setup : Nat, turnaround : Nat]
  /\ \A w \in Windows : w.from < w.to /\ \A u \in Buffers : u.setup <= w.from
  /\ Periods \subseteq [venue : Venues, from : Nat, to : Nat]
ASSUME NothingAssumption == Nothing \notin Bookings /\ Nothing \notin Periods

VARIABLES
  status,       \* of each booking, "none" before it is inserted
  asked,        \* its event, venue, starts_at and ends_at, replaces_booking_id
  occupied,     \* its occupied_starts_at and occupied_ends_at
  primary,      \* its is_primary
  mark,         \* its rearrangement_block_id
  restore,      \* whether its restore_requested_at is set
  expiry,       \* whether it has a hold_expires_at, and if that has passed
  eventStatus,  \* of each event
  buffers,      \* each venue's setup_minutes and turnaround_minutes
  period,       \* whether each period is recorded, and if it was ended early
  req           \* the transaction of each request

bookingVars == <<status, asked, occupied, primary, mark, restore, expiry>>
otherVars == <<eventStatus, buffers, period>>
vars == <<status, asked, occupied, primary, mark, restore, expiry,
          eventStatus, buffers, period, req>>

Rows == Bookings \cup Events \cup Venues

Live == {"requested", "approved"}           \* LIVE_BOOKING_STATUSES
Holding == Live \cup {"held"}               \* BLOCKING_STATUSES
Lapsing == {"held", "requested"}            \* LAPSING_STATUSES
Closed == {"rejected", "withdrawn", "expired", "replaced"}

-----------------------------------------------------------------------------
(***************************************************************************)
(* What the services ask of the tables.                                    *)
(***************************************************************************)

Claiming == {b \in Bookings : status[b] \in Holding}
ClaimingAt(v) == {b \in Claiming : asked[b].venue = v}

\* Variant for the checks: a cancelled event gives up what was approved only.
ApprovedFor(e) == {b \in Claiming : asked[b].event = e /\ status[b] = "approved"}

ClaimingFor(e) == {b \in Claiming : asked[b].event = e}
LiveFor(e) == {b \in Bookings : status[b] \in Live /\ asked[b].event = e}

\* Half-open: windows that only touch do not overlap.
Overlap(i, j) == i.from < j.to /\ j.from < i.to

\* Variant for the checks: the buffers taken off the booked time.
WithinWindow(u, w) == [from |-> w.from + u.setup, to |-> w.to - u.turnaround]

\* occupied_window
OccupiedWindow(u, w) == [from |-> w.from - u.setup, to |-> w.to + u.turnaround]

PeriodsOn(v, i) == {p \in Periods : period[p] = "on" /\ p.venue = v /\ Overlap(p, i)}

\* _evaluate: no other booking or hold, and no period, in the window.
Free(v, i, others) ==
  /\ \A b \in ClaimingAt(v) \cap others : ~Overlap(occupied[b], i)
  /\ PeriodsOn(v, i) = {}

\* Variant for the checks: the table has no exclusion constraint.
ApartUnchecked(v, i) == v \in Venues /\ i \in Window

\* venue_bookings_no_overlap
Apart(v, i) == \A b \in ClaimingAt(v) : ~Overlap(occupied[b], i)

\* Variant for the checks: buffers may be edited at any time.
NoneMinds(v) == v \in Venues

\* has_approved_future_bookings, negated
NoneApproved(v) == \A b \in ClaimingAt(v) : status[b] # "approved"

\* block_service.create's query.
Hit(p) == {b \in ClaimingAt(p.venue) : Overlap(occupied[b], p)}

NeedsRearrangement(b) == mark[b] # Nothing /\ status[b] \in Holding

\* _replacements
HasReplacement(b) == \E c \in Bookings : asked[c].replaces = b /\ status[c] \in Live

\* Variant for the checks: only an approved booking counts as the primary venue.
HasApprovedPrimary(e) == \E b \in LiveFor(e) : primary[b] /\ status[b] = "approved"

HasPrimary(e) == \E b \in LiveFor(e) : primary[b]

\* Variant for the checks: a replacement under way is forgotten.
RestorableAnyway(b) == NeedsRearrangement(b) /\ PeriodsOn(asked[b].venue, occupied[b]) = {}

\* _check_restorable
Restorable(b) ==
  /\ NeedsRearrangement(b)
  /\ ~HasReplacement(b)
  /\ PeriodsOn(asked[b].venue, occupied[b]) = {}

\* Variant for the checks: an approved venue is arranged, available or not.
ArrangedOnPaper(e) ==
  /\ LiveFor(e) # {}
  /\ \A b \in LiveFor(e) : status[b] = "approved"
  /\ \E b \in LiveFor(e) : \A c \in LiveFor(e) : primary[c] <=> c = b

\* _arranged, as far as bookings go.
Arranged(e) ==
  /\ LiveFor(e) # {}
  /\ \A b \in LiveFor(e) : status[b] = "approved" /\ mark[b] = Nothing
  /\ \E b \in LiveFor(e) : \A c \in LiveFor(e) : primary[c] <=> c = b

-----------------------------------------------------------------------------
(***************************************************************************)
(* Requests and their row locks.                                           *)
(***************************************************************************)

(* The statements of each operation that lock rows, in the code's order;   *)
(* "write" stands for the insert or update itself where the code first     *)
(* asks whether the event has a primary venue.                             *)
CreateRows == <<"event", "original", "venue shared", "write">>
PlaceHoldRows == <<"event", "venue shared", "write">>
ConfirmHoldRows == <<"event", "booking", "write">>
MakePrimaryRows == <<"event", "booking", "primaries">>
WithdrawRows == <<"booking">>
RejectRows == <<"booking">>
ApproveRows == <<"booking and original", "event shared", "venue">>
RequestRestoreRows == <<"booking">>
DeclineRestoreRows == <<"booking">>
ConfirmRestoreRows == <<"booking", "venue">>
RecordPeriodRows == <<"hit", "their events", "venue", "hit", "new events">>
EndPeriodRows == <<"marked", "venue", "marked">>
EditBuffersRows == <<"venue", "bookings there">>
CancelEventRows == <<"event's bookings", "event", "event's bookings">>
ConfirmEventRows == <<"event", "event's venues">>
ChangeEventRows == <<"event", "event's venues">>

Plan == [
  create |-> CreateRows, place_hold |-> PlaceHoldRows, confirm_hold |-> ConfirmHoldRows,
  make_primary |-> MakePrimaryRows, withdraw |-> WithdrawRows, reject |-> RejectRows,
  approve |-> ApproveRows, request_restore |-> RequestRestoreRows,
  decline_restore |-> DeclineRestoreRows, confirm_restore |-> ConfirmRestoreRows,
  record_period |-> RecordPeriodRows, end_period |-> EndPeriodRows,
  edit_buffers |-> EditBuffersRows, cancel_event |-> CancelEventRows,
  confirm_event |-> ConfirmEventRows, change_event |-> ChangeEventRows]

Operations == DOMAIN Plan
AboutBooking == {"confirm_hold", "make_primary", "withdraw", "reject", "approve",
                 "request_restore", "decline_restore", "confirm_restore"}
AboutPeriod == {"record_period", "end_period"}
AboutEvent == {"cancel_event", "confirm_event", "change_event"}

ASSUME OfferedAssumption == Offered \subseteq Operations

(* These do not expire lapsed holds first.                                 *)
Unswept == AboutEvent \cup {"edit_buffers", "end_period"}

Asked == [event : Events \cup {Nothing}, venue : Venues \cup {Nothing},
          at : Windows \cup {Nothing}, replaces : Bookings \cup {Nothing}]
Blank == [event |-> Nothing, venue |-> Nothing, at |-> Nothing, replaces |-> Nothing]

(* A transaction: its operation, what it is about, the statement it is at, *)
(* the rows that statement has still to lock, the rows locked FOR UPDATE   *)
(* and FOR SHARE, and what it read of rows before it locked them.          *)
NotSeen == [status |-> "none", primary |-> FALSE, event |-> "planning"]
Fresh(op, b, a, p, u, s) ==
  [op |-> op, booking |-> b, asked |-> a, period |-> p, buffers |-> u,
   step |-> 0, todo |-> {}, has |-> {}, shares |-> {}, seen |-> s]
Idle == Fresh("none", Nothing, Blank, Nothing, Nothing, NotSeen)

Statement(q) == Plan[q.op][q.step]
Shared(q) == Statement(q) \in {"event shared", "venue shared"}

(* The rows a statement's query finds.                                     *)
Found(q, s) ==
  CASE s = "booking" -> {q.booking}
    [] s = "booking and original" -> {q.booking, q.asked.replaces} \ {Nothing}
    [] s = "original" -> {q.asked.replaces} \ {Nothing}
    [] s \in {"event", "event shared"} -> {q.asked.event}
    [] s \in {"venue", "venue shared"} -> {q.asked.venue}
    [] s = "primaries" -> IF q.seen.primary THEN {}
                          ELSE {b \in LiveFor(q.asked.event) : primary[b]} \ {q.booking}
    [] s = "hit" -> Hit(q.period)
    [] s = "their events" -> {asked[b].event : b \in Hit(q.period) \cap q.has}
    [] s = "new events" -> {asked[b].event : b \in {c \in Hit(q.period) : mark[c] = Nothing}}
    [] s = "marked" -> {b \in Claiming : mark[b] = q.period}
    [] s = "bookings there" -> ClaimingAt(q.asked.venue)
    [] s = "event's bookings" -> ClaimingFor(q.asked.event)
    [] s = "event's venues" -> LiveFor(q.asked.event)
    [] s = "write" -> {}

\* Statements without ORDER BY id lock their rows in any order.
NextRows(q) ==
  IF Statement(q) \in {"bookings there", "event's venues", "primaries"} THEN q.todo
  ELSE {x \in q.todo : \A y \in q.todo : x <= y}

\* Variant for the checks: a new request only reads its venue.
BlocksUnshared(p, r, x) == p # r /\ x \in req[p].has

Blocks(p, r, x) ==
  /\ p # r
  /\ x \in req[p].has \/ (x \in req[p].shares /\ ~Shared(req[r]))

(* Request r waits for request p.                                          *)
WaitsFor(r, p) == req[r].todo # {} /\ \A x \in NextRows(req[r]) : Blocks(p, r, x)

Deadlocked(r) ==
  \E S \in SUBSET Requests : r \in S /\ \A p \in S : \E q \in S : WaitsFor(p, q)

-----------------------------------------------------------------------------
(***************************************************************************)
(* What each operation insists on after each of its statements.            *)
(***************************************************************************)

AskedWindow(q) == OccupiedWindow(buffers[q.asked.venue], q.asked.at)

\* _replaceable
Replaceable(b, e) ==
  /\ asked[b].event = e
  /\ NeedsRearrangement(b)
  /\ ~HasReplacement(b)

\* Each booking that an edit of a venue's buffers re-measures.
Remeasured(v) == {b \in ClaimingAt(v) : status[b] \in Lapsing}

Measure(b, u) == IF b \in Remeasured(asked[b].venue) THEN OccupiedWindow(u, asked[b].at)
                 ELSE occupied[b]

Clash(v, u) ==
  \E c \in Remeasured(v) : \E d \in ClaimingAt(v) \ {c} : Overlap(Measure(c, u), Measure(d, u))

\* Variant for the checks: a decision may follow a withdrawal.
NotHeld(b) == status[b] # "held"

\* _lock_pending
Pending(b) == status[b] = "requested"

EventPlanning(q) == eventStatus[q.asked.event] = "planning"

MayCreate(q) ==
  /\ q.step = 1 => EventPlanning(q)
  /\ q.step = 2 /\ q.asked.replaces # Nothing => Replaceable(q.asked.replaces, q.asked.event)
  /\ q.step = 3 => Free(q.asked.venue, AskedWindow(q), Bookings)
  /\ q.step = 4 => Apart(q.asked.venue, AskedWindow(q))

MayPlaceHold(q) ==
  /\ q.step = 1 => EventPlanning(q)
  /\ q.step = 2 => Free(q.asked.venue, AskedWindow(q), Bookings)
  /\ q.step = 3 => Apart(q.asked.venue, AskedWindow(q))

MayConfirmHold(q) ==
  q.step = 2 => status[q.booking] = "held" /\ mark[q.booking] = Nothing /\ EventPlanning(q)

\* By the row as it was loaded before the event was locked.
MayMakePrimary(q) == q.step = 2 => q.seen.status \in Live

MayWithdraw(q) == status[q.booking] \in Holding
MayReject(q) == Pending(q.booking)

\* By the event's status as it was read before the event was locked.
MayApprove(q) ==
  /\ q.step = 1 => Pending(q.booking)
  /\ q.step = 3 => /\ q.seen.event = "planning"
                   /\ Free(q.asked.venue, occupied[q.booking], Bookings \ {q.booking})

MayRequestRestore(q) == Restorable(q.booking) /\ ~restore[q.booking]
MayDeclineRestore(q) == NeedsRearrangement(q.booking) /\ restore[q.booking]
MayConfirmRestore(q) ==
  /\ q.step = 1 => NeedsRearrangement(q.booking) /\ restore[q.booking]
  /\ q.step = 2 => Restorable(q.booking)

MayEndPeriod(q) == q.step = 2 => period[q.period] = "on"

MayEditBuffers(q) ==
  /\ q.step = 1 => NoneApproved(q.asked.venue) /\ q.buffers # buffers[q.asked.venue]
  /\ q.step = 2 => ~Clash(q.asked.venue, q.buffers)

MayCancelEvent(q) == q.step = 2 => eventStatus[q.asked.event] \in {"planning", "confirmed"}

MayConfirmEvent(q) ==
  /\ q.step = 1 => EventPlanning(q)
  /\ q.step = 2 => Arranged(q.asked.event)

MayChangeEvent(q) == q.step = 1 => eventStatus[q.asked.event] = "confirmed"

Passes(q) ==
  CASE q.op = "create" -> MayCreate(q)
    [] q.op = "place_hold" -> MayPlaceHold(q)
    [] q.op = "confirm_hold" -> MayConfirmHold(q)
    [] q.op = "make_primary" -> MayMakePrimary(q)
    [] q.op = "withdraw" -> MayWithdraw(q)
    [] q.op = "reject" -> MayReject(q)
    [] q.op = "approve" -> MayApprove(q)
    [] q.op = "request_restore" -> MayRequestRestore(q)
    [] q.op = "decline_restore" -> MayDeclineRestore(q)
    [] q.op = "confirm_restore" -> MayConfirmRestore(q)
    [] q.op = "record_period" -> TRUE
    [] q.op = "end_period" -> MayEndPeriod(q)
    [] q.op = "edit_buffers" -> MayEditBuffers(q)
    [] q.op = "cancel_event" -> MayCancelEvent(q)
    [] q.op = "confirm_event" -> MayConfirmEvent(q)
    [] q.op = "change_event" -> MayChangeEvent(q)

-----------------------------------------------------------------------------
(***************************************************************************)
(* A request: it arrives, locks rows, goes on, and commits or is refused.  *)
(***************************************************************************)

NothingDue == \A b \in Bookings : ~(status[b] \in Lapsing /\ expiry[b] = "past")

\* Rows and periods that a request under way is about to insert.
Promised == {req[r].booking : r \in {p \in Requests : req[p].op \in {"create", "place_hold"}}}
Recording == {req[r].period : r \in {p \in Requests : req[p].op = "record_period"}}

(* What may be asked for: a new booking or hold, or something about a      *)
(* booking, a period, a venue's buffers or an event there is.              *)
Payloads(op) == [event : Events, venue : Venues, at : Windows,
                 replaces : {Nothing} \cup {c \in Bookings : op = "create" /\ mark[c] # Nothing}]
NewBookings(op) ==
  {Fresh(op, b, a, Nothing, Nothing, NotSeen) :
     b \in {c \in Bookings \ Promised : status[c] = "none"}, a \in Payloads(op)}

AsLoaded(op, b) == IF op # "make_primary" THEN NotSeen
                   ELSE [status |-> status[b], primary |-> primary[b], event |-> "planning"]

OfBookings(op) ==
  {Fresh(op, b, asked[b], Nothing, Nothing, AsLoaded(op, b)) :
     b \in {c \in Bookings : status[c] # "none"}}

AtVenue(v) == [event |-> Nothing, venue |-> v, at |-> Nothing, replaces |-> Nothing]
ForEvent(e) == [event |-> e, venue |-> Nothing, at |-> Nothing, replaces |-> Nothing]

OfPeriods(op) ==
  {Fresh(op, Nothing, AtVenue(p.venue), p, Nothing, NotSeen) :
     p \in {x \in Periods : IF op = "record_period" THEN period[x] = "off" /\ x \notin Recording
                            ELSE period[x] # "off"}}

OfVenues == {Fresh("edit_buffers", Nothing, AtVenue(v), Nothing, u, NotSeen) : v \in Venues, u \in Buffers}

OfEvents(op) == {Fresh(op, Nothing, ForEvent(e), Nothing, Nothing, NotSeen) : e \in Events}

Asking(op) ==
  CASE op \in {"create", "place_hold"} -> NewBookings(op)
    [] op \in AboutBooking -> OfBookings(op)
    [] op \in AboutPeriod -> OfPeriods(op)
    [] op \in AboutEvent -> OfEvents(op)
    [] op = "edit_buffers" -> OfVenues

At(q, s) == [q EXCEPT !.step = s, !.todo = Found(q, Plan[q.op][s]) \ q.has]

(* A request arrives, having first expired the holds then due.             *)
Begin(r, op) ==
  /\ req[r] = Idle
  /\ op \in Unswept \/ NothingDue
  /\ \E q \in Asking(op) : req' = [req EXCEPT ![r] = At(q, 1)]
  /\ UNCHANGED <<bookingVars, otherVars>>

(* It locks a row of its statement that nobody keeps from it.              *)
Lock(r) ==
  /\ req[r].todo # {}
  /\ \E x \in NextRows(req[r]) :
       /\ \A p \in Requests : ~Blocks(p, r, x)
       /\ req' = [req EXCEPT ![r].todo = @ \ {x},
                             ![r].has = IF Shared(req[r]) THEN @ ELSE @ \cup {x},
                             ![r].shares = IF Shared(req[r]) THEN @ \cup {x} ELSE @]
  /\ UNCHANGED <<bookingVars, otherVars>>

Locked(r) == req[r].op # "none" /\ req[r].todo = {}
Last(q) == q.step = Len(Plan[q.op])

(* What a request keeps of rows it has read and not locked: the event, as  *)
(* approve found it under the booking's lock and before its own; whether   *)
(* the event has a primary venue, before the write.                        *)
Reading(q) ==
  CASE q.op = "approve" /\ q.step = 1 -> [q.seen EXCEPT !.event = eventStatus[q.asked.event]]
    [] q.op \in {"create", "confirm_hold"} /\ q.step = Len(Plan[q.op]) - 1 ->
         [q.seen EXCEPT !.primary = HasPrimary(q.asked.event)]
    [] OTHER -> q.seen

Proceed(r) ==
  /\ Locked(r) /\ ~Last(req[r]) /\ Passes(req[r])
  /\ req' = [req EXCEPT ![r] = At([@ EXCEPT !.seen = Reading(req[r])], @.step + 1)]
  /\ UNCHANGED <<bookingVars, otherVars>>

End(r) == req' = [req EXCEPT ![r] = Idle]

\* Variant for the checks: a request that is refused tries again for ever.
RetryForEver(r) ==
  /\ Locked(r) /\ ~Passes(req[r])
  /\ req' = [req EXCEPT ![r] = At([@ EXCEPT !.has = {}, !.shares = {}], 1)]
  /\ UNCHANGED <<bookingVars, otherVars>>

Refuse(r) ==
  /\ Locked(r) /\ ~Passes(req[r])
  /\ End(r)
  /\ UNCHANGED <<bookingVars, otherVars>>

(* PostgreSQL breaks a deadlock.  A create that lost is run once more,     *)
(* which is one more request.                                              *)
Abort(r) ==
  /\ Deadlocked(r)
  /\ End(r)
  /\ UNCHANGED <<bookingVars, otherVars>>

Ready(r, op) == req[r].op = op /\ Locked(r) /\ Last(req[r]) /\ Passes(req[r])

-----------------------------------------------------------------------------
(***************************************************************************)
(* What each operation writes and commits.                                 *)
(***************************************************************************)

Create(r) ==
  LET q == req[r] b == q.booking
  IN /\ Ready(r, "create") /\ End(r)
     /\ status' = [status EXCEPT ![b] = "requested"]
     /\ asked' = [asked EXCEPT ![b] = q.asked]
     /\ occupied' = [occupied EXCEPT ![b] = AskedWindow(q)]
     /\ primary' = [primary EXCEPT ![b] = ~q.seen.primary]
     /\ UNCHANGED <<mark, restore, expiry, otherVars>>

PlaceHold(r) ==
  LET q == req[r] b == q.booking
  IN /\ Ready(r, "place_hold") /\ End(r)
     /\ status' = [status EXCEPT ![b] = "held"]
     /\ asked' = [asked EXCEPT ![b] = q.asked]
     /\ occupied' = [occupied EXCEPT ![b] = AskedWindow(q)]
     /\ expiry' = [expiry EXCEPT ![b] = "ahead"]
     /\ UNCHANGED <<primary, mark, restore, otherVars>>

ConfirmHold(r) ==
  LET b == req[r].booking
  IN /\ Ready(r, "confirm_hold") /\ End(r)
     /\ status' = [status EXCEPT ![b] = "requested"]
     /\ primary' = [primary EXCEPT ![b] = ~req[r].seen.primary]
     /\ UNCHANGED <<asked, occupied, mark, restore, expiry, otherVars>>

(* By the row as it was first loaded.                                      *)
MakePrimary(r) ==
  LET b == req[r].booking
  IN /\ Ready(r, "make_primary") /\ End(r)
     /\ primary' = IF req[r].seen.primary THEN primary
                   ELSE [c \in Bookings |->
                           c = b \/ (primary[c] /\ c \notin LiveFor(asked[b].event))]
     /\ UNCHANGED <<status, asked, occupied, mark, restore, expiry, otherVars>>

\* Variant for the checks: the restore request stays.
CloseOnly(closing, as) ==
  /\ status' = [b \in Bookings |-> IF b \in closing THEN as ELSE status[b]]
  /\ restore' = restore

(* A booking given up: its restore request goes with it.                   *)
Close(closing, as) ==
  /\ status' = [b \in Bookings |-> IF b \in closing THEN as ELSE status[b]]
  /\ restore' = [b \in Bookings |-> restore[b] /\ b \notin closing]

Withdraw(r) ==
  /\ Ready(r, "withdraw") /\ End(r)
  /\ Close({req[r].booking}, "withdrawn")
  /\ UNCHANGED <<asked, occupied, primary, mark, expiry, otherVars>>

Reject(r) ==
  /\ Ready(r, "reject") /\ End(r)
  /\ Close({req[r].booking}, "rejected")
  /\ UNCHANGED <<asked, occupied, primary, mark, expiry, otherVars>>

(* A replacement takes the place of the booking it replaces, if that still *)
(* needs one, and its being the primary venue.                             *)
Approve(r) ==
  LET b == req[r].booking
      replaced == {o \in {req[r].asked.replaces} \cap Bookings : NeedsRearrangement(o)}
  IN /\ Ready(r, "approve") /\ End(r)
     /\ status' = [c \in Bookings |-> IF c = b THEN "approved"
                                      ELSE IF c \in replaced THEN "replaced" ELSE status[c]]
     /\ restore' = [c \in Bookings |-> restore[c] /\ c \notin replaced]
     /\ primary' = [primary EXCEPT ![b] = @ \/ \E o \in replaced : primary[o]]
     /\ UNCHANGED <<asked, occupied, mark, expiry, otherVars>>

RequestRestore(r) ==
  /\ Ready(r, "request_restore") /\ End(r)
  /\ restore' = [restore EXCEPT ![req[r].booking] = TRUE]
  /\ UNCHANGED <<status, asked, occupied, primary, mark, expiry, otherVars>>

DeclineRestore(r) ==
  /\ Ready(r, "decline_restore") /\ End(r)
  /\ restore' = [restore EXCEPT ![req[r].booking] = FALSE]
  /\ UNCHANGED <<status, asked, occupied, primary, mark, expiry, otherVars>>

ConfirmRestore(r) ==
  /\ Ready(r, "confirm_restore") /\ End(r)
  /\ restore' = [restore EXCEPT ![req[r].booking] = FALSE]
  /\ mark' = [mark EXCEPT ![req[r].booking] = Nothing]
  /\ UNCHANGED <<status, asked, occupied, primary, expiry, otherVars>>

(* What the period reaches and no earlier period has marked is marked, and *)
(* its confirmed events go back to planning.                               *)
RecordPeriod(r) ==
  LET p == req[r].period
      affected == {b \in Hit(p) : mark[b] = Nothing}
      reopened == {e \in Events : eventStatus[e] = "confirmed" /\ \E b \in affected : asked[b].event = e}
  IN /\ Ready(r, "record_period") /\ End(r)
     /\ period' = [period EXCEPT ![p] = "on"]
     /\ mark' = [b \in Bookings |-> IF b \in affected THEN p ELSE mark[b]]
     /\ eventStatus' = [e \in Events |-> IF e \in reopened THEN "planning" ELSE eventStatus[e]]
     /\ UNCHANGED <<status, asked, occupied, primary, restore, expiry, buffers>>

(* What it marked and another period still reaches is marked by that one,  *)
(* the one that starts first; the rest stays marked.                       *)
EndPeriod(r) ==
  LET p == req[r].period
      Others(b) == PeriodsOn(p.venue, occupied[b]) \ {p}
  IN /\ Ready(r, "end_period") /\ End(r)
     /\ period' = [period EXCEPT ![p] = "ended"]
     /\ \E next \in [Bookings -> Periods \cup {Nothing}] :
          /\ mark' = next
          /\ \A b \in Bookings :
               IF b \in Claiming /\ mark[b] = p /\ Others(b) # {}
               THEN next[b] \in {x \in Others(b) : \A y \in Others(b) : x.from <= y.from}
               ELSE next[b] = mark[b]
     /\ UNCHANGED <<status, asked, occupied, primary, restore, expiry, eventStatus, buffers>>

EditBuffers(r) ==
  LET q == req[r] v == q.asked.venue
  IN /\ Ready(r, "edit_buffers") /\ End(r)
     /\ buffers' = [buffers EXCEPT ![v] = q.buffers]
     /\ occupied' = [b \in Bookings |-> IF b \in Remeasured(v) THEN Measure(b, q.buffers) ELSE occupied[b]]
     /\ UNCHANGED <<status, asked, primary, mark, restore, expiry, eventStatus, period>>

SetEvent(r, s) == eventStatus' = [eventStatus EXCEPT ![req[r].asked.event] = s]

CancelEvent(r) ==
  /\ Ready(r, "cancel_event") /\ End(r)
  /\ SetEvent(r, "cancelled")
  /\ Close(ClaimingFor(req[r].asked.event), "withdrawn")
  /\ UNCHANGED <<asked, occupied, primary, mark, expiry, buffers, period>>

ConfirmEvent(r) ==
  /\ Ready(r, "confirm_event") /\ End(r)
  /\ SetEvent(r, "confirmed")
  /\ UNCHANGED <<bookingVars, buffers, period>>

(* An approved significant change.                                         *)
ChangeEvent(r) ==
  /\ Ready(r, "change_event") /\ End(r)
  /\ SetEvent(r, "planning")
  /\ UNCHANGED <<bookingVars, buffers, period>>

(* Time passes for a hold; whoever next looks expires it, under its lock.  *)
HoldDue(b) ==
  /\ expiry[b] = "ahead" /\ status[b] \in Lapsing
  /\ expiry' = [expiry EXCEPT ![b] = "past"]
  /\ UNCHANGED <<status, asked, occupied, primary, mark, restore, otherVars, req>>

LapseHold(b) ==
  /\ expiry[b] = "past" /\ status[b] \in Lapsing
  /\ \A r \in Requests : b \notin req[r].has
  /\ Close({b}, "expired")
  /\ primary' = [primary EXCEPT ![b] = FALSE]
  /\ UNCHANGED <<asked, occupied, mark, expiry, otherVars, req>>

-----------------------------------------------------------------------------
Init ==
  /\ status = [b \in Bookings |-> "none"]
  /\ asked = [b \in Bookings |-> Blank]
  /\ occupied = [b \in Bookings |-> Nothing]
  /\ primary = [b \in Bookings |-> FALSE]
  /\ mark = [b \in Bookings |-> Nothing]
  /\ restore = [b \in Bookings |-> FALSE]
  /\ expiry = [b \in Bookings |-> "none"]
  /\ eventStatus = [e \in Events |-> "planning"]
  /\ buffers \in [Venues -> Buffers]
  /\ period = [p \in Periods |-> "off"]
  /\ req = [r \in Requests |-> Idle]

Commit(r) ==
  \/ Create(r) \/ PlaceHold(r) \/ ConfirmHold(r) \/ MakePrimary(r)
  \/ Withdraw(r) \/ Reject(r) \/ Approve(r)
  \/ RequestRestore(r) \/ DeclineRestore(r) \/ ConfirmRestore(r)
  \/ RecordPeriod(r) \/ EndPeriod(r) \/ EditBuffers(r)
  \/ CancelEvent(r) \/ ConfirmEvent(r) \/ ChangeEvent(r)

GoOn(r) == Proceed(r) \/ Commit(r) \/ Refuse(r) \/ Abort(r)

Next ==
  \/ \E r \in Requests : (\E op \in Offered : Begin(r, op)) \/ Lock(r) \/ GoOn(r)
  \/ \E b \in Bookings : HoldDue(b) \/ LapseHold(b)

Spec == Init /\ [][Next]_vars

(* PostgreSQL gives a row to whoever waits for it again and again, and a   *)
(* request that has its locks runs on.                                     *)
Fairness == \A r \in Requests : SF_vars(Lock(r)) /\ WF_vars(GoOn(r))
FairSpec == Spec /\ Fairness

-----------------------------------------------------------------------------
(***************************************************************************)
(* Properties.                                                             *)
(***************************************************************************)

Transaction == [
  op : Operations \cup {"none"}, booking : Bookings \cup {Nothing}, asked : Asked,
  period : Periods \cup {Nothing}, buffers : Buffers \cup {Nothing}, step : 0..5,
  todo : SUBSET Rows, has : SUBSET Rows, shares : SUBSET Rows,
  seen : [status : {"none"} \cup Holding \cup Closed, primary : BOOLEAN,
          event : {"planning", "confirmed", "cancelled"}]]

(* Every variable has its type, and a booking occupies its venue for at    *)
(* least the time asked for (occupied_window).                             *)
TypeOK ==
  /\ status \in [Bookings -> {"none"} \cup Holding \cup Closed]
  /\ asked \in [Bookings -> Asked]
  /\ occupied \in [Bookings -> Window \cup {Nothing}]
  /\ \A b \in Bookings : status[b] # "none" =>
       occupied[b].from <= asked[b].at.from /\ asked[b].at.to <= occupied[b].to
  /\ primary \in [Bookings -> BOOLEAN]
  /\ mark \in [Bookings -> Periods \cup {Nothing}]
  /\ restore \in [Bookings -> BOOLEAN]
  /\ expiry \in [Bookings -> {"none", "ahead", "past"}]
  /\ eventStatus \in [Events -> {"planning", "confirmed", "cancelled"}]
  /\ buffers \in [Venues -> Buffers]
  /\ period \in [Periods -> {"off", "on", "ended"}]
  /\ req \in [Requests -> Transaction]

(* Two bookings or holds never occupy a venue at the same time, however    *)
(* requests, lapsing holds and edits of the venue's buffers interleave     *)
(* (evaluate_window, _recompute_windows and the exclusion constraint).     *)
NoDoubleBooking ==
  \A b, c \in Claiming :
    b # c /\ asked[b].venue = asked[c].venue => ~Overlap(occupied[b], occupied[c])

(* Every booking and hold occupies its venue for the setup and turnaround  *)
(* the venue has now: no request measures by buffers that an edit under    *)
(* way replaces, none is approved past it (D31, VENUE_BUFFERS_LOCKED).     *)
WindowsCurrent ==
  \A b \in Claiming : occupied[b] = OccupiedWindow(buffers[asked[b].venue], asked[b].at)

(* A booking or hold that no period has marked occupies its venue in none  *)
(* of the venue's periods: neither a request in flight while the period is *)
(* recorded nor a restore while one is gets past it, as long as nobody     *)
(* edits the venue's buffers (block_service.create, confirm_restore).      *)
PeriodsMark ==
  \A b \in Claiming : mark[b] = Nothing => PeriodsOn(asked[b].venue, occupied[b]) = {}

(* An event never has two primary venues, although a create, a confirmed   *)
(* hold, an approved replacement and make_primary all make one: the unique *)
(* index venue_bookings_one_primary_per_event never has to refuse one.     *)
OnePrimary ==
  \A b, c \in Bookings :
    status[b] \in Live /\ status[c] \in Live /\ primary[b] /\ primary[c]
      /\ asked[b].event = asked[c].event => b = c

(* A booking has one live replacement at most, and none once Venue staff   *)
(* restored it: an event never keeps a venue and its replacement           *)
(* (_replaceable, _check_restorable).                                      *)
NoTwinVenues ==
  \A b \in Bookings : status[b] # "none" /\ asked[b].replaces # Nothing /\ status[b] \in Live =>
    LET o == asked[b].replaces
    IN /\ status[o] \in Holding => mark[o] # Nothing
       /\ \A c \in Bookings : asked[c].replaces = o /\ status[c] \in Live => c = b

(* The rows stay within the table's CHECK constraints, which the code      *)
(* relies on never to fire: no held booking is primary, a restore request  *)
(* belongs to a marked booking or hold, what was replaced was marked       *)
(* (venue_bookings_hold_not_primary, _restore_consistent,                  *)
(* _replaced_consistent).                                                  *)
RowsConsistent ==
  \A b \in Bookings :
    /\ status[b] = "held" => ~primary[b]
    /\ restore[b] => mark[b] # Nothing /\ status[b] \in Holding
    /\ status[b] = "replaced" => mark[b] # Nothing

(* As long as an event is confirmed each of its venues is approved and     *)
(* available: nothing can be added to it, and a period that reaches one    *)
(* puts it back in planning (confirm, _back_to_planning).                  *)
ConfirmedVenuesStand ==
  \A b \in Bookings :
    status[b] \in Live /\ eventStatus[asked[b].event] = "confirmed" =>
      status[b] = "approved" /\ mark[b] = Nothing

(* Venue staff approve a booking only while its event is being arranged,   *)
(* although approve judges the event by a status read before it locked it: *)
(* whoever confirms or cancels an event takes its bookings too.            *)
ApprovedWhileBookable ==
  [][\A b \in Bookings : status[b] # "approved" /\ status'[b] = "approved" =>
       eventStatus[asked[b].event] = "planning"]_vars

(* "Only a live booking can be the primary venue" (make_primary).          *)
PrimaryIsLive ==
  [][\A b \in Bookings : ~primary[b] /\ primary'[b] => status'[b] \in Live]_vars

(* Requests that take rows in one fixed order wait for each other and      *)
(* never for ever.                                                         *)
NoDeadlock == \A r \in Requests : ~Deadlocked(r)

(* Every request is answered: it commits, is refused, or is aborted.       *)
EveryRequestEnds == \A r \in Requests : req[r].op # "none" ~> req[r].op = "none"
=============================================================================
