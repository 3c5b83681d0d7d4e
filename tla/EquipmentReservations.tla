------------------------ MODULE EquipmentReservations ------------------------
(***************************************************************************)
(* Equipment request lines, reservations of stock and technical staff, as  *)
(* backend/app/equipment keeps them under concurrent requests, and what    *)
(* confirming, cancelling and re-dating an event do to them.               *)
(*                                                                         *)
(* A request is a transaction at READ COMMITTED: a sequence of statements, *)
(* each of which takes row locks, and a commit ("write" is the insert or   *)
(* update of a request that has more to do once it has its locks).  Other  *)
(* requests run in between.  PostgreSQL aborts a request that is part of a *)
(* deadlock.                                                               *)
(*                                                                         *)
(* Left out: who may do what, notes, notices, the log of past assignments, *)
(* and what confirming asks of venues, safety and review.  Every event is  *)
(* still to start.  "planning" stands for approved too, which equipment    *)
(* does not take; stock is what a type owns less what is out of service,   *)
(* which no request changes.                                               *)
(***************************************************************************)
EXTENDS Integers, FiniteSets, Sequences

CONSTANTS
  Lines,       \* ids of equipment_request_lines rows
  Events,      \* ids of events rows
  Types,       \* ids of equipment_types rows
  Staff,       \* ids of the Tech support users; numbers, because they are locked by id
  Spans,       \* the times an event may have: [from, to]
  Quantities,  \* the quantities a line may ask for
  Stock,       \* each type's total_quantity less its out_of_service_quantity
  Requests,    \* requests that may be in flight together
  Offered,     \* the operations they may ask for
  Nothing      \* no line, no event, no reservation, nothing asked

ASSUME LinesAssumption == IsFiniteSet(Lines)
ASSUME SpansAssumption ==
  /\ Spans \subseteq [from : Nat, to : Nat]
  /\ \A s \in Spans : s.from < s.to
ASSUME QuantitiesAssumption == Quantities \subseteq Nat \ {0} /\ Stock \in [Types -> Nat]
ASSUME StaffAssumption == Staff \subseteq Nat
ASSUME NothingAssumption == Nothing \notin Lines \cup Events \cup Types

VARIABLES
  line,      \* each line's status, event, type, quantity and availability_shortfall
  reserved,  \* the equipment_reservations row of each line: [type, quantity], and
             \* whether a review flag was raised on the line since the row was made
  event,     \* each event's status, its start_at and end_at, and whether they ever
             \* changed (history)
  assigned,  \* the active tech_staff_assignments: <<event, staff>>
  req        \* the transaction of each request

rowVars == <<line, reserved, event, assigned>>
vars == <<line, reserved, event, assigned, req>>

NoLine == [status |-> "none", event |-> Nothing, type |-> Nothing, quantity |-> 0, short |-> Nothing]

Live == {"pending", "approved"}        \* what one_live_per_type counts
Eligible == {"planning", "confirmed"} \* ELIGIBLE_STATUSES

-----------------------------------------------------------------------------
(***************************************************************************)
(* What the services ask of the tables.                                    *)
(***************************************************************************)

\* Half-open: events that only touch do not overlap.
Overlap(s, t) == s.from < t.to /\ t.from < s.to

LiveLines(e) == {l \in Lines : line[l].status \in Live /\ line[l].event = e}
ApprovedLines(e) == {l \in LiveLines(e) : line[l].status = "approved"}

\* _check_not_duplicate
Duplicate(e, y, except) == \E l \in LiveLines(e) \ {except} : line[l].type = y

\* equipment_request_lines_one_live_per_type
Indexed(e, y, except) == Duplicate(e, y, except)

\* The reserved lines _reserved_elsewhere sums up.
CountedElsewhere(e, y) ==
  {l \in Lines : /\ reserved[l] # Nothing /\ reserved[l].type = y
                 /\ line[l].event # e /\ event[line[l].event].status # "cancelled"
                 /\ Overlap(event[line[l].event].at, event[e].at)}

\* The units reserved for the lines S, each counted.
Units(S) == Cardinality(UNION {{l} \X (1..reserved[l].quantity) : l \in S})

\* Variant for the checks: a shortfall is what is asked for less what there is.
AnyInteger(n) == n

\* max(n, 0)
AtLeastZero(n) == IF n > 0 THEN n ELSE 0

\* _available
Available(e, y) == AtLeastZero(Stock[y] - Units(CountedElsewhere(e, y)))

\* _busy
Busy(e, s) ==
  \E f \in Events \ {e} : /\ <<f, s>> \in assigned /\ event[f].status # "cancelled"
                          /\ Overlap(event[f].at, event[e].at)

\* Variant for the checks: a line that was approved is ready.
EquipmentApproved(e) ==
  /\ ApprovedLines(e) # {} => \E s \in Staff : <<e, s>> \in assigned
  /\ \A l \in ApprovedLines(e) : reserved[l] # Nothing

\* _equipment_item and _technical_support_item
EquipmentReady(e) ==
  /\ \A l \in LiveLines(e) : line[l].status = "approved" /\ reserved[l] # Nothing
  /\ LiveLines(e) # {} => \E s \in Staff : <<e, s>> \in assigned

-----------------------------------------------------------------------------
(***************************************************************************)
(* Requests and their row locks.                                           *)
(***************************************************************************)

(* The statements of each operation that lock rows, in the code's order.   *)
Plan == [
  create |-> <<"event shared", "write">>,
  edit |-> <<"line", "write">>,
  remove |-> <<"line">>,
  check |-> <<"line", "write">>,
  review |-> <<"line", "event shared">>,
  reserve |-> <<"line", "event shared", "type", "write">>,
  release |-> <<"reservation">>,
  assign |-> <<"event shared", "staff", "write">>,
  unassign |-> <<"event shared", "assignment">>,
  change_dates |-> <<"event">>,
  confirm |-> <<"event", "lines", "write">>,
  prepare |-> <<"event">>,
  cancel |-> <<"event", "reservations">>]

Operations == DOMAIN Plan

ASSUME OfferedAssumption == Offered \subseteq Operations

Idle == [op |-> "none", line |-> Nothing, event |-> Nothing, want |-> Nothing,
         step |-> 0, todo |-> {}, has |-> {}, shares |-> {}, short |-> 0]

Statement(q) == Plan[q.op][q.step]
Shared(q) == Statement(q) = "event shared"

(* The rows a statement's query finds.  A line that was removed meanwhile  *)
(* is not found, and neither is a reservation.                             *)
Found(q, s) ==
  CASE s \in {"event", "event shared"} -> {<<"event", q.event>>}
    [] s = "line" -> {<<"line", l>> : l \in {x \in {q.line} : line[x].status # "removed"}}
    [] s = "type" -> {<<"type", line[q.line].type>>}
    [] s = "reservation" -> {<<"reservation", l>> : l \in {x \in {q.line} : reserved[x] # Nothing}}
    [] s = "staff" -> {<<"user", x>> : x \in q.want}
    [] s = "assignment" -> {<<"assignment", x>> : x \in ({q.event} \X q.want) \cap assigned}
    [] s = "lines" -> {<<"line", l>> : l \in LiveLines(q.event)}
    [] s = "reservations" ->
         {<<"reservation", l>> : l \in {x \in Lines : line[x].event = q.event /\ reserved[x] # Nothing}}
    [] s = "write" -> {}

\* Only the staff are locked in the order of their ids.
NextRows(q) ==
  IF q.todo # {} /\ Statement(q) = "staff" THEN {x \in q.todo : \A y \in q.todo : x[2] <= y[2]} ELSE q.todo

\* Variant for the checks: the type's row is read and not locked.
KeepsButType(p, x, q) == (x \in req[p].has \/ (x \in req[p].shares /\ ~Shared(q))) /\ x[1] # "type"

\* Variant for the checks: the staff's rows are read and not locked.
KeepsButStaff(p, x, q) == (x \in req[p].has \/ (x \in req[p].shares /\ ~Shared(q))) /\ x[1] # "user"

\* Variant for the checks: the event is read and not locked FOR SHARE.
KeepsUnshared(p, x, q) == x \in req[p].has /\ ~Shared(q)

(* Request p keeps row x from the transaction q of another request.        *)
Keeps(p, x, q) == x \in req[p].has \/ (x \in req[p].shares /\ ~Shared(q))

Kept(r, x, q) == \E p \in Requests \ {r} : Keeps(p, x, q)

(* Request r waits for request p.                                          *)
WaitsFor(r, p) == p # r /\ req[r].todo # {} /\ \A x \in NextRows(req[r]) : Keeps(p, x, req[r])

Deadlocked(r) ==
  \E S \in SUBSET Requests : r \in S /\ \A p \in S : \E q \in S : WaitsFor(p, q)

Locked(r) == req[r].op # "none" /\ req[r].todo = {}
Last(q) == q.step = Len(Plan[q.op])

-----------------------------------------------------------------------------
(***************************************************************************)
(* What each operation insists on after each of its statements.            *)
(***************************************************************************)

EventStatus(q) == event[q.event].status
LineStatus(q) == line[q.line].status

MayCreate(q) ==
  /\ q.step = 1 => EventStatus(q) \in Eligible /\ ~Duplicate(q.event, q.want.type, q.line)
  /\ q.step = 2 => ~Indexed(q.event, q.want.type, q.line)

\* Whatever the event's status: only the line is judged.
MayEdit(q) ==
  /\ q.step = 1 => LineStatus(q) = "pending" /\ ~Duplicate(q.event, q.want.type, q.line)
  /\ q.step = 2 => ~Indexed(q.event, q.want.type, q.line)

MayRemove(q) == LineStatus(q) = "pending"
MayCheck(q) == LineStatus(q) # "removed"

MayReview(q) ==
  /\ q.step = 1 => LineStatus(q) # "removed"
  /\ q.step = 2 => LineStatus(q) = "pending" /\ EventStatus(q) # "cancelled"

MayReserve(q) ==
  /\ q.step = 1 => LineStatus(q) = "approved"
  /\ q.step = 2 => EventStatus(q) \in Eligible /\ reserved[q.line] = Nothing
  /\ q.step = 3 => Available(q.event, line[q.line].type) >= line[q.line].quantity

MayRelease(q) == reserved[q.line] # Nothing

MayAssign(q) ==
  /\ q.step = 1 => EventStatus(q) \in Eligible /\ ApprovedLines(q.event) # {}
  /\ q.step = 2 => \A s \in q.want : <<q.event, s>> \notin assigned /\ ~Busy(q.event, s)

MayUnassign(q) == q.step = 2 => ({q.event} \X q.want) \cap assigned # {}

MayChangeDates(q) == EventStatus(q) \in Eligible /\ event[q.event].at # q.want

MayConfirm(q) ==
  /\ q.step = 1 => EventStatus(q) = "planning"
  /\ q.step = 2 => EquipmentReady(q.event)
MayPrepare(q) == EventStatus(q) = "confirmed"
MayCancel(q) == q.step = 1 => EventStatus(q) # "cancelled"

Passes(q) ==
  CASE q.op = "create" -> MayCreate(q)
    [] q.op = "edit" -> MayEdit(q)
    [] q.op = "remove" -> MayRemove(q)
    [] q.op = "check" -> MayCheck(q)
    [] q.op = "review" -> MayReview(q)
    [] q.op = "reserve" -> MayReserve(q)
    [] q.op = "release" -> MayRelease(q)
    [] q.op = "assign" -> MayAssign(q)
    [] q.op = "unassign" -> MayUnassign(q)
    [] q.op = "change_dates" -> MayChangeDates(q)
    [] q.op = "confirm" -> MayConfirm(q)
    [] q.op = "prepare" -> MayPrepare(q)
    [] q.op = "cancel" -> MayCancel(q)

-----------------------------------------------------------------------------
(***************************************************************************)
(* A request: it arrives, locks rows, goes on, and commits or is refused.  *)
(***************************************************************************)

AboutLine == {"edit", "remove", "check", "review", "reserve", "release"}

\* Lines that a request under way is about to insert.
Promised == {req[r].line : r \in {p \in Requests : req[p].op = "create"}}

Asks == [type : Types, quantity : Quantities]

(* What may be asked for: a new line, or something about a line or an      *)
(* event there is.                                                         *)
Wants(op) ==
  CASE op \in {"create", "edit"} -> Asks
    [] op = "review" -> {"approved", "rejected"}
    [] op = "assign" -> SUBSET Staff \ {{}}
    [] op = "unassign" -> {{s} : s \in Staff}
    [] op = "change_dates" -> Spans
    [] OTHER -> {Nothing}

Subjects(op) ==
  CASE op = "create" -> {l \in Lines \ Promised : line[l].status = "none"} \X Events
    [] op \in AboutLine -> {<<l, line[l].event>> : l \in {x \in Lines : line[x].status \in Live \cup {"rejected"}}}
    [] OTHER -> {Nothing} \X Events

Holding(q, S) == [q EXCEPT !.todo = @ \ S,
                           !.has = IF Shared(q) THEN @ ELSE @ \cup S,
                           !.shares = IF Shared(q) THEN @ \cup S ELSE @]

\* A statement takes its rows at once when nobody keeps one from it.
At(r, q, s) ==
  LET n == [q EXCEPT !.step = s, !.todo = Found(q, Plan[q.op][s]) \ q.has]
  IN IF \E x \in n.todo : Kept(r, x, n) THEN n ELSE Holding(n, n.todo)

(* A request that waits for its first row holds nothing and has read       *)
(* nothing, so it arrives once it has it; one that is refused at once does *)
(* not arrive.                                                             *)
Begin(r, op) ==
  /\ req[r] = Idle
  /\ \E s \in Subjects(op), w \in Wants(op) :
       LET q == At(r, [Idle EXCEPT !.op = op, !.line = s[1], !.event = s[2], !.want = w], 1)
       IN q.todo = {} /\ Passes(q) /\ req' = [req EXCEPT ![r] = q]
  /\ UNCHANGED rowVars

(* It waited for a row of its statement and gets it.                      *)
Lock(r) ==
  /\ \E x \in NextRows(req[r]) : ~Kept(r, x, req[r]) /\ req' = [req EXCEPT ![r] = Holding(@, {x})]
  /\ UNCHANGED rowVars

(* The next statement.  A check reads the line's shortage before it writes *)
(* it, without a lock on what it counts.                                   *)
Proceed(r) ==
  LET q == req[r]
      shortage == AtLeastZero(line[q.line].quantity - Available(q.event, line[q.line].type))
  IN /\ Locked(r) /\ ~Last(q) /\ Passes(q)
     /\ req' = [req EXCEPT ![r] =
          At(r, [q EXCEPT !.short = IF q.op = "check" THEN shortage ELSE 0], q.step + 1)]
     /\ UNCHANGED rowVars

End(r) == req' = [req EXCEPT ![r] = Idle]

Refuse(r) ==
  /\ Locked(r) /\ ~Passes(req[r])
  /\ End(r)
  /\ UNCHANGED rowVars

(* PostgreSQL breaks a deadlock.                                           *)
Abort(r) ==
  /\ Deadlocked(r)
  /\ End(r)
  /\ UNCHANGED rowVars

Ready(r, op) == req[r].op = op /\ Locked(r) /\ Last(req[r]) /\ Passes(req[r])

-----------------------------------------------------------------------------
(***************************************************************************)
(* What each operation writes and commits.                                 *)
(***************************************************************************)

Create(r) ==
  LET q == req[r]
  IN /\ Ready(r, "create") /\ End(r)
     /\ line' = [line EXCEPT ![q.line] =
          [status |-> "pending", event |-> q.event, type |-> q.want.type,
           quantity |-> q.want.quantity, short |-> Nothing]]
     /\ UNCHANGED <<reserved, event, assigned>>

\* Variant for the checks: a check is cleared by another type only.
EditKeepingCheck(r) ==
  LET q == req[r]
      changed == q.want.type # line[q.line].type
  IN /\ Ready(r, "edit") /\ End(r)
     /\ line' = [line EXCEPT ![q.line].type = q.want.type, ![q.line].quantity = q.want.quantity,
                             ![q.line].short = IF changed THEN Nothing ELSE @]
     /\ UNCHANGED <<reserved, event, assigned>>

(* A recorded check goes with the type and quantity it was made for.       *)
Edit(r) ==
  LET q == req[r]
      changed == q.want # [type |-> line[q.line].type, quantity |-> line[q.line].quantity]
  IN /\ Ready(r, "edit") /\ End(r)
     /\ line' = [line EXCEPT ![q.line].type = q.want.type, ![q.line].quantity = q.want.quantity,
                             ![q.line].short = IF changed THEN Nothing ELSE @]
     /\ UNCHANGED <<reserved, event, assigned>>

Remove(r) ==
  /\ Ready(r, "remove") /\ End(r)
  /\ line' = [line EXCEPT ![req[r].line] = [NoLine EXCEPT !.status = "removed"]]
  /\ UNCHANGED <<reserved, event, assigned>>

Check(r) ==
  /\ Ready(r, "check") /\ End(r)
  /\ line' = [line EXCEPT ![req[r].line].short = req[r].short]
  /\ UNCHANGED <<reserved, event, assigned>>

Review(r) ==
  /\ Ready(r, "review") /\ End(r)
  /\ line' = [line EXCEPT ![req[r].line].status = req[r].want]
  /\ UNCHANGED <<reserved, event, assigned>>

Reserve(r) ==
  LET l == req[r].line
  IN /\ Ready(r, "reserve") /\ End(r)
     /\ reserved' = [reserved EXCEPT ![l] =
          [type |-> line[l].type, quantity |-> line[l].quantity, flagged |-> FALSE]]
     /\ UNCHANGED <<line, event, assigned>>

Release(r) ==
  /\ Ready(r, "release") /\ End(r)
  /\ reserved' = [reserved EXCEPT ![req[r].line] = Nothing]
  /\ UNCHANGED <<line, event, assigned>>

(* Everybody asked for or nobody.                                          *)
Assign(r) ==
  /\ Ready(r, "assign") /\ End(r)
  /\ assigned' = assigned \cup ({req[r].event} \X req[r].want)
  /\ UNCHANGED <<line, reserved, event>>

Unassign(r) ==
  /\ Ready(r, "unassign") /\ End(r)
  /\ assigned' = assigned \ ({req[r].event} \X req[r].want)
  /\ UNCHANGED <<line, reserved, event>>

ReservedFor(e) == {l \in Lines : line[l].event = e /\ reserved[l] # Nothing}

(* An approved change of the event's times.  Stock and staff are not asked *)
(* for the new times; the reservations are flagged.                        *)
ChangeDates(r) ==
  LET e == req[r].event
  IN /\ Ready(r, "change_dates") /\ End(r)
     /\ event' = [event EXCEPT ![e] = [status |-> "planning", at |-> req[r].want, moved |-> TRUE]]
     /\ reserved' = [l \in Lines |-> IF l \in ReservedFor(e) THEN [reserved[l] EXCEPT !.flagged = TRUE]
                                      ELSE reserved[l]]
     /\ UNCHANGED <<line, assigned>>

SetEvent(r, s) == event' = [event EXCEPT ![req[r].event].status = s]

Confirm(r) ==
  /\ Ready(r, "confirm") /\ End(r)
  /\ SetEvent(r, "confirmed")
  /\ UNCHANGED <<line, reserved, assigned>>

Prepare(r) ==
  /\ Ready(r, "prepare") /\ End(r)
  /\ SetEvent(r, "preparation")
  /\ UNCHANGED <<line, reserved, assigned>>

(* The reservations are deleted; lines and assignments stay.               *)
Cancel(r) ==
  /\ Ready(r, "cancel") /\ End(r)
  /\ SetEvent(r, "cancelled")
  /\ reserved' = [l \in Lines |-> IF line[l].event = req[r].event THEN Nothing ELSE reserved[l]]
  /\ UNCHANGED <<line, assigned>>

-----------------------------------------------------------------------------
Init ==
  /\ line = [l \in Lines |-> NoLine]
  /\ reserved = [l \in Lines |-> Nothing]
  /\ event \in [Events -> [status : {"planning"}, at : Spans, moved : {FALSE}]]
  /\ assigned = {}
  /\ req = [r \in Requests |-> Idle]

Commit(r) ==
  \/ Create(r) \/ Edit(r) \/ Remove(r) \/ Check(r) \/ Review(r) \/ Reserve(r) \/ Release(r)
  \/ Assign(r) \/ Unassign(r) \/ ChangeDates(r) \/ Confirm(r) \/ Prepare(r) \/ Cancel(r)

GoOn(r) == Proceed(r) \/ Commit(r) \/ Refuse(r) \/ Abort(r)

Next == \E r \in Requests : (\E op \in Offered : Begin(r, op)) \/ Lock(r) \/ GoOn(r)

Spec == Init /\ [][Next]_vars

-----------------------------------------------------------------------------
(***************************************************************************)
(* Properties.                                                             *)
(***************************************************************************)

LineRow == [status : {"none", "removed", "rejected"} \cup Live, event : Events \cup {Nothing},
            type : Types \cup {Nothing}, quantity : Nat, short : Nat \cup {Nothing}]
Reservation == [type : Types, quantity : Quantities, flagged : BOOLEAN]
EventRow == [status : Eligible \cup {"preparation", "cancelled"}, at : Spans, moved : BOOLEAN]

(* Every variable has its type.  A request's wishes depend on what it asks *)
(* for.                                                                    *)
TypeOK ==
  /\ line \in [Lines -> LineRow]
  /\ reserved \in [Lines -> Reservation \cup {Nothing}]
  /\ event \in [Events -> EventRow]
  /\ assigned \subseteq Events \X Staff
  /\ \A r \in Requests :
       req[r] # Idle => req[r].op \in Operations /\ req[r].step \in 1..Len(Plan[req[r].op])

Reserved == {l \in Lines : reserved[l] # Nothing}

\* The units of a type in use at an instant, by the lines L.
InUse(y, t, L) ==
  Units({l \in L : /\ reserved[l].type = y
                   /\ event[line[l].event].at.from <= t /\ t < event[line[l].event].at.to})

Instants == UNION {s.from..s.to : s \in Spans}

(* At no instant is more of a type reserved than there is, but for what is *)
(* reserved for an event whose times changed since: however reservations   *)
(* of several events race, and although each counts the others unlocked    *)
(* and by whole events and not by instants (_lock_type, _reserved_elsewhere*)
(* and the flags of an approved change of times, D104).                    *)
StockSuffices ==
  \A y \in Types, t \in Instants : InUse(y, t, {l \in Reserved : ~reserved[l].flagged}) <= Stock[y]

(* A reservation is for exactly what its line was approved for, and its    *)
(* event is not cancelled: neither an edit, a second review nor a          *)
(* cancellation in flight leaves one that no longer agrees with its line   *)
(* (reserve's lock of the line and of the event FOR SHARE; US27 AC 1, D75).*)
ReservationsStand ==
  \A l \in Lines : reserved[l] # Nothing =>
    /\ line[l].status = "approved"
    /\ reserved[l].type = line[l].type /\ reserved[l].quantity = line[l].quantity
    /\ event[line[l].event].status # "cancelled"

(* A recorded availability check is one that could have been made for the  *)
(* line as it is now: short by no more than the line asks for and by no    *)
(* less than it asks for beyond all the stock there is (_clear_check,      *)
(* D64; the check holds the line while it counts).                         *)
ChecksStillApply ==
  \A l \in Lines : line[l].status \in Live /\ line[l].short # Nothing =>
    /\ line[l].short <= line[l].quantity
    /\ line[l].quantity - Stock[line[l].type] <= line[l].short

Together(e, f) == /\ event[e].status # "cancelled" /\ event[f].status # "cancelled"
                  /\ Overlap(event[e].at, event[f].at)

(* Nobody is assigned to two events at the same time, however the          *)
(* assignments of several coordinators race; only an event whose times     *)
(* changed, before or while somebody was assigned, may share its staff     *)
(* with another (_lock_staff, _busy; "two coordinators can't put one       *)
(* person on overlapping events", claude_instructions.md:1843).            *)
NoAssignmentOverlaps ==
  \A e, f \in Events : e # f /\ Together(e, f) /\ ~event[e].moved /\ ~event[f].moved =>
    {s \in Staff : <<e, s>> \in assigned /\ <<f, s>> \in assigned} = {}

(* An event becomes confirmed only when each line it still asks for is     *)
(* approved and somebody is assigned, if it asks for any, at the very      *)
(* moment it does: what confirm judged cannot change before it commits,    *)
(* though it does not lock the assignments (_equipment_item,               *)
(* _technical_support_item; every request that adds, reviews, assigns or   *)
(* unassigns takes the event).                                             *)
ConfirmedAsArranged ==
  [][\A e \in Events : event[e].status # "confirmed" /\ event'[e].status = "confirmed" =>
       /\ \A l \in LiveLines(e) : line[l].status = "approved"
       /\ LiveLines(e) # {} => \E s \in Staff : <<e, s>> \in assigned]_vars
=============================================================================
