------------------------- MODULE VenueBookingsProofs -------------------------
(***************************************************************************)
(* Theorems about VenueBookings, for every set of bookings, events,        *)
(* venues, times, periods and requests.                                    *)
(*                                                                         *)
(* The layers of the argument, in this order:                              *)
(*   Plans        which rows each operation locks, and when                *)
(*   IInv         a request holds what its past statements locked, no two  *)
(*                requests hold one row, and what a request found of rows  *)
(*                it holds is still so (Sound)                             *)
(*   Change       all that a step can do to a booking                      *)
(*   Step         IInv is kept, and every step is such a change            *)
(*   theorems     no double booking, current windows, the calendar, and    *)
(*                approvals in time follow from IInv and Change            *)
(*   Undisturbed  what nothing can take from a confirmed event             *)
(*   Consistent   the table's own constraints                              *)
(*   Replaces, RequestsKeep, Clear   what the locks on an original, an     *)
(*                event and a venue reserve until the commit               *)
(***************************************************************************)
EXTENDS VenueBookingsCalendar, TLAPS

-----------------------------------------------------------------------------
(***************************************************************************)
(* Plans.                                                                  *)
(***************************************************************************)

Inserting == {"create", "place_hold"}
Settling == {"confirm_event", "change_event"}

(* A statement asks for the rows of something its operation is about.      *)
Fits(op, s) ==
  /\ s \in {"booking", "booking and original"} => op \in AboutBooking
  /\ s \in {"event", "event shared"} => op \in Inserting \cup AboutBooking \cup AboutEvent
  /\ s \in {"venue", "venue shared"} => op \notin AboutEvent
  /\ s \in {"booking", "booking and original", "original", "event", "event shared", "venue", "venue shared",
            "primaries", "hit", "their events", "new events", "marked", "bookings there",
            "event's bookings", "event's venues", "write"}

(* Every plan has from one to five statements, each of which fits it.      *)
LEMMA PlanFits ==
  ASSUME NEW op \in Operations
  PROVE  /\ Len(Plan[op]) \in 1..5
         /\ \A i \in 1..Len(Plan[op]) : Fits(op, Plan[op][i])
         /\ op \in Inserting \cup AboutBooking \cup AboutPeriod \cup AboutEvent \cup {"edit_buffers"}
<1>1. CASE op = "create"
  <2>1. /\ Len(CreateRows) = 4
        /\ \A i \in 1..4 : CreateRows[i] \in {"event", "original", "venue shared", "write"}
    BY DEF CreateRows
  <2>2. Plan[op] = CreateRows
    BY <1>1 DEF Plan
  <2>3. \A s \in {"event", "original", "venue shared", "write"} : Fits(op, s)
    BY <1>1 DEF Fits, Inserting, AboutBooking, AboutEvent
  <2>4. op \in Inserting \cup AboutBooking \cup AboutPeriod \cup AboutEvent \cup {"edit_buffers"}
    BY <1>1 DEF Inserting, AboutBooking, AboutPeriod, AboutEvent
  <2>5. Len(Plan[op]) = 4 /\ \A i \in 1..4 : Fits(op, Plan[op][i])
    BY <2>1, <2>2, <2>3, Zenon
  <2> QED
    BY <2>4, <2>5
<1>2. CASE op = "place_hold"
  <2>1. /\ Len(PlaceHoldRows) = 3
        /\ \A i \in 1..3 : PlaceHoldRows[i] \in {"event", "venue shared", "write"}
    BY DEF PlaceHoldRows
  <2>2. Plan[op] = PlaceHoldRows
    BY <1>2 DEF Plan
  <2>3. \A s \in {"event", "venue shared", "write"} : Fits(op, s)
    BY <1>2 DEF Fits, Inserting, AboutBooking, AboutEvent
  <2>4. op \in Inserting \cup AboutBooking \cup AboutPeriod \cup AboutEvent \cup {"edit_buffers"}
    BY <1>2 DEF Inserting, AboutBooking, AboutPeriod, AboutEvent
  <2>5. Len(Plan[op]) = 3 /\ \A i \in 1..3 : Fits(op, Plan[op][i])
    BY <2>1, <2>2, <2>3, Zenon
  <2> QED
    BY <2>4, <2>5
<1>3. CASE op = "confirm_hold"
  <2>1. /\ Len(ConfirmHoldRows) = 3
        /\ \A i \in 1..3 : ConfirmHoldRows[i] \in {"event", "booking", "write"}
    BY DEF ConfirmHoldRows
  <2>2. Plan[op] = ConfirmHoldRows
    BY <1>3 DEF Plan
  <2>3. \A s \in {"event", "booking", "write"} : Fits(op, s)
    BY <1>3 DEF Fits, Inserting, AboutBooking, AboutEvent
  <2>4. op \in Inserting \cup AboutBooking \cup AboutPeriod \cup AboutEvent \cup {"edit_buffers"}
    BY <1>3 DEF Inserting, AboutBooking, AboutPeriod, AboutEvent
  <2>5. Len(Plan[op]) = 3 /\ \A i \in 1..3 : Fits(op, Plan[op][i])
    BY <2>1, <2>2, <2>3, Zenon
  <2> QED
    BY <2>4, <2>5
<1>4. CASE op = "make_primary"
  <2>1. /\ Len(MakePrimaryRows) = 3
        /\ \A i \in 1..3 : MakePrimaryRows[i] \in {"event", "booking", "primaries"}
    BY DEF MakePrimaryRows
  <2>2. Plan[op] = MakePrimaryRows
    BY <1>4 DEF Plan
  <2>3. \A s \in {"event", "booking", "primaries"} : Fits(op, s)
    BY <1>4 DEF Fits, Inserting, AboutBooking, AboutEvent
  <2>4. op \in Inserting \cup AboutBooking \cup AboutPeriod \cup AboutEvent \cup {"edit_buffers"}
    BY <1>4 DEF Inserting, AboutBooking, AboutPeriod, AboutEvent
  <2>5. Len(Plan[op]) = 3 /\ \A i \in 1..3 : Fits(op, Plan[op][i])
    BY <2>1, <2>2, <2>3, Zenon
  <2> QED
    BY <2>4, <2>5
<1>5. CASE op = "withdraw"
  <2>1. /\ Len(WithdrawRows) = 1
        /\ \A i \in 1..1 : WithdrawRows[i] \in {"booking"}
    BY DEF WithdrawRows
  <2>2. Plan[op] = WithdrawRows
    BY <1>5 DEF Plan
  <2>3. \A s \in {"booking"} : Fits(op, s)
    BY <1>5 DEF Fits, Inserting, AboutBooking, AboutEvent
  <2>4. op \in Inserting \cup AboutBooking \cup AboutPeriod \cup AboutEvent \cup {"edit_buffers"}
    BY <1>5 DEF Inserting, AboutBooking, AboutPeriod, AboutEvent
  <2>5. Len(Plan[op]) = 1 /\ \A i \in 1..1 : Fits(op, Plan[op][i])
    BY <2>1, <2>2, <2>3, Zenon
  <2> QED
    BY <2>4, <2>5
<1>6. CASE op = "reject"
  <2>1. /\ Len(RejectRows) = 1
        /\ \A i \in 1..1 : RejectRows[i] \in {"booking"}
    BY DEF RejectRows
  <2>2. Plan[op] = RejectRows
    BY <1>6 DEF Plan
  <2>3. \A s \in {"booking"} : Fits(op, s)
    BY <1>6 DEF Fits, Inserting, AboutBooking, AboutEvent
  <2>4. op \in Inserting \cup AboutBooking \cup AboutPeriod \cup AboutEvent \cup {"edit_buffers"}
    BY <1>6 DEF Inserting, AboutBooking, AboutPeriod, AboutEvent
  <2>5. Len(Plan[op]) = 1 /\ \A i \in 1..1 : Fits(op, Plan[op][i])
    BY <2>1, <2>2, <2>3, Zenon
  <2> QED
    BY <2>4, <2>5
<1>7. CASE op = "approve"
  <2>1. /\ Len(ApproveRows) = 3
        /\ \A i \in 1..3 : ApproveRows[i] \in {"booking and original", "event shared", "venue"}
    BY DEF ApproveRows
  <2>2. Plan[op] = ApproveRows
    BY <1>7 DEF Plan
  <2>3. \A s \in {"booking and original", "event shared", "venue"} : Fits(op, s)
    BY <1>7 DEF Fits, Inserting, AboutBooking, AboutEvent
  <2>4. op \in Inserting \cup AboutBooking \cup AboutPeriod \cup AboutEvent \cup {"edit_buffers"}
    BY <1>7 DEF Inserting, AboutBooking, AboutPeriod, AboutEvent
  <2>5. Len(Plan[op]) = 3 /\ \A i \in 1..3 : Fits(op, Plan[op][i])
    BY <2>1, <2>2, <2>3, Zenon
  <2> QED
    BY <2>4, <2>5
<1>8. CASE op = "request_restore"
  <2>1. /\ Len(RequestRestoreRows) = 1
        /\ \A i \in 1..1 : RequestRestoreRows[i] \in {"booking"}
    BY DEF RequestRestoreRows
  <2>2. Plan[op] = RequestRestoreRows
    BY <1>8 DEF Plan
  <2>3. \A s \in {"booking"} : Fits(op, s)
    BY <1>8 DEF Fits, Inserting, AboutBooking, AboutEvent
  <2>4. op \in Inserting \cup AboutBooking \cup AboutPeriod \cup AboutEvent \cup {"edit_buffers"}
    BY <1>8 DEF Inserting, AboutBooking, AboutPeriod, AboutEvent
  <2>5. Len(Plan[op]) = 1 /\ \A i \in 1..1 : Fits(op, Plan[op][i])
    BY <2>1, <2>2, <2>3, Zenon
  <2> QED
    BY <2>4, <2>5
<1>9. CASE op = "decline_restore"
  <2>1. /\ Len(DeclineRestoreRows) = 1
        /\ \A i \in 1..1 : DeclineRestoreRows[i] \in {"booking"}
    BY DEF DeclineRestoreRows
  <2>2. Plan[op] = DeclineRestoreRows
    BY <1>9 DEF Plan
  <2>3. \A s \in {"booking"} : Fits(op, s)
    BY <1>9 DEF Fits, Inserting, AboutBooking, AboutEvent
  <2>4. op \in Inserting \cup AboutBooking \cup AboutPeriod \cup AboutEvent \cup {"edit_buffers"}
    BY <1>9 DEF Inserting, AboutBooking, AboutPeriod, AboutEvent
  <2>5. Len(Plan[op]) = 1 /\ \A i \in 1..1 : Fits(op, Plan[op][i])
    BY <2>1, <2>2, <2>3, Zenon
  <2> QED
    BY <2>4, <2>5
<1>10. CASE op = "confirm_restore"
  <2>1. /\ Len(ConfirmRestoreRows) = 2
        /\ \A i \in 1..2 : ConfirmRestoreRows[i] \in {"booking", "venue"}
    BY DEF ConfirmRestoreRows
  <2>2. Plan[op] = ConfirmRestoreRows
    BY <1>10 DEF Plan
  <2>3. \A s \in {"booking", "venue"} : Fits(op, s)
    BY <1>10 DEF Fits, Inserting, AboutBooking, AboutEvent
  <2>4. op \in Inserting \cup AboutBooking \cup AboutPeriod \cup AboutEvent \cup {"edit_buffers"}
    BY <1>10 DEF Inserting, AboutBooking, AboutPeriod, AboutEvent
  <2>5. Len(Plan[op]) = 2 /\ \A i \in 1..2 : Fits(op, Plan[op][i])
    BY <2>1, <2>2, <2>3, Zenon
  <2> QED
    BY <2>4, <2>5
<1>11. CASE op = "record_period"
  <2>1. /\ Len(RecordPeriodRows) = 5
        /\ \A i \in 1..5 : RecordPeriodRows[i] \in {"hit", "their events", "venue", "new events"}
    BY DEF RecordPeriodRows
  <2>2. Plan[op] = RecordPeriodRows
    BY <1>11 DEF Plan
  <2>3. \A s \in {"hit", "their events", "venue", "new events"} : Fits(op, s)
    BY <1>11 DEF Fits, Inserting, AboutBooking, AboutEvent
  <2>4. op \in Inserting \cup AboutBooking \cup AboutPeriod \cup AboutEvent \cup {"edit_buffers"}
    BY <1>11 DEF Inserting, AboutBooking, AboutPeriod, AboutEvent
  <2>5. Len(Plan[op]) = 5 /\ \A i \in 1..5 : Fits(op, Plan[op][i])
    BY <2>1, <2>2, <2>3, Zenon
  <2> QED
    BY <2>4, <2>5
<1>12. CASE op = "end_period"
  <2>1. /\ Len(EndPeriodRows) = 3
        /\ \A i \in 1..3 : EndPeriodRows[i] \in {"marked", "venue"}
    BY DEF EndPeriodRows
  <2>2. Plan[op] = EndPeriodRows
    BY <1>12 DEF Plan
  <2>3. \A s \in {"marked", "venue"} : Fits(op, s)
    BY <1>12 DEF Fits, Inserting, AboutBooking, AboutEvent
  <2>4. op \in Inserting \cup AboutBooking \cup AboutPeriod \cup AboutEvent \cup {"edit_buffers"}
    BY <1>12 DEF Inserting, AboutBooking, AboutPeriod, AboutEvent
  <2>5. Len(Plan[op]) = 3 /\ \A i \in 1..3 : Fits(op, Plan[op][i])
    BY <2>1, <2>2, <2>3, Zenon
  <2> QED
    BY <2>4, <2>5
<1>13. CASE op = "edit_buffers"
  <2>1. /\ Len(EditBuffersRows) = 2
        /\ \A i \in 1..2 : EditBuffersRows[i] \in {"venue", "bookings there"}
    BY DEF EditBuffersRows
  <2>2. Plan[op] = EditBuffersRows
    BY <1>13 DEF Plan
  <2>3. \A s \in {"venue", "bookings there"} : Fits(op, s)
    BY <1>13 DEF Fits, Inserting, AboutBooking, AboutEvent
  <2>4. op \in Inserting \cup AboutBooking \cup AboutPeriod \cup AboutEvent \cup {"edit_buffers"}
    BY <1>13 DEF Inserting, AboutBooking, AboutPeriod, AboutEvent
  <2>5. Len(Plan[op]) = 2 /\ \A i \in 1..2 : Fits(op, Plan[op][i])
    BY <2>1, <2>2, <2>3, Zenon
  <2> QED
    BY <2>4, <2>5
<1>14. CASE op = "cancel_event"
  <2>1. /\ Len(CancelEventRows) = 3
        /\ \A i \in 1..3 : CancelEventRows[i] \in {"event's bookings", "event"}
    BY DEF CancelEventRows
  <2>2. Plan[op] = CancelEventRows
    BY <1>14 DEF Plan
  <2>3. \A s \in {"event's bookings", "event"} : Fits(op, s)
    BY <1>14 DEF Fits, Inserting, AboutBooking, AboutEvent
  <2>4. op \in Inserting \cup AboutBooking \cup AboutPeriod \cup AboutEvent \cup {"edit_buffers"}
    BY <1>14 DEF Inserting, AboutBooking, AboutPeriod, AboutEvent
  <2>5. Len(Plan[op]) = 3 /\ \A i \in 1..3 : Fits(op, Plan[op][i])
    BY <2>1, <2>2, <2>3, Zenon
  <2> QED
    BY <2>4, <2>5
<1>15. CASE op = "confirm_event"
  <2>1. /\ Len(ConfirmEventRows) = 2
        /\ \A i \in 1..2 : ConfirmEventRows[i] \in {"event", "event's venues"}
    BY DEF ConfirmEventRows
  <2>2. Plan[op] = ConfirmEventRows
    BY <1>15 DEF Plan
  <2>3. \A s \in {"event", "event's venues"} : Fits(op, s)
    BY <1>15 DEF Fits, Inserting, AboutBooking, AboutEvent
  <2>4. op \in Inserting \cup AboutBooking \cup AboutPeriod \cup AboutEvent \cup {"edit_buffers"}
    BY <1>15 DEF Inserting, AboutBooking, AboutPeriod, AboutEvent
  <2>5. Len(Plan[op]) = 2 /\ \A i \in 1..2 : Fits(op, Plan[op][i])
    BY <2>1, <2>2, <2>3, Zenon
  <2> QED
    BY <2>4, <2>5
<1>16. CASE op = "change_event"
  <2>1. /\ Len(ChangeEventRows) = 2
        /\ \A i \in 1..2 : ChangeEventRows[i] \in {"event", "event's venues"}
    BY DEF ChangeEventRows
  <2>2. Plan[op] = ChangeEventRows
    BY <1>16 DEF Plan
  <2>3. \A s \in {"event", "event's venues"} : Fits(op, s)
    BY <1>16 DEF Fits, Inserting, AboutBooking, AboutEvent
  <2>4. op \in Inserting \cup AboutBooking \cup AboutPeriod \cup AboutEvent \cup {"edit_buffers"}
    BY <1>16 DEF Inserting, AboutBooking, AboutPeriod, AboutEvent
  <2>5. Len(Plan[op]) = 2 /\ \A i \in 1..2 : Fits(op, Plan[op][i])
    BY <2>1, <2>2, <2>3, Zenon
  <2> QED
    BY <2>4, <2>5
<1> QED
  BY <1>1, <1>2, <1>3, <1>4, <1>5, <1>6, <1>7, <1>8, <1>9, <1>10, <1>11, <1>12, <1>13, <1>14, <1>15, <1>16
     DEF Operations, Plan

(* The statements whose locks the argument needs.                          *)
LEMMA PlansOf ==
  /\ Len(Plan["create"]) = 4 /\ Plan["create"][1] = "event" /\ Plan["create"][2] = "original"
  /\ Len(Plan["place_hold"]) = 3 /\ Plan["place_hold"][1] = "event"
  /\ Len(Plan["confirm_hold"]) = 3 /\ Plan["confirm_hold"][1] = "event" /\ Plan["confirm_hold"][2] = "booking"
  /\ Len(Plan["make_primary"]) = 3 /\ Plan["make_primary"][1] = "event"
  /\ Len(Plan["confirm_restore"]) = 2 /\ Plan["confirm_restore"][1] = "booking"
  /\ Len(Plan["withdraw"]) = 1 /\ Plan["withdraw"][1] = "booking"
  /\ Len(Plan["reject"]) = 1 /\ Plan["reject"][1] = "booking"
  /\ Len(Plan["approve"]) = 3 /\ Plan["approve"][1] = "booking and original" /\ Plan["approve"][3] = "venue"
  /\ Len(Plan["edit_buffers"]) = 2 /\ Plan["edit_buffers"][1] = "venue"
  /\ Len(Plan["cancel_event"]) = 3 /\ Plan["cancel_event"][2] = "event"
  /\ Plan["cancel_event"][3] = "event's bookings"
  /\ Len(Plan["confirm_event"]) = 2
  /\ Plan["confirm_event"][1] = "event" /\ Plan["confirm_event"][2] = "event's venues"
  /\ Len(Plan["change_event"]) = 2
  /\ Plan["change_event"][1] = "event" /\ Plan["change_event"][2] = "event's venues"
BY DEF Plan, CreateRows, PlaceHoldRows, ConfirmHoldRows, WithdrawRows, RejectRows, MakePrimaryRows, ApproveRows,
       ConfirmRestoreRows, EditBuffersRows, CancelEventRows, ConfirmEventRows, ChangeEventRows

-----------------------------------------------------------------------------
(***************************************************************************)
(* The inductive invariant.                                                *)
(***************************************************************************)

(* Rows that an operation's s-th statement locks FOR UPDATE whatever the   *)
(* tables hold.                                                            *)
Keys(q, s) ==
  CASE Plan[q.op][s] = "booking" -> {q.booking}
    [] Plan[q.op][s] = "booking and original" -> {q.booking, q.asked.replaces} \ {Nothing}
    [] Plan[q.op][s] = "original" -> {q.asked.replaces} \ {Nothing}
    [] Plan[q.op][s] = "event" -> {q.asked.event}
    [] Plan[q.op][s] = "venue" -> {q.asked.venue}
    [] OTHER -> {}

(* What a request is about: a booking as it stands in the table, one about *)
(* to be inserted, a period, an event or a venue.                          *)
Aims(q) ==
  /\ q.op \in Operations
  /\ q.op \in Inserting \cup AboutBooking =>
       /\ q.booking \in Bookings
       /\ q.asked.event \in Events /\ q.asked.venue \in Venues /\ q.asked.at \in Windows
  /\ q.op \in Inserting => status[q.booking] = "none"
  /\ q.op \in AboutBooking => status[q.booking] # "none" /\ asked[q.booking] = q.asked
  /\ q.op \in AboutPeriod => q.period \in Periods /\ q.asked.venue \in Venues
  /\ q.op \in AboutEvent => q.asked.event \in Events
  /\ q.op = "edit_buffers" => q.asked.venue \in Venues /\ q.buffers \in Buffers

(* It has the rows of the statements behind it and has or is about to lock *)
(* those of the statement it is at.                                        *)
Taken(q) ==
  \A s \in 1..q.step : Keys(q, s) \subseteq q.has \cup (IF s = q.step THEN q.todo ELSE {})

(* What it found of rows it has locked is so until it ends.                *)
Judged(q) ==
  /\ q.op = "approve" /\ q.step >= 2 => status[q.booking] = "requested"
  /\ q.op = "confirm_hold" /\ q.step = 3 => status[q.booking] = "held"
  /\ q.op = "edit_buffers" /\ q.step = 2 => NoneApproved(q.asked.venue)
  /\ q.op = "cancel_event" /\ q.step = 3 => ClaimingFor(q.asked.event) \subseteq q.has \cup q.todo
  /\ q.op \in Settling /\ q.step = 2 => LiveFor(q.asked.event) \subseteq q.has \cup q.todo
  /\ q.op \in Inserting /\ q.step >= 2 => EventPlanning(q)
  /\ q.op = "confirm_hold" /\ q.step = 3 => EventPlanning(q)
  /\ q.op = "approve" /\ q.step >= 2 /\ q.seen.event = "planning" => EventPlanning(q)
  /\ q.op = "make_primary" /\ q.seen.status \in Live => status[q.booking] \notin {"none", "held"}
  /\ q.op = "make_primary" /\ q.step = 3 => q.seen.status \in Live

Sound(q) == Aims(q) /\ q.step \in 1..Len(Plan[q.op]) /\ Taken(q) /\ Judged(q)

(* A booking that was made is for an event, at a venue and a time.         *)
Booked ==
  \A b \in Bookings : status[b] # "none" =>
    asked[b].event \in Events /\ asked[b].venue \in Venues /\ asked[b].at \in Windows

RequestsSound == \A r \in Requests : req[r] = Idle \/ Sound(req[r])

(* No two requests have one row, or are about to insert one.               *)
Exclusive == \A p, r \in Requests : p # r => req[p].has \cap req[r].has = {}
Distinct ==
  \A p, r \in Requests : p # r /\ req[p].op \in Inserting /\ req[r].op \in Inserting =>
    req[p].booking # req[r].booking

IInv == TypeOK /\ Booked /\ RequestsSound /\ Exclusive /\ Distinct

-----------------------------------------------------------------------------
(***************************************************************************)
(* A request that has all its locks.                                       *)
(***************************************************************************)

(* No request that is idle has an operation.                               *)
LEMMA Busy ==
  ASSUME IInv, NEW r \in Requests, req[r].op # "none"
  PROVE  Sound(req[r]) /\ req[r] \in Transaction /\ req[r].op \in Operations
BY DEF IInv, TypeOK, RequestsSound, Idle, Fresh, Sound, Aims

(* A request about to commit has its keys, and what it judged still holds. *)
LEMMA Prepared ==
  ASSUME IInv, NEW r \in Requests, req[r].op # "none", req[r].todo = {},
         req[r].step = Len(Plan[req[r].op])
  PROVE  LET q == req[r]
         IN /\ Sound(q) /\ q \in Transaction
            /\ q.op \in Inserting => q.asked.event \in q.has /\ EventPlanning(q)
            /\ q.op \in {"confirm_hold", "withdraw", "reject", "approve"} => q.booking \in q.has
            /\ q.op = "confirm_hold" =>
                 status[q.booking] = "held" /\ q.asked.event \in q.has /\ EventPlanning(q)
            /\ q.op = "approve" =>
                 /\ status[q.booking] = "requested" /\ q.asked.venue \in q.has
                 /\ q.asked.replaces \in Bookings => q.asked.replaces \in q.has
                 /\ q.seen.event = "planning" => EventPlanning(q)
            /\ q.op = "edit_buffers" => q.asked.venue \in q.has /\ NoneApproved(q.asked.venue)
            /\ q.op = "cancel_event" =>
                 q.asked.event \in q.has /\ ClaimingFor(q.asked.event) \subseteq q.has
            /\ q.op \in Settling =>
                 q.asked.event \in q.has /\ LiveFor(q.asked.event) \subseteq q.has
            /\ q.op = "make_primary" => q.asked.event \in q.has /\ status[q.booking] \notin {"none", "held"}
<1> DEFINE q == req[r]
<1>1. Sound(q) /\ q \in Transaction
  BY Busy
<1>2. q.step = Len(Plan[q.op]) /\ q.todo = {} 
  OBVIOUS
<1>3. \A s \in 1..q.step : Keys(q, s) \subseteq q.has
  BY <1>1, <1>2 DEF Sound, Taken
<1>4. ASSUME NEW s \in 1..q.step
      PROVE  /\ Plan[q.op][s] = "booking" => q.booking \in q.has
             /\ Plan[q.op][s] = "booking and original" => {q.booking, q.asked.replaces} \ {Nothing} \subseteq q.has
             /\ Plan[q.op][s] = "event" => q.asked.event \in q.has
             /\ Plan[q.op][s] = "venue" => q.asked.venue \in q.has
  BY <1>3 DEF Keys
<1>5. q.op \in Inserting \cup AboutBooking => q.booking \in Bookings
  BY <1>1 DEF Sound, Aims
<1> HIDE DEF q
<1>6. /\ q.op \in Inserting \cup Settling \cup {"make_primary"} => Plan[q.op][1] = "event"
      /\ q.op = "confirm_hold" => Plan[q.op][1] = "event" /\ Plan[q.op][2] = "booking"
      /\ q.op \in {"withdraw", "reject"} => Plan[q.op][1] = "booking"
      /\ q.op = "approve" => Plan[q.op][1] = "booking and original" /\ Plan[q.op][3] = "venue"
      /\ q.op = "edit_buffers" => Plan[q.op][1] = "venue"
      /\ q.op = "cancel_event" => Plan[q.op][2] = "event"
  BY PlansOf, Zenon DEF Inserting, Settling
<1>7. /\ q.op = "create" => q.step = 4
      /\ q.op \in {"place_hold", "confirm_hold", "make_primary", "approve", "cancel_event"} => q.step = 3
      /\ q.op \in {"edit_buffers", "confirm_event", "change_event"} => q.step = 2
      /\ q.op \in {"withdraw", "reject"} => q.step = 1
  BY <1>2, PlansOf, Zenon
<1>8. /\ q.op \in Inserting \cup Settling
            \cup {"confirm_hold", "make_primary", "withdraw", "reject", "approve", "edit_buffers"} =>
           1 \in 1..q.step
      /\ q.op \in {"confirm_hold", "cancel_event"} => 2 \in 1..q.step
      /\ q.op = "approve" => 3 \in 1..q.step /\ q.step >= 2
      /\ q.op \in Inserting => q.step >= 2
      /\ q.op \in Settling => q.step = 2
  BY <1>7 DEF Inserting, Settling
<1>9. q.op \in Inserting \cup Settling \cup {"confirm_hold", "make_primary", "cancel_event"} =>
        q.asked.event \in q.has
  BY <1>4, <1>6, <1>8 DEF Inserting, Settling
<1>10. /\ q.op \in {"confirm_hold", "withdraw", "reject"} => q.booking \in q.has
       /\ q.op = "edit_buffers" => q.asked.venue \in q.has
  BY <1>4, <1>6, <1>8
<1>11. q.op = "approve" =>
         /\ {q.booking, q.asked.replaces} \ {Nothing} \subseteq q.has
         /\ q.asked.venue \in q.has
  BY <1>4, <1>6, <1>8
<1>12. q.op = "approve" =>
         q.booking \in q.has /\ (q.asked.replaces \in Bookings => q.asked.replaces \in q.has)
  BY <1>5, <1>11, NothingAssumption DEF AboutBooking
<1>13. /\ q.op = "approve" =>
            status[q.booking] = "requested" /\ (q.seen.event = "planning" => EventPlanning(q))
       /\ q.op = "confirm_hold" => status[q.booking] = "held" /\ EventPlanning(q)
       /\ q.op = "edit_buffers" => NoneApproved(q.asked.venue)
       /\ q.op = "cancel_event" => ClaimingFor(q.asked.event) \subseteq q.has
       /\ q.op \in Settling => LiveFor(q.asked.event) \subseteq q.has
       /\ q.op \in Inserting => EventPlanning(q)
       /\ q.op = "make_primary" => status[q.booking] \notin {"none", "held"}
  <2>1. Judged(q)
    BY <1>1 DEF Sound
  <2>2. q.todo = {}
    BY <1>2
  <2>3. \A S, T : T = {} /\ S \subseteq q.has \cup T => S \subseteq q.has
    OBVIOUS
  <2> QED
    BY <1>7, <1>8, <2>1, <2>2, <2>3, Zenon DEF Judged
<1>14. /\ q.op \in Inserting => q.asked.event \in q.has /\ EventPlanning(q)
       /\ q.op \in Settling =>
            q.asked.event \in q.has /\ LiveFor(q.asked.event) \subseteq q.has
  BY <1>9, <1>13, Zenon DEF Inserting, Settling
<1>15. /\ q.op \in {"confirm_hold", "make_primary"} => q.asked.event \in q.has
       /\ q.op = "cancel_event" => q.asked.event \in q.has
  BY <1>9, Zenon
<1>16. q.op \in {"confirm_hold", "withdraw", "reject", "approve"} => q.booking \in q.has
  BY <1>10, <1>12
<1> QED
  BY <1>1, <1>10, <1>11, <1>12, <1>13, <1>14, <1>15, <1>16, Zenon DEF q

-----------------------------------------------------------------------------
(***************************************************************************)
(* Requests that arrive, lock rows and go on.                              *)
(***************************************************************************)

(* The rows of a statement are rows.                                       *)
LEMMA FoundRows ==
  ASSUME IInv, NEW q \in Transaction, Aims(q), NEW s \in 1..Len(Plan[q.op])
  PROVE  Found(q, Plan[q.op][s]) \subseteq Rows
<1>1. Fits(q.op, Plan[q.op][s])
  BY PlanFits DEF Aims
<1> DEFINE t == Plan[q.op][s]
<1>2. /\ q.op \in Inserting \cup AboutBooking =>
           q.booking \in Bookings /\ q.asked.event \in Events /\ q.asked.venue \in Venues
      /\ q.op \in AboutPeriod \cup {"edit_buffers"} => q.asked.venue \in Venues
      /\ q.op \in AboutEvent => q.asked.event \in Events
  BY DEF Aims
<1>3. q.op \in Inserting \cup AboutBooking \cup AboutPeriod \cup AboutEvent \cup {"edit_buffers"}
  BY PlanFits DEF Aims
<1>4. /\ t \in {"booking", "booking and original"} => q.booking \in Bookings
      /\ t \in {"event", "event shared"} => q.asked.event \in Events
      /\ t \in {"venue", "venue shared"} => q.asked.venue \in Venues
  BY <1>1, <1>2, <1>3 DEF Fits
<1>5. q.asked.replaces \in Bookings \cup {Nothing}
  BY DEF Transaction, Asked
<1>6. \A b \in Claiming : b \in Bookings /\ asked[b].event \in Events
  BY DEF Claiming, Holding, Live, IInv, Booked
<1>7. \A p : Hit(p) \subseteq Claiming
  BY DEF Hit, ClaimingAt
<1>8. \A e : LiveFor(e) \subseteq Bookings
  BY DEF LiveFor
<1>9. \A e : ClaimingFor(e) \subseteq Bookings /\ ClaimingAt(e) \subseteq Bookings
  BY <1>6 DEF ClaimingFor, ClaimingAt
<1>10. t \in {"booking", "booking and original", "original", "event", "event shared", "venue", "venue shared",
            "primaries", "hit", "their events", "new events", "marked", "bookings there",
            "event's bookings", "event's venues", "write"}
  BY <1>1 DEF Fits
<1> HIDE DEF t
<1>11. t \in {"booking", "booking and original", "original", "write"} => Found(q, t) \subseteq Bookings
  BY <1>4, <1>5 DEF Found
<1>12. /\ t \in {"event", "event shared"} => Found(q, t) \subseteq Events
       /\ t \in {"venue", "venue shared"} => Found(q, t) \subseteq Venues
  BY <1>4 DEF Found
<1>13. t \in {"primaries", "event's venues"} => Found(q, t) \subseteq Bookings
  BY <1>8 DEF Found
<1>14. t \in {"hit", "marked", "bookings there", "event's bookings"} => Found(q, t) \subseteq Bookings
  BY <1>6, <1>7, <1>9 DEF Found
<1>15. t \in {"their events", "new events"} => Found(q, t) \subseteq Events
  BY <1>6, <1>7 DEF Found
<1>16. Found(q, t) \subseteq Rows
  BY <1>10, <1>11, <1>12, <1>13, <1>14, <1>15 DEF Rows
<1> QED
  BY <1>16 DEF t

(* An operation has a first statement, and after all but its last a next.  *)
LEMMA NextStatement ==
  ASSUME NEW op \in Operations
  PROVE  /\ 1 \in 1..Len(Plan[op])
         /\ \A s \in 1..Len(Plan[op]) :
              s \in 1..5 /\ (s # Len(Plan[op]) => s + 1 \in 1..Len(Plan[op]) /\ s + 1 \in 0..5)
<1>1. PICK k \in 1..5 : k = Len(Plan[op])
  BY PlanFits
<1>2. 1 \in 1..k /\ \A s \in 1..k : s \in 1..5 /\ (s # k => s + 1 \in 1..k /\ s + 1 \in 0..5)
  OBVIOUS
<1> QED
  BY <1>1, <1>2, Zenon

(* What a request is about does not depend on how far it is.               *)
LEMMA SameAim ==
  ASSUME NEW q, NEW n, n.op = q.op, n.booking = q.booking, n.asked = q.asked, n.period = q.period,
         n.buffers = q.buffers
  PROVE  /\ Aims(q) => Aims(n)
         /\ \A s : Keys(n, s) = Keys(q, s)
<1>1. Aims(q) => Aims(n)
  BY DEF Aims
<1>2. \A s : Keys(n, s) = Keys(q, s)
  BY DEF Keys
<1> QED
  BY <1>1, <1>2

(* As long as the tables stay a request stays sound.                       *)
LEMMA SoundStays ==
  ASSUME NEW n, Sound(n), UNCHANGED <<bookingVars, otherVars>>
  PROVE  Sound(n)'
<1>1. status' = status /\ asked' = asked /\ eventStatus' = eventStatus
  BY DEF bookingVars, otherVars
<1>2. Aims(n)'
  BY <1>1 DEF Sound, Aims
<1>3. Taken(n)'
  BY DEF Sound, Taken, Keys
<1>4. Judged(n)'
  BY <1>1 DEF Sound, Judged, NoneApproved, ClaimingFor, ClaimingAt, Claiming, LiveFor, EventPlanning
<1> QED
  BY <1>2, <1>3, <1>4 DEF Sound

(* A request takes a step: the rest is as it was.                          *)
LEMMA OneMoves ==
  ASSUME IInv, NEW r \in Requests, NEW n \in Transaction, req' = [req EXCEPT ![r] = n], Sound(n),
         UNCHANGED <<bookingVars, otherVars>>,
         \A p \in Requests : p # r => req[p].has \cap n.has = {},
         n.op \in Inserting =>
           \A p \in Requests : p # r /\ req[p].op \in Inserting => req[p].booking # n.booking
  PROVE  IInv'
<1>1. req \in [Requests -> Transaction]
  BY DEF IInv, TypeOK
<1>2. req'[r] = n /\ \A p \in Requests : p # r => req'[p] = req[p]
  BY <1>1
<1>3. TypeOK'
  <2>1. req' \in [Requests -> Transaction]
    BY <1>1
  <2> QED
    BY <2>1 DEF IInv, TypeOK, bookingVars, otherVars
<1>4. Booked'
  BY DEF IInv, Booked, bookingVars
<1>5. RequestsSound'
  <2> SUFFICES ASSUME NEW p \in Requests, ~(req[p] = Idle)'
               PROVE  Sound(req[p])'
    BY DEF RequestsSound
  <2>1. PICK m : m = req'[p]
    OBVIOUS
  <2>2. Sound(m)
    BY <1>2, <2>1 DEF IInv, RequestsSound, Idle
  <2>3. Sound(m)'
    BY <2>2, SoundStays
  <2>5. Aims(req[p])' /\ Taken(req[p])'
    BY <2>1, <2>3 DEF Sound, Aims, Taken, Keys
  <2>6. Judged(req[p])'
    BY <2>1, <2>3 DEF Sound, Judged, NoneApproved, ClaimingFor, ClaimingAt, LiveFor, EventPlanning
  <2> QED
    BY <2>1, <2>3, <2>5, <2>6 DEF Sound
<1>6. Exclusive'
  BY <1>2 DEF IInv, Exclusive
<1>7. Distinct'
  BY <1>2 DEF IInv, Distinct
<1> QED
  BY <1>3, <1>4, <1>5, <1>6, <1>7 DEF IInv

(* A transaction that has locked nothing yet.                              *)
LEMMA Freshly ==
  ASSUME NEW op \in Operations \cup {"none"}, NEW b \in Bookings \cup {Nothing}, NEW a \in Asked,
         NEW p \in Periods \cup {Nothing}, NEW u \in Buffers \cup {Nothing},
         NEW s \in [status : {"none"} \cup Holding \cup Closed, primary : BOOLEAN,
                    event : {"planning", "confirmed", "cancelled"}]
  PROVE  LET q == Fresh(op, b, a, p, u, s)
         IN /\ q \in Transaction
            /\ q.op = op /\ q.booking = b /\ q.asked = a /\ q.period = p /\ q.buffers = u
            /\ q.has = {} /\ q.shares = {} /\ q.seen = s
BY DEF Fresh, Transaction

(* What may be asked for is sound as it arrives.                           *)
LEMMA AskedFor ==
  ASSUME IInv, NEW op \in Operations, NEW q \in Asking(op)
  PROVE  /\ q \in Transaction /\ q.op = op /\ q.has = {} /\ q.shares = {}
         /\ Aims(q)
         /\ op \in Inserting =>
              \A p \in Requests : req[p].op \in Inserting => req[p].booking # q.booking
         /\ op = "make_primary" /\ q.seen.status \in Live => status[q.booking] \notin {"none", "held"}
         /\ op \in AboutPeriod => q.asked.venue = q.period.venue
<1>1. NotSeen \in [status : {"none"} \cup Holding \cup Closed, primary : BOOLEAN,
                   event : {"planning", "confirmed", "cancelled"}]
  BY DEF NotSeen
<1>2. TypeOK /\ Booked
  BY DEF IInv
<1>3. CASE op \in Inserting
  <2>1. q \in NewBookings(op)
    BY <1>3, Zenon DEF Asking, Inserting, AboutBooking, AboutPeriod, AboutEvent
  <2>2. PICK b \in {c \in Bookings \ Promised : status[c] = "none"} :
          \E a \in Payloads(op) : q = Fresh(op, b, a, Nothing, Nothing, NotSeen)
    BY <2>1 DEF NewBookings
  <2>3. PICK a \in Asked : /\ a.event \in Events /\ a.venue \in Venues /\ a.at \in Windows
                           /\ q = Fresh(op, b, a, Nothing, Nothing, NotSeen)
    BY <2>2 DEF Payloads, Asked
  <2>4. q \in Transaction /\ q.op = op /\ q.has = {} /\ q.shares = {} /\ q.booking = b /\ q.asked = a
    BY <1>1, <2>3, Freshly
  <2>5. Aims(q)
    BY <1>3, <2>2, <2>3, <2>4 DEF Aims, Inserting, AboutBooking, AboutPeriod, AboutEvent
  <2>6. \A p \in Requests : req[p].op \in Inserting => req[p].booking # q.booking
    BY <2>2, <2>4 DEF Promised, Inserting
  <2> QED
    BY <1>3, <2>4, <2>5, <2>6 DEF Inserting, AboutPeriod
<1>4. CASE op \in AboutBooking
  <2>1. q \in OfBookings(op)
    BY <1>4, Zenon DEF Asking, Inserting, AboutBooking, AboutPeriod, AboutEvent
  <2>2. PICK b \in Bookings :
          status[b] # "none" /\ q = Fresh(op, b, asked[b], Nothing, Nothing, AsLoaded(op, b))
    BY <2>1, Zenon DEF OfBookings
  <2>3. /\ asked[b] \in Asked
        /\ AsLoaded(op, b) \in [status : {"none"} \cup Holding \cup Closed, primary : BOOLEAN,
                                event : {"planning", "confirmed", "cancelled"}]
    BY <1>1, <1>2 DEF TypeOK, AsLoaded
  <2>4. /\ q \in Transaction /\ q.op = op /\ q.has = {} /\ q.shares = {}
        /\ q.booking = b /\ q.asked = asked[b] /\ q.seen = AsLoaded(op, b)
    BY <2>2, <2>3, Freshly
  <2>5. Aims(q)
    BY <1>2, <1>4, <2>2, <2>4 DEF Aims, Booked, Inserting, AboutBooking, AboutPeriod, AboutEvent
  <2>6. op = "make_primary" /\ q.seen.status \in Live => status[q.booking] \notin {"none", "held"}
    BY <2>4 DEF AsLoaded, Live
  <2> QED
    BY <1>4, <2>4, <2>5, <2>6 DEF Inserting, AboutBooking, AboutPeriod
<1>5. CASE op \in AboutPeriod
  <2>1. q \in OfPeriods(op)
    BY <1>5, Zenon DEF Asking, Inserting, AboutBooking, AboutPeriod, AboutEvent
  <2>2. PICK p \in Periods : q = Fresh(op, Nothing, AtVenue(p.venue), p, Nothing, NotSeen)
    BY <2>1, Zenon DEF OfPeriods
  <2>3. p.venue \in Venues /\ AtVenue(p.venue) \in Asked /\ AtVenue(p.venue).venue = p.venue
    BY WindowsAssumption DEF AtVenue, Asked
  <2>4. /\ q \in Transaction /\ q.op = op /\ q.has = {} /\ q.shares = {}
        /\ q.period = p /\ q.asked.venue = p.venue
    BY <1>1, <2>2, <2>3, Freshly
  <2>5. Aims(q)
    BY <1>5, <2>3, <2>4 DEF Aims, Inserting, AboutBooking, AboutPeriod, AboutEvent
  <2> QED
    BY <1>5, <2>4, <2>5 DEF Inserting, AboutPeriod
<1>6. CASE op \in AboutEvent
  <2>1. q \in OfEvents(op)
    BY <1>6, Zenon DEF Asking, Inserting, AboutBooking, AboutPeriod, AboutEvent
  <2>2. PICK e \in Events : q = Fresh(op, Nothing, ForEvent(e), Nothing, Nothing, NotSeen)
    BY <2>1, Zenon DEF OfEvents
  <2>3. ForEvent(e) \in Asked /\ ForEvent(e).event = e
    BY DEF ForEvent, Asked
  <2>4. /\ q \in Transaction /\ q.op = op /\ q.has = {} /\ q.shares = {}
        /\ q.asked = ForEvent(e)
    BY <1>1, <2>2, <2>3, Freshly, SMTT(60)
  <2>5. Aims(q)
    BY <1>6, <2>3, <2>4 DEF Aims, Inserting, AboutBooking, AboutPeriod, AboutEvent
  <2> QED
    BY <1>6, <2>4, <2>5 DEF Inserting, AboutEvent, AboutPeriod
<1>7. CASE op = "edit_buffers"
  <2>1. q \in OfVenues
    BY <1>7 DEF Asking, AboutPeriod, AboutBooking, AboutEvent
  <2>2. PICK v \in Venues : \E u \in Buffers :
          q = Fresh("edit_buffers", Nothing, AtVenue(v), Nothing, u, NotSeen)
    BY <2>1 DEF OfVenues
  <2>3. PICK u \in Buffers : q = Fresh("edit_buffers", Nothing, AtVenue(v), Nothing, u, NotSeen)
    BY <2>2
  <2>4. AtVenue(v) \in Asked /\ AtVenue(v).venue = v
    BY DEF AtVenue, Asked
  <2>5. /\ q \in Transaction /\ q.op = op /\ q.has = {} /\ q.shares = {}
        /\ q.asked.venue = v /\ q.buffers = u
    BY <1>1, <1>7, <2>3, <2>4, Freshly
  <2>6. Aims(q)
    BY <1>7, <2>5 DEF Aims, Inserting, AboutBooking, AboutPeriod, AboutEvent
  <2> QED
    BY <1>7, <2>5, <2>6 DEF Inserting, AboutPeriod
<1> QED
  BY <1>3, <1>4, <1>5, <1>6, <1>7, PlanFits

(* A request that arrives is sound.                                       *)
LEMMA Begins ==
  ASSUME IInv, NEW r \in Requests, NEW op \in Offered, Begin(r, op)
  PROVE  IInv'
<1>1. op \in Operations
  BY OfferedAssumption
<1>2. PICK q \in Asking(op) : req' = [req EXCEPT ![r] = At(q, 1)]
  BY DEF Begin
<1>3. /\ q \in Transaction /\ q.op = op /\ q.has = {} /\ q.shares = {}
      /\ Aims(q)
      /\ op \in Inserting => \A p \in Requests : req[p].op \in Inserting => req[p].booking # q.booking
      /\ op = "make_primary" /\ q.seen.status \in Live => status[q.booking] \notin {"none", "held"}
  BY <1>1, <1>2, AskedFor
<1>4. PICK n : n = At(q, 1)
  OBVIOUS
<1>5. 1 \in 1..Len(Plan[q.op])
  BY <1>1, <1>3, NextStatement, Zenon
<1>6. Found(q, Plan[q.op][1]) \subseteq Rows /\ 1 \in 0..5
  BY <1>3, <1>5, FoundRows
<1>7. n = [q EXCEPT !.step = 1, !.todo = Found(q, Plan[q.op][1])]
  BY <1>3, <1>4 DEF At
<1>8. /\ n \in Transaction
      /\ n.op = q.op /\ n.booking = q.booking /\ n.asked = q.asked /\ n.period = q.period
      /\ n.buffers = q.buffers /\ n.has = {} /\ n.step = 1 /\ n.seen = q.seen /\ n.todo = Found(q, Plan[q.op][1])
  BY <1>3, <1>5, <1>6, <1>7 DEF Transaction
<1>9. Aims(n) /\ Keys(n, 1) = Keys(q, 1)
  BY <1>3, <1>8, SameAim
<1>10. Taken(n)
  <2>1. Keys(q, 1) \subseteq Found(q, Plan[q.op][1])
    BY DEF Keys, Found
  <2> QED
    BY <1>8, <1>9, <2>1 DEF Taken
<1>11. Judged(n)
  BY <1>3, <1>8 DEF Judged
<1>12. Sound(n)
  BY <1>3, <1>5, <1>8, <1>9, <1>10, <1>11 DEF Sound
<1>13. UNCHANGED <<bookingVars, otherVars>>
  BY DEF Begin
<1> QED
  BY <1>2, <1>3, <1>4, <1>8, <1>12, <1>13, OneMoves

(* A request that locks a row keeps what it has, and nobody else has the  *)
(* row.                                                                   *)
LEMMA Locks ==
  ASSUME IInv, NEW r \in Requests, Lock(r)
  PROVE  IInv'
<1> DEFINE q == req[r]
<1>1. UNCHANGED <<bookingVars, otherVars>>
  BY DEF Lock
<1>2. PICK x \in NextRows(q) :
        /\ \A p \in Requests : ~Blocks(p, r, x)
        /\ req' = [req EXCEPT ![r].todo = @ \ {x},
                              ![r].has = IF Shared(q) THEN @ ELSE @ \cup {x},
                              ![r].shares = IF Shared(q) THEN @ \cup {x} ELSE @]
  BY DEF Lock
<1>3. x \in q.todo
  BY DEF NextRows
<1>4. q.op # "none"
  BY <1>3 DEF IInv, RequestsSound, Idle, Fresh, Sound, Aims, Operations, Plan
<1>5. Sound(q) /\ q \in Transaction
  BY <1>4, Busy
<1>6. PICK n : n = [q EXCEPT !.todo = @ \ {x}, !.has = IF Shared(q) THEN @ ELSE @ \cup {x},
                             !.shares = IF Shared(q) THEN @ \cup {x} ELSE @]
  OBVIOUS
<1>7. req' = [req EXCEPT ![r] = n]
  BY <1>2, <1>6 DEF IInv, TypeOK
<1>8. /\ n \in Transaction
      /\ n.op = q.op /\ n.booking = q.booking /\ n.asked = q.asked /\ n.period = q.period
      /\ n.buffers = q.buffers /\ n.step = q.step /\ n.seen = q.seen
      /\ n.todo = q.todo \ {x} /\ n.has = IF Shared(q) THEN q.has ELSE q.has \cup {x}
  BY <1>3, <1>5, <1>6 DEF Transaction
<1>9. Aims(n) /\ \A s : Keys(n, s) = Keys(q, s)
  BY <1>5, <1>8, SameAim DEF Sound
<1> HIDE DEF q
<1>10. Taken(n)
  <2>1. Shared(q) => Keys(q, q.step) = {}
    BY DEF Shared, Statement, Keys
  <2>2. \A s \in 1..q.step : Keys(q, s) \subseteq q.has \cup (IF s = q.step THEN q.todo ELSE {})
    BY <1>5 DEF Sound, Taken
  <2> SUFFICES ASSUME NEW s \in 1..q.step
               PROVE  Keys(q, s) \subseteq n.has \cup (IF s = q.step THEN n.todo ELSE {})
    BY <1>8, <1>9 DEF Taken
  <2>3. CASE Shared(q)
    BY <1>8, <2>1, <2>2, <2>3
  <2>4. CASE ~Shared(q)
    BY <1>8, <2>2, <2>4
  <2> QED
    BY <2>3, <2>4
<1>11. Judged(n)
  <2>1. /\ q.op = "cancel_event" /\ q.step = 3 => Plan[q.op][q.step] = "event's bookings"
        /\ q.op \in Settling /\ q.step = 2 => Plan[q.op][q.step] = "event's venues"
    BY PlansOf, Zenon DEF Settling
  <2>2. (q.op = "cancel_event" /\ q.step = 3) \/ (q.op \in Settling /\ q.step = 2) => ~Shared(q)
    BY <2>1 DEF Shared, Statement
  <2>3. ~Shared(q) => q.has \cup q.todo \subseteq n.has \cup n.todo
    BY <1>8
  <2>4. \A S : ~Shared(q) /\ S \subseteq q.has \cup q.todo => S \subseteq n.has \cup n.todo
    BY <2>3
  <2>5. Judged(q)
    BY <1>5 DEF Sound
  <2> QED
    BY <1>8, <2>2, <2>4, <2>5, Zenon DEF Judged, EventPlanning
<1>12. Sound(n)
  BY <1>5, <1>8, <1>9, <1>10, <1>11 DEF Sound
<1>13. \A p \in Requests : p # r => req[p].has \cap n.has = {}
  BY <1>2, <1>8 DEF IInv, Exclusive, Blocks, q
<1>14. \A p \in Requests : p # r /\ req[p].op \in Inserting /\ n.op \in Inserting => req[p].booking # n.booking
  BY <1>8 DEF IInv, Distinct, q
<1> QED
  BY <1>1, <1>7, <1>8, <1>12, <1>13, <1>14, OneMoves

(* A request that goes on to its next statement has judged what the last  *)
(* one locked.                                                            *)
LEMMA Proceeds ==
  ASSUME IInv, NEW r \in Requests, Proceed(r)
  PROVE  IInv'
<1> DEFINE q == req[r]
           s == q.step + 1
           t == Found([q EXCEPT !.seen = Reading(q)], Plan[q.op][s])
<1>1. UNCHANGED <<bookingVars, otherVars>> /\ q.op # "none" /\ q.todo = {} /\ ~Last(q) /\ Passes(q)
  BY DEF Proceed, Locked
<1>2. Sound(q) /\ q \in Transaction /\ q.op \in Operations
  BY <1>1, Busy
<1>3. q.step \in 1..Len(Plan[q.op]) /\ q.step # Len(Plan[q.op])
  BY <1>1, <1>2, Zenon DEF Sound, Last
<1>4. q.step \in 1..5 /\ s \in 1..Len(Plan[q.op]) /\ s \in 0..5
  BY <1>2, <1>3, NextStatement, Zenon
<1>5. Reading(q) \in [status : {"none"} \cup Holding \cup Closed, primary : BOOLEAN,
                      event : {"planning", "confirmed", "cancelled"}]
  <2>1. q.seen \in [status : {"none"} \cup Holding \cup Closed, primary : BOOLEAN,
                    event : {"planning", "confirmed", "cancelled"}]
    BY <1>2 DEF Transaction
  <2>2. q.op = "approve" => q.asked.event \in Events
    BY <1>2 DEF Sound, Aims, AboutBooking
  <2>3. HasPrimary(q.asked.event) \in BOOLEAN
    BY DEF HasPrimary
  <2> QED
    BY <2>1, <2>2, <2>3 DEF Reading, IInv, TypeOK
<1>6. PICK m : m = [q EXCEPT !.seen = Reading(q)]
  OBVIOUS
<1>7. /\ m \in Transaction
      /\ m.op = q.op /\ m.booking = q.booking /\ m.asked = q.asked /\ m.period = q.period
      /\ m.buffers = q.buffers /\ m.has = q.has /\ m.step = q.step /\ m.seen = Reading(q)
  BY <1>2, <1>5, <1>6 DEF Transaction
<1>8. Aims(m) /\ \A i : Keys(m, i) = Keys(q, i)
  BY <1>2, <1>7, SameAim DEF Sound
<1>9. Found(m, Plan[m.op][s]) \subseteq Rows
  BY <1>4, <1>7, <1>8, FoundRows
<1>10. PICK n : n = At(m, s)
  OBVIOUS
<1>11. req' = [req EXCEPT ![r] = n]
  BY <1>6, <1>10 DEF Proceed, IInv, TypeOK
<1>12. /\ n \in Transaction
       /\ n.op = q.op /\ n.booking = q.booking /\ n.asked = q.asked /\ n.period = q.period
       /\ n.buffers = q.buffers /\ n.step = s /\ n.has = q.has
       /\ n.seen = Reading(q) /\ n.todo = Found(m, Plan[q.op][s]) \ q.has
  BY <1>4, <1>7, <1>9, <1>10 DEF At, Transaction
<1>13. Aims(n) /\ \A i : Keys(n, i) = Keys(q, i)
  BY <1>2, <1>12, SameAim DEF Sound
<1> HIDE DEF q, t
<1>14. Taken(n)
  <2>1. \A i \in 1..q.step : Keys(q, i) \subseteq q.has
    BY <1>1, <1>2 DEF Sound, Taken
  <2>2. Keys(m, s) \subseteq Found(m, Plan[m.op][s])
    BY DEF Keys, Found
  <2>3. Keys(q, s) \subseteq n.has \cup n.todo
    BY <1>7, <1>8, <1>12, <2>2
  <2> SUFFICES ASSUME NEW i \in 1..s
               PROVE  Keys(q, i) \subseteq n.has \cup (IF i = s THEN n.todo ELSE {})
    BY <1>12, <1>13 DEF Taken
  <2> QED
    BY <1>4, <1>12, <2>1, <2>3
<1>15. Judged(n)
  <2>1. Judged(q) /\ (q.step = 1 \/ q.step >= 2)
    BY <1>2, <1>4 DEF Sound
  <2>2. CASE q.op = "approve"
    <3>1. q.step = 1 => Reading(q).event = eventStatus[q.asked.event] /\ status[q.booking] = "requested"
      BY <1>1, <1>5, <2>2 DEF Reading, Passes, MayApprove, Pending
    <3>2. q.step >= 2 => Reading(q) = q.seen
      BY <2>2 DEF Reading
    <3>3. q.op \notin Settling \cup Inserting
      BY <2>2 DEF Settling, Inserting
    <3> QED
      BY <1>12, <2>1, <2>2, <3>1, <3>2, <3>3 DEF Judged, EventPlanning
  <2>3. CASE q.op = "confirm_hold"
    <3>1. s = 3 => status[q.booking] = "held" /\ EventPlanning(q)
      BY <1>1, <1>4, <2>3 DEF Passes, MayConfirmHold
    <3> QED
      BY <1>12, <2>3, <3>1 DEF Judged, EventPlanning, Settling, Inserting
  <2>4. CASE q.op = "edit_buffers"
    BY <1>1, <1>4, <1>12, <2>4 DEF Judged, Passes, MayEditBuffers, Settling, Inserting
  <2>5. CASE q.op = "cancel_event"
    <3>1. s = 3 => Plan[q.op][s] = "event's bookings"
      BY <2>5, PlansOf, Zenon
    <3>2. s = 3 => Found(m, Plan[q.op][s]) = ClaimingFor(q.asked.event)
      BY <1>7, <3>1 DEF Found
    <3> QED
      BY <1>12, <2>5, <3>2 DEF Judged, Settling, Inserting
  <2>6. CASE q.op \in Settling
    <3>1. s = 2 => Plan[q.op][s] = "event's venues"
      BY <2>6, PlansOf, Zenon DEF Settling
    <3>2. s = 2 => Found(m, Plan[q.op][s]) = LiveFor(q.asked.event)
      BY <1>7, <3>1 DEF Found
    <3> QED
      BY <1>12, <2>6, <3>2 DEF Judged, Settling, Inserting
  <2>7. CASE q.op \in Inserting
    <3>1. q.step = 1 => EventPlanning(q)
      BY <1>1, <2>7 DEF Passes, MayCreate, MayPlaceHold, Inserting
    <3>2. EventPlanning(q)
      BY <2>1, <2>7, <3>1 DEF Judged
    <3> QED
      BY <1>12, <2>7, <3>2 DEF Judged, EventPlanning, Settling, Inserting
  <2>8. CASE q.op = "make_primary"
    <3>1. Reading(q) = q.seen
      BY <2>8 DEF Reading
    <3>2. s = 3 => q.seen.status \in Live
      BY <1>1, <1>4, <2>8 DEF Passes, MayMakePrimary
    <3> QED
      BY <1>12, <2>1, <2>8, <3>1, <3>2 DEF Judged, Settling, Inserting
  <2> QED
    BY <1>12, <2>2, <2>3, <2>4, <2>5, <2>6, <2>7, <2>8 DEF Judged
<1>16. Sound(n)
  BY <1>4, <1>12, <1>13, <1>14, <1>15 DEF Sound
<1>17. \A p \in Requests : p # r => req[p].has \cap n.has = {}
  BY <1>12 DEF IInv, Exclusive, q
<1>18. \A p \in Requests : p # r /\ req[p].op \in Inserting /\ n.op \in Inserting => req[p].booking # n.booking
  BY <1>12 DEF IInv, Distinct, q
<1> QED
  BY <1>1, <1>11, <1>12, <1>16, <1>17, <1>18, OneMoves

-----------------------------------------------------------------------------
(***************************************************************************)
(* Bookings that change while other requests are under way.                *)
(***************************************************************************)

(* Booking b is as it was, or was inserted for an event the request has    *)
(* not locked, or moved on without being one of the request's rows.        *)
LeavesAlone(q, b) ==
  \/ status'[b] = status[b] /\ asked'[b] = asked[b]
  \/ /\ status[b] = "none" /\ status'[b] \in Lapsing
     /\ q.op \in Inserting => q.booking # b
     /\ asked'[b].event \notin q.has
  \/ /\ status[b] \in Holding /\ status'[b] \in Holding \cup Closed /\ asked'[b] = asked[b]
     /\ b \notin q.has
     /\ status'[b] = "approved" => asked[b].venue \notin q.has
     /\ status'[b] # "held" /\ (status[b] = "held" /\ status'[b] \in Live => asked[b].event \notin q.has)

(* Event e is as it was, or was put back in planning, or neither it nor    *)
(* one of its venues is the request's.                                     *)
LeavesEvent(q, e) ==
  \/ eventStatus'[e] = eventStatus[e]
  \/ eventStatus[e] = "confirmed" /\ eventStatus'[e] = "planning"
  \/ e \notin q.has /\ LiveFor(e) \cap q.has = {}

(* Whatever else changes, a request that is left alone stays sound.        *)
LEMMA StaysSound ==
  ASSUME IInv, NEW q, q \in Transaction, Sound(q), \A b \in Bookings : LeavesAlone(q, b),
         \A e \in Events : LeavesEvent(q, e)
  PROVE  Sound(q)'
<1>1. Aims(q) /\ Taken(q) /\ Judged(q) /\ q.step \in 1..Len(Plan[q.op])
  BY DEF Sound
<1>2. q.op \in Inserting \cup AboutBooking => q.booking \in Bookings
  BY <1>1 DEF Aims
<1>3. \A b \in Bookings : status[b] # "none" => status'[b] # "none" /\ asked'[b] = asked[b]
  BY DEF LeavesAlone, Lapsing, Holding, Live, Closed
<1>4. q.op \in Inserting => status'[q.booking] = "none"
  BY <1>1, <1>2 DEF Aims, LeavesAlone, Holding, Live
<1>5. Aims(q)'
  BY <1>1, <1>2, <1>3, <1>4 DEF Aims
<1>6. Taken(q)'
  BY <1>1 DEF Taken, Keys
<1>7. \A s \in 1..q.step : s < q.step => Keys(q, s) \subseteq q.has
  BY <1>1 DEF Taken
<1>8. ASSUME NEW s \in 1..q.step, s < q.step
      PROVE  /\ Plan[q.op][s] = "booking" => q.booking \in q.has
             /\ Plan[q.op][s] = "booking and original" => {q.booking, q.asked.replaces} \ {Nothing} \subseteq q.has
             /\ Plan[q.op][s] = "event" => q.asked.event \in q.has
             /\ Plan[q.op][s] = "venue" => q.asked.venue \in q.has
  BY <1>7, <1>8 DEF Keys
<1>9. q.step \in 1..5
  BY <1>1, NextStatement DEF Aims
<1>10. ASSUME q.op = "approve", q.step >= 2
       PROVE  status'[q.booking] = "requested"
  <2>1. q.booking \in Bookings /\ status[q.booking] = "requested"
    BY <1>1, <1>2, <1>10 DEF Judged, AboutBooking
  <2>2. Plan[q.op][1] = "booking and original"
    BY <1>10, PlansOf, Zenon
  <2>9. 1 \in 1..q.step /\ 1 < q.step
    BY <1>9, <1>10
  <2>3. q.booking \in q.has
    BY <1>8, <2>1, <2>2, <2>9, NothingAssumption
  <2> QED
    BY <2>1, <2>3 DEF LeavesAlone
<1>11. ASSUME q.op = "confirm_hold", q.step = 3
       PROVE  status'[q.booking] = "held"
  <2>1. q.booking \in Bookings /\ status[q.booking] = "held"
    BY <1>1, <1>2, <1>11 DEF Judged, AboutBooking
  <2>2. Plan[q.op][2] = "booking"
    BY <1>11, PlansOf, Zenon
  <2>9. 2 \in 1..q.step /\ 2 < q.step
    BY <1>11
  <2>3. q.booking \in q.has
    BY <1>8, <2>2, <2>9
  <2> QED
    BY <2>1, <2>3 DEF LeavesAlone
<1>12. ASSUME q.op = "edit_buffers", q.step = 2
       PROVE  NoneApproved(q.asked.venue)'
  <2>1. NoneApproved(q.asked.venue)
    BY <1>1, <1>12 DEF Judged
  <2>2. Plan[q.op][1] = "venue"
    BY <1>12, PlansOf, Zenon
  <2>9. 1 \in 1..q.step /\ 1 < q.step
    BY <1>12
  <2>3. q.asked.venue \in q.has
    BY <1>8, <2>2, <2>9
  <2>4. ASSUME NEW b \in Bookings, status'[b] = "approved", asked'[b].venue = q.asked.venue
        PROVE  FALSE
    <3>1. status[b] \in Holding /\ asked'[b] = asked[b]
      BY <2>4 DEF LeavesAlone, Lapsing, Holding, Live
    <3>2. status[b] # "approved"
      BY <2>1, <2>4, <3>1 DEF NoneApproved, ClaimingAt, Claiming
    <3> QED
      BY <2>3, <2>4, <3>1, <3>2 DEF LeavesAlone, Lapsing
  <2> QED
    BY <2>4 DEF NoneApproved, ClaimingAt, Claiming
<1>13. ASSUME q.op = "cancel_event", q.step = 3
       PROVE  ClaimingFor(q.asked.event)' \subseteq q.has \cup q.todo
  <2>1. ClaimingFor(q.asked.event) \subseteq q.has \cup q.todo
    BY <1>1, <1>13 DEF Judged
  <2>2. Plan[q.op][2] = "event"
    BY <1>13, PlansOf, Zenon
  <2>9. 2 \in 1..q.step /\ 2 < q.step
    BY <1>13
  <2>3. q.asked.event \in q.has
    BY <1>8, <2>2, <2>9
  <2>4. ASSUME NEW b \in Bookings, status'[b] \in Holding, asked'[b].event = q.asked.event
        PROVE  status[b] \in Holding /\ asked[b].event = q.asked.event
    BY <2>3, <2>4 DEF LeavesAlone
  <2> QED
    BY <2>1, <2>4 DEF ClaimingFor, Claiming
<1>14. ASSUME q.op \in Settling, q.step = 2
       PROVE  LiveFor(q.asked.event)' \subseteq q.has \cup q.todo
  <2>1. LiveFor(q.asked.event) \subseteq q.has \cup q.todo
    BY <1>1, <1>14 DEF Judged
  <2>2. Plan[q.op][1] = "event"
    BY <1>14, PlansOf, Zenon DEF Settling
  <2>3. 1 \in 1..q.step /\ 1 < q.step
    BY <1>14
  <2>4. q.asked.event \in q.has
    BY <1>8, <2>2, <2>3
  <2>5. ASSUME NEW b \in Bookings, status'[b] \in Live, asked'[b].event = q.asked.event
        PROVE  status[b] \in Live /\ asked[b].event = q.asked.event
    BY <2>4, <2>5 DEF LeavesAlone, Holding
  <2> QED
    BY <2>1, <2>5 DEF LiveFor
<1>15. ASSUME EventPlanning(q), q.asked.event \in Events,
              q.asked.event \in q.has \/ LiveFor(q.asked.event) \cap q.has # {}
       PROVE  EventPlanning(q)'
  BY <1>15 DEF EventPlanning, LeavesEvent
<1>16. ASSUME q.op \in Inserting, q.step >= 2
       PROVE  EventPlanning(q)'
  <2>1. EventPlanning(q) /\ q.asked.event \in Events
    BY <1>1, <1>16 DEF Judged, Aims
  <2>2. Plan[q.op][1] = "event"
    BY <1>16, PlansOf, Zenon DEF Inserting
  <2>3. 1 \in 1..q.step /\ 1 < q.step
    BY <1>9, <1>16
  <2>4. q.asked.event \in q.has
    BY <1>8, <2>2, <2>3
  <2> QED
    BY <1>15, <2>1, <2>4
<1>17. ASSUME q.op = "confirm_hold", q.step = 3
       PROVE  EventPlanning(q)'
  <2>1. EventPlanning(q) /\ q.asked.event \in Events
    BY <1>1, <1>17 DEF Judged, Aims, AboutBooking
  <2>2. Plan[q.op][1] = "event"
    BY <1>17, PlansOf, Zenon
  <2>3. 1 \in 1..q.step /\ 1 < q.step
    BY <1>17
  <2>4. q.asked.event \in q.has
    BY <1>8, <2>2, <2>3
  <2> QED
    BY <1>15, <2>1, <2>4
<1>18. ASSUME q.op = "approve", q.step >= 2, q.seen.event = "planning"
       PROVE  EventPlanning(q)'
  <2>1. /\ EventPlanning(q) /\ q.asked.event \in Events
        /\ q.booking \in Bookings /\ status[q.booking] = "requested" /\ asked[q.booking] = q.asked
    BY <1>1, <1>18 DEF Judged, Aims, AboutBooking
  <2>2. Plan[q.op][1] = "booking and original"
    BY <1>18, PlansOf, Zenon
  <2>3. 1 \in 1..q.step /\ 1 < q.step
    BY <1>9, <1>18
  <2>4. q.booking \in q.has
    BY <1>8, <2>1, <2>2, <2>3, NothingAssumption
  <2>5. q.booking \in LiveFor(q.asked.event)
    BY <2>1 DEF LiveFor, Live
  <2> QED
    BY <1>15, <2>1, <2>4, <2>5
<1>19. ASSUME q.op = "make_primary", q.seen.status \in Live
       PROVE  status'[q.booking] \notin {"none", "held"}
  <2>1. q.booking \in Bookings /\ status[q.booking] \notin {"none", "held"}
    BY <1>1, <1>2, <1>19 DEF Judged, AboutBooking
  <2> QED
    BY <2>1 DEF LeavesAlone, Holding, Live, Closed
<1>20. Judged(q)'
  BY <1>1, <1>10, <1>11, <1>12, <1>13, <1>14, <1>16, <1>17, <1>18, <1>19 DEF Judged
<1> QED
  BY <1>1, <1>5, <1>6, <1>20 DEF Sound

(* A step that ends a request, or none, and leaves the others alone.       *)
LEMMA OthersStand ==
  ASSUME IInv, TypeOK', Booked',
         \A p \in Requests : req'[p] = Idle \/
           (req'[p] = req[p] /\ (req[p] # Idle => /\ \A b \in Bookings : LeavesAlone(req[p], b)
                                             /\ \A e \in Events : LeavesEvent(req[p], e)))
  PROVE  IInv'
<1>1. Idle.has = {} /\ Idle.op = "none" /\ "none" \notin Inserting
  BY DEF Idle, Fresh, Inserting
<1>2. RequestsSound'
  <2> SUFFICES ASSUME NEW p \in Requests, ~(req[p] = Idle)'
               PROVE  Sound(req[p])'
    BY DEF RequestsSound
  <2>1. PICK m : m = req[p]
    OBVIOUS
  <2>2. m = req'[p] /\ m # Idle /\ (\A b \in Bookings : LeavesAlone(m, b)) /\ \A e \in Events : LeavesEvent(m, e)
    BY <2>1
  <2>3. Sound(m) /\ m \in Transaction
    BY <2>1, <2>2 DEF IInv, RequestsSound, TypeOK
  <2>4. Sound(m)'
    BY <2>2, <2>3, StaysSound
  <2>5. Aims(req[p])' /\ Taken(req[p])'
    BY <2>2, <2>4 DEF Sound, Aims, Taken, Keys
  <2>6. Judged(req[p])'
    BY <2>2, <2>4 DEF Sound, Judged, NoneApproved, ClaimingFor, ClaimingAt, LiveFor, EventPlanning
  <2> QED
    BY <2>2, <2>4, <2>5, <2>6 DEF Sound
<1>3. Exclusive' /\ Distinct'
  BY <1>1 DEF IInv, Exclusive, Distinct
<1> QED
  BY <1>2, <1>3 DEF IInv

(* What a request may do to a booking when it commits.                     *)
Touches(q, b) ==
  \/ status'[b] = status[b] /\ asked'[b] = asked[b]
  \/ /\ q.op \in Inserting /\ q.booking = b /\ q.asked.event \in q.has
     /\ status[b] = "none" /\ status'[b] \in Lapsing /\ asked'[b] = q.asked
  \/ /\ status[b] \in Holding /\ status'[b] \in Holding \cup Closed /\ asked'[b] = asked[b]
     /\ b \in q.has
     /\ status'[b] = "approved" => asked[b].venue \in q.has
     /\ status'[b] # "held" /\ (status[b] = "held" /\ status'[b] \in Live => asked[b].event \in q.has)

TouchesEvent(q, e) ==
  \/ eventStatus'[e] = eventStatus[e]
  \/ eventStatus[e] = "confirmed" /\ eventStatus'[e] = "planning"
  \/ e \in q.has /\ LiveFor(e) \subseteq q.has

(* It leaves the others alone by touching only what it has locked.         *)
LEMMA RequestEnds ==
  ASSUME IInv, NEW r \in Requests, End(r), TypeOK', Booked', \A b \in Bookings : Touches(req[r], b),
         \A e \in Events : TouchesEvent(req[r], e)
  PROVE  IInv'
<1>1. req'[r] = Idle /\ \A p \in Requests : p # r => req'[p] = req[p]
  BY DEF End, IInv, TypeOK
<1>2. ASSUME NEW p \in Requests, p # r, NEW b \in Bookings
      PROVE  LeavesAlone(req[p], b)
  <2>1. req[p].has \cap req[r].has = {}
    BY <1>2 DEF IInv, Exclusive
  <2>2. req[p].op \in Inserting /\ req[r].op \in Inserting => req[p].booking # req[r].booking
    BY <1>2 DEF IInv, Distinct
  <2> QED
    BY <2>1, <2>2 DEF Touches, LeavesAlone
<1>3. ASSUME NEW p \in Requests, p # r, NEW e \in Events
      PROVE  LeavesEvent(req[p], e)
  <2>1. req[p].has \cap req[r].has = {}
    BY <1>3 DEF IInv, Exclusive
  <2> QED
    BY <2>1 DEF TouchesEvent, LeavesEvent
<1> QED
  BY <1>1, <1>2, <1>3, OthersStand

(* A booking's window holds the time it was asked for.                     *)
LEMMA WindowHolds ==
  ASSUME NEW u \in Buffers, NEW w \in Windows
  PROVE  LET i == OccupiedWindow(u, w)
         IN i \in Window /\ i.from <= w.from /\ w.to <= i.to
BY WindowsAssumption DEF OccupiedWindow, Window

(* Commits that neither insert nor measure a booking.                      *)
LEMMA Updates ==
  ASSUME IInv, NEW r \in Requests, End(r),
         status' \in [Bookings -> {"none"} \cup Holding \cup Closed],
         asked' = asked, occupied' = occupied, buffers' = buffers, expiry' = expiry,
         primary' \in [Bookings -> BOOLEAN], mark' \in [Bookings -> Periods \cup {Nothing}],
         restore' \in [Bookings -> BOOLEAN],
         eventStatus' \in [Events -> {"planning", "confirmed", "cancelled"}],
         period' \in [Periods -> {"off", "on", "ended"}],
         \A b \in Bookings : status'[b] = status[b] \/
           /\ status[b] \in Holding /\ status'[b] \in Holding \cup Closed /\ b \in req[r].has
           /\ status'[b] = "approved" => asked[b].venue \in req[r].has
           /\ status'[b] # "held" /\ (status[b] = "held" /\ status'[b] \in Live => asked[b].event \in req[r].has),
         \A e \in Events : TouchesEvent(req[r], e)
  PROVE  IInv'
<1>1. Idle \in Transaction
  BY DEF Idle, Fresh, Transaction, Blank, Asked, NotSeen
<1>2. \A b \in Bookings : status'[b] # "none" => status[b] # "none"
  BY DEF Holding, Live
<1>3. req' \in [Requests -> Transaction]
  BY <1>1 DEF End, IInv, TypeOK
<1>4. TypeOK'
  BY <1>2, <1>3 DEF IInv, TypeOK
<1>5. Booked'
  BY <1>2 DEF IInv, Booked
<1>6. \A b \in Bookings : Touches(req[r], b)
  BY DEF Touches
<1> QED
  BY <1>4, <1>5, <1>6, RequestEnds

-----------------------------------------------------------------------------
(***************************************************************************)
(* Commits.                                                                *)
(***************************************************************************)

(* What a request that may commit has and knows.                           *)
LEMMA AtCommit ==
  ASSUME IInv, NEW r \in Requests, NEW op \in Operations, Ready(r, op)
  PROVE  LET q == req[r]
         IN /\ q.op = op /\ Passes(q) /\ q \in Transaction /\ Aims(q) /\ q.step = Len(Plan[q.op])
            /\ op \in Inserting => q.asked.event \in q.has /\ EventPlanning(q)
            /\ op \in {"confirm_hold", "withdraw", "reject", "approve"} =>
                 q.booking \in Bookings /\ q.booking \in q.has
            /\ op = "confirm_hold" =>
                 /\ status[q.booking] = "held" /\ q.asked = asked[q.booking]
                 /\ q.asked.event \in q.has /\ EventPlanning(q)
            /\ op = "approve" =>
                 /\ status[q.booking] = "requested"
                 /\ q.asked = asked[q.booking] /\ q.asked.venue \in q.has
                 /\ q.asked.replaces \in Bookings => q.asked.replaces \in q.has
                 /\ q.seen.event = "planning" => EventPlanning(q)
            /\ op = "edit_buffers" =>
                 q.asked.venue \in Venues /\ q.buffers \in Buffers /\ NoneApproved(q.asked.venue)
            /\ op = "cancel_event" =>
                 q.asked.event \in q.has /\ ClaimingFor(q.asked.event) \subseteq q.has
            /\ op \in Settling => q.asked.event \in q.has /\ LiveFor(q.asked.event) \subseteq q.has
            /\ op = "make_primary" =>
                 q.booking \in Bookings /\ q.asked = asked[q.booking] /\ q.asked.event \in q.has
                 /\ status[q.booking] \notin {"none", "held"}
<1>1. req[r].op = op /\ req[r].todo = {} /\ req[r].step = Len(Plan[req[r].op]) /\ Passes(req[r]) /\ op # "none"
  BY DEF Ready, Locked, Last, Operations, Plan
<1>2. Sound(req[r]) /\ req[r] \in Transaction
  BY <1>1, Prepared
<1>3. op \in {"confirm_hold", "make_primary", "withdraw", "reject", "approve"} =>
        req[r].booking \in Bookings /\ req[r].asked = asked[req[r].booking]
  BY <1>1, <1>2 DEF Sound, Aims, AboutBooking
<1>4. op = "edit_buffers" => req[r].asked.venue \in Venues /\ req[r].buffers \in Buffers
  BY <1>1, <1>2 DEF Sound, Aims
<1> QED
  BY <1>1, <1>2, <1>3, <1>4, Prepared DEF Sound

(* A step that sets no event leaves each event to whoever has it.         *)
LEMMA TouchesNothing ==
  ASSUME eventStatus' = eventStatus
  PROVE  \A q : \A e \in Events : TouchesEvent(q, e) /\ LeavesEvent(q, e)
BY DEF TouchesEvent, LeavesEvent

(* A booking or hold that is inserted occupies its venue by the buffers    *)
(* the venue has.                                                          *)
LEMMA Inserts ==
  ASSUME IInv, NEW r \in Requests, Create(r) \/ PlaceHold(r)
  PROVE  LET q == req[r] b == req[r].booking
         IN /\ IInv' /\ EventPlanning(q) /\ eventStatus' = eventStatus
            /\ b \in Bookings /\ status[b] = "none" /\ asked' = [asked EXCEPT ![b] = q.asked]
            /\ \E s \in Lapsing : status' = [status EXCEPT ![b] = s]
            /\ occupied' = [occupied EXCEPT ![b] = AskedWindow(q)] /\ buffers' = buffers
            /\ q.asked.venue \in Venues
            /\ Apart(q.asked.venue, AskedWindow(q))
<1> DEFINE q == req[r]
           b == q.booking
<1>1. PICK op \in Inserting : Ready(r, op)
  BY DEF Create, PlaceHold, Inserting
<1>2. op \in Operations
  BY DEF Inserting, Operations, Plan
<1>3. q.op = op /\ Passes(q) /\ q \in Transaction /\ Aims(q) /\ q.step = Len(Plan[q.op])
      /\ q.asked.event \in q.has /\ EventPlanning(q)
  BY <1>1, <1>2, AtCommit
<1>4. /\ b \in Bookings /\ status[b] = "none"
      /\ q.asked.event \in Events /\ q.asked.venue \in Venues /\ q.asked.at \in Windows
  BY <1>3 DEF Aims
<1>5. /\ End(r) /\ buffers' = buffers /\ mark' = mark /\ restore' = restore
      /\ eventStatus' = eventStatus /\ period' = period
  BY DEF Create, PlaceHold, otherVars
<1>6. /\ asked' = [asked EXCEPT ![b] = q.asked]
      /\ occupied' = [occupied EXCEPT ![b] = AskedWindow(q)]
  BY DEF Create, PlaceHold
<1>7. PICK s \in Lapsing : status' = [status EXCEPT ![b] = s]
  BY DEF Create, PlaceHold, Lapsing
<1>8. Apart(q.asked.venue, AskedWindow(q))
  <2>1. /\ op = "create" => q.step = 4
        /\ op = "place_hold" => q.step = 3
    BY <1>3, PlansOf, Zenon
  <2>2. CASE op = "create"
    BY <1>3, <2>1, <2>2 DEF Passes, MayCreate
  <2>3. CASE op = "place_hold"
    BY <1>3, <2>1, <2>3 DEF Passes, MayPlaceHold
  <2> QED
    BY <2>2, <2>3 DEF Inserting
<1>9. TypeOK /\ buffers[q.asked.venue] \in Buffers
  BY <1>4 DEF IInv, TypeOK
<1>10. /\ AskedWindow(q) \in Window
       /\ AskedWindow(q).from <= q.asked.at.from /\ q.asked.at.to <= AskedWindow(q).to
  BY <1>4, <1>9, WindowHolds DEF AskedWindow
<1>11. q.asked \in Asked
  BY <1>3 DEF Transaction
<1>12. TypeOK'
  <2>1. req' \in [Requests -> Transaction]
    <3>1. Idle \in Transaction
      BY DEF Idle, Fresh, Transaction, Blank, Asked, NotSeen
    <3> QED
      BY <1>5, <1>9, <3>1 DEF End, TypeOK
  <2>2. status' \in [Bookings -> {"none"} \cup Holding \cup Closed] /\ asked' \in [Bookings -> Asked]
    BY <1>6, <1>7, <1>9, <1>11 DEF TypeOK, Lapsing, Holding, Live
  <2>3. occupied' \in [Bookings -> Window \cup {Nothing}]
    BY <1>6, <1>9, <1>10 DEF TypeOK
  <2>4. primary' \in [Bookings -> BOOLEAN] /\ expiry' \in [Bookings -> {"none", "ahead", "past"}]
    BY <1>9 DEF Create, PlaceHold, TypeOK
  <2>5. \A c \in Bookings : status'[c] # "none" =>
          occupied'[c].from <= asked'[c].at.from /\ asked'[c].at.to <= occupied'[c].to
    <3> SUFFICES ASSUME NEW c \in Bookings, status'[c] # "none"
                 PROVE  occupied'[c].from <= asked'[c].at.from /\ asked'[c].at.to <= occupied'[c].to
      OBVIOUS
    <3>1. CASE c = b
      <4>1. occupied'[c] = AskedWindow(q) /\ asked'[c] = q.asked
        BY <1>4, <1>6, <1>9, <3>1 DEF TypeOK
      <4> QED
        BY <1>10, <4>1
    <3>2. CASE c # b
      <4>1. occupied'[c] = occupied[c] /\ asked'[c] = asked[c] /\ status'[c] = status[c]
        BY <1>6, <1>7, <1>9, <3>2 DEF TypeOK
      <4> QED
        BY <1>9, <4>1 DEF TypeOK
    <3> QED
      BY <3>1, <3>2
  <2> QED
    BY <1>5, <1>9, <2>1, <2>2, <2>3, <2>4, <2>5 DEF TypeOK
<1>13. Booked'
  BY <1>4, <1>6, <1>7, <1>9 DEF Booked, IInv, TypeOK
<1>14. \A c \in Bookings : Touches(q, c)
  BY <1>3, <1>4, <1>6, <1>7, <1>9 DEF Touches, TypeOK
<1>15. IInv'
  BY <1>5, TouchesNothing, <1>12, <1>13, <1>14, RequestEnds
<1> QED
  BY <1>3, <1>4, <1>5, <1>6, <1>7, <1>8, <1>15

(* A hold is confirmed while its event is in planning.                    *)
LEMMA ConfirmsHold ==
  ASSUME IInv, NEW r \in Requests, ConfirmHold(r)
  PROVE  LET b == req[r].booking
         IN IInv' /\ b \in Bookings /\ status[b] = "held" /\ eventStatus[asked[b].event] = "planning"
<1>1. /\ req[r].booking \in Bookings /\ req[r].booking \in req[r].has
      /\ status[req[r].booking] = "held"
      /\ asked[req[r].booking].event \in req[r].has /\ eventStatus[asked[req[r].booking].event] = "planning"
  BY AtCommit DEF ConfirmHold, Operations, Plan, EventPlanning
<1>2. TypeOK
  BY DEF IInv
<1>3. IInv'
  BY <1>1, <1>2, Updates, TouchesNothing DEF ConfirmHold, TypeOK, otherVars, Holding, Live
<1> QED
  BY <1>1, <1>3

(* make_primary changes no status.                                        *)
LEMMA MakesPrimary ==
  ASSUME IInv, NEW r \in Requests, MakePrimary(r)
  PROVE  IInv'
BY Updates, TouchesNothing DEF MakePrimary, IInv, TypeOK, otherVars

(* What is withdrawn or rejected was claiming its venue.                  *)
LEMMA GivesUp ==
  ASSUME IInv, NEW r \in Requests, Withdraw(r) \/ Reject(r)
  PROVE  LET b == req[r].booking
         IN /\ IInv'
            /\ b \in Bookings /\ status[b] \in Holding
            /\ \E s \in Closed : status' = [c \in Bookings |-> IF c \in {b} THEN s ELSE status[c]]
<1> DEFINE b == req[r].booking
<1>1. PICK op \in {"withdraw", "reject"} : Ready(r, op)
  BY DEF Withdraw, Reject
<1>2. b \in Bookings /\ b \in req[r].has /\ req[r].op = op /\ Passes(req[r])
  BY <1>1, AtCommit DEF Operations, Plan
<1>3. status[b] \in Holding
  BY <1>2 DEF Passes, MayWithdraw, MayReject, Pending, Holding, Live
<1>4. PICK s \in Closed : status' = [c \in Bookings |-> IF c \in {b} THEN s ELSE status[c]]
  BY DEF Withdraw, Reject, Close, Closed
<1>5. /\ restore' = [c \in Bookings |-> restore[c] /\ c \notin {b}]
      /\ End(r) /\ UNCHANGED <<asked, occupied, primary, mark, expiry, otherVars>>
  BY DEF Withdraw, Reject, Close
<1>6. TypeOK
  BY DEF IInv
<1>7. status' \in [Bookings -> {"none"} \cup Holding \cup Closed]
  BY <1>4, <1>6 DEF TypeOK
<1>8. \A c \in Bookings : status'[c] = status[c] \/
        /\ status[c] \in Holding /\ status'[c] \in Holding \cup Closed /\ c \in req[r].has
        /\ status'[c] \notin Holding
  BY <1>2, <1>3, <1>4 DEF Closed, Holding, Live
<1>9. restore' \in [Bookings -> BOOLEAN]
  BY <1>5, <1>6 DEF TypeOK
<1>10. IInv'
  BY <1>5, <1>6, <1>7, <1>8, <1>9, Updates, TouchesNothing DEF TypeOK, otherVars, Holding, Live
<1> QED
  BY <1>2, <1>3, <1>4, <1>10

(* An approval is of a booking that is still requested, for an event      *)
(* still in planning.                                                     *)
LEMMA Approves ==
  ASSUME IInv, NEW r \in Requests, Approve(r)
  PROVE  LET b == req[r].booking
         IN /\ IInv'
            /\ b \in Bookings /\ status[b] = "requested" /\ eventStatus[asked[b].event] = "planning"
            /\ \E others \in SUBSET (Claiming \ {b}) :
                 status' = [c \in Bookings |-> IF c = b THEN "approved"
                                               ELSE IF c \in others THEN "replaced" ELSE status[c]]
<1> DEFINE q == req[r]
           b == q.booking
           replaced == {o \in {q.asked.replaces} \cap Bookings : NeedsRearrangement(o)}
<1>1. /\ b \in Bookings /\ b \in q.has /\ status[b] = "requested"
      /\ q.asked = asked[b] /\ q.asked.venue \in q.has
      /\ q.asked.replaces \in Bookings => q.asked.replaces \in q.has
      /\ q.op = "approve" /\ q.step = Len(Plan[q.op]) /\ Passes(q)
      /\ q.seen.event = "planning" => EventPlanning(q)
  BY AtCommit DEF Approve, Operations, Plan
<1>2. replaced \subseteq Claiming /\ replaced \subseteq q.has
  BY <1>1 DEF NeedsRearrangement, Claiming
<1>3. /\ status' = [c \in Bookings |-> IF c = b THEN "approved"
                                      ELSE IF c \in replaced THEN "replaced" ELSE status[c]]
      /\ restore' = [c \in Bookings |-> restore[c] /\ c \notin replaced]
      /\ primary' = [primary EXCEPT ![b] = @ \/ \E o \in replaced : primary[o]]
      /\ End(r) /\ UNCHANGED <<asked, occupied, mark, expiry, otherVars>>
  BY DEF Approve
<1>4. TypeOK
  BY DEF IInv
<1> HIDE DEF q, b, replaced
<1>5. status' \in [Bookings -> {"none"} \cup Holding \cup Closed]
  BY <1>3, <1>4 DEF TypeOK, Holding, Live, Closed
<1>6. restore' \in [Bookings -> BOOLEAN] /\ primary' \in [Bookings -> BOOLEAN]
  BY <1>3, <1>4 DEF TypeOK
<1>7. \A c \in Bookings : status'[c] = status[c] \/
        /\ status[c] \in Holding /\ status'[c] \in Holding \cup Closed /\ c \in q.has
        /\ status'[c] = "approved" => asked[c].venue \in q.has
        /\ status'[c] # "held" /\ (status[c] = "held" => status'[c] \notin Live)
  BY <1>1, <1>2, <1>3 DEF Claiming, Holding, Live, Closed
<1>8. IInv'
  BY <1>3, <1>4, <1>5, <1>6, <1>7, Updates, TouchesNothing DEF TypeOK, otherVars, q
<1>9. \E others \in SUBSET (Claiming \ {b}) :
        status' = [c \in Bookings |-> IF c = b THEN "approved"
                                      ELSE IF c \in others THEN "replaced" ELSE status[c]]
  <2>1. status' = [c \in Bookings |-> IF c = b THEN "approved"
                                      ELSE IF c \in replaced \ {b} THEN "replaced" ELSE status[c]]
    BY <1>3
  <2> QED
    BY <1>2, <2>1
<1>10. eventStatus[asked[b].event] = "planning"
  <2>1. q.step = 3
    BY <1>1, PlansOf, Zenon
  <2>2. q.seen.event = "planning"
    BY <1>1, <2>1 DEF Passes, MayApprove
  <2> QED
    BY <1>1, <2>2 DEF EventPlanning
<1> QED
  BY <1>1, <1>8, <1>9, <1>10 DEF q, b

(* Asking for a restore, declining and confirming it change no status.    *)
LEMMA Restores ==
  ASSUME IInv, NEW r \in Requests, RequestRestore(r) \/ DeclineRestore(r) \/ ConfirmRestore(r)
  PROVE  IInv'
BY Updates, TouchesNothing DEF RequestRestore, DeclineRestore, ConfirmRestore, IInv, TypeOK, otherVars

(* A recorded period marks bookings and reopens events.                   *)
LEMMA RecordsPeriod ==
  ASSUME IInv, NEW r \in Requests, RecordPeriod(r)
  PROVE  IInv'
<1>1. req[r].period \in Periods
  <2>1. Aims(req[r]) /\ req[r].op = "record_period"
    BY AtCommit DEF RecordPeriod, Operations, Plan
  <2> QED
    BY <2>1 DEF Aims, AboutPeriod
<1>2. TypeOK
  BY DEF IInv
<1>3. /\ mark' \in [Bookings -> Periods \cup {Nothing}]
      /\ eventStatus' \in [Events -> {"planning", "confirmed", "cancelled"}]
      /\ period' \in [Periods -> {"off", "on", "ended"}]
  BY <1>1, <1>2 DEF RecordPeriod, TypeOK
<1>4. \A e \in Events : TouchesEvent(req[r], e)
  BY <1>2 DEF RecordPeriod, TouchesEvent, TypeOK
<1> QED
  BY <1>2, <1>3, <1>4, Updates DEF RecordPeriod, TypeOK

(* A period that ends hands its marks on.                                 *)
LEMMA EndsPeriod ==
  ASSUME IInv, NEW r \in Requests, EndPeriod(r)
  PROVE  IInv'
<1>1. TypeOK
  BY DEF IInv
<1>2. /\ mark' \in [Bookings -> Periods \cup {Nothing}]
      /\ period' \in [Periods -> {"off", "on", "ended"}]
  BY <1>1 DEF EndPeriod, TypeOK
<1> QED
  BY <1>1, <1>2, Updates, TouchesNothing DEF EndPeriod, TypeOK

(* While a venue's buffers are edited none of its bookings is approved, so *)
(* each of its bookings and holds is measured again.                       *)
LEMMA EditsBuffers ==
  ASSUME IInv, NEW r \in Requests, EditBuffers(r)
  PROVE  LET q == req[r] v == req[r].asked.venue
         IN /\ IInv'
            /\ v \in Venues /\ q.buffers \in Buffers /\ buffers' = [buffers EXCEPT ![v] = q.buffers]
            /\ status' = status /\ asked' = asked
            /\ NoneApproved(v) /\ ClaimingAt(v) = Remeasured(v)
            /\ occupied' = [b \in Bookings |-> IF b \in ClaimingAt(v) THEN OccupiedWindow(q.buffers, asked[b].at)
                                               ELSE occupied[b]]
            /\ \A c \in ClaimingAt(v) : \A d \in ClaimingAt(v) \ {c} : ~Overlap(occupied'[c], occupied'[d])
<1> DEFINE q == req[r]
           v == q.asked.venue
<1>1. q.op = "edit_buffers" /\ Passes(q) /\ q.step = Len(Plan[q.op])
      /\ v \in Venues /\ q.buffers \in Buffers /\ NoneApproved(v)
  BY AtCommit DEF EditBuffers, Operations, Plan
<1>2. TypeOK /\ Booked
  BY DEF IInv
<1>3. ClaimingAt(v) = Remeasured(v)
  BY <1>1 DEF NoneApproved, Remeasured, ClaimingAt, Claiming, Lapsing, Holding, Live
<1>4. \A b \in ClaimingAt(v) : /\ b \in Bookings /\ asked[b].venue = v
                              /\ Measure(b, q.buffers) = OccupiedWindow(q.buffers, asked[b].at)
  BY <1>3 DEF Measure, ClaimingAt, Claiming
<1>5. occupied' = [b \in Bookings |-> IF b \in ClaimingAt(v) THEN OccupiedWindow(q.buffers, asked[b].at)
                                      ELSE occupied[b]]
  BY <1>3, <1>4 DEF EditBuffers
<1>6. q.step = 2
  BY <1>1, PlansOf, Zenon
<1>7. ~Clash(v, q.buffers)
  BY <1>1, <1>6 DEF Passes, MayEditBuffers
<1>8. \A c \in ClaimingAt(v) : \A d \in ClaimingAt(v) \ {c} : ~Overlap(occupied'[c], occupied'[d])
  BY <1>3, <1>4, <1>5, <1>7 DEF Clash
<1>9. End(r) /\ UNCHANGED <<status, asked, primary, mark, restore, expiry, eventStatus, period>>
      /\ buffers' = [buffers EXCEPT ![v] = q.buffers]
  BY DEF EditBuffers
<1>10. \A b \in ClaimingAt(v) :
         LET i == OccupiedWindow(q.buffers, asked[b].at)
         IN i \in Window /\ i.from <= asked[b].at.from /\ asked[b].at.to <= i.to
  <2>1. \A b \in ClaimingAt(v) : asked[b].at \in Windows
    BY <1>2 DEF Booked, ClaimingAt, Claiming, Holding, Live
  <2> QED
    BY <1>1, <2>1, WindowHolds
<1> HIDE DEF q, v
<1>11. TypeOK'
  <2>1. req' \in [Requests -> Transaction]
    <3>1. Idle \in Transaction
      BY DEF Idle, Fresh, Transaction, Blank, Asked, NotSeen
    <3> QED
      BY <1>2, <1>9, <3>1 DEF End, TypeOK
  <2>2. occupied' \in [Bookings -> Window \cup {Nothing}]
    BY <1>2, <1>5, <1>10 DEF TypeOK
  <2>3. \A b \in Bookings : status'[b] # "none" =>
          occupied'[b].from <= asked'[b].at.from /\ asked'[b].at.to <= occupied'[b].to
    BY <1>2, <1>5, <1>9, <1>10 DEF TypeOK
  <2>4. buffers' \in [Venues -> Buffers]
    BY <1>1, <1>2, <1>9 DEF TypeOK
  <2> QED
    BY <1>2, <1>9, <2>1, <2>2, <2>3, <2>4 DEF TypeOK
<1>12. Booked' /\ \A b \in Bookings : Touches(req[r], b)
  BY <1>2, <1>9 DEF Booked, Touches
<1>13. IInv'
  BY <1>9, <1>11, <1>12, RequestEnds, TouchesNothing
<1> QED
  BY <1>1, <1>3, <1>5, <1>8, <1>9, <1>13 DEF q, v

(* A cancelled event takes all its claims with it, each of them locked.   *)
LEMMA CancelsEvent ==
  ASSUME IInv, NEW r \in Requests, CancelEvent(r)
  PROVE  /\ IInv'
         /\ \E leaving \in SUBSET Claiming :
              status' = [b \in Bookings |-> IF b \in leaving THEN "withdrawn" ELSE status[b]]
<1> DEFINE leaving == ClaimingFor(req[r].asked.event)
<1>1. leaving \subseteq req[r].has /\ req[r].asked.event \in req[r].has
  BY AtCommit DEF CancelEvent, Operations, Plan
<1>2. leaving \subseteq Claiming
  BY DEF ClaimingFor
<1>3. /\ status' = [b \in Bookings |-> IF b \in leaving THEN "withdrawn" ELSE status[b]]
      /\ restore' = [b \in Bookings |-> restore[b] /\ b \notin leaving]
      /\ eventStatus' = [eventStatus EXCEPT ![req[r].asked.event] = "cancelled"]
      /\ End(r) /\ UNCHANGED <<asked, occupied, primary, mark, expiry, buffers, period>>
  BY DEF CancelEvent, Close, SetEvent
<1>4. TypeOK
  BY DEF IInv
<1> HIDE DEF leaving
<1>5. status' \in [Bookings -> {"none"} \cup Holding \cup Closed]
  BY <1>3, <1>4 DEF TypeOK, Closed
<1>6. \A b \in Bookings : status'[b] = status[b] \/
        /\ status[b] \in Holding /\ status'[b] \in Holding \cup Closed /\ b \in req[r].has
        /\ status'[b] \notin Holding
  BY <1>1, <1>2, <1>3 DEF Claiming, Closed, Holding, Live
<1>7. /\ eventStatus' \in [Events -> {"planning", "confirmed", "cancelled"}]
      /\ restore' \in [Bookings -> BOOLEAN]
  BY <1>3, <1>4 DEF TypeOK
<1>8. \A e \in Events : TouchesEvent(req[r], e)
  <2>1. \A e : LiveFor(e) \subseteq ClaimingFor(e)
    BY DEF LiveFor, ClaimingFor, Claiming, Holding
  <2> QED
    BY <1>1, <1>3, <1>4, <2>1 DEF TouchesEvent, TypeOK, leaving
<1>9. IInv'
  BY <1>3, <1>4, <1>5, <1>6, <1>7, <1>8, Updates DEF TypeOK, Holding, Live
<1> QED
  BY <1>2, <1>3, <1>9

(* Whoever confirms or changes an event has it and its venues.            *)
LEMMA SetsEvent ==
  ASSUME IInv, NEW r \in Requests, ConfirmEvent(r) \/ ChangeEvent(r)
  PROVE  IInv'
<1>1. req[r].asked.event \in req[r].has /\ LiveFor(req[r].asked.event) \subseteq req[r].has
  BY AtCommit DEF ConfirmEvent, ChangeEvent, Settling, Operations, Plan
<1>2. TypeOK
  BY DEF IInv
<1>3. PICK s \in {"planning", "confirmed"} : eventStatus' = [eventStatus EXCEPT ![req[r].asked.event] = s]
  BY DEF ConfirmEvent, ChangeEvent, SetEvent
<1>4. \A e \in Events : TouchesEvent(req[r], e)
  BY <1>1, <1>2, <1>3 DEF TouchesEvent, TypeOK
<1>5. eventStatus' \in [Events -> {"planning", "confirmed", "cancelled"}]
  BY <1>2, <1>3 DEF TypeOK
<1> QED
  BY <1>2, <1>4, <1>5, Updates DEF ConfirmEvent, ChangeEvent, TypeOK, bookingVars

(* A hold or request that lapsed is nobody's.                              *)
LEMMA Lapses ==
  ASSUME IInv, NEW b \in Bookings, LapseHold(b)
  PROVE  IInv'
<1>1. /\ status[b] \in Lapsing /\ \A r \in Requests : b \notin req[r].has
      /\ status' = [c \in Bookings |-> IF c \in {b} THEN "expired" ELSE status[c]]
      /\ restore' = [c \in Bookings |-> restore[c] /\ c \notin {b}]
      /\ primary' = [primary EXCEPT ![b] = FALSE]
      /\ UNCHANGED <<asked, occupied, mark, expiry, otherVars, req>>
  BY DEF LapseHold, Close
<1>2. TypeOK /\ Booked
  BY DEF IInv
<1>3. status' \in [Bookings -> {"none"} \cup Holding \cup Closed]
  BY <1>1, <1>2 DEF TypeOK, Closed
<1>4. \A c \in Bookings : status'[c] # "none" => status[c] # "none"
  BY <1>1 DEF Lapsing
<1>5. restore' \in [Bookings -> BOOLEAN] /\ primary' \in [Bookings -> BOOLEAN]
  BY <1>1, <1>2 DEF TypeOK
<1>6. TypeOK' /\ Booked'
  BY <1>1, <1>2, <1>3, <1>4, <1>5 DEF TypeOK, Booked, otherVars
<1>7. \A r \in Requests : \A c \in Bookings : LeavesAlone(req[r], c)
  BY <1>1 DEF LeavesAlone, Lapsing, Holding, Live, Closed
<1> QED
  BY <1>1, <1>6, <1>7, OthersStand, TouchesNothing DEF otherVars

(* A hold that comes due is not yet expired.                              *)
LEMMA ComesDue ==
  ASSUME IInv, NEW b \in Bookings, HoldDue(b)
  PROVE  IInv'
<1>1. TypeOK' /\ Booked'
  BY DEF HoldDue, otherVars, IInv, TypeOK, Booked
<1>2. \A r \in Requests : \A c \in Bookings : LeavesAlone(req[r], c)
  BY DEF HoldDue, LeavesAlone
<1> QED
  BY <1>1, <1>2, OthersStand, TouchesNothing DEF HoldDue, otherVars

(* A refused or aborted request changes nothing.                          *)
LEMMA Unanswered ==
  ASSUME IInv, NEW r \in Requests, Refuse(r) \/ Abort(r)
  PROVE  IInv'
BY Updates, TouchesNothing DEF Refuse, Abort, bookingVars, otherVars, IInv, TypeOK

-----------------------------------------------------------------------------
(***************************************************************************)
(* What any step does to the calendar.                                     *)
(***************************************************************************)

Nowhere == UNCHANGED <<status, asked, occupied, buffers>>

Inserted(b, a) ==
  /\ b \in Bookings /\ status[b] = "none" /\ a.venue \in Venues
  /\ \E s \in Lapsing : status' = [status EXCEPT ![b] = s]
  /\ asked' = [asked EXCEPT ![b] = a]
  /\ occupied' = [occupied EXCEPT ![b] = OccupiedWindow(buffers[a.venue], a.at)]
  /\ buffers' = buffers
  /\ Apart(a.venue, OccupiedWindow(buffers[a.venue], a.at))
  /\ eventStatus[a.event] = "planning"

HoldConfirmed(b) ==
  /\ b \in Bookings /\ eventStatus[asked[b].event] = "planning"
  /\ status[b] = "held" /\ status' = [status EXCEPT ![b] = "requested"]
  /\ UNCHANGED <<asked, occupied, buffers>>

ApprovedOver(b, others) ==
  /\ b \in Bookings /\ eventStatus[asked[b].event] = "planning" /\ status[b] = "requested"
  /\ status' = [c \in Bookings |-> IF c = b THEN "approved"
                                   ELSE IF c \in others THEN "replaced" ELSE status[c]]
  /\ UNCHANGED <<asked, occupied, buffers>>

GivenUp(leaving, s) ==
  /\ s \in Closed
  /\ status' = [b \in Bookings |-> IF b \in leaving THEN s ELSE status[b]]
  /\ UNCHANGED <<asked, occupied, buffers>>

MeasuredAgain(v, u) ==
  /\ v \in Venues /\ u \in Buffers /\ NoneApproved(v)
  /\ buffers' = [buffers EXCEPT ![v] = u]
  /\ occupied' = [b \in Bookings |-> IF b \in ClaimingAt(v) THEN OccupiedWindow(u, asked[b].at)
                                     ELSE occupied[b]]
  /\ \A c \in ClaimingAt(v) : \A d \in ClaimingAt(v) \ {c} : ~Overlap(occupied'[c], occupied'[d])
  /\ UNCHANGED <<status, asked>>

Change ==
  \/ Nowhere
  \/ \E b \in Bookings : \E a \in Asked : Inserted(b, a)
  \/ \E b \in Bookings : HoldConfirmed(b)
  \/ \E b \in Bookings : \E others \in SUBSET (Claiming \ {b}) : ApprovedOver(b, others)
  \/ \E leaving \in SUBSET Claiming : \E s \in Closed : GivenUp(leaving, s)
  \/ \E v \in Venues : \E u \in Buffers : MeasuredAgain(v, u)

(* Every step keeps the invariant and does one of these.                   *)
LEMMA Step ==
  ASSUME IInv, [Next]_vars
  PROVE  IInv' /\ Change
<1>1. ASSUME NEW r \in Requests, NEW op \in Offered, Begin(r, op)
      PROVE  IInv' /\ Change
  BY <1>1, Begins DEF Begin, bookingVars, otherVars, Change, Nowhere
<1>2. ASSUME NEW r \in Requests, Lock(r)
      PROVE  IInv' /\ Change
  BY <1>2, Locks DEF Lock, bookingVars, otherVars, Change, Nowhere
<1>3. ASSUME NEW r \in Requests, GoOn(r)
      PROVE  IInv' /\ Change
  <2>1. CASE Proceed(r)
    BY <2>1, Proceeds DEF Proceed, bookingVars, otherVars, Change, Nowhere
  <2>2. CASE Refuse(r) \/ Abort(r)
    BY <2>2, Unanswered DEF Refuse, Abort, bookingVars, otherVars, Change, Nowhere
  <2>3. CASE Create(r) \/ PlaceHold(r)
    <3>1. IInv' /\ Inserted(req[r].booking, req[r].asked)
      BY <2>3, Inserts DEF Inserted, AskedWindow, EventPlanning
    <3>2. req[r].booking \in Bookings /\ req[r].asked \in Asked
      BY <3>1 DEF Inserted, IInv, TypeOK, Transaction
    <3> QED
      BY <3>1, <3>2, Zenon DEF Change
  <2>4. CASE ConfirmHold(r)
    <3>1. IInv' /\ HoldConfirmed(req[r].booking) /\ req[r].booking \in Bookings
      BY <2>4, ConfirmsHold DEF HoldConfirmed, ConfirmHold, otherVars
    <3> QED
      BY <3>1, Zenon DEF Change
  <2>5. CASE MakePrimary(r)
    BY <2>5, MakesPrimary DEF MakePrimary, otherVars, Change, Nowhere
  <2>6. CASE Withdraw(r) \/ Reject(r)
    <3>1. PICK s \in Closed : status' = [c \in Bookings |-> IF c \in {req[r].booking} THEN s ELSE status[c]]
      BY <2>6, GivesUp
    <3>2. IInv' /\ {req[r].booking} \in SUBSET Claiming
      BY <2>6, GivesUp DEF Claiming
    <3>3. GivenUp({req[r].booking}, s)
      BY <2>6, <3>1 DEF GivenUp, Withdraw, Reject, otherVars
    <3> QED
      BY <3>2, <3>3, Zenon DEF Change
  <2>7. CASE Approve(r)
    <3>1. IInv' /\ req[r].booking \in Bookings /\ UNCHANGED <<asked, occupied, buffers>>
      BY <2>7, Approves DEF Approve, otherVars
    <3>2. PICK others \in SUBSET (Claiming \ {req[r].booking}) : ApprovedOver(req[r].booking, others)
      BY <2>7, <3>1, Approves DEF ApprovedOver
    <3> QED
      BY <3>1, <3>2, Zenon DEF Change
  <2>8. CASE RequestRestore(r) \/ DeclineRestore(r) \/ ConfirmRestore(r)
    BY <2>8, Restores DEF RequestRestore, DeclineRestore, ConfirmRestore, otherVars, Change, Nowhere
  <2>9. CASE RecordPeriod(r)
    BY <2>9, RecordsPeriod DEF RecordPeriod, Change, Nowhere
  <2>10. CASE EndPeriod(r)
    BY <2>10, EndsPeriod DEF EndPeriod, Change, Nowhere
  <2>11. CASE EditBuffers(r)
    <3>1. IInv' /\ MeasuredAgain(req[r].asked.venue, req[r].buffers)
      BY <2>11, EditsBuffers DEF MeasuredAgain
    <3>2. req[r].asked.venue \in Venues /\ req[r].buffers \in Buffers
      BY <3>1 DEF MeasuredAgain
    <3> QED
      BY <3>1, <3>2, Zenon DEF Change
  <2>12. CASE CancelEvent(r)
    <3>1. PICK leaving \in SUBSET Claiming :
            status' = [b \in Bookings |-> IF b \in leaving THEN "withdrawn" ELSE status[b]]
      BY <2>12, CancelsEvent
    <3>2. IInv' /\ GivenUp(leaving, "withdrawn") /\ "withdrawn" \in Closed
      BY <2>12, <3>1, CancelsEvent DEF GivenUp, CancelEvent, Closed
    <3> QED
      BY <3>2, Zenon DEF Change
  <2>13. CASE ConfirmEvent(r) \/ ChangeEvent(r)
    BY <2>13, SetsEvent DEF ConfirmEvent, ChangeEvent, bookingVars, Change, Nowhere
  <2> QED
    BY <1>3, <2>1, <2>2, <2>3, <2>4, <2>5, <2>6, <2>7, <2>8, <2>9, <2>10, <2>11, <2>12, <2>13
       DEF GoOn, Commit
<1>4. ASSUME NEW b \in Bookings, HoldDue(b)
      PROVE  IInv' /\ Change
  BY <1>4, ComesDue DEF HoldDue, otherVars, Change, Nowhere
<1>5. ASSUME NEW b \in Bookings, LapseHold(b)
      PROVE  IInv' /\ Change
  <2>1. IInv' /\ GivenUp({b}, "expired") /\ "expired" \in Closed
    BY <1>5, Lapses DEF GivenUp, LapseHold, Close, Closed, otherVars
  <2>2. {b} \in SUBSET Claiming
    BY <1>5 DEF LapseHold, Claiming, Lapsing, Holding, Live
  <2> QED
    BY <2>1, <2>2, Zenon DEF Change
<1>6. CASE UNCHANGED vars
  <2>1. TypeOK' /\ Booked' /\ Nowhere /\ req' = req
    BY <1>6 DEF vars, IInv, TypeOK, Booked, Nowhere
  <2>2. \A p \in Requests : \A b \in Bookings : LeavesAlone(req[p], b)
    BY <2>1 DEF LeavesAlone, Nowhere
  <2> QED
    BY <1>6, <2>1, <2>2, OthersStand, TouchesNothing DEF Change, vars
<1> QED
  BY <1>1, <1>2, <1>3, <1>4, <1>5, <1>6 DEF Next

-----------------------------------------------------------------------------
(***************************************************************************)
(* The theorems.                                                           *)
(***************************************************************************)

(* What holds at the start.                                               *)
LEMMA Starts == Init => IInv /\ NoDoubleBooking /\ WindowsCurrent
<1> SUFFICES ASSUME Init PROVE IInv /\ NoDoubleBooking /\ WindowsCurrent
  OBVIOUS
<1>1. /\ Idle \in Transaction /\ Idle.has = {} /\ Idle.op = "none" /\ Blank \in Asked
      /\ "none" \notin Inserting /\ "none" \notin Holding
  BY DEF Idle, Fresh, Transaction, Blank, Asked, NotSeen, Inserting, Holding, Live
<1>2. TypeOK
  BY <1>1 DEF Init, TypeOK
<1>3. Booked /\ RequestsSound /\ Exclusive /\ Distinct
  BY <1>1 DEF Init, Booked, RequestsSound, Exclusive, Distinct
<1>4. Claiming = {}
  BY <1>1 DEF Init, Claiming
<1> QED
  BY <1>2, <1>3, <1>4 DEF IInv, NoDoubleBooking, WindowsCurrent

(* The invariant holds in every reachable state.                          *)
THEOREM Invariance == Spec => []IInv
<1>1. IInv /\ [Next]_vars => IInv'
  BY Step
<1> QED
  BY <1>1, Starts, PTL DEF Spec

(* Every variable keeps its type whatever requests run together, and a     *)
(* booking never occupies less than the time asked for.                    *)
THEOREM TypeCorrect == Spec => []TypeOK
<1>1. IInv => TypeOK
  BY DEF IInv
<1> QED
  BY <1>1, Invariance, PTL

(* No venue is ever booked or held twice at a time: an insert passes the   *)
(* exclusion constraint, an edit of the buffers measures every claim on    *)
(* the venue and looks for a clash, and nothing else changes what a claim  *)
(* occupies or brings a closed booking back.                               *)
THEOREM NeverDoubleBooked == Spec => []NoDoubleBooking
<1>1. IInv /\ NoDoubleBooking /\ [Next]_vars => NoDoubleBooking'
  <2> SUFFICES ASSUME IInv, NoDoubleBooking, [Next]_vars PROVE NoDoubleBooking'
    OBVIOUS
  <2>1. Change /\ TypeOK
    BY Step DEF IInv
  <2>2. ASSUME asked' = asked, occupied' = occupied, Claiming' \subseteq Claiming
        PROVE  NoDoubleBooking'
    BY <2>2 DEF NoDoubleBooking
  <2>3. CASE Nowhere
    BY <2>2, <2>3 DEF Nowhere, Claiming
  <2>4. ASSUME NEW b \in Bookings, NEW a \in Asked, Inserted(b, a)
        PROVE  NoDoubleBooking'
    <3> DEFINE i == OccupiedWindow(buffers[a.venue], a.at)
    <3>1. /\ asked'[b] = a /\ occupied'[b] = i
          /\ \A c \in Bookings \ {b} : asked'[c] = asked[c] /\ occupied'[c] = occupied[c] /\ status'[c] = status[c]
      BY <2>1, <2>4 DEF Inserted, TypeOK
    <3>2. Apart(a.venue, i)
      BY <2>4 DEF Inserted
    <3> HIDE DEF i
    <3>3. \A c \in Claiming' \ {b} : c \in Claiming /\ c \in Bookings
      BY <3>1 DEF Claiming
    <3>4. \A c \in Claiming' \ {b} : asked'[c].venue = a.venue => ~Overlap(occupied'[c], i)
      BY <3>1, <3>2, <3>3 DEF Apart, ClaimingAt
    <3>5. \A c : ~Overlap(occupied'[c], i) => ~Overlap(i, occupied'[c])
      BY DEF Overlap
    <3> SUFFICES ASSUME NEW c \in Claiming', NEW d \in Claiming', c # d, asked'[c].venue = asked'[d].venue
                 PROVE  ~Overlap(occupied'[c], occupied'[d])
      BY DEF NoDoubleBooking
    <3>6. CASE c # b /\ d # b
      BY <3>1, <3>3, <3>6 DEF NoDoubleBooking
    <3>7. CASE c = b
      BY <3>1, <3>4, <3>5, <3>7
    <3>8. CASE d = b
      BY <3>1, <3>4, <3>8
    <3> QED
      BY <3>6, <3>7, <3>8
  <2>5. ASSUME NEW b \in Bookings, HoldConfirmed(b)
        PROVE  NoDoubleBooking'
    <3>1. Claiming' \subseteq Claiming
      BY <2>1, <2>5 DEF HoldConfirmed, Claiming, Holding, Live, TypeOK
    <3> QED
      BY <2>2, <2>5, <3>1 DEF HoldConfirmed
  <2>6. ASSUME NEW b \in Bookings, NEW others \in SUBSET (Claiming \ {b}), ApprovedOver(b, others)
        PROVE  NoDoubleBooking'
    <3>1. Claiming' \subseteq Claiming
      BY <2>6 DEF ApprovedOver, Claiming, Holding, Live
    <3> QED
      BY <2>2, <2>6, <3>1 DEF ApprovedOver
  <2>7. ASSUME NEW leaving \in SUBSET Claiming, NEW s \in Closed, GivenUp(leaving, s)
        PROVE  NoDoubleBooking'
    <3>1. Claiming' \subseteq Claiming
      BY <2>7 DEF GivenUp, Claiming
    <3> QED
      BY <2>2, <2>7, <3>1 DEF GivenUp
  <2>8. ASSUME NEW v \in Venues, NEW u \in Buffers, MeasuredAgain(v, u)
        PROVE  NoDoubleBooking'
    <3>1. asked' = asked /\ Claiming' = Claiming
      BY <2>8 DEF MeasuredAgain, Claiming
    <3>2. \A b \in Claiming : b \notin ClaimingAt(v) => occupied'[b] = occupied[b]
      BY <2>8 DEF MeasuredAgain, Claiming
    <3>3. \A b \in Claiming : b \in ClaimingAt(v) <=> asked[b].venue = v
      BY DEF ClaimingAt
    <3> SUFFICES ASSUME NEW c \in Claiming, NEW d \in Claiming, c # d, asked[c].venue = asked[d].venue
                 PROVE  ~Overlap(occupied'[c], occupied'[d])
      BY <3>1 DEF NoDoubleBooking
    <3>4. CASE asked[c].venue = v
      BY <2>8, <3>3, <3>4 DEF MeasuredAgain
    <3>5. CASE asked[c].venue # v
      BY <3>2, <3>3, <3>5 DEF NoDoubleBooking
    <3> QED
      BY <3>4, <3>5
  <2> QED
    BY <2>1, <2>3, <2>4, <2>5, <2>6, <2>7, <2>8 DEF Change
<1> QED
  BY <1>1, Starts, Invariance, PTL DEF Spec

(* Every claim on a venue is measured by the buffers the venue has: an     *)
(* edit of the buffers holds the venue's row from before it looks for an   *)
(* approved booking until it commits, and whoever approves one needs it.   *)
THEOREM WindowsStayCurrent == Spec => []WindowsCurrent
<1>1. IInv /\ WindowsCurrent /\ [Next]_vars => WindowsCurrent'
  <2> SUFFICES ASSUME IInv, WindowsCurrent, [Next]_vars PROVE WindowsCurrent'
    OBVIOUS
  <2>1. Change /\ TypeOK
    BY Step DEF IInv
  <2>2. ASSUME asked' = asked, occupied' = occupied, buffers' = buffers, Claiming' \subseteq Claiming
        PROVE  WindowsCurrent'
    BY <2>2 DEF WindowsCurrent
  <2>3. CASE Nowhere
    BY <2>2, <2>3 DEF Nowhere, Claiming
  <2>4. ASSUME NEW b \in Bookings, NEW a \in Asked, Inserted(b, a)
        PROVE  WindowsCurrent'
    <3>1. /\ asked'[b] = a /\ occupied'[b] = OccupiedWindow(buffers[a.venue], a.at) /\ buffers' = buffers
          /\ \A c \in Bookings \ {b} : asked'[c] = asked[c] /\ occupied'[c] = occupied[c] /\ status'[c] = status[c]
      BY <2>1, <2>4 DEF Inserted, TypeOK
    <3>2. \A c \in Claiming' \ {b} : c \in Claiming /\ c \in Bookings
      BY <3>1 DEF Claiming
    <3> QED
      BY <3>1, <3>2 DEF WindowsCurrent
  <2>5. ASSUME NEW b \in Bookings, HoldConfirmed(b)
        PROVE  WindowsCurrent'
    <3>1. Claiming' \subseteq Claiming
      BY <2>1, <2>5 DEF HoldConfirmed, Claiming, Holding, Live, TypeOK
    <3> QED
      BY <2>2, <2>5, <3>1 DEF HoldConfirmed
  <2>6. ASSUME NEW b \in Bookings, NEW others \in SUBSET (Claiming \ {b}), ApprovedOver(b, others)
        PROVE  WindowsCurrent'
    <3>1. Claiming' \subseteq Claiming
      BY <2>6 DEF ApprovedOver, Claiming, Holding, Live
    <3> QED
      BY <2>2, <2>6, <3>1 DEF ApprovedOver
  <2>7. ASSUME NEW leaving \in SUBSET Claiming, NEW s \in Closed, GivenUp(leaving, s)
        PROVE  WindowsCurrent'
    <3>1. Claiming' \subseteq Claiming
      BY <2>7 DEF GivenUp, Claiming
    <3> QED
      BY <2>2, <2>7, <3>1 DEF GivenUp
  <2>8. ASSUME NEW v \in Venues, NEW u \in Buffers, MeasuredAgain(v, u)
        PROVE  WindowsCurrent'
    <3>1. /\ asked' = asked /\ Claiming' = Claiming
          /\ buffers'[v] = u /\ \A w \in Venues \ {v} : buffers'[w] = buffers[w]
      BY <2>1, <2>8 DEF MeasuredAgain, Claiming, TypeOK
    <3>2. \A b \in Claiming : asked[b].venue \in Venues /\ b \in Bookings
      BY DEF Claiming, Holding, Live, IInv, Booked
    <3>3. \A b \in Claiming :
            occupied'[b] = IF asked[b].venue = v THEN OccupiedWindow(u, asked[b].at) ELSE occupied[b]
      BY <2>8, <3>2 DEF MeasuredAgain, ClaimingAt
    <3> QED
      BY <3>1, <3>2, <3>3 DEF WindowsCurrent
  <2> QED
    BY <2>1, <2>3, <2>4, <2>5, <2>6, <2>7, <2>8 DEF Change
<1> QED
  BY <1>1, Starts, Invariance, PTL DEF Spec

(* The stage of a claim.                                                   *)
LEMMA Stages ==
  /\ \A s \in {"none", "held", "requested"} : StageOf(s) = s
  /\ StageOf("approved") = "granted"
  /\ \A s \in Closed : StageOf(s) = "over"
BY DEF StageOf, Closed

(* The calendar's claims are the bookings and holds that block their      *)
(* venue.                                                                 *)
LEMMA ClaimsAreClaims ==
  ASSUME NEW s \in {"none"} \cup Holding \cup Closed
  PROVE  StageOf(s) \in {"held", "requested", "granted"} <=> s \in Holding
BY Stages DEF Holding, Live, Closed

(* So the calendar counts the same claims.                                *)
LEMMA ClaimsMatch ==
  ASSUME TypeOK
  PROVE  Calendar!Claims = Claiming
BY ClaimsAreClaims DEF TypeOK, Calendar!Claims, Stage, Claiming

(* Windows that do not overlap are disjoint hours.                         *)
LEMMA ApartMeansDisjoint ==
  ASSUME TypeOK, Booked, WindowsCurrent, NoDoubleBooking
  PROVE  Calendar!KeptApart
<1>1. \A b \in Claiming : b \in Bookings /\ occupied[b] \in Window
  <2> SUFFICES ASSUME NEW b \in Claiming PROVE b \in Bookings /\ occupied[b] \in Window
    OBVIOUS
  <2>1. b \in Bookings /\ asked[b].venue \in Venues /\ asked[b].at \in Windows
    BY DEF Claiming, Holding, Live, Booked
  <2>2. buffers[asked[b].venue] \in Buffers
    BY <2>1 DEF TypeOK
  <2>3. occupied[b] = OccupiedWindow(buffers[asked[b].venue], asked[b].at)
    BY DEF WindowsCurrent
  <2> QED
    BY <2>1, <2>2, <2>3, WindowHolds
<1>2. \A i, j \in Window : ~Overlap(i, j) => i.to <= j.from \/ j.to <= i.from
  BY DEF Window, Overlap
<1> QED
  BY <1>1, <1>2, ClaimsMatch DEF Calendar!KeptApart, Calendar!Disjoint, NoDoubleBooking

(* The bookings table keeps the calendar's promise, step by step.          *)
THEOREM Refinement == Spec => ImplementsCalendar
<1>1. Init => Calendar!CalendarInit
  BY Stages DEF Init, Calendar!CalendarInit, Stage
<1>2. IInv /\ IInv' /\ Calendar!KeptApart' /\ [Next]_vars => [Calendar!CalendarNext]_(Calendar!calendarVars)
  <2> SUFFICES ASSUME IInv, IInv', Calendar!KeptApart', [Next]_vars
               PROVE  Calendar!CalendarNext \/ UNCHANGED Calendar!calendarVars
    OBVIOUS
  <2>1. Change /\ TypeOK
    BY Step DEF IInv
  <2>2. Calendar!Claims = Claiming
    BY <2>1, ClaimsMatch
  <2>3. CASE Nowhere
    BY <2>3 DEF Nowhere, Calendar!calendarVars, Stage
  <2>4. ASSUME NEW b \in Bookings, NEW a \in Asked, Inserted(b, a)
        PROVE  Calendar!Claim(b)
    <3>1. PICK s \in Lapsing : status' = [status EXCEPT ![b] = s]
      BY <2>4 DEF Inserted
    <3>2. s \in {"held", "requested"} /\ StageOf(s) = s /\ status[b] = "none" /\ StageOf("none") = "none"
      BY <2>4, Stages DEF Inserted, Lapsing
    <3>3. Stage[b] = "none" /\ Stage' = [Stage EXCEPT ![b] = s]
      BY <2>1, <3>1, <3>2 DEF Stage, TypeOK
    <3>4. /\ asked'[b] = a /\ a.venue \in Venues
          /\ \A c \in Bookings \ {b} : asked'[c] = asked[c] /\ occupied'[c] = occupied[c]
      BY <2>1, <2>4 DEF Inserted, TypeOK
    <3> QED
      BY <3>2, <3>3, <3>4 DEF Calendar!Claim
  <2>5. ASSUME NEW b \in Bookings, HoldConfirmed(b)
        PROVE  Calendar!Request(b)
    <3>1. Stage[b] = "held" /\ Stage' = [Stage EXCEPT ![b] = "requested"]
      BY <2>1, <2>5, Stages DEF HoldConfirmed, Stage, TypeOK
    <3> QED
      BY <2>5, <3>1 DEF HoldConfirmed, Calendar!Request
  <2>6. ASSUME NEW b \in Bookings, NEW others \in SUBSET (Claiming \ {b}), ApprovedOver(b, others)
        PROVE  Calendar!Grant(b, others) /\ b \in Calendar!Claims
    <3>1. Stage[b] = "requested" /\ b \in Claiming
      BY <2>6, Stages DEF ApprovedOver, Stage, Claiming, Holding, Live
    <3>2. Stage' = [c \in Bookings |-> IF c = b THEN "granted"
                                       ELSE IF c \in others THEN "over" ELSE Stage[c]]
      BY <2>6, Stages DEF ApprovedOver, Stage, Closed
    <3> QED
      BY <2>2, <2>6, <3>1, <3>2 DEF ApprovedOver, Calendar!Grant
  <2>7. ASSUME NEW leaving \in SUBSET Claiming, NEW s \in Closed, GivenUp(leaving, s)
        PROVE  Calendar!CalendarNext \/ UNCHANGED Calendar!calendarVars
    <3>1. Stage' = [b \in Bookings |-> IF b \in leaving THEN "over" ELSE Stage[b]]
      BY <2>7, Stages DEF GivenUp, Stage
    <3>2. Calendar!GiveUp(leaving)
      BY <2>7, <3>1 DEF GivenUp, Calendar!GiveUp
    <3>3. CASE leaving = {}
      <4>1. status' = status
        BY <2>1, <2>7, <3>3 DEF GivenUp, TypeOK
      <4> QED
        BY <2>7, <4>1 DEF GivenUp, Calendar!calendarVars, Stage
    <3>4. CASE leaving # {}
      BY <2>2, <3>2, <3>4 DEF Calendar!CalendarNext
    <3> QED
      BY <3>3, <3>4
  <2>8. ASSUME NEW v \in Venues, NEW u \in Buffers, MeasuredAgain(v, u)
        PROVE  Calendar!Remeasure(v)
    <3>1. \A b \in Claiming : b \in Bookings /\ (asked[b].venue = v => status[b] # "approved")
      BY <2>8 DEF MeasuredAgain, NoneApproved, ClaimingAt, Claiming
    <3>2. \A b \in Claiming : asked[b].venue = v => Stage[b] # "granted"
      BY <3>1, Stages DEF Stage, Claiming, Holding, Live
    <3>3. \A b \in Bookings : b \notin Claiming \/ asked[b].venue # v => occupied'[b] = occupied[b]
      BY <2>8 DEF MeasuredAgain, ClaimingAt
    <3>4. Stage' = Stage /\ asked' = asked
      BY <2>8 DEF MeasuredAgain, Stage
    <3> QED
      BY <2>2, <3>1, <3>2, <3>3, <3>4 DEF Calendar!Remeasure
  <2> QED
    BY <2>1, <2>2, <2>3, <2>4, <2>5, <2>6, <2>7, <2>8 DEF Change, Calendar!CalendarNext
<1>3. IInv /\ WindowsCurrent /\ NoDoubleBooking => Calendar!KeptApart
  BY ApartMeansDisjoint DEF IInv
<1> QED
  BY <1>1, <1>2, <1>3, Invariance, NeverDoubleBooked, WindowsStayCurrent, PTL
     DEF Spec, ImplementsCalendar, Calendar!CalendarSpec

(* Venue staff only approve a booking of an event that is being arranged:  *)
(* it was when they read it under the booking's lock, and whoever confirms *)
(* or cancels it since takes the lock of each of its bookings.             *)
THEOREM ApprovalsInTime == Spec => ApprovedWhileBookable
<1>1. ASSUME IInv, [Next]_vars
      PROVE  [\A b \in Bookings : status[b] # "approved" /\ status'[b] = "approved" =>
                eventStatus[asked[b].event] = "planning"]_vars
  <2> SUFFICES ASSUME NEW b \in Bookings, status[b] # "approved", status'[b] = "approved"
               PROVE  eventStatus[asked[b].event] = "planning"
    OBVIOUS
  <2>1. Change /\ TypeOK
    BY <1>1, Step DEF IInv
  <2>2. ~Nowhere
    BY DEF Nowhere
  <2>3. ASSUME NEW c \in Bookings, NEW a \in Asked, Inserted(c, a)
        PROVE  FALSE
    BY <2>1, <2>3 DEF Inserted, TypeOK, Lapsing
  <2>4. ASSUME NEW c \in Bookings, HoldConfirmed(c)
        PROVE  FALSE
    BY <2>1, <2>4 DEF HoldConfirmed, TypeOK
  <2>5. ASSUME NEW c \in Bookings, NEW others \in SUBSET (Claiming \ {c}), ApprovedOver(c, others)
        PROVE  eventStatus[asked[b].event] = "planning"
    BY <2>5 DEF ApprovedOver
  <2>6. ASSUME NEW leaving \in SUBSET Claiming, NEW s \in Closed, GivenUp(leaving, s)
        PROVE  FALSE
    BY <2>6 DEF GivenUp, Closed
  <2>7. ASSUME NEW v \in Venues, NEW u \in Buffers, MeasuredAgain(v, u)
        PROVE  FALSE
    BY <2>7 DEF MeasuredAgain
  <2> QED
    BY <2>1, <2>2, <2>3, <2>4, <2>5, <2>6, <2>7 DEF Change
<1> QED
  BY <1>1, Invariance, PTL DEF Spec, ApprovedWhileBookable

(* What a step may do to the state a confirmed event rests on: bookings    *)
(* are made and approved for events in planning, claims are only given up, *)
(* marks are only cleared or moved to another period; only confirm makes   *)
(* an event confirmed, and a period that marks one of its claims ends it.  *)
Undisturbed ==
  /\ \A b \in Bookings : status'[b] \in Live =>
       /\ asked'[b].event \in Events
       /\ \/ /\ status[b] \in Live /\ asked'[b] = asked[b]
             /\ status'[b] = status[b] \/ status'[b] = "approved"
          \/ eventStatus[asked'[b].event] = "planning"
  /\ \A b \in Bookings : mark[b] = Nothing /\ mark'[b] # Nothing /\ status[b] \in Live =>
       eventStatus'[asked[b].event] # "confirmed"
  /\ \A e \in Events : eventStatus'[e] = "confirmed" /\ eventStatus[e] # "confirmed" =>
       Arranged(e) /\ UNCHANGED bookingVars

(* No step does more than that.                                           *)
LEMMA Disturbs ==
  ASSUME IInv, [Next]_vars
  PROVE  Undisturbed
<1>1. TypeOK /\ Booked /\ Change /\ IInv'
  BY Step DEF IInv
<1>2. \A b \in Bookings : status'[b] \in Live => asked'[b].event \in Events
  BY <1>1 DEF IInv, Booked, Live
<1>3. \A b \in Bookings : status'[b] \in Live =>
        \/ /\ status[b] \in Live /\ asked'[b] = asked[b]
           /\ status'[b] = status[b] \/ status'[b] = "approved"
        \/ eventStatus[asked'[b].event] = "planning"
  <2>1. CASE Nowhere
    BY <2>1 DEF Nowhere
  <2>2. ASSUME NEW c \in Bookings, NEW a \in Asked, Inserted(c, a)
        PROVE  <1>3!:
    BY <1>1, <2>2 DEF Inserted, TypeOK
  <2>3. ASSUME NEW c \in Bookings, HoldConfirmed(c)
        PROVE  <1>3!:
    BY <1>1, <2>3 DEF HoldConfirmed, TypeOK
  <2>4. ASSUME NEW c \in Bookings, NEW others \in SUBSET (Claiming \ {c}), ApprovedOver(c, others)
        PROVE  <1>3!:
    BY <2>4 DEF ApprovedOver, Live
  <2>5. ASSUME NEW leaving \in SUBSET Claiming, NEW s \in Closed, GivenUp(leaving, s)
        PROVE  <1>3!:
    BY <2>5 DEF GivenUp, Closed, Live
  <2>6. ASSUME NEW v \in Venues, NEW u \in Buffers, MeasuredAgain(v, u)
        PROVE  <1>3!:
    BY <2>6 DEF MeasuredAgain
  <2> QED
    BY <1>1, <2>1, <2>2, <2>3, <2>4, <2>5, <2>6 DEF Change
<1>4. /\ \A b \in Bookings : mark[b] = Nothing /\ mark'[b] # Nothing /\ status[b] \in Live =>
           eventStatus'[asked[b].event] # "confirmed"
      /\ \A e \in Events : eventStatus'[e] = "confirmed" /\ eventStatus[e] # "confirmed" =>
           Arranged(e) /\ UNCHANGED bookingVars
  <2>1. CASE mark' = mark /\ eventStatus' = eventStatus
    BY <2>1
  <2>2. ASSUME NEW r \in Requests, RecordPeriod(r)
        PROVE  <1>4!:
    <3>1. PICK affected \in SUBSET Claiming :
            /\ \A b \in Bookings : mark'[b] = mark[b] \/ b \in affected
            /\ \A e \in Events :
                 eventStatus'[e] = IF eventStatus[e] = "confirmed" /\ \E b \in affected : asked[b].event = e
                                   THEN "planning" ELSE eventStatus[e]
      <4>1. {b \in Hit(req[r].period) : mark[b] = Nothing} \in SUBSET Claiming
        BY DEF Hit, ClaimingAt
      <4> QED
        BY <2>2, <4>1 DEF RecordPeriod
    <3>2. \A b \in Bookings : status[b] \in Live => asked[b].event \in Events
      BY <1>1 DEF Booked, Live
    <3> QED
      BY <3>1, <3>2
  <2>3. ASSUME NEW r \in Requests, EndPeriod(r)
        PROVE  <1>4!:
    <3>1. req[r].period \in Periods
      <4>1. Aims(req[r]) /\ req[r].op = "end_period"
        BY <2>3, AtCommit DEF EndPeriod, Operations, Plan
      <4> QED
        BY <4>1 DEF Aims, AboutPeriod
    <3>2. \A b \in Bookings : mark[b] = Nothing => mark'[b] = Nothing
      BY <2>3, <3>1, NothingAssumption DEF EndPeriod
    <3> QED
      BY <2>3, <3>2 DEF EndPeriod
  <2>4. ASSUME NEW r \in Requests, ConfirmRestore(r)
        PROVE  <1>4!:
    BY <1>1, <2>4 DEF ConfirmRestore, TypeOK, otherVars
  <2>5. ASSUME NEW r \in Requests, CancelEvent(r) \/ ChangeEvent(r)
        PROVE  <1>4!:
    BY <1>1, <2>5 DEF CancelEvent, ChangeEvent, SetEvent, bookingVars, TypeOK
  <2>6. ASSUME NEW r \in Requests, ConfirmEvent(r)
        PROVE  <1>4!:
    <3>1. req[r].op = "confirm_event" /\ Passes(req[r]) /\ req[r].step = Len(Plan[req[r].op])
      BY <2>6, AtCommit DEF ConfirmEvent, Operations, Plan
    <3>2. req[r].step = 2
      BY <3>1, PlansOf, Zenon
    <3>3. Arranged(req[r].asked.event)
      BY <3>1, <3>2 DEF Passes, MayConfirmEvent
    <3> QED
      BY <1>1, <2>6, <3>3 DEF ConfirmEvent, SetEvent, bookingVars, TypeOK
  <2>7. ASSUME NEW r \in Requests, Create(r) \/ PlaceHold(r) \/ ConfirmHold(r) \/ MakePrimary(r) \/ Withdraw(r)
                                   \/ Reject(r) \/ Approve(r) \/ RequestRestore(r) \/ DeclineRestore(r)
                                   \/ EditBuffers(r)
        PROVE  mark' = mark /\ eventStatus' = eventStatus
    BY <2>7 DEF Create, PlaceHold, ConfirmHold, MakePrimary, Withdraw, Reject, Approve, RequestRestore,
                DeclineRestore, EditBuffers, otherVars
  <2>8. ASSUME NEW r \in Requests,
               (\E op \in Offered : Begin(r, op)) \/ Lock(r) \/ Proceed(r) \/ Refuse(r) \/ Abort(r)
        PROVE  mark' = mark /\ eventStatus' = eventStatus
    BY <2>8 DEF Begin, Lock, Proceed, Refuse, Abort, bookingVars, otherVars
  <2>9. ASSUME NEW b \in Bookings, HoldDue(b) \/ LapseHold(b)
        PROVE  mark' = mark /\ eventStatus' = eventStatus
    BY <2>9 DEF HoldDue, LapseHold, otherVars
  <2>10. CASE UNCHANGED vars
    BY <2>1, <2>10 DEF vars
  <2> QED
    BY <2>1, <2>2, <2>3, <2>4, <2>5, <2>6, <2>7, <2>8, <2>9, <2>10 DEF Next, GoOn, Commit
<1> QED
  BY <1>2, <1>3, <1>4 DEF Undisturbed

(* A confirmed event's venues are approved and available for as long as it *)
(* is confirmed.                                                           *)
THEOREM ConfirmedVenuesHold == Spec => []ConfirmedVenuesStand
<1>1. Init => ConfirmedVenuesStand
  BY DEF Init, ConfirmedVenuesStand, Live
<1>2. IInv /\ ConfirmedVenuesStand /\ [Next]_vars => ConfirmedVenuesStand'
  <2> SUFFICES ASSUME IInv, ConfirmedVenuesStand, [Next]_vars,
                      NEW b \in Bookings, status'[b] \in Live, eventStatus'[asked'[b].event] = "confirmed"
               PROVE  status'[b] = "approved" /\ mark'[b] = Nothing
    BY DEF ConfirmedVenuesStand
  <2>1. Undisturbed
    BY Disturbs
  <2> DEFINE e == asked'[b].event
  <2>2. e \in Events
    BY <2>1 DEF Undisturbed
  <2>3. CASE eventStatus[e] # "confirmed"
    <3>1. Arranged(e) /\ UNCHANGED bookingVars
      BY <2>1, <2>2, <2>3 DEF Undisturbed
    <3>2. b \in LiveFor(e) /\ status' = status /\ mark' = mark
      BY <3>1 DEF LiveFor, bookingVars
    <3> QED
      BY <3>1, <3>2 DEF Arranged
  <2>4. CASE eventStatus[e] = "confirmed"
    <3>1. /\ status[b] \in Live /\ asked'[b] = asked[b]
          /\ status'[b] = status[b] \/ status'[b] = "approved"
      BY <2>1, <2>4 DEF Undisturbed
    <3>2. status[b] = "approved" /\ mark[b] = Nothing
      BY <2>4, <3>1 DEF ConfirmedVenuesStand
    <3> QED
      BY <2>1, <3>1, <3>2 DEF Undisturbed
  <2> QED
    BY <2>3, <2>4
<1> QED
  BY <1>1, <1>2, Invariance, PTL DEF Spec

(* The table's CHECK constraints, and that nothing is primary before it is *)
(* inserted.                                                               *)
Consistent == RowsConsistent /\ \A b \in Bookings : status[b] = "none" => ~primary[b]

(* A booking or hold that is given up loses its restore request.           *)
LEMMA ClosedConsistently ==
  ASSUME TypeOK, Consistent, NEW closing \in SUBSET Claiming,
         NEW as \in Closed \ {"replaced"}, Close(closing, as), mark' = mark,
         \A b \in Bookings : primary'[b] => primary[b]
  PROVE  Consistent'
<1>1. ASSUME NEW b \in Bookings
      PROVE  /\ b \in closing => status'[b] = as /\ ~restore'[b]
             /\ b \notin closing => status'[b] = status[b] /\ restore'[b] = restore[b]
  BY DEF Close, TypeOK
<1>2. as \notin Holding \cup {"none", "replaced"}
  BY DEF Closed, Holding, Live
<1> QED
  BY <1>1, <1>2 DEF Consistent, RowsConsistent, Holding

(* No operation breaks a CHECK constraint.                                *)
LEMMA StaysConsistent ==
  ASSUME IInv, Consistent, [Next]_vars
  PROVE  Consistent'
<1>1. TypeOK
  BY DEF IInv
<1>2. ASSUME UNCHANGED <<status, primary, mark, restore>>
      PROVE  Consistent'
  BY <1>2 DEF Consistent, RowsConsistent
<1>3. ASSUME NEW r \in Requests,
             (\E op \in Offered : Begin(r, op)) \/ Lock(r) \/ Proceed(r) \/ Refuse(r) \/ Abort(r)
      PROVE  Consistent'
  BY <1>2, <1>3 DEF Begin, Lock, Proceed, Refuse, Abort, bookingVars
<1>4. ASSUME NEW r \in Requests, EditBuffers(r) \/ ConfirmEvent(r) \/ ChangeEvent(r)
      PROVE  Consistent'
  BY <1>2, <1>4 DEF EditBuffers, ConfirmEvent, ChangeEvent, bookingVars
<1>5. ASSUME NEW r \in Requests, Create(r)
      PROVE  Consistent'
  <2> DEFINE b == req[r].booking
  <2>1. b \in Bookings /\ status[b] = "none"
    BY <1>5, Inserts
  <2>2. status' = [status EXCEPT ![b] = "requested"] /\ UNCHANGED <<mark, restore>>
        /\ \A c \in Bookings \ {b} : primary'[c] = primary[c]
    BY <1>1, <1>5 DEF Create, TypeOK
  <2>3. ~restore[b]
    BY <2>1 DEF Consistent, RowsConsistent, Holding, Live
  <2> QED
    BY <1>1, <2>1, <2>2, <2>3 DEF Consistent, RowsConsistent, TypeOK, Holding, Live
<1>6. ASSUME NEW r \in Requests, PlaceHold(r)
      PROVE  Consistent'
  <2> DEFINE b == req[r].booking
  <2>1. b \in Bookings /\ status[b] = "none"
    BY <1>6, Inserts
  <2>2. status' = [status EXCEPT ![b] = "held"] /\ UNCHANGED <<mark, restore, primary>>
    BY <1>6 DEF PlaceHold
  <2>3. ~restore[b] /\ ~primary[b]
    BY <2>1 DEF Consistent, RowsConsistent, Holding, Live
  <2> QED
    BY <1>1, <2>1, <2>2, <2>3 DEF Consistent, RowsConsistent, TypeOK, Holding, Live
<1>7. ASSUME NEW r \in Requests, ConfirmHold(r)
      PROVE  Consistent'
  <2> DEFINE b == req[r].booking
  <2>1. b \in Bookings /\ status[b] = "held"
    BY <1>7, ConfirmsHold
  <2>2. status' = [status EXCEPT ![b] = "requested"] /\ UNCHANGED <<mark, restore>>
        /\ \A c \in Bookings \ {b} : primary'[c] = primary[c]
    BY <1>1, <1>7 DEF ConfirmHold, TypeOK
  <2> QED
    BY <1>1, <2>1, <2>2 DEF Consistent, RowsConsistent, TypeOK, Holding, Live
<1>8. ASSUME NEW r \in Requests, MakePrimary(r)
      PROVE  Consistent'
  <2> DEFINE b == req[r].booking
  <2>1. b \in Bookings /\ status[b] \notin {"none", "held"}
    BY <1>8, AtCommit DEF MakePrimary, Operations, Plan
  <2>2. UNCHANGED <<status, mark, restore>> /\ \A c \in Bookings : primary'[c] => primary[c] \/ c = b
    BY <1>8 DEF MakePrimary
  <2> QED
    BY <2>1, <2>2 DEF Consistent, RowsConsistent
<1>9. ASSUME NEW r \in Requests, Withdraw(r) \/ Reject(r)
      PROVE  Consistent'
  <2>1. {req[r].booking} \in SUBSET Claiming
    BY <1>9, GivesUp DEF Claiming
  <2>2. PICK as \in {"withdrawn", "rejected"} : Close({req[r].booking}, as)
    BY <1>9 DEF Withdraw, Reject
  <2>3. UNCHANGED <<primary, mark>>
    BY <1>9 DEF Withdraw, Reject
  <2>4. as \in Closed \ {"replaced"}
    BY DEF Closed
  <2> QED
    BY <1>1, <2>1, <2>2, <2>3, <2>4, ClosedConsistently
<1>10. ASSUME NEW r \in Requests, CancelEvent(r)
       PROVE  Consistent'
  <2>1. ClaimingFor(req[r].asked.event) \in SUBSET Claiming
    BY DEF ClaimingFor
  <2>2. "withdrawn" \in Closed \ {"replaced"}
    BY DEF Closed
  <2>3. UNCHANGED <<primary, mark>> /\ Close(ClaimingFor(req[r].asked.event), "withdrawn")
    BY <1>10 DEF CancelEvent
  <2> QED
    BY <1>1, <2>1, <2>2, <2>3, ClosedConsistently
<1>11. ASSUME NEW b \in Bookings, LapseHold(b)
       PROVE  Consistent'
  <2>1. {b} \in SUBSET Claiming
    BY <1>11 DEF LapseHold, Claiming, Lapsing, Holding, Live
  <2>2. "expired" \in Closed \ {"replaced"}
    BY DEF Closed
  <2>3. mark' = mark /\ Close({b}, "expired") /\ \A c \in Bookings : primary'[c] => primary[c]
    BY <1>1, <1>11 DEF LapseHold, TypeOK
  <2> QED
    BY <1>1, <2>1, <2>2, <2>3, ClosedConsistently
<1>12. ASSUME NEW r \in Requests, Approve(r)
       PROVE  Consistent'
  <2> DEFINE b == req[r].booking
  <2>1. b \in Bookings /\ status[b] = "requested"
    BY <1>12, Approves
  <2>2. PICK replaced \in SUBSET Bookings :
          /\ \A o \in replaced : NeedsRearrangement(o)
          /\ status' = [c \in Bookings |-> IF c = b THEN "approved"
                                           ELSE IF c \in replaced THEN "replaced" ELSE status[c]]
          /\ restore' = [c \in Bookings |-> restore[c] /\ c \notin replaced]
          /\ mark' = mark /\ \A c \in Bookings \ {b} : primary'[c] = primary[c]
    <3>1. {o \in {req[r].asked.replaces} \cap Bookings : NeedsRearrangement(o)} \in SUBSET Bookings
      OBVIOUS
    <3> QED
      BY <1>1, <1>12, <3>1 DEF Approve, TypeOK
  <2> QED
    BY <2>1, <2>2 DEF Consistent, RowsConsistent, NeedsRearrangement, Holding, Live
<1>13. ASSUME NEW r \in Requests, RequestRestore(r) \/ DeclineRestore(r) \/ ConfirmRestore(r)
       PROVE  Consistent'
  <2> DEFINE b == req[r].booking
  <2>1. PICK op \in {"request_restore", "decline_restore", "confirm_restore"} : Ready(r, op)
    BY <1>13 DEF RequestRestore, DeclineRestore, ConfirmRestore
  <2>2. req[r].op = op /\ Passes(req[r]) /\ req[r].step = Len(Plan[op])
    BY <2>1, AtCommit DEF Operations, Plan
  <2>3. op = "confirm_restore" => req[r].step = 2
    BY <2>2, PlansOf, Zenon
  <2>4. NeedsRearrangement(b)
    BY <2>2, <2>3 DEF Passes, MayRequestRestore, MayDeclineRestore, MayConfirmRestore, Restorable
  <2>5. /\ UNCHANGED <<status, primary>>
        /\ \A c \in Bookings \ {b} : mark'[c] = mark[c] /\ restore'[c] = restore[c]
        /\ mark'[b] = mark[b] \/ ~restore'[b]
    BY <1>1, <1>13 DEF RequestRestore, DeclineRestore, ConfirmRestore, TypeOK
  <2> QED
    BY <2>4, <2>5 DEF Consistent, RowsConsistent, NeedsRearrangement, Holding, Live
<1>14. ASSUME NEW r \in Requests, RecordPeriod(r) \/ EndPeriod(r)
       PROVE  Consistent'
  <2>1. req[r].period \in Periods
    <3>1. Aims(req[r]) /\ req[r].op \in AboutPeriod
      BY <1>14, AtCommit DEF RecordPeriod, EndPeriod, Operations, Plan, AboutPeriod
    <3> QED
      BY <3>1 DEF Aims
  <2>2. \A b \in Bookings : mark[b] # Nothing => mark'[b] # Nothing
    BY <1>14, <2>1, NothingAssumption DEF RecordPeriod, EndPeriod, PeriodsOn
  <2>3. UNCHANGED <<status, primary, restore>>
    BY <1>14 DEF RecordPeriod, EndPeriod
  <2> QED
    BY <2>2, <2>3 DEF Consistent, RowsConsistent
<1>15. ASSUME NEW b \in Bookings, HoldDue(b)
       PROVE  Consistent'
  BY <1>2, <1>15 DEF HoldDue
<1>16. CASE UNCHANGED vars
  BY <1>2, <1>16 DEF vars
<1> QED
  BY <1>3, <1>4, <1>5, <1>6, <1>7, <1>8, <1>9, <1>10, <1>11, <1>12, <1>13, <1>14, <1>15, <1>16
     DEF Next, GoOn, Commit

(* So they hold in every reachable state.                                 *)
THEOREM Consistency == Spec => []Consistent
<1>1. Init => Consistent
  BY DEF Init, Consistent, RowsConsistent
<1> QED
  BY <1>1, StaysConsistent, Invariance, PTL DEF Spec

(* The table's CHECK constraints never fire.                               *)
THEOREM RowsStayConsistent == Spec => []RowsConsistent
<1>1. Consistent => RowsConsistent
  BY DEF Consistent
<1> QED
  BY <1>1, Consistency, PTL

-----------------------------------------------------------------------------
(***************************************************************************)
(* Primary venues and replacements.                                        *)
(***************************************************************************)

(* Bookings and holds are given up, at most, and marks stay.               *)
Quiet ==
  /\ asked' = asked
  /\ \A b \in Bookings : /\ status'[b] = status[b] \/ (status[b] # "none" /\ status'[b] \in Closed)
                         /\ primary'[b] => primary[b]
                         /\ mark[b] # Nothing => mark'[b] # Nothing

(* Every step is of this kind, or the commit of one of six operations.    *)
LEMMA Kinds ==
  ASSUME IInv, [Next]_vars
  PROVE  \/ Quiet
         \/ \E r \in Requests :
              /\ req'[r] = Idle
              /\ Create(r) \/ PlaceHold(r) \/ ConfirmHold(r) \/ MakePrimary(r) \/ Approve(r) \/ ConfirmRestore(r)
<1>1. TypeOK
  BY DEF IInv
<1>2. ASSUME UNCHANGED <<status, asked, primary, mark>>
      PROVE  Quiet
  BY <1>2 DEF Quiet
<1>3. ASSUME NEW r \in Requests,
             (\E op \in Offered : Begin(r, op)) \/ Lock(r) \/ Proceed(r) \/ Refuse(r) \/ Abort(r)
      PROVE  Quiet
  BY <1>2, <1>3 DEF Begin, Lock, Proceed, Refuse, Abort, bookingVars
<1>4. ASSUME NEW r \in Requests, EditBuffers(r) \/ ConfirmEvent(r) \/ ChangeEvent(r)
      PROVE  Quiet
  BY <1>2, <1>4 DEF EditBuffers, ConfirmEvent, ChangeEvent, bookingVars
<1>5. ASSUME NEW r \in Requests, RequestRestore(r) \/ DeclineRestore(r)
      PROVE  Quiet
  BY <1>2, <1>5 DEF RequestRestore, DeclineRestore
<1>6. ASSUME NEW r \in Requests, Withdraw(r) \/ Reject(r)
      PROVE  Quiet
  <2>1. /\ req[r].booking \in Bookings /\ status[req[r].booking] \in Holding
        /\ \E s \in Closed : status' = [c \in Bookings |-> IF c \in {req[r].booking} THEN s ELSE status[c]]
    BY <1>6, GivesUp
  <2>2. UNCHANGED <<asked, primary, mark>>
    BY <1>6 DEF Withdraw, Reject
  <2> QED
    BY <2>1, <2>2 DEF Quiet, Holding, Live
<1>7. ASSUME NEW r \in Requests, CancelEvent(r)
      PROVE  Quiet
  BY <1>7 DEF CancelEvent, Close, ClaimingFor, Claiming, Closed, Holding, Live, Quiet
<1>8. ASSUME NEW b \in Bookings, LapseHold(b)
      PROVE  Quiet
  BY <1>1, <1>8 DEF LapseHold, Close, Closed, Lapsing, Quiet, TypeOK
<1>9. ASSUME NEW r \in Requests, RecordPeriod(r) \/ EndPeriod(r)
      PROVE  Quiet
  <2>1. req[r].period \in Periods
    <3>1. Aims(req[r]) /\ req[r].op \in AboutPeriod
      BY <1>9, AtCommit DEF RecordPeriod, EndPeriod, Operations, Plan, AboutPeriod
    <3> QED
      BY <3>1 DEF Aims
  <2>2. \A b \in Bookings : mark[b] # Nothing => mark'[b] # Nothing
    BY <1>9, <2>1, NothingAssumption DEF RecordPeriod, EndPeriod, PeriodsOn
  <2>3. UNCHANGED <<status, asked, primary>>
    BY <1>9 DEF RecordPeriod, EndPeriod
  <2> QED
    BY <2>2, <2>3 DEF Quiet
<1>10. ASSUME NEW b \in Bookings, HoldDue(b)
       PROVE  Quiet
  BY <1>2, <1>10 DEF HoldDue
<1>11. CASE UNCHANGED vars
  BY <1>2, <1>11 DEF vars
<1>12. ASSUME NEW r \in Requests, Create(r) \/ PlaceHold(r) \/ ConfirmHold(r) \/ MakePrimary(r) \/ Approve(r)
                                  \/ ConfirmRestore(r)
       PROVE  req'[r] = Idle
  BY <1>1, <1>12 DEF Create, PlaceHold, ConfirmHold, MakePrimary, Approve, ConfirmRestore, End, TypeOK
<1> QED
  BY <1>3, <1>4, <1>5, <1>6, <1>7, <1>8, <1>9, <1>10, <1>11, <1>12 DEF Next, GoOn, Commit

(* A request has the rows of a statement it is past.                       *)
LEMMA HasKeys ==
  ASSUME IInv, NEW r \in Requests, req[r].op # "none", NEW s \in 1..req[r].step,
         s < req[r].step \/ req[r].todo = {}
  PROVE  Keys(req[r], s) \subseteq req[r].has
BY Busy DEF Sound, Taken

(* How a request that goes on goes on, if the tables change or not.        *)
LEMMA Moves ==
  ASSUME IInv, [Next]_vars, NEW p \in Requests, req'[p] # Idle
  PROVE  LET n == req'[p] q == req[p]
         IN \/ n = q
            \/ /\ UNCHANGED bookingVars
               /\ \/ n.step = 1 /\ \E op \in Operations : \E a \in Asking(op) : n = At(a, 1)
                  \/ /\ q.op # "none" /\ n.op = q.op /\ n.asked = q.asked /\ n.step = q.step /\ n.seen = q.seen
                  \/ /\ q.op # "none" /\ q.todo = {} /\ Passes(q) /\ q.step \in 1..5
                     /\ n.op = q.op /\ n.asked = q.asked /\ n.step = q.step + 1 /\ n.seen = Reading(q)
<1> DEFINE n == req'[p]
           q == req[p]
<1>1. TypeOK /\ req \in [Requests -> Transaction]
  BY DEF IInv, TypeOK
<1>2. ASSUME NEW r \in Requests, NEW op \in Offered, Begin(r, op)
      PROVE  n = q \/ (UNCHANGED bookingVars /\ n.step = 1 /\ \E o \in Operations : \E a \in Asking(o) : n = At(a, 1))
  <2>1. op \in Operations
    BY OfferedAssumption
  <2>2. PICK a \in Asking(op) : req' = [req EXCEPT ![r] = At(a, 1)]
    BY <1>2 DEF Begin
  <2>3. a \in Transaction
    BY <2>1, <2>2, AskedFor
  <2>4. At(a, 1).step = 1
    BY <2>3 DEF At, Transaction
  <2>5. UNCHANGED bookingVars
    BY <1>2 DEF Begin
  <2> QED
    BY <1>1, <2>1, <2>2, <2>4, <2>5
<1>3. ASSUME NEW r \in Requests, Lock(r)
      PROVE  \/ n = q
             \/ /\ UNCHANGED bookingVars
                /\ q.op # "none" /\ n.op = q.op /\ n.asked = q.asked /\ n.step = q.step /\ n.seen = q.seen
  <2>1. PICK x \in NextRows(req[r]) :
          req' = [req EXCEPT ![r].todo = @ \ {x},
                             ![r].has = IF Shared(req[r]) THEN @ ELSE @ \cup {x},
                             ![r].shares = IF Shared(req[r]) THEN @ \cup {x} ELSE @]
    BY <1>3 DEF Lock
  <2>2. UNCHANGED bookingVars /\ req[r].todo # {}
    BY <1>3 DEF Lock
  <2>3. req[r].op # "none"
    BY <2>2 DEF IInv, RequestsSound, Idle, Fresh, Sound, Aims, Operations, Plan
  <2>4. CASE p = r
    BY <1>1, <2>1, <2>2, <2>3, <2>4 DEF Transaction
  <2>5. CASE p # r
    BY <1>1, <2>1, <2>5
  <2> QED
    BY <2>4, <2>5
<1>4. ASSUME NEW r \in Requests, Proceed(r)
      PROVE  \/ n = q
             \/ /\ UNCHANGED bookingVars
                /\ q.op # "none" /\ q.todo = {} /\ Passes(q) /\ q.step \in 1..5
                /\ n.op = q.op /\ n.asked = q.asked /\ n.step = q.step + 1 /\ n.seen = Reading(q)
  <2>1. UNCHANGED bookingVars /\ req[r].op # "none" /\ req[r].todo = {} /\ Passes(req[r])
    BY <1>4 DEF Proceed, Locked
  <2>2. req[r] \in Transaction /\ req[r].step \in 1..5
    BY <2>1, Busy, NextStatement DEF Sound
  <2>3. PICK m : m = [req[r] EXCEPT !.seen = Reading(req[r])]
    OBVIOUS
  <2>4. m.op = req[r].op /\ m.asked = req[r].asked /\ m.seen = Reading(req[r])
        /\ DOMAIN m = DOMAIN req[r]
    BY <2>2, <2>3 DEF Transaction
  <2>5. req' = [req EXCEPT ![r] = At(m, req[r].step + 1)]
    BY <1>1, <1>4, <2>3 DEF Proceed
  <2>6. /\ At(m, req[r].step + 1).op = req[r].op /\ At(m, req[r].step + 1).asked = req[r].asked
        /\ At(m, req[r].step + 1).step = req[r].step + 1 /\ At(m, req[r].step + 1).seen = Reading(req[r])
    BY <2>2, <2>4 DEF At, Transaction
  <2> QED
    BY <1>1, <2>1, <2>2, <2>5, <2>6
<1>5. ASSUME NEW r \in Requests, Commit(r) \/ Refuse(r) \/ Abort(r)
      PROVE  n = q
  <2>1. End(r)
    BY <1>5 DEF Commit, Refuse, Abort, Create, PlaceHold, ConfirmHold, MakePrimary, Withdraw, Reject, Approve,
                RequestRestore, DeclineRestore, ConfirmRestore, RecordPeriod, EndPeriod, EditBuffers, CancelEvent,
                ConfirmEvent, ChangeEvent
  <2> QED
    BY <1>1, <2>1 DEF End
<1>6. ASSUME NEW b \in Bookings, HoldDue(b) \/ LapseHold(b)
      PROVE  n = q
  BY <1>6 DEF HoldDue, LapseHold
<1>7. CASE UNCHANGED vars
  BY <1>7 DEF vars
<1> QED
  BY <1>2, <1>3, <1>4, <1>5, <1>6, <1>7 DEF Next, GoOn

(* What each of these operations does to the booking it is about and to    *)
(* the others.                                                             *)
Alike(b) == status'[b] = status[b] /\ asked'[b] = asked[b] /\ primary'[b] = primary[b]

(* A booking that is inserted, primary if the event had no primary venue. *)
LEMMA CreateEffects ==
  ASSUME IInv, NEW r \in Requests, Create(r)
  PROVE  LET q == req[r] b == req[r].booking
         IN /\ q.op = "create" /\ q.step = Len(Plan[q.op]) /\ q.step = 4
            /\ q.asked.event \in q.has /\ q.asked \in Asked
            /\ b \in Bookings /\ status[b] = "none" /\ \A c \in Bookings \ {b} : Alike(c)
            /\ status'[b] = "requested" /\ asked'[b] = q.asked /\ primary'[b] = ~q.seen.primary
            /\ mark' = mark
<1>1. /\ req[r].op = "create" /\ req[r].step = Len(Plan[req[r].op]) /\ req[r] \in Transaction
      /\ req[r].asked.event \in req[r].has
  BY AtCommit DEF Create, Operations, Plan, Inserting
<1>2. req[r].step = 4
  BY <1>1, PlansOf, Zenon
<1>3. req[r].booking \in Bookings /\ status[req[r].booking] = "none" /\ TypeOK
  BY Inserts DEF IInv
<1> QED
  BY <1>1, <1>2, <1>3 DEF Create, Alike, TypeOK, Transaction

(* A hold that is placed.                                                 *)
LEMMA PlaceHoldEffects ==
  ASSUME IInv, NEW r \in Requests, PlaceHold(r)
  PROVE  LET q == req[r] b == req[r].booking
         IN /\ q.op = "place_hold"
            /\ b \in Bookings /\ status[b] = "none" /\ \A c \in Bookings \ {b} : Alike(c)
            /\ status'[b] = "held" /\ asked'[b] = q.asked
            /\ mark' = mark
<1>1. req[r].op = "place_hold"
  BY DEF PlaceHold, Ready
<1>2. req[r].booking \in Bookings /\ status[req[r].booking] = "none" /\ TypeOK
  BY Inserts DEF IInv
<1> QED
  BY <1>1, <1>2 DEF PlaceHold, Alike, TypeOK

(* A confirmed hold, primary if the event had no primary venue.           *)
LEMMA ConfirmHoldEffects ==
  ASSUME IInv, NEW r \in Requests, ConfirmHold(r)
  PROVE  LET q == req[r] b == req[r].booking
         IN /\ q.op = "confirm_hold" /\ q.step = Len(Plan[q.op])
            /\ asked[b] = q.asked /\ asked[b].event \in q.has
            /\ b \in Bookings /\ status[b] = "held" /\ \A c \in Bookings \ {b} : Alike(c)
            /\ status'[b] = "requested" /\ asked' = asked /\ primary'[b] = ~q.seen.primary
            /\ mark' = mark
<1>1. /\ req[r].op = "confirm_hold" /\ req[r].step = Len(Plan[req[r].op])
      /\ req[r].booking \in Bookings /\ status[req[r].booking] = "held"
      /\ req[r].asked = asked[req[r].booking] /\ req[r].asked.event \in req[r].has
  BY AtCommit DEF ConfirmHold, Operations, Plan
<1> QED
  BY <1>1 DEF ConfirmHold, Alike, IInv, TypeOK

(* Another primary venue: no other live booking of the event stays one.   *)
LEMMA MakePrimaryEffects ==
  ASSUME IInv, NEW r \in Requests, MakePrimary(r)
  PROVE  LET q == req[r] b == req[r].booking
         IN /\ b \in Bookings /\ asked[b].event \in q.has
            /\ status' = status /\ asked' = asked /\ mark' = mark
            /\ \/ primary' = primary
               \/ \A c \in Bookings \ {b} : primary'[c] => primary[c] /\ c \notin LiveFor(asked[b].event)
<1>1. /\ req[r].booking \in Bookings /\ req[r].asked = asked[req[r].booking]
      /\ req[r].asked.event \in req[r].has
  BY AtCommit DEF MakePrimary, Operations, Plan
<1> QED
  BY <1>1 DEF MakePrimary

(* An approved booking, primary if it was or if what it replaces was.     *)
LEMMA ApproveEffects ==
  ASSUME IInv, NEW r \in Requests, Approve(r)
  PROVE  LET b == req[r].booking
             o == asked[b].replaces
         IN /\ b \in Bookings /\ status[b] = "requested" /\ status'[b] = "approved"
            /\ asked' = asked /\ mark' = mark
            /\ \A c \in Bookings \ {b} :
                 Alike(c) \/ (primary'[c] = primary[c] /\ status'[c] = "replaced" /\ status[c] \in Holding)
            /\ primary'[b] =>
                 \/ primary[b]
                 \/ /\ o \in Bookings /\ status[o] \in Holding /\ primary[o]
                    /\ o = b \/ status'[o] = "replaced"
<1> DEFINE b == req[r].booking
           o == asked[b].replaces
           replaced == {x \in {o} \cap Bookings : NeedsRearrangement(x)}
<1>1. b \in Bookings /\ status[b] = "requested" /\ req[r].asked = asked[b]
  BY AtCommit DEF Approve, Operations, Plan
<1>2. TypeOK
  BY DEF IInv
<1>3. /\ status' = [c \in Bookings |-> IF c = b THEN "approved"
                                      ELSE IF c \in replaced THEN "replaced" ELSE status[c]]
      /\ primary' = [primary EXCEPT ![b] = @ \/ \E x \in replaced : primary[x]]
      /\ asked' = asked /\ mark' = mark
  BY <1>1 DEF Approve
<1>4. \A c \in replaced : c = o /\ c \in Bookings /\ status[c] \in Holding
  BY DEF NeedsRearrangement
<1> HIDE DEF replaced, b, o
<1>5. primary'[b] => primary[b] \/ \E x \in replaced : primary[x]
  BY <1>1, <1>2, <1>3 DEF TypeOK
<1>6. \A c \in Bookings \ {b} : primary'[c] = primary[c]
  BY <1>2, <1>3 DEF TypeOK
<1>7. \A c \in replaced : c = b \/ status'[c] = "replaced"
  BY <1>3, <1>4
<1>8. \A c \in Bookings \ {b} :
        Alike(c) \/ (primary'[c] = primary[c] /\ status'[c] = "replaced" /\ status[c] \in Holding)
  BY <1>3, <1>4, <1>6 DEF Alike
<1>9. status'[b] = "approved"
  BY <1>1, <1>3
<1>10. primary'[b] =>
         \/ primary[b]
         \/ /\ o \in Bookings /\ status[o] \in Holding /\ primary[o]
            /\ o = b \/ status'[o] = "replaced"
  BY <1>4, <1>5, <1>7
<1> QED
  BY <1>1, <1>3, <1>8, <1>9, <1>10 DEF b, o

(* A restored booking: it had no live replacement.                        *)
LEMMA ConfirmRestoreEffects ==
  ASSUME IInv, NEW r \in Requests, ConfirmRestore(r)
  PROVE  LET b == req[r].booking
         IN /\ b \in Bookings /\ b \in req[r].has /\ ~HasReplacement(b)
            /\ UNCHANGED <<status, asked, primary>>
            /\ \A c \in Bookings \ {b} : mark'[c] = mark[c]
<1> DEFINE q == req[r]
<1>1. /\ q.op = "confirm_restore" /\ q.step = Len(Plan[q.op]) /\ Passes(q) /\ Aims(q) /\ q.todo = {}
  BY AtCommit DEF ConfirmRestore, Operations, Plan, Ready, Locked
<1>2. q.step = 2 /\ Plan[q.op][1] = "booking"
  BY <1>1, PlansOf, Zenon
<1>3. Restorable(q.booking)
  BY <1>1, <1>2 DEF Passes, MayConfirmRestore
<1>4. 1 \in 1..q.step
  BY <1>2
<1>5. Keys(q, 1) \subseteq q.has
  BY <1>1, <1>4, HasKeys
<1>6. q.booking \in q.has
  BY <1>2, <1>5 DEF Keys
<1>7. q.booking \in Bookings
  BY <1>1 DEF Aims, AboutBooking
<1> QED
  BY <1>3, <1>6, <1>7 DEF ConfirmRestore, Restorable, IInv, TypeOK

(* A replacement is for the event of what it replaces, and is never held.  *)
Replaces ==
  \A b \in Bookings : status[b] # "none" /\ asked[b].replaces # Nothing =>
    LET o == asked[b].replaces
    IN status[b] # "held" /\ status[o] # "none" /\ asked[o].event = asked[b].event

(* What a request to book relies on until it commits: that the venue it    *)
(* replaces is marked and has no replacement, and that the event has no    *)
(* primary venue if it is to have this one.                                *)
Keeps(q) ==
  /\ q.op = "place_hold" => q.asked.replaces = Nothing
  /\ q.op = "create" /\ q.step >= 3 /\ q.asked.replaces # Nothing =>
       LET o == q.asked.replaces
       IN status[o] # "none" /\ asked[o].event = q.asked.event /\ mark[o] # Nothing /\ ~HasReplacement(o)
  /\ q.op \in {"create", "confirm_hold"} /\ q.step = Len(Plan[q.op]) /\ ~q.seen.primary =>
       ~HasPrimary(q.asked.event)

RequestsKeep == \A r \in Requests : Keeps(req[r])

(* An event gets a first primary venue only from a request that holds it.  *)
LEMMA NewPrimary ==
  ASSUME IInv, Consistent, Replaces, [Next]_vars, NEW e \in Events, HasPrimary(e)', ~HasPrimary(e)
  PROVE  \E r \in Requests : req'[r] = Idle /\ e \in req[r].has
<1>1. PICK b \in Bookings : status'[b] \in Live /\ asked'[b].event = e /\ primary'[b]
  BY DEF HasPrimary, LiveFor
<1>2. \A c \in Bookings : ~(status[c] \in Live /\ asked[c].event = e /\ primary[c])
  BY DEF HasPrimary, LiveFor
<1>3. ~Alike(b)
  BY <1>1, <1>2 DEF Alike
<1>4. ~Quiet
  BY <1>1, <1>2 DEF Quiet, Closed, Live
<1>5. PICK r \in Requests :
        /\ req'[r] = Idle
        /\ Create(r) \/ PlaceHold(r) \/ ConfirmHold(r) \/ MakePrimary(r) \/ Approve(r) \/ ConfirmRestore(r)
  BY <1>4, Kinds
<1>6. CASE Create(r)
  BY <1>1, <1>3, <1>5, <1>6, CreateEffects
<1>7. CASE PlaceHold(r)
  BY <1>1, <1>3, <1>7, PlaceHoldEffects DEF Live
<1>8. CASE ConfirmHold(r)
  BY <1>1, <1>3, <1>5, <1>8, ConfirmHoldEffects
<1>9. CASE MakePrimary(r)
  BY <1>1, <1>2, <1>3, <1>5, <1>9, MakePrimaryEffects DEF Alike
<1>10. CASE Approve(r)
  <2>1. b = req[r].booking /\ status[b] = "requested" /\ asked'[b] = asked[b]
    BY <1>1, <1>3, <1>10, ApproveEffects DEF Live
  <2>2. PICK o \in Bookings : o = asked[b].replaces /\ status[o] \in Holding /\ primary[o]
    BY <1>1, <1>2, <1>10, <2>1, ApproveEffects DEF Live
  <2>3. status[o] \in Live
    BY <2>2 DEF Consistent, RowsConsistent, Holding
  <2>4. asked[o].event = e
    BY <1>1, <2>1, <2>2, NothingAssumption DEF Replaces
  <2> QED
    BY <1>2, <2>2, <2>3, <2>4
<1>11. CASE ConfirmRestore(r)
  BY <1>3, <1>11, ConfirmRestoreEffects DEF Alike
<1> QED
  BY <1>5, <1>6, <1>7, <1>8, <1>9, <1>10, <1>11

(* A booking gets a replacement only from a request that holds it.         *)
LEMMA NewReplacement ==
  ASSUME IInv, Replaces, RequestsKeep, [Next]_vars, NEW o \in Bookings, HasReplacement(o)', ~HasReplacement(o)
  PROVE  \E r \in Requests : req'[r] = Idle /\ o \in req[r].has
<1>1. PICK b \in Bookings : asked'[b].replaces = o /\ status'[b] \in Live
  BY DEF HasReplacement
<1>2. ~(asked[b].replaces = o /\ status[b] \in Live)
  BY DEF HasReplacement
<1>3. ~Alike(b)
  BY <1>1, <1>2 DEF Alike
<1>4. ~Quiet
  BY <1>1, <1>2 DEF Quiet, Closed, Live
<1>5. PICK r \in Requests :
        /\ req'[r] = Idle
        /\ Create(r) \/ PlaceHold(r) \/ ConfirmHold(r) \/ MakePrimary(r) \/ Approve(r) \/ ConfirmRestore(r)
  BY <1>4, Kinds
<1>6. CASE Create(r)
  <2> DEFINE q == req[r]
  <2>1. q.op = "create" /\ q.step = Len(Plan[q.op]) /\ q.step = 4 /\ q.asked.replaces = o
    BY <1>1, <1>3, <1>6, CreateEffects
  <2>2. Plan[q.op][2] = "original" /\ q.op # "none"
    BY <2>1, PlansOf, Zenon
  <2>3. 2 \in 1..q.step /\ 2 < q.step
    BY <2>1
  <2>4. Keys(q, 2) \subseteq q.has
    BY <2>2, <2>3, HasKeys
  <2>5. o \in q.has
    BY <2>1, <2>2, <2>4, NothingAssumption DEF Keys
  <2> QED
    BY <1>5, <2>5
<1>7. CASE PlaceHold(r)
  BY <1>1, <1>3, <1>7, PlaceHoldEffects DEF Live
<1>8. CASE ConfirmHold(r)
  BY <1>1, <1>3, <1>8, ConfirmHoldEffects, NothingAssumption DEF Replaces
<1>9. CASE MakePrimary(r)
  BY <1>1, <1>2, <1>9, MakePrimaryEffects
<1>10. CASE Approve(r)
  BY <1>1, <1>2, <1>3, <1>10, ApproveEffects DEF Live
<1>11. CASE ConfirmRestore(r)
  BY <1>3, <1>11, ConfirmRestoreEffects DEF Alike
<1> QED
  BY <1>5, <1>6, <1>7, <1>8, <1>9, <1>10, <1>11

(* A booking loses its mark only to a request that holds it.               *)
LEMMA Unmarked ==
  ASSUME IInv, [Next]_vars, NEW o \in Bookings, mark[o] # Nothing, mark'[o] = Nothing
  PROVE  ~HasReplacement(o) /\ \E r \in Requests : req'[r] = Idle /\ o \in req[r].has
<1>1. ~Quiet
  BY DEF Quiet
<1>2. mark' # mark
  OBVIOUS
<1>3. PICK r \in Requests :
        /\ req'[r] = Idle
        /\ Create(r) \/ PlaceHold(r) \/ ConfirmHold(r) \/ MakePrimary(r) \/ Approve(r) \/ ConfirmRestore(r)
  BY <1>1, Kinds
<1>4. ConfirmRestore(r)
  BY <1>2, <1>3 DEF Create, PlaceHold, ConfirmHold, MakePrimary, Approve
<1> QED
  BY <1>3, <1>4, ConfirmRestoreEffects

(* Bookings stay what they were made for.                                  *)
LEMMA Grows ==
  ASSUME IInv, [Next]_vars, NEW b \in Bookings, status[b] # "none"
  PROVE  /\ status'[b] # "none" /\ asked'[b] = asked[b]
         /\ status'[b] \in Holding => status[b] \in Holding
         /\ status'[b] = "held" => status[b] = "held"
<1>1. TypeOK /\ Change
  BY Step DEF IInv
<1>2. CASE Nowhere
  BY <1>2 DEF Nowhere
<1>3. ASSUME NEW c \in Bookings, NEW a \in Asked, Inserted(c, a)
      PROVE  status'[b] = status[b] /\ asked'[b] = asked[b]
  BY <1>1, <1>3 DEF Inserted, TypeOK
<1>4. ASSUME NEW c \in Bookings, HoldConfirmed(c)
      PROVE  /\ asked'[b] = asked[b]
             /\ status'[b] = status[b] \/ (status[b] = "held" /\ status'[b] = "requested")
  BY <1>1, <1>4 DEF HoldConfirmed, TypeOK
<1>5. ASSUME NEW c \in Bookings, NEW others \in SUBSET (Claiming \ {c}), ApprovedOver(c, others)
      PROVE  /\ asked'[b] = asked[b]
             /\ status'[b] = status[b] \/ (status[b] \in Holding /\ status'[b] \in {"approved", "replaced"})
  BY <1>5 DEF ApprovedOver, Claiming, Holding, Live
<1>6. ASSUME NEW leaving \in SUBSET Claiming, NEW s \in Closed, GivenUp(leaving, s)
      PROVE  asked'[b] = asked[b] /\ (status'[b] = status[b] \/ status'[b] \in Closed)
  BY <1>6 DEF GivenUp
<1>7. ASSUME NEW v \in Venues, NEW u \in Buffers, MeasuredAgain(v, u)
      PROVE  status'[b] = status[b] /\ asked'[b] = asked[b]
  BY <1>7 DEF MeasuredAgain
<1> QED
  BY <1>1, <1>2, <1>3, <1>4, <1>5, <1>6, <1>7 DEF Change, Holding, Live, Closed

(* Replacements stay what they were made as.                              *)
LEMMA ReplacesStays ==
  ASSUME IInv, Replaces, RequestsKeep, [Next]_vars
  PROVE  Replaces'
<1> SUFFICES ASSUME NEW b \in Bookings, status'[b] # "none", asked'[b].replaces # Nothing
             PROVE  LET o == asked'[b].replaces
                    IN status'[b] # "held" /\ status'[o] # "none" /\ asked'[o].event = asked'[b].event
  BY DEF Replaces
<1> DEFINE o == asked'[b].replaces
<1>1. o \in Bookings
  BY Step DEF IInv, TypeOK, Asked
<1>2. CASE status[b] # "none"
  <2>1. asked'[b] = asked[b] /\ (status'[b] = "held" => status[b] = "held")
    BY <1>2, Grows
  <2>2. status[b] # "held" /\ status[o] # "none" /\ asked[o].event = asked[b].event
    BY <1>2, <2>1 DEF Replaces
  <2>3. status'[o] # "none" /\ asked'[o] = asked[o]
    BY <1>1, <2>2, Grows
  <2> QED
    BY <2>1, <2>2, <2>3
<1>3. CASE status[b] = "none"
  <2>1. ~Quiet
    BY <1>3 DEF Quiet, Closed
  <2>2. PICK r \in Requests :
          Create(r) \/ PlaceHold(r) \/ ConfirmHold(r) \/ MakePrimary(r) \/ Approve(r) \/ ConfirmRestore(r)
    BY <2>1, Kinds
  <2>3. ~(ConfirmHold(r) \/ MakePrimary(r) \/ Approve(r) \/ ConfirmRestore(r))
    BY <1>3, ConfirmHoldEffects, MakePrimaryEffects, ApproveEffects, ConfirmRestoreEffects DEF Alike, Holding, Live
  <2>4. CASE Create(r)
    <3>1. b = req[r].booking /\ status'[b] = "requested" /\ asked'[b] = req[r].asked
          /\ req[r].op = "create" /\ req[r].step = 4
      BY <1>3, <2>4, CreateEffects DEF Alike
    <3>2. status[o] # "none" /\ asked[o].event = asked'[b].event
      BY <3>1 DEF RequestsKeep, Keeps
    <3>3. status'[o] # "none" /\ asked'[o] = asked[o]
      BY <1>1, <3>2, Grows
    <3> QED
      BY <3>1, <3>2, <3>3
  <2>5. CASE PlaceHold(r)
    <3>1. b = req[r].booking /\ asked'[b] = req[r].asked /\ req[r].op = "place_hold"
      BY <1>3, <2>5, PlaceHoldEffects DEF Alike
    <3> QED
      BY <3>1 DEF RequestsKeep, Keeps
  <2> QED
    BY <2>2, <2>3, <2>4, <2>5
<1> QED
  BY <1>2, <1>3

(* What a request relies on is so for as long as it is under way: it holds *)
(* the venue it replaces and the event.                                    *)
LEMMA KeepsStay ==
  ASSUME IInv, Consistent, Replaces, RequestsKeep, [Next]_vars
  PROVE  RequestsKeep'
<1> SUFFICES ASSUME NEW p \in Requests PROVE Keeps(req[p])'
  BY DEF RequestsKeep
<1> DEFINE n == req'[p]
           q == req[p]
<1>1. Keeps(q)
  BY DEF RequestsKeep
<1>2. CASE n = Idle
  BY <1>2 DEF Keeps, Idle, Fresh
<1>3. CASE n # Idle /\ n = q
  <2>1. q.op # "none" => Aims(q) /\ q.step \in 1..Len(Plan[q.op]) /\ q \in Transaction
    BY Busy DEF Sound
  <2>2. \A r \in Requests : \A x : x \in q.has /\ x \in req[r].has => req'[r] # Idle
    BY <1>3 DEF IInv, Exclusive
  <2>3. ASSUME q.op = "create", q.step >= 3, q.asked.replaces # Nothing
        PROVE  \E o : /\ o = q.asked.replaces /\ status'[o] # "none" /\ asked'[o].event = q.asked.event
                      /\ mark'[o] # Nothing /\ ~HasReplacement(o)'
    <3>1. PICK o \in Bookings : o = q.asked.replaces
      BY <2>1, <2>3 DEF Transaction, Asked
    <3>2. status[o] # "none" /\ asked[o].event = q.asked.event /\ mark[o] # Nothing /\ ~HasReplacement(o)
      BY <1>1, <2>3, <3>1 DEF Keeps
    <3>3. Plan[q.op][2] = "original" /\ q.op # "none"
      BY <2>3, PlansOf, Zenon
    <3>4. q.step \in 1..5
      BY <2>1, <3>3, NextStatement DEF Aims
    <3>5. 2 \in 1..q.step /\ 2 < q.step
      BY <2>3, <3>4
    <3>6. Keys(q, 2) \subseteq q.has
      BY <3>3, <3>5, HasKeys
    <3>7. o \in q.has
      BY <2>3, <3>1, <3>3, <3>6 DEF Keys
    <3>8. mark'[o] # Nothing
      BY <2>2, <3>1, <3>2, <3>7, Unmarked
    <3>9. ~HasReplacement(o)'
      BY <2>2, <3>1, <3>2, <3>7, NewReplacement
    <3>10. status'[o] # "none" /\ asked'[o] = asked[o]
      BY <3>1, <3>2, Grows
    <3> QED
      BY <3>1, <3>2, <3>8, <3>9, <3>10
  <2>4. ASSUME q.op \in {"create", "confirm_hold"}, q.step = Len(Plan[q.op]), ~q.seen.primary
        PROVE  \E e : e = q.asked.event /\ ~HasPrimary(e)'
    <3>1. PICK e \in Events : e = q.asked.event
      BY <2>1, <2>4 DEF Aims, Inserting, AboutBooking
    <3>2. ~HasPrimary(e)
      BY <1>1, <2>4, <3>1 DEF Keeps
    <3>3. Plan[q.op][1] = "event" /\ q.op # "none" /\ Len(Plan[q.op]) \in {3, 4}
      <4>1. CASE q.op = "create"
        BY <4>1, PlansOf
      <4>2. CASE q.op = "confirm_hold"
        BY <4>2, PlansOf
      <4> QED
        BY <2>4, <4>1, <4>2
    <3>4. 1 \in 1..q.step /\ 1 < q.step
      <4>1. q.step \in {3, 4}
        BY <2>4, <3>3, Zenon
      <4> QED
        BY <4>1
    <3>5. Keys(q, 1) \subseteq q.has
      BY <3>3, <3>4, HasKeys
    <3>6. q.asked.event \in q.has
      BY <3>3, <3>5 DEF Keys
    <3>7. e \in q.has
      BY <3>1, <3>6
    <3>8. ~HasPrimary(e)'
      BY <2>2, <3>2, <3>7, NewPrimary
    <3> QED
      BY <3>1, <3>8
  <2> QED
    BY <1>1, <1>3, <2>3, <2>4 DEF Keeps, HasReplacement, HasPrimary, LiveFor
<1>4. CASE n # Idle /\ n # q
  <2>1. /\ UNCHANGED bookingVars
        /\ \/ n.step = 1 /\ \E op \in Operations : \E a \in Asking(op) : n = At(a, 1)
           \/ /\ q.op # "none" /\ n.op = q.op /\ n.asked = q.asked /\ n.step = q.step /\ n.seen = q.seen
           \/ /\ q.op # "none" /\ q.todo = {} /\ Passes(q) /\ q.step \in 1..5
              /\ n.op = q.op /\ n.asked = q.asked /\ n.step = q.step + 1 /\ n.seen = Reading(q)
    BY <1>4, Moves
  <2>2. UNCHANGED <<status, asked, primary, mark>>
    BY <2>1 DEF bookingVars
  <2>3. Keeps(n) => Keeps(req[p])'
    BY <2>2 DEF Keeps, HasReplacement, HasPrimary, LiveFor
  <2>4. CASE n.step = 1 /\ \E op \in Operations : \E a \in Asking(op) : n = At(a, 1)
    <3>1. PICK op \in Operations : \E a \in Asking(op) : n = At(a, 1)
      BY <2>4
    <3>2. PICK a \in Asking(op) : n = At(a, 1)
      BY <3>1
    <3>3. a \in Transaction /\ a.op = op
      BY <3>2, AskedFor
    <3>4. n.op = op /\ n.asked = a.asked
      BY <3>2, <3>3 DEF At, Transaction
    <3>5. op = "place_hold" => a.asked.replaces = Nothing
      <4> SUFFICES ASSUME op = "place_hold" PROVE a.asked.replaces = Nothing
        OBVIOUS
      <4>1. a \in NewBookings(op)
        BY <3>2, Zenon DEF Asking, AboutBooking, AboutPeriod, AboutEvent
      <4>2. PICK b \in {c \in Bookings \ Promised : status[c] = "none"} :
              \E x \in Payloads(op) : a = Fresh(op, b, x, Nothing, Nothing, NotSeen)
        BY <4>1 DEF NewBookings
      <4>3. PICK x \in Payloads(op) : a = Fresh(op, b, x, Nothing, Nothing, NotSeen)
        BY <4>2
      <4>4. a.asked = x /\ x.replaces = Nothing
        BY <4>3 DEF Fresh, Payloads
      <4> QED
        BY <4>4
    <3>6. n.op \in {"create", "confirm_hold"} => n.step # Len(Plan[n.op])
      <4>1. n.op \in {"create", "confirm_hold"} => Len(Plan[n.op]) # 1
        <5>1. n.op = "create" => Len(Plan[n.op]) = 4
          BY PlansOf, Zenon
        <5>2. n.op = "confirm_hold" => Len(Plan[n.op]) = 3
          BY PlansOf, Zenon
        <5> QED
          BY <5>1, <5>2
      <4> QED
        BY <2>4, <4>1
    <3> QED
      BY <2>3, <2>4, <3>4, <3>5, <3>6 DEF Keeps
  <2>5. CASE n.op = q.op /\ n.asked = q.asked /\ n.step = q.step /\ n.seen = q.seen
    BY <1>1, <2>3, <2>5 DEF Keeps
  <2>6. CASE /\ q.op # "none" /\ q.todo = {} /\ Passes(q) /\ q.step \in 1..5
             /\ n.op = q.op /\ n.asked = q.asked /\ n.step = q.step + 1 /\ n.seen = Reading(q)
    <3>1. ASSUME n.op = "create", n.step >= 3, n.asked.replaces # Nothing
          PROVE  LET o == n.asked.replaces
                 IN status[o] # "none" /\ asked[o].event = n.asked.event /\ mark[o] # Nothing /\ ~HasReplacement(o)
      <4>1. CASE q.step >= 3
        BY <1>1, <2>6, <3>1, <4>1 DEF Keeps
      <4>2. CASE q.step = 2
        <5>1. Replaceable(q.asked.replaces, q.asked.event)
          BY <2>6, <3>1, <4>2 DEF Passes, MayCreate
        <5> QED
          BY <2>6, <5>1 DEF Replaceable, NeedsRearrangement, Holding, Live
      <4> QED
        BY <2>6, <3>1, <4>1, <4>2
    <3>2. ASSUME n.op \in {"create", "confirm_hold"}, n.step = Len(Plan[n.op]), ~n.seen.primary
          PROVE  ~HasPrimary(n.asked.event)
      <4>1. Len(Plan[q.op]) \in {3, 4}
        BY <2>6, <3>2, PlansOf, Zenon
      <4>2. q.step = Len(Plan[q.op]) - 1 /\ q.op \in {"create", "confirm_hold"} /\ q.op # "approve"
        BY <2>6, <3>2, <4>1
      <4>3. Reading(q) = [q.seen EXCEPT !.primary = HasPrimary(q.asked.event)]
        BY <4>2, Zenon DEF Reading
      <4>4. q.seen \in [status : {"none"} \cup Holding \cup Closed, primary : BOOLEAN,
                        event : {"planning", "confirmed", "cancelled"}]
        BY <2>6, Busy DEF Transaction
      <4> QED
        BY <2>6, <3>2, <4>3, <4>4
    <3> QED
      BY <1>1, <2>3, <2>6, <3>1, <3>2 DEF Keeps
  <2> QED
    BY <2>1, <2>4, <2>5, <2>6
<1> QED
  BY <1>2, <1>3, <1>4

(* A step that makes at most one booking primary.                          *)
LEMMA PrimaryMoves ==
  ASSUME OnePrimary, NEW b,
         \A c \in Bookings \ {b} : status'[c] \in Live /\ primary'[c] =>
           status[c] \in Live /\ primary[c] /\ asked'[c] = asked[c],
         b \in Bookings /\ status'[b] \in Live /\ primary'[b] =>
           \A c \in Bookings \ {b} : ~(status'[c] \in Live /\ primary'[c] /\ asked'[c].event = asked'[b].event)
  PROVE  OnePrimary'
BY DEF OnePrimary

(* No operation makes a second primary venue.                             *)
LEMMA PrimaryStays ==
  ASSUME IInv, Consistent, Replaces, RequestsKeep, OnePrimary, [Next]_vars
  PROVE  OnePrimary'
<1>1. \A e : \A c \in Bookings : status[c] \in Live /\ primary[c] /\ asked[c].event = e => HasPrimary(e)
  BY DEF HasPrimary, LiveFor
<1>2. CASE Quiet
  BY <1>2 DEF Quiet, OnePrimary, Closed, Live
<1>3. ASSUME NEW r \in Requests, Create(r)
      PROVE  OnePrimary'
  <2>1. req[r].op = "create" /\ req[r].step = Len(Plan[req[r].op])
    BY <1>3, CreateEffects
  <2>2. ~req[r].seen.primary => ~HasPrimary(req[r].asked.event)
    BY <2>1 DEF RequestsKeep, Keeps
  <2>3. /\ \A c \in Bookings \ {req[r].booking} : Alike(c)
        /\ asked'[req[r].booking] = req[r].asked /\ primary'[req[r].booking] = ~req[r].seen.primary
    BY <1>3, CreateEffects
  <2>4. primary'[req[r].booking] =>
          \A c \in Bookings \ {req[r].booking} :
            ~(status'[c] \in Live /\ primary'[c] /\ asked'[c].event = asked'[req[r].booking].event)
    BY <1>1, <2>2, <2>3 DEF Alike
  <2>5. \A c \in Bookings \ {req[r].booking} : status'[c] \in Live /\ primary'[c] =>
          status[c] \in Live /\ primary[c] /\ asked'[c] = asked[c]
    BY <2>3 DEF Alike
  <2> QED
    BY <2>4, <2>5, PrimaryMoves, Zenon
<1>4. ASSUME NEW r \in Requests, PlaceHold(r)
      PROVE  OnePrimary'
  <2>1. status'[req[r].booking] \notin Live
    BY <1>4, PlaceHoldEffects DEF Live
  <2> QED
    BY <1>4, <2>1, PlaceHoldEffects, PrimaryMoves DEF Alike
<1>5. ASSUME NEW r \in Requests, ConfirmHold(r)
      PROVE  OnePrimary'
  <2>1. req[r].op = "confirm_hold" /\ req[r].step = Len(Plan[req[r].op])
    BY <1>5, ConfirmHoldEffects
  <2>2. ~req[r].seen.primary => ~HasPrimary(req[r].asked.event)
    BY <2>1 DEF RequestsKeep, Keeps
  <2>3. /\ \A c \in Bookings \ {req[r].booking} : Alike(c)
        /\ asked' = asked /\ asked[req[r].booking] = req[r].asked
        /\ primary'[req[r].booking] = ~req[r].seen.primary
    BY <1>5, ConfirmHoldEffects
  <2> QED
    BY <1>1, <2>2, <2>3, PrimaryMoves DEF Alike
<1>6. ASSUME NEW r \in Requests, MakePrimary(r)
      PROVE  OnePrimary'
  <2>1. CASE primary' = primary
    BY <1>6, <2>1, MakePrimaryEffects DEF OnePrimary
  <2>2. CASE primary' # primary
    BY <1>6, <2>2, MakePrimaryEffects, PrimaryMoves DEF LiveFor
  <2> QED
    BY <2>1, <2>2
<1>7. ASSUME NEW r \in Requests, Approve(r)
      PROVE  OnePrimary'
  <2> DEFINE b == req[r].booking
             o == asked[b].replaces
  <2>1. /\ b \in Bookings /\ status[b] = "requested" /\ status'[b] = "approved" /\ asked' = asked
        /\ \A c \in Bookings \ {b} : status'[c] \in Live /\ primary'[c] => status[c] \in Live /\ primary[c]
        /\ primary'[b] =>
             \/ primary[b]
             \/ /\ o \in Bookings /\ status[o] \in Holding /\ primary[o]
                /\ o = b \/ status'[o] = "replaced"
    BY <1>7, ApproveEffects DEF Alike, Live
  <2>2. ASSUME primary'[b],
               NEW c \in Bookings \ {b}, status'[c] \in Live, primary'[c], asked'[c].event = asked'[b].event
        PROVE  FALSE
    <3>1. status[c] \in Live /\ primary[c] /\ asked[c].event = asked[b].event
      BY <2>1, <2>2
    <3>2. CASE primary[b]
      BY <2>1, <3>1, <3>2 DEF OnePrimary, Live
    <3>3. CASE ~primary[b]
      <4>1. o \in Bookings /\ status[o] \in Holding /\ primary[o] /\ status'[o] = "replaced"
        BY <2>1, <2>2, <3>3
      <4>2. status[o] \in Live
        BY <4>1 DEF Consistent, RowsConsistent, Holding
      <4>3. asked[o].event = asked[b].event
        BY <2>1, <4>1, NothingAssumption DEF Replaces
      <4>4. c = o
        BY <3>1, <4>1, <4>2, <4>3 DEF OnePrimary
      <4> QED
        BY <2>2, <4>1, <4>4 DEF Live
    <3> QED
      BY <3>2, <3>3
  <2> HIDE DEF b, o
  <2> QED
    BY <2>1, <2>2, PrimaryMoves
<1>8. ASSUME NEW r \in Requests, ConfirmRestore(r)
      PROVE  OnePrimary'
  BY <1>8, ConfirmRestoreEffects DEF OnePrimary
<1> QED
  BY <1>2, <1>3, <1>4, <1>5, <1>6, <1>7, <1>8, Kinds

(* No operation makes a second replacement or restores what has one.      *)
LEMMA TwinsStay ==
  ASSUME IInv, Replaces, RequestsKeep, NoTwinVenues, [Next]_vars
  PROVE  NoTwinVenues'
<1> SUFFICES ASSUME NEW b \in Bookings, status'[b] \in Live, asked'[b].replaces # Nothing
             PROVE  LET o == asked'[b].replaces
                    IN /\ status'[o] \in Holding => mark'[o] # Nothing
                       /\ \A c \in Bookings : asked'[c].replaces = o /\ status'[c] \in Live => c = b
  BY DEF NoTwinVenues
<1> DEFINE o == asked'[b].replaces
<1>1. o \in Bookings
  BY Step DEF IInv, TypeOK, Asked
<1>2. TypeOK
  BY DEF IInv
<1>3. CASE status[b] \in Live /\ asked[b] = asked'[b]
  <2>1. HasReplacement(o) /\ status[b] # "none"
    BY <1>3 DEF HasReplacement, Live
  <2>2. status[o] # "none"
    BY <1>3, <2>1 DEF Replaces
  <2>3. /\ status[o] \in Holding => mark[o] # Nothing
        /\ \A c \in Bookings : asked[c].replaces = o /\ status[c] \in Live => c = b
    BY <1>3, <2>1 DEF NoTwinVenues
  <2>4. status'[o] \in Holding => mark'[o] # Nothing
    BY <1>1, <2>1, <2>2, <2>3, Grows, Unmarked
  <2>5. ASSUME NEW c \in Bookings, asked'[c].replaces = o, status'[c] \in Live, c # b
        PROVE  FALSE
    <3>1. ~(asked[c].replaces = o /\ status[c] \in Live)
      BY <2>3, <2>5
    <3>2. ~Alike(c) /\ ~Quiet
      BY <2>5, <3>1 DEF Alike, Quiet, Closed, Live
    <3>3. PICK r \in Requests :
            Create(r) \/ PlaceHold(r) \/ ConfirmHold(r) \/ MakePrimary(r) \/ Approve(r) \/ ConfirmRestore(r)
      BY <3>2, Kinds
    <3>4. CASE Create(r)
      <4>1. c = req[r].booking /\ req[r].op = "create" /\ req[r].step = 4 /\ req[r].asked.replaces = o
        BY <2>5, <3>2, <3>4, CreateEffects
      <4> QED
        BY <2>1, <2>5, <4>1, <1>1, NothingAssumption DEF RequestsKeep, Keeps
    <3>5. CASE PlaceHold(r)
      BY <2>5, <3>2, <3>5, PlaceHoldEffects DEF Live
    <3>6. CASE ConfirmHold(r)
      BY <1>1, <2>5, <3>2, <3>6, ConfirmHoldEffects, NothingAssumption DEF Replaces
    <3>7. CASE MakePrimary(r)
      BY <2>5, <3>1, <3>7, MakePrimaryEffects
    <3>8. CASE Approve(r)
      BY <2>5, <3>1, <3>2, <3>8, ApproveEffects DEF Live
    <3>9. CASE ConfirmRestore(r)
      BY <3>2, <3>9, ConfirmRestoreEffects DEF Alike
    <3> QED
      BY <3>3, <3>4, <3>5, <3>6, <3>7, <3>8, <3>9
  <2> QED
    BY <2>4, <2>5
<1>4. CASE ~(status[b] \in Live /\ asked[b] = asked'[b])
  <2>1. ~Alike(b) /\ ~Quiet
    BY <1>4 DEF Alike, Quiet, Closed, Live
  <2>2. PICK r \in Requests :
          Create(r) \/ PlaceHold(r) \/ ConfirmHold(r) \/ MakePrimary(r) \/ Approve(r) \/ ConfirmRestore(r)
    BY <2>1, Kinds
  <2>3. CASE Create(r)
    <3>1. /\ b = req[r].booking /\ req[r].op = "create" /\ req[r].step = 4 /\ req[r].asked.replaces = o
          /\ mark' = mark /\ \A c \in Bookings \ {b} : Alike(c)
      BY <2>1, <2>3, CreateEffects
    <3>2. mark[o] # Nothing /\ ~HasReplacement(o)
      BY <3>1 DEF RequestsKeep, Keeps
    <3> QED
      BY <3>1, <3>2 DEF HasReplacement, Alike
  <2>4. CASE PlaceHold(r)
    BY <2>1, <2>4, PlaceHoldEffects DEF Live
  <2>5. CASE ConfirmHold(r)
    BY <2>1, <2>5, ConfirmHoldEffects DEF Replaces
  <2>6. CASE MakePrimary(r)
    BY <1>4, <2>6, MakePrimaryEffects
  <2>7. CASE Approve(r)
    BY <1>4, <2>1, <2>7, ApproveEffects DEF Live
  <2>8. CASE ConfirmRestore(r)
    BY <2>1, <2>8, ConfirmRestoreEffects DEF Alike
  <2> QED
    BY <2>2, <2>3, <2>4, <2>5, <2>6, <2>7, <2>8
<1> QED
  BY <1>3, <1>4

(* Both, with what the requests rely on, are an invariant.                *)
THEOREM Rearrangement == Spec => [](Replaces /\ RequestsKeep /\ OnePrimary /\ NoTwinVenues)
<1>1. Init => Replaces /\ RequestsKeep /\ OnePrimary /\ NoTwinVenues
  BY DEF Init, Replaces, RequestsKeep, Keeps, Idle, Fresh, OnePrimary, NoTwinVenues, Live
<1>2. IInv /\ Consistent /\ (Replaces /\ RequestsKeep /\ OnePrimary /\ NoTwinVenues) /\ [Next]_vars =>
        (Replaces /\ RequestsKeep /\ OnePrimary /\ NoTwinVenues)'
  BY ReplacesStays, KeepsStay, PrimaryStays, TwinsStay
<1> QED
  BY <1>1, <1>2, Invariance, Consistency, PTL DEF Spec

(* An event never has two primary venues: whoever makes one has locked the *)
(* event since before it looked for another, and an approved replacement   *)
(* takes the place of the one it replaces.                                 *)
THEOREM NeverTwoPrimaries == Spec => []OnePrimary
BY Rearrangement, PTL

(* A booking has one live replacement at most and none once it is restored:*)
(* both need the lock of the booking that is replaced.                     *)
THEOREM NeverTwins == Spec => []NoTwinVenues
BY Rearrangement, PTL

-----------------------------------------------------------------------------
(***************************************************************************)
(* Periods, as long as nobody edits a venue's buffers.                     *)
(***************************************************************************)

(* A request to book or hold a venue has a lock on it, or is about to take *)
(* one, from the moment it asks whether the venue is free.                 *)
AtVenueOf(q) ==
  q.op \in Inserting =>
    /\ q.step = Len(Plan[q.op]) => q.asked.venue \in q.has \cup q.shares
    /\ q.step + 1 = Len(Plan[q.op]) => q.asked.venue \in q.has \cup q.shares \cup q.todo

Orderly ==
  \A r \in Requests :
    /\ req[r].op \in Offered \cup {"none"}
    /\ req[r].op \in AboutPeriod => req[r].asked.venue = req[r].period.venue
    /\ AtVenueOf(req[r])
    /\ \A p \in Requests : p # r => req[p].has \cap req[r].shares = {}

(* It was free of periods when it asked, and is until it commits.          *)
Clear(q) ==
  q.op \in Inserting /\ q.step = Len(Plan[q.op]) => PeriodsOn(q.asked.venue, AskedWindow(q)) = {}

(* The statements that lock a venue's row.                                *)
LEMMA VenuePlans ==
  /\ Len(Plan["create"]) = 4 /\ Plan["create"][3] = "venue shared"
  /\ Len(Plan["place_hold"]) = 3 /\ Plan["place_hold"][2] = "venue shared"
  /\ Len(Plan["record_period"]) = 5 /\ Plan["record_period"][3] = "venue"
BY DEF Plan, CreateRows, PlaceHoldRows, RecordPeriodRows

(* The last statement but one of an insert shares the venue.              *)
LEMMA InsertPlans ==
  ASSUME NEW op \in Inserting
  PROVE  \E j \in {2, 3} : Len(Plan[op]) = j + 1 /\ Plan[op][j] = "venue shared"
<1>1. CASE op = "create"
  <2>1. Len(Plan[op]) = 4 /\ Plan[op][3] = "venue shared"
    BY <1>1, VenuePlans, Zenon
  <2>2. 4 = 3 + 1
    OBVIOUS
  <2> QED
    BY <2>1, <2>2, Zenon
<1>2. CASE op = "place_hold"
  <2>1. Len(Plan[op]) = 3 /\ Plan[op][2] = "venue shared"
    BY <1>2, VenuePlans, Zenon
  <2>2. 3 = 2 + 1
    OBVIOUS
  <2> QED
    BY <2>1, <2>2, Zenon
<1> QED
  BY <1>1, <1>2 DEF Inserting

(* Requests take their locks in this order, and no row is shared and had  *)
(* at once.                                                               *)
LEMMA OrderlyStays ==
  ASSUME IInv, Orderly, [Next]_vars
  PROVE  Orderly'
<1>1. req \in [Requests -> Transaction]
  BY DEF IInv, TypeOK
<1>2. Idle.op = "none" /\ Idle.has = {} /\ Idle.shares = {} /\ "none" \notin Inserting \cup AboutPeriod
  BY DEF Idle, Fresh, Inserting, AboutPeriod
<1>3. ASSUME NEW r \in Requests, NEW n, req' = [req EXCEPT ![r] = n],
             n.op \in Offered \cup {"none"},
             n.op \in AboutPeriod => n.asked.venue = n.period.venue,
             AtVenueOf(n),
             \A p \in Requests : p # r => n.has \cap req[p].shares = {} /\ req[p].has \cap n.shares = {}
      PROVE  Orderly'
  <2>1. req'[r] = n /\ \A p \in Requests : p # r => req'[p] = req[p]
    BY <1>1, <1>3
  <2> SUFFICES ASSUME NEW p \in Requests
               PROVE  /\ req'[p].op \in Offered \cup {"none"}
                      /\ req'[p].op \in AboutPeriod => req'[p].asked.venue = req'[p].period.venue
                      /\ AtVenueOf(req[p])'
                      /\ \A o \in Requests : o # p => req'[o].has \cap req'[p].shares = {}
    BY DEF Orderly
  <2>2. AtVenueOf(req'[p]) => AtVenueOf(req[p])'
    BY DEF AtVenueOf
  <2> QED
    BY <1>3, <2>1, <2>2 DEF Orderly
<1>4. ASSUME NEW r \in Requests, NEW op \in Offered, Begin(r, op)
      PROVE  Orderly'
  <2>1. op \in Operations
    BY OfferedAssumption
  <2>2. PICK a \in Asking(op) : req' = [req EXCEPT ![r] = At(a, 1)]
    BY <1>4 DEF Begin
  <2>3. /\ a \in Transaction /\ a.op = op /\ a.has = {} /\ a.shares = {}
        /\ op \in AboutPeriod => a.asked.venue = a.period.venue
    BY <2>1, <2>2, AskedFor
  <2>4. PICK n : n = At(a, 1)
    OBVIOUS
  <2>5. n.op = op /\ n.asked = a.asked /\ n.period = a.period /\ n.has = {} /\ n.shares = {} /\ n.step = 1
    BY <2>3, <2>4 DEF At, Transaction
  <2>6. AtVenueOf(n)
    <3>1. n.op \in Inserting => \E j \in {2, 3} : Len(Plan[n.op]) = j + 1
      BY InsertPlans
    <3> QED
      BY <2>5, <3>1 DEF AtVenueOf
  <2> QED
    BY <1>3, <2>2, <2>3, <2>4, <2>5, <2>6
<1>5. ASSUME NEW r \in Requests, Lock(r)
      PROVE  Orderly'
  <2> DEFINE q == req[r]
  <2>1. PICK x \in NextRows(q) :
          /\ \A p \in Requests : ~Blocks(p, r, x)
          /\ req' = [req EXCEPT ![r].todo = @ \ {x},
                                ![r].has = IF Shared(q) THEN @ ELSE @ \cup {x},
                                ![r].shares = IF Shared(q) THEN @ \cup {x} ELSE @]
    BY <1>5 DEF Lock
  <2>2. PICK n : n = [q EXCEPT !.todo = @ \ {x}, !.has = IF Shared(q) THEN @ ELSE @ \cup {x},
                               !.shares = IF Shared(q) THEN @ \cup {x} ELSE @]
    OBVIOUS
  <2>3. req' = [req EXCEPT ![r] = n]
    BY <1>1, <2>1, <2>2
  <2>4. /\ n.op = q.op /\ n.asked = q.asked /\ n.period = q.period /\ n.step = q.step
        /\ n.todo = q.todo \ {x}
        /\ n.has = IF Shared(q) THEN q.has ELSE q.has \cup {x}
        /\ n.shares = IF Shared(q) THEN q.shares \cup {x} ELSE q.shares
    BY <1>1, <2>2 DEF Transaction
  <2>5. q.has \cup q.shares \subseteq n.has \cup n.shares
        /\ q.has \cup q.shares \cup q.todo \subseteq n.has \cup n.shares \cup n.todo
    BY <2>4
  <2>6. AtVenueOf(q) /\ q.op \in Offered \cup {"none"} /\ (q.op \in AboutPeriod => q.asked.venue = q.period.venue)
    BY DEF Orderly
  <2>7. AtVenueOf(n)
    BY <2>4, <2>5, <2>6 DEF AtVenueOf
  <2>8. \A p \in Requests : p # r => n.has \cap req[p].shares = {} /\ req[p].has \cap n.shares = {}
    BY <2>1, <2>4 DEF Blocks, Orderly
  <2> QED
    BY <1>3, <2>3, <2>4, <2>6, <2>7, <2>8
<1>6. ASSUME NEW r \in Requests, Proceed(r)
      PROVE  Orderly'
  <2> DEFINE q == req[r]
  <2>1. req[r].op # "none" /\ req[r].todo = {} /\ ~Last(req[r])
    BY <1>6 DEF Proceed, Locked
  <2>2. q \in Transaction /\ q.step \in 1..Len(Plan[q.op]) /\ q.step \in 1..5
    BY <2>1, Busy, NextStatement DEF Sound
  <2>3. PICK m : m = [q EXCEPT !.seen = Reading(q)]
    OBVIOUS
  <2>4. /\ m.op = q.op /\ m.asked = q.asked /\ m.period = q.period /\ m.has = q.has /\ m.shares = q.shares
        /\ DOMAIN m = DOMAIN q
    BY <2>2, <2>3 DEF Transaction
  <2>5. PICK n : n = At(m, q.step + 1)
    OBVIOUS
  <2>6. req' = [req EXCEPT ![r] = n]
    BY <1>1, <1>6, <2>3, <2>5 DEF Proceed
  <2>7. /\ n.op = q.op /\ n.asked = q.asked /\ n.period = q.period /\ n.has = q.has /\ n.shares = q.shares
        /\ n.step = q.step + 1 /\ n.todo = Found(m, Plan[q.op][q.step + 1]) \ q.has
    BY <2>2, <2>4, <2>5 DEF At, Transaction
  <2>8. AtVenueOf(q) /\ q.op \in Offered \cup {"none"} /\ (q.op \in AboutPeriod => q.asked.venue = q.period.venue)
    BY DEF Orderly
  <2>9. AtVenueOf(n)
    <3> SUFFICES ASSUME n.op \in Inserting
                 PROVE  /\ n.step = Len(Plan[n.op]) => n.asked.venue \in n.has \cup n.shares
                        /\ n.step + 1 = Len(Plan[n.op]) => n.asked.venue \in n.has \cup n.shares \cup n.todo
      BY DEF AtVenueOf
    <3>1. PICK j \in {2, 3} : Len(Plan[q.op]) = j + 1 /\ Plan[q.op][j] = "venue shared"
      BY <2>7, InsertPlans
    <3>2. n.step = j + 1 => q.asked.venue \in q.has \cup q.shares
      BY <2>1, <2>2, <2>7, <2>8, <3>1 DEF AtVenueOf
    <3>3. n.step + 1 = j + 1 => n.step = j
      BY <2>2, <2>7
    <3>4. n.step + 1 = j + 1 => Found(m, Plan[q.op][q.step + 1]) = {q.asked.venue}
      BY <2>4, <2>7, <3>1, <3>3 DEF Found
    <3> QED
      BY <2>7, <3>1, <3>2, <3>4
  <2>10. \A p \in Requests : p # r => n.has \cap req[p].shares = {} /\ req[p].has \cap n.shares = {}
    BY <2>7 DEF Orderly
  <2> QED
    BY <1>3, <2>6, <2>7, <2>8, <2>9, <2>10
<1>7. ASSUME NEW r \in Requests, Commit(r) \/ Refuse(r) \/ Abort(r)
      PROVE  Orderly'
  <2>1. End(r)
    BY <1>7 DEF Commit, Refuse, Abort, Create, PlaceHold, ConfirmHold, MakePrimary, Withdraw, Reject, Approve,
                RequestRestore, DeclineRestore, ConfirmRestore, RecordPeriod, EndPeriod, EditBuffers, CancelEvent,
                ConfirmEvent, ChangeEvent
  <2>2. AtVenueOf(Idle)
    BY <1>2 DEF AtVenueOf
  <2>3. req' = [req EXCEPT ![r] = Idle]
    BY <2>1 DEF End
  <2> QED
    BY <1>2, <1>3, <2>2, <2>3
<1>8. ASSUME req' = req
      PROVE  Orderly'
  BY <1>8 DEF Orderly, AtVenueOf
<1> QED
  BY <1>4, <1>5, <1>6, <1>7, <1>8 DEF Next, GoOn, HoldDue, LapseHold, vars

(* What a step may do to the periods and to what is clear of them.         *)
Clearing ==
  /\ \A b \in Bookings : status'[b] \in Holding =>
       \/ status[b] \in Holding /\ asked'[b] = asked[b] /\ occupied'[b] = occupied[b]
       \/ PeriodsOn(asked'[b].venue, occupied'[b]) = {} /\ period' = period
  /\ \A b \in Claiming : mark'[b] = Nothing =>
       mark[b] = Nothing \/ (PeriodsOn(asked[b].venue, occupied[b]) = {} /\ period' = period)
  /\ \A p \in Periods : period'[p] = "on" =>
       \/ period[p] = "on"
       \/ /\ \A b \in Hit(p) : mark'[b] # Nothing
          /\ UNCHANGED <<status, asked, occupied>>
          /\ \E r \in Requests : req'[r] = Idle /\ p.venue \in req[r].has

(* No step does more than that, unless it edits buffers.                  *)
LEMMA Clears ==
  ASSUME "edit_buffers" \notin Offered, IInv, Orderly, \A r \in Requests : Clear(req[r]), [Next]_vars
  PROVE  Clearing /\ buffers' = buffers
<1>1. TypeOK
  BY DEF IInv
<1>2. ASSUME UNCHANGED <<asked, occupied, mark, period>>,
             \A b \in Bookings : status'[b] \in Holding => status[b] \in Holding
      PROVE  Clearing
  BY <1>2 DEF Clearing
<1>3. ASSUME NEW r \in Requests, EditBuffers(r)
      PROVE  FALSE
  BY <1>3 DEF EditBuffers, Ready, Orderly
<1>4. ASSUME NEW r \in Requests,
             (\E op \in Offered : Begin(r, op)) \/ Lock(r) \/ Proceed(r) \/ Refuse(r) \/ Abort(r)
      PROVE  Clearing /\ buffers' = buffers
  BY <1>2, <1>4 DEF Begin, Lock, Proceed, Refuse, Abort, bookingVars, otherVars
<1>5. ASSUME NEW r \in Requests, MakePrimary(r) \/ RequestRestore(r) \/ DeclineRestore(r) \/ ConfirmEvent(r)
                                 \/ ChangeEvent(r)
      PROVE  Clearing /\ buffers' = buffers
  BY <1>2, <1>5 DEF MakePrimary, RequestRestore, DeclineRestore, ConfirmEvent, ChangeEvent, bookingVars, otherVars
<1>6. ASSUME NEW r \in Requests, Withdraw(r) \/ Reject(r) \/ CancelEvent(r)
      PROVE  Clearing /\ buffers' = buffers
  <2>1. UNCHANGED <<asked, occupied, mark, period, buffers>>
    BY <1>6 DEF Withdraw, Reject, CancelEvent, otherVars
  <2>2. \A b \in Bookings : status'[b] \in Holding => status[b] \in Holding
    BY <1>6 DEF Withdraw, Reject, CancelEvent, Close, Holding, Live
  <2> QED
    BY <1>2, <2>1, <2>2
<1>7. ASSUME NEW r \in Requests, ConfirmHold(r)
      PROVE  Clearing /\ buffers' = buffers
  <2>1. UNCHANGED <<asked, occupied, mark, period, buffers>>
    BY <1>7 DEF ConfirmHold, otherVars
  <2>2. \A b \in Bookings : status'[b] \in Holding => status[b] \in Holding
    BY <1>7, ConfirmHoldEffects DEF Alike, Holding
  <2> QED
    BY <1>2, <2>1, <2>2
<1>8. ASSUME NEW r \in Requests, Approve(r)
      PROVE  Clearing /\ buffers' = buffers
  <2>1. UNCHANGED <<asked, occupied, mark, period, buffers>>
    BY <1>8 DEF Approve, otherVars
  <2>2. \A b \in Bookings : status'[b] \in Holding => status[b] \in Holding
    BY <1>8, ApproveEffects DEF Alike, Holding, Live
  <2> QED
    BY <1>2, <2>1, <2>2
<1>9. ASSUME NEW r \in Requests, Create(r) \/ PlaceHold(r)
      PROVE  Clearing /\ buffers' = buffers
  <2> DEFINE q == req[r]
             b == q.booking
  <2>1. /\ b \in Bookings /\ status[b] = "none" /\ asked' = [asked EXCEPT ![b] = q.asked]
        /\ \E s \in Lapsing : status' = [status EXCEPT ![b] = s]
        /\ occupied' = [occupied EXCEPT ![b] = AskedWindow(q)] /\ buffers' = buffers
    BY <1>9, Inserts
  <2>2. mark' = mark /\ period' = period
    BY <1>9 DEF Create, PlaceHold, otherVars
  <2>3. PICK op \in Inserting : Ready(r, op)
    BY <1>9 DEF Create, PlaceHold, Inserting
  <2>4. PeriodsOn(q.asked.venue, AskedWindow(q)) = {}
    BY <2>3 DEF Ready, Last, Clear
  <2>5. PeriodsOn(asked'[b].venue, occupied'[b]) = {}
    BY <1>1, <2>1, <2>4 DEF TypeOK
  <2>6. \A c \in Bookings \ {b} : asked'[c] = asked[c] /\ occupied'[c] = occupied[c] /\ status'[c] = status[c]
    BY <1>1, <2>1 DEF TypeOK
  <2> QED
    BY <2>1, <2>2, <2>5, <2>6 DEF Clearing
<1>10. ASSUME NEW r \in Requests, ConfirmRestore(r)
       PROVE  Clearing /\ buffers' = buffers
  <2> DEFINE q == req[r]
  <2>1. q.op = "confirm_restore" /\ q.step = Len(Plan[q.op]) /\ Passes(q)
    BY <1>10, AtCommit DEF ConfirmRestore, Operations, Plan
  <2>2. q.step = 2
    BY <2>1, PlansOf, Zenon
  <2>3. PeriodsOn(asked[q.booking].venue, occupied[q.booking]) = {}
    BY <2>1, <2>2 DEF Passes, MayConfirmRestore, Restorable
  <2>4. UNCHANGED <<status, asked, occupied, period, buffers>>
        /\ \A c \in Bookings \ {q.booking} : mark'[c] = mark[c]
    BY <1>10, ConfirmRestoreEffects DEF ConfirmRestore, otherVars
  <2> QED
    BY <2>3, <2>4 DEF Clearing, Claiming
<1>11. ASSUME NEW r \in Requests, RecordPeriod(r)
       PROVE  Clearing /\ buffers' = buffers
  <2> DEFINE q == req[r]
             p == q.period
  <2>1. /\ q.op = "record_period" /\ q.step = Len(Plan[q.op]) /\ Aims(q) /\ q.todo = {}
    BY <1>11, AtCommit DEF RecordPeriod, Operations, Plan, Ready, Locked
  <2>2. p \in Periods /\ q.asked.venue = p.venue
    BY <2>1 DEF Aims, AboutPeriod, Orderly
  <2>3. Plan[q.op][3] = "venue" /\ Len(Plan[q.op]) = 5
    BY <2>1, VenuePlans
  <2>4. 3 \in 1..q.step /\ q.op # "none"
    BY <2>1, <2>3
  <2>5. Keys(q, 3) \subseteq q.has
    BY <2>1, <2>4, HasKeys
  <2>6. p.venue \in q.has
    BY <2>2, <2>3, <2>5 DEF Keys
  <2>7. req'[r] = Idle
    BY <1>1, <1>11 DEF RecordPeriod, End, TypeOK
  <2>8. /\ UNCHANGED <<status, asked, occupied, buffers>>
        /\ \A x \in Periods : x # p => period'[x] = period[x]
        /\ \A b \in Bookings : mark'[b] = IF b \in Hit(p) /\ mark[b] = Nothing THEN p ELSE mark[b]
    BY <1>1, <1>11 DEF RecordPeriod, TypeOK
  <2>9. \A b \in Bookings : mark[b] # Nothing => mark'[b] # Nothing
    BY <2>2, <2>8, NothingAssumption
  <2>10. \A b \in Hit(p) : mark'[b] # Nothing
    BY <2>2, <2>8, NothingAssumption DEF Hit, ClaimingAt, Claiming
  <2> HIDE DEF p
  <2> QED
    BY <2>6, <2>7, <2>8, <2>9, <2>10 DEF Clearing, Claiming
<1>12. ASSUME NEW r \in Requests, EndPeriod(r)
       PROVE  Clearing /\ buffers' = buffers
  <2>1. \A b \in Bookings : mark[b] # Nothing => mark'[b] # Nothing
    <3>1. req[r].period \in Periods
      <4>1. Aims(req[r]) /\ req[r].op = "end_period"
        BY <1>12, AtCommit DEF EndPeriod, Operations, Plan
      <4> QED
        BY <4>1 DEF Aims, AboutPeriod
    <3> QED
      BY <1>12, <3>1, NothingAssumption DEF EndPeriod, PeriodsOn
  <2>2. UNCHANGED <<status, asked, occupied, buffers>> /\ \A p \in Periods : period'[p] = "on" => period[p] = "on"
    BY <1>1, <1>12 DEF EndPeriod, TypeOK
  <2> QED
    BY <2>1, <2>2 DEF Clearing, Claiming
<1>13. ASSUME NEW b \in Bookings, HoldDue(b) \/ LapseHold(b)
       PROVE  Clearing /\ buffers' = buffers
  <2>1. UNCHANGED <<asked, occupied, mark, period, buffers>>
    BY <1>13 DEF HoldDue, LapseHold, otherVars
  <2>2. \A c \in Bookings : status'[c] \in Holding => status[c] \in Holding
    BY <1>13 DEF HoldDue, LapseHold, Close, Holding, Live
  <2> QED
    BY <1>2, <2>1, <2>2
<1>14. CASE UNCHANGED vars
  BY <1>2, <1>14 DEF vars
<1> QED
  BY <1>3, <1>4, <1>5, <1>6, <1>7, <1>8, <1>9, <1>10, <1>11, <1>12, <1>13, <1>14 DEF Next, GoOn, Commit

(* What an insert found free stays free until it commits: a period needs  *)
(* the venue.                                                             *)
LEMMA ClearStays ==
  ASSUME "edit_buffers" \notin Offered, IInv, Orderly, \A r \in Requests : Clear(req[r]), [Next]_vars
  PROVE  \A r \in Requests : Clear(req[r])'
<1> SUFFICES ASSUME NEW a \in Requests PROVE Clear(req[a])'
  OBVIOUS
<1> DEFINE n == req'[a]
           q == req[a]
<1>1. Clearing /\ buffers' = buffers
  BY Clears
<1>2. CASE n = Idle
  BY <1>2 DEF Clear, Idle, Fresh, Inserting
<1>3. CASE n # Idle /\ n = q
  <2> SUFFICES ASSUME q.op \in Inserting, q.step = Len(Plan[q.op]), NEW p \in Periods, period'[p] = "on",
                      p.venue = q.asked.venue, Overlap(p, AskedWindow(q))
               PROVE  FALSE
    BY <1>1, <1>3 DEF Clear, PeriodsOn, AskedWindow
  <2>1. PeriodsOn(q.asked.venue, AskedWindow(q)) = {}
    BY DEF Clear
  <2>2. period[p] # "on"
    BY <2>1 DEF PeriodsOn
  <2>3. PICK r \in Requests : req'[r] = Idle /\ p.venue \in req[r].has
    BY <1>1, <2>2 DEF Clearing
  <2>4. r # a
    BY <1>3, <2>3
  <2>5. q.asked.venue \in q.has \cup q.shares
    BY DEF Orderly, AtVenueOf
  <2> QED
    BY <2>3, <2>4, <2>5 DEF Orderly, IInv, Exclusive
<1>4. CASE n # Idle /\ n # q
  <2>1. /\ UNCHANGED bookingVars
        /\ \/ n.step = 1 /\ \E op \in Operations : \E x \in Asking(op) : n = At(x, 1)
           \/ /\ q.op # "none" /\ n.op = q.op /\ n.asked = q.asked /\ n.step = q.step /\ n.seen = q.seen
           \/ /\ q.op # "none" /\ q.todo = {} /\ Passes(q) /\ q.step \in 1..5
              /\ n.op = q.op /\ n.asked = q.asked /\ n.step = q.step + 1 /\ n.seen = Reading(q)
    BY <1>4, Moves
  <2>2. period' = period
    <3>1. \A r \in Requests : Commit(r) => End(r)
      BY DEF Commit, Create, PlaceHold, ConfirmHold, MakePrimary, Withdraw, Reject, Approve,
             RequestRestore, DeclineRestore, ConfirmRestore, RecordPeriod, EndPeriod, EditBuffers, CancelEvent,
             ConfirmEvent, ChangeEvent
    <3>2. \A r \in Requests : ~End(r)
      BY <1>4 DEF End, IInv, TypeOK
    <3> QED
      BY <3>1, <3>2 DEF Next, GoOn, Begin, Lock, Proceed, Refuse, Abort, HoldDue, LapseHold, otherVars, vars
  <2>3. Clear(n) => Clear(req[a])'
    BY <1>1, <2>2 DEF Clear, PeriodsOn, AskedWindow
  <2>4. CASE n.step = 1 /\ \E op \in Operations : \E x \in Asking(op) : n = At(x, 1)
    <3>1. n.op \in Inserting => \E j \in {2, 3} : Len(Plan[n.op]) = j + 1
      BY InsertPlans
    <3>2. n.op \in Inserting => n.step # Len(Plan[n.op])
      <4>1. n.step = 1
        BY <2>4
      <4> HIDE DEF n, q
      <4> QED
        BY <3>1, <4>1
    <3> QED
      BY <2>3, <3>2, Zenon DEF Clear
  <2>5. CASE n.op = q.op /\ n.asked = q.asked /\ n.step = q.step
    BY <2>3, <2>5 DEF Clear, AskedWindow
  <2>6. CASE /\ Passes(q) /\ q.step \in 1..5
             /\ n.op = q.op /\ n.asked = q.asked /\ n.step = q.step + 1
    <3>1. CASE q.op \in Inserting /\ n.step = Len(Plan[q.op])
      <4>1. /\ q.op = "create" => Len(Plan[q.op]) = 4
            /\ q.op = "place_hold" => Len(Plan[q.op]) = 3
        BY VenuePlans, Zenon
      <4>2. /\ q.op = "create" => q.step = 3
            /\ q.op = "place_hold" => q.step = 2
        <5>1. q.step \in 1..5 /\ q.step + 1 = Len(Plan[q.op])
          BY <2>6, <3>1
        <5>2. \A k \in 1..5 : (k + 1 = 4 => k = 3) /\ (k + 1 = 3 => k = 2)
          OBVIOUS
        <5> QED
          BY <4>1, <5>1, <5>2, Zenon
      <4>3. Free(q.asked.venue, AskedWindow(q), Bookings)
        BY <2>6, <3>1, <4>2 DEF Passes, MayCreate, MayPlaceHold, Inserting
      <4> QED
        BY <2>3, <2>6, <4>3 DEF Free, Clear, AskedWindow
    <3>2. CASE ~(q.op \in Inserting /\ n.step = Len(Plan[q.op]))
      BY <2>3, <2>6, <3>2 DEF Clear
    <3> QED
      BY <3>1, <3>2
  <2> QED
    BY <2>1, <2>4, <2>5, <2>6
<1> QED
  BY <1>2, <1>3, <1>4

(* So what no period marked stays clear of them.                          *)
LEMMA PeriodsMarkStays ==
  ASSUME IInv, PeriodsMark, Clearing
  PROVE  PeriodsMark'
<1> SUFFICES ASSUME NEW b \in Bookings, status'[b] \in Holding, mark'[b] = Nothing,
                    NEW p \in Periods, period'[p] = "on", p.venue = asked'[b].venue, Overlap(p, occupied'[b])
             PROVE  FALSE
  BY DEF PeriodsMark, PeriodsOn, Claiming
<1>1. ~(PeriodsOn(asked'[b].venue, occupied'[b]) = {} /\ period' = period)
  BY DEF PeriodsOn
<1>2. status[b] \in Holding /\ asked'[b] = asked[b] /\ occupied'[b] = occupied[b]
  BY <1>1 DEF Clearing
<1>3. b \in Claiming
  BY <1>2 DEF Claiming
<1>4. mark[b] = Nothing
  BY <1>1, <1>2, <1>3 DEF Clearing
<1>5. PeriodsOn(asked[b].venue, occupied[b]) = {}
  BY <1>3, <1>4 DEF PeriodsMark
<1>6. period[p] # "on"
  BY <1>2, <1>5 DEF PeriodsOn
<1>7. b \in Hit(p)
  BY <1>2, <1>3 DEF Hit, ClaimingAt, Overlap
<1> QED
  BY <1>6, <1>7 DEF Clearing

(* As long as nobody edits a venue's buffers, a claim that no period has   *)
(* marked is in none: who claims a venue shares its row from before it     *)
(* looks for periods until it commits, and who records one has that row.   *)
THEOREM PeriodsAlwaysMark == "edit_buffers" \notin Offered => (Spec => []PeriodsMark)
<1> SUFFICES ASSUME "edit_buffers" \notin Offered PROVE Spec => []PeriodsMark
  OBVIOUS
<1> DEFINE PInv == Orderly /\ (\A r \in Requests : Clear(req[r])) /\ PeriodsMark
<1>1. Init => PInv
  BY DEF Init, Orderly, AtVenueOf, Clear, PeriodsMark, Idle, Fresh, Inserting, AboutPeriod, Claiming, Holding, Live
<1>2. IInv /\ PInv /\ [Next]_vars => PInv'
  <2>1. Orderly /\ IInv /\ [Next]_vars => Orderly'
    BY OrderlyStays
  <2>2. PInv /\ IInv /\ [Next]_vars => (\A r \in Requests : Clear(req[r]))'
    BY ClearStays
  <2>3. PInv /\ IInv /\ [Next]_vars => PeriodsMark'
    BY Clears, PeriodsMarkStays
  <2> QED
    BY <2>1, <2>2, <2>3
<1>3. PInv => PeriodsMark
  OBVIOUS
<1> HIDE DEF PInv
<1> QED
  BY <1>1, <1>2, <1>3, Invariance, PTL DEF Spec
=====================
