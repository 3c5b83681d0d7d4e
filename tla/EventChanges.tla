---------------------------- MODULE EventChanges ----------------------------
(***************************************************************************)
(* Changes to a submitted request and to the event it becomes: what the    *)
(* Organiser asks for, what the coordinator edits, how a change is         *)
(* decided, and what a significant one makes people look at again          *)
(* (change_request_service, edit_service, change_decision_service and      *)
(* review_flag_service of backend/app/event).                              *)
(*                                                                         *)
(* A decision finds its change request before it has locked the event, so  *)
(* it takes two steps: Reach, then the decision under the lock.            *)
(*                                                                         *)
(* Left out: the audit entries, reasons and notices; an event has at most  *)
(* one booking and one equipment line here.  A decided change request is   *)
(* forgotten, and its id used again once no decision in flight names it.   *)
(***************************************************************************)
EXTENDS EventRow

CONSTANTS
  ChangeIds,  \* bound: ids of event_change_requests rows
  MaxReached  \* bound: decisions in flight

Kinds == {"bookings", "reservations", "registrations"}

VARIABLES
  asked,     \* the change request with each id: [by, old, new], or Nothing
  reached,   \* decisions in flight: <<who, change request>>
  flagged,   \* the kinds with a flag that nobody cleared
  arranged,  \* the event's booking, its equipment line, its registrations
  current    \* history: what was made or reviewed since start_at last changed

changeVars == <<asked, reached, flagged, arranged, current>>

Stages == {"none", "asked", "approved", "settled"}

ChangesInit ==
  /\ asked = [i \in ChangeIds |-> Nothing]
  /\ reached = {} /\ flagged = {} /\ current = {}
  /\ arranged = [k \in Kinds |-> "none"]

-----------------------------------------------------------------------------
(* What the event has: an approved line is settled once it is reserved, a  *)
(* booking once it is approved.                                            *)

Live(k) == arranged[k] = "settled" \/ (k = "bookings" /\ arranged[k] = "asked")

\* is_open: a flag goes with its booking; that of an equipment line waits for the next reservation.
Open(k) == k \in flagged /\ (k = "registrations" \/ Live(k))
NoFlagOpen == \A k \in Kinds : ~Open(k)

(* The booking, the line or the registration is made.                      *)
Ask(k) ==
  /\ arranged[k] = "none"
  /\ \/ k = "bookings" /\ event.status = "planning"
     \/ k = "reservations" /\ event.status \in {"planning", "confirmed"}
  /\ arranged' = [arranged EXCEPT ![k] = "asked"]
  /\ current' = IF k = "bookings" THEN current \cup {k} ELSE current
  /\ UNCHANGED <<rowVars, asked, reached, flagged>>

(* Tech support approves the line.                                         *)
ApproveLine ==
  /\ arranged["reservations"] = "asked" /\ event.status # "cancelled"
  /\ arranged' = [arranged EXCEPT !["reservations"] = "approved"]
  /\ UNCHANGED <<rowVars, asked, reached, flagged, current>>

(* The booking is approved, the line reserved, somebody registers.         *)
Settle(k) ==
  /\ \/ k = "bookings" /\ arranged[k] = "asked" /\ event.status = "planning"
     \/ k = "reservations" /\ arranged[k] = "approved" /\ event.status \in {"planning", "confirmed"}
     \/ k = "registrations" /\ arranged[k] = "none" /\ event.status \in {"confirmed", "preparation"}
  /\ arranged' = [arranged EXCEPT ![k] = "settled"]
  /\ current' = IF k = "bookings" THEN current ELSE current \cup {k}
  /\ UNCHANGED <<rowVars, asked, reached, flagged>>

(* The booking is withdrawn or rejected, the line removed before it was    *)
(* approved or its reservation released, the last registration cancelled.  *)
Undo(k) ==
  /\ arranged[k] \notin {"none", "approved"}
  /\ arranged' = [arranged EXCEPT ![k] = IF k = "reservations" /\ @ = "settled" THEN "approved" ELSE "none"]
  /\ current' = current \ {k}
  /\ flagged' = IF k = "bookings" THEN flagged \ {k} ELSE flagged
  /\ UNCHANGED <<rowVars, asked, reached>>

-----------------------------------------------------------------------------
(* A change is asked for.                                                  *)

Requestable == {"submitted", "under_review", "awaiting_clarification", "planning", "confirmed"}
Planned == {"planning", "confirmed"}

\* allowed_fields, and EDIT_FIELDS for the coordinator's own edit
AllowedFields(by) ==
  CASE event.status \in Planned -> {"start_at"} \cup TextFields
    [] by = Creator -> {"preferred_dates"} \cup TextFields
    [] OTHER -> {}

Past(f, v) == f = "preferred_dates" /\ \E d \in v : d < now

Proposals(by) ==
  {new \in {Form(F, day, dates, text) : F \in SUBSET AllowedFields(by) \ {{}}, day \in Days,
                                       dates \in SUBSET Days \ {{}}, text \in [TextFields -> Texts]} :
     \A f \in DOMAIN new : new[f] # detail[f] /\ ~Past(f, new[f])}

Hold(i, by, new) ==
  /\ asked[i] = Nothing /\ \A p \in reached : p[2] # i
  /\ asked' = [asked EXCEPT ![i] = [by |-> by, old |-> [f \in DOMAIN new |-> detail[f]], new |-> new]]
  /\ UNCHANGED <<rowVars, reached, flagged, arranged, current>>

RequestChange(u, i) ==
  /\ u = Creator /\ event.status \in Requestable
  /\ \E new \in Proposals(u) : Hold(i, u, new)

(* The coordinator's edit: one that touches the schedule waits as a whole, *)
(* any other is saved.                                                     *)
EditHeld(c, i) ==
  /\ Assigned(c) /\ event.status = "planning"
  /\ \E new \in Proposals(c) : "start_at" \in DOMAIN new /\ Hold(i, c, new)

With(new) == [f \in Fields |-> IF f \in DOMAIN new THEN new[f] ELSE detail[f]]

EditAtOnce(c) ==
  /\ Assigned(c) /\ event.status = "planning"
  /\ \E new \in Proposals(c) : "start_at" \notin DOMAIN new /\ detail' = With(new)
  /\ UNCHANGED <<event, now, changeVars>>

-----------------------------------------------------------------------------
(* A change is decided.                                                    *)

\* _decides: the coordinator, or a Lead for the coordinator's own edit.
Decides(u, r) ==
  /\ r.by # u
  /\ \/ Assigned(u)
     \/ Holds(u, "coordinator_lead") /\ r.by # Creator /\ r.by = event.coordinator

\* _reachable, before any lock
Reach(u, i) ==
  /\ asked[i] # Nothing /\ Decides(u, asked[i])
  /\ Cardinality(reached) < MaxReached
  /\ reached' = reached \cup {<<u, i>>}
  /\ UNCHANGED <<rowVars, asked, flagged, arranged, current>>

(* The request ends undecided: refused, or no more than a read.            *)
GiveUp(u, i) ==
  /\ <<u, i>> \in reached
  /\ reached' = reached \ {<<u, i>>}
  /\ UNCHANGED <<rowVars, asked, flagged, arranged, current>>

\* Variant for the checks: who decides is not asked again once the rows are locked.
LockAsReached(u, i) == <<u, i>> \in reached /\ asked[i] # Nothing

\* _lock
Lock(u, i) == <<u, i>> \in reached /\ asked[i] # Nothing /\ Decides(u, asked[i])

Decided(u, i) ==
  /\ asked' = [asked EXCEPT ![i] = Nothing]
  /\ reached' = reached \ {<<u, i>>}

\* Variant for the checks: only what the stage allows is looked at.
StaleByStage(r) == \E f \in DOMAIN r.new : f \notin AllowedFields(r.by) \/ Past(f, r.new[f])

\* _stale
Stale(r) ==
  \E f \in DOMAIN r.new :
    r.old[f] # detail[f] \/ f \notin AllowedFields(r.by) \/ Past(f, r.new[f])

NotApprovable == {"preparation", "cancelled", "completed", "rejected"}

\* SIGNIFICANT_FIELDS
Affects(f) ==
  CASE f \in {"start_at", "preferred_dates"} -> Kinds
    [] f = "room_layout_preference" -> {"bookings"}
    [] OTHER -> {}

\* Variant for the checks: a booking still waiting for Venue staff is not flagged.
SettledOnly(F) == {k \in UNION {Affects(f) : f \in F} : arranged[k] = "settled"}

\* The kinds _flag raises or adds to.
ToReview(F) == {k \in UNION {Affects(f) : f \in F} : Live(k)}

\* Variant for the checks: only a confirmed event is approved again.
KeepSafety(F) ==
  IF event.status = "confirmed" /\ \E f \in F : Affects(f) # {}
  THEN event' = [event EXCEPT !.status = "planning", !.safety = Nothing]
  ELSE UNCHANGED event

\* Variant for the checks: the event is unsafe again, and still confirmed.
StayConfirmed(F) ==
  IF event.status \in Planned /\ \E f \in F : Affects(f) # {}
  THEN event' = [event EXCEPT !.safety = Nothing]
  ELSE UNCHANGED event

(* A significant change to what is being arranged takes its confirmation   *)
(* and its safety approval away.                                           *)
TakeBack(F) ==
  IF event.status \in Planned /\ \E f \in F : Affects(f) # {}
  THEN event' = [event EXCEPT !.status = "planning", !.safety = Nothing]
  ELSE UNCHANGED event

ApproveChange(u, i) ==
  /\ Lock(u, i)
  /\ event.status \notin NotApprovable /\ ~Stale(asked[i])
  /\ LET F == DOMAIN asked[i].new IN
       /\ detail' = With(asked[i].new)
       /\ TakeBack(F)
       /\ flagged' = IF event.status \in Planned THEN flagged \cup ToReview(F) ELSE flagged
       /\ current' = IF "start_at" \in F THEN {} ELSE current
  /\ Decided(u, i)
  /\ UNCHANGED <<now, arranged>>

RejectChange(u, i) ==
  /\ Lock(u, i)
  /\ Decided(u, i)
  /\ UNCHANGED <<rowVars, flagged, arranged, current>>

(* The coordinator looked at what was flagged.                             *)
ClearFlag(c, k) ==
  /\ Assigned(c) /\ k \in flagged
  /\ flagged' = flagged \ {k}
  /\ current' = IF Live(k) THEN current \cup {k} ELSE current
  /\ UNCHANGED <<rowVars, asked, reached, arranged>>

-----------------------------------------------------------------------------
ChangesNext ==
  \/ ApproveLine
  \/ \E k \in Kinds : Ask(k) \/ Settle(k) \/ Undo(k)
  \/ \E u \in Users :
       \/ EditAtOnce(u)
       \/ \E k \in Kinds : ClearFlag(u, k)
       \/ \E i \in ChangeIds :
            \/ RequestChange(u, i) \/ EditHeld(u, i) \/ Reach(u, i) \/ GiveUp(u, i)
            \/ ApproveChange(u, i) \/ RejectChange(u, i)
=============================================================================
