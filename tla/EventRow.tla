------------------------------ MODULE EventRow ------------------------------
(***************************************************************************)
(* One row of the events table, the people who work on it and the clock:   *)
(* what the services of backend/app/event and backend/app/safety share.    *)
(* Each of them locks the row FOR UPDATE (a change request FOR SHARE)      *)
(* before it reads it, and commits once, so an operation is one step.      *)
(*                                                                         *)
(* Left out: the status approved, which nothing sets any more; every       *)
(* user is active; the details that are neither dates nor in TextFields.   *)
(* A day stands for the event's start on it: it is over once it is now.    *)
(***************************************************************************)
EXTENDS Integers, FiniteSets

CONSTANTS
  Users,       \* ids of users rows
  RolesOf,     \* each user's roles
  Creator,     \* who created the event
  Days,        \* days the event may be on
  LastDay,     \* how far the clock goes
  TextFields,  \* which of name and room_layout_preference are modelled
  Texts,       \* what they may say
  Nothing      \* no coordinator, no start, no approval, no request

Roles == {"organiser", "coordinator", "coordinator_lead", "safety_officer"}

ASSUME PeopleAssumption == RolesOf \in [Users -> SUBSET Roles] /\ Creator \in Users
ASSUME DaysAssumption == Days \subseteq Nat /\ LastDay \in Nat
ASSUME TextsAssumption == TextFields \subseteq {"name", "room_layout_preference"} /\ Texts # {}
ASSUME NothingAssumption == Nothing \notin Users \cup Days

VARIABLES
  event,   \* its status, coordinator_id and safety_approved_by_user_id
  detail,  \* its details: the columns that edits and change requests change
  now      \* the day it is

rowVars == <<event, detail, now>>

Statuses == {"draft", "submitted", "under_review", "awaiting_clarification", "rejected",
             "planning", "confirmed", "preparation", "cancelled", "completed"}

Fields == {"preferred_dates", "start_at"} \cup TextFields

Values(f) ==
  CASE f = "preferred_dates" -> SUBSET Days
    [] f = "start_at" -> Days \cup {Nothing}
    [] OTHER -> Texts

\* These fields, filled in.
Form(F, day, dates, text) ==
  [f \in F |-> CASE f = "start_at" -> day [] f = "preferred_dates" -> dates [] OTHER -> text[f]]

Holds(u, role) == role \in RolesOf[u]

\* is_assigned_coordinator
Assigned(u) == Holds(u, "coordinator") /\ event.coordinator = u

SetStatus(s) == event' = [event EXCEPT !.status = s]

(* The request's first save: what it prefers may still be missing.         *)
RowInit ==
  /\ event = [status |-> "draft", coordinator |-> Nothing, safety |-> Nothing]
  /\ \E D \in SUBSET Days, text \in [TextFields -> Texts] : detail = Form(Fields, Nothing, D, text)
  /\ now = 0

NextDay ==
  /\ now < LastDay
  /\ now' = now + 1
  /\ UNCHANGED <<event, detail>>
=============================================================================
