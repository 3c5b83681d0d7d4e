---------------------------- MODULE EventRequests ----------------------------
(***************************************************************************)
(* An event request from its draft to the decision on it: submission, the  *)
(* clarification thread, who coordinates it and who decided it             *)
(* (request_service, clarification_service, assignment_service and         *)
(* decision_service of backend/app/event).                                 *)
(*                                                                         *)
(* Left out: the reference and the text of questions, replies and reasons; *)
(* request_transfer, which only tells the Leads.                           *)
(***************************************************************************)
EXTENDS EventRow, Sequences

CONSTANTS
  MaxRounds,    \* bound: rounds of clarification
  MaxHandovers  \* bound: rows of coordinator_assignments

ASSUME RoundsAssumption == MaxRounds \in Nat

VARIABLES
  thread,  \* event_request_clarifications: <<round, kind>>
  history  \* coordinator_assignments, oldest first: [kind, by, to]

requestVars == <<thread, history>>

SubmittedRequest == {"submitted", "under_review", "awaiting_clarification", "rejected"}
Clarifiable == {"submitted", "under_review"}
NotARequest == {"draft", "planning", "confirmed", "preparation", "cancelled", "completed"}
Reassignable == {"under_review", "awaiting_clarification", "planning", "confirmed", "preparation"}

RequestInit == thread = {} /\ history = <<>>

-----------------------------------------------------------------------------
(* The Organiser's draft.                                                  *)

UpdateDraft(u) ==
  /\ u = Creator /\ event.status = "draft"
  /\ \E f \in Fields \ {"start_at"} : \E v \in Values(f) : detail' = [detail EXCEPT ![f] = v]
  /\ UNCHANGED <<event, now, requestVars>>

Submit(u) ==
  /\ u = Creator /\ event.status = "draft"
  /\ detail["preferred_dates"] # {}
  /\ \A d \in detail["preferred_dates"] : d >= now
  /\ SetStatus("submitted")
  /\ UNCHANGED <<detail, now, requestVars>>

-----------------------------------------------------------------------------
(* The Lead gives the request, and later the event, its coordinator.       *)

\* Variant for the checks: nobody asks who created the request.
EligibleButCreator(lead, c) == c # lead /\ Holds(c, "coordinator")

\* _eligible_coordinator
Eligible(lead, c) == c # lead /\ c # Creator /\ Holds(c, "coordinator")

GiveTo(lead, c, kind, s) ==
  /\ Len(history) < MaxHandovers
  /\ event' = [event EXCEPT !.coordinator = c, !.status = s]
  /\ history' = Append(history, [kind |-> kind, by |-> lead, to |-> c])

Assign(lead, c) ==
  /\ Holds(lead, "coordinator_lead") /\ lead # Creator
  /\ event.status \notin NotARequest
  /\ event.status = "submitted" /\ event.coordinator = Nothing
  /\ Eligible(lead, c)
  /\ GiveTo(lead, c, "assignment", "under_review")
  /\ UNCHANGED <<detail, now, thread>>

Reassign(lead, c) ==
  /\ Holds(lead, "coordinator_lead") /\ lead # Creator
  /\ event.coordinator # Nothing /\ event.status \in Reassignable
  /\ c # event.coordinator /\ Eligible(lead, c)
  /\ GiveTo(lead, c, "reassignment", event.status)
  /\ UNCHANGED <<detail, now, thread>>

-----------------------------------------------------------------------------
(* The coordinator asks, the Organiser answers.                            *)

Questions == {m[1] : m \in {x \in thread : x[2] = "request"}}
LastRound == IF Questions = {} THEN 0 ELSE CHOOSE n \in Questions : \A m \in Questions : m <= n

AskClarification(c) ==
  /\ event.status \in SubmittedRequest /\ Assigned(c)
  /\ event.status \in Clarifiable
  /\ LastRound < MaxRounds
  /\ thread' = thread \cup {<<LastRound + 1, "request">>}
  /\ SetStatus("awaiting_clarification")
  /\ UNCHANGED <<detail, now, history>>

\* Variant for the checks: the reply goes to the first round.
ReplyToFirst(u) ==
  /\ u = Creator /\ event.status = "awaiting_clarification"
  /\ thread' = thread \cup {<<1, "response">>}
  /\ SetStatus("under_review")
  /\ UNCHANGED <<detail, now, history>>

Reply(u) ==
  /\ u = Creator /\ event.status = "awaiting_clarification"
  /\ thread' = thread \cup {<<LastRound, "response">>}
  /\ SetStatus("under_review")
  /\ UNCHANGED <<detail, now, history>>

-----------------------------------------------------------------------------
(* The coordinator decides.                                                *)

\* _lock_assigned and _check_decidable
MayDecideRequest(c) ==
  /\ Holds(c, "coordinator") /\ event.coordinator = c /\ c # Creator
  /\ event.status = "under_review"

\* The preferred dates preferred_window may still take.
Ahead == {d \in detail["preferred_dates"] : d > now}

Earliest(D) == CHOOSE d \in D : \A e \in D : d <= e

\* Variant for the checks: the status an approved request had before it went straight to planning.
ApproveAsBefore(c) ==
  /\ MayDecideRequest(c)
  /\ SetStatus("approved")
  /\ UNCHANGED <<detail, now, requestVars>>

(* The request becomes an event in planning, on the earliest preferred     *)
(* date that is still ahead.                                               *)
Approve(c) ==
  /\ MayDecideRequest(c)
  /\ Ahead # {}
  /\ SetStatus("planning")
  /\ detail' = [detail EXCEPT !["start_at"] = IF @ = Nothing THEN Earliest(Ahead) ELSE @]
  /\ UNCHANGED <<now, requestVars>>

Reject(c) ==
  /\ MayDecideRequest(c)
  /\ SetStatus("rejected")
  /\ UNCHANGED <<detail, now, requestVars>>

-----------------------------------------------------------------------------
RequestsNext ==
  \E u \in Users :
    \/ UpdateDraft(u) \/ Submit(u) \/ AskClarification(u) \/ Reply(u) \/ Approve(u) \/ Reject(u)
    \/ \E c \in Users : Assign(u, c) \/ Reassign(u, c)
=============================================================================
