--------------------------- MODULE EventReadiness ---------------------------
(***************************************************************************)
(* From planning to the end of an event: the safety review, confirmation,  *)
(* preparation, completion, and cancellation (safety/service,              *)
(* event/confirmation_service, event/cancellation_service), and what a     *)
(* venue that becomes unavailable does to the event (venue/block_service). *)
(*                                                                         *)
(* Left out: what a review says, changes_requested apart from rejected,    *)
(* an online event, assigned technical staff (EquipmentReservations), and  *)
(* a venue's own problems (VenueBookings).                                 *)
(***************************************************************************)
EXTENDS EventChanges

VARIABLES
  revise,       \* whether a review asks the coordinator to revise the arrangement
  cancellation  \* the latest row of event_cancellations

readinessVars == <<revise, cancellation>>

ReadinessInit == revise = FALSE /\ cancellation = "none"

\* _venue_items and _equipment_item
ArrangementsReady ==
  arranged["bookings"] = "settled" /\ arranged["reservations"] \in {"none", "settled"}

-----------------------------------------------------------------------------
(* The safety review.                                                      *)

\* safety_state: "to_revise" is a rejection, or changes asked for, not yet answered.
SafetyState ==
  IF event.safety # Nothing THEN "approved" ELSE IF revise THEN "to_revise" ELSE "pending"

\* _check_reviewable
Reviewable(o) ==
  /\ Holds(o, "safety_officer") /\ o # Creator /\ event.coordinator # o
  /\ event.status = "planning" /\ SafetyState = "pending"
  /\ ArrangementsReady /\ NoFlagOpen

Review(o) ==
  /\ Reviewable(o)
  /\ \/ /\ event' = [event EXCEPT !.safety = o]
        /\ current' = current \cup {"safety"}
        /\ UNCHANGED revise
     \/ revise' = TRUE /\ UNCHANGED <<event, current>>
  /\ UNCHANGED <<detail, now, asked, reached, flagged, arranged, cancellation>>

RequestReview(c) ==
  /\ Assigned(c) /\ event.status = "planning"
  /\ SafetyState = "to_revise"
  /\ revise' = FALSE
  /\ UNCHANGED <<rowVars, changeVars, cancellation>>

-----------------------------------------------------------------------------
(* Confirmation, preparation, completion.                                  *)

Ready == ArrangementsReady /\ event.safety # Nothing /\ NoFlagOpen

Confirm(c) ==
  /\ Assigned(c) /\ event.status = "planning"
  /\ Ready
  /\ SetStatus("confirmed")
  /\ UNCHANGED <<detail, now, changeVars, readinessVars>>

StartPreparation(c) ==
  /\ Assigned(c) /\ event.status = "confirmed"
  /\ event.safety # Nothing
  /\ SetStatus("preparation")
  /\ UNCHANGED <<detail, now, changeVars, readinessVars>>

Complete(c) ==
  /\ Assigned(c) /\ event.status = "preparation"
  /\ detail["start_at"] < now
  /\ SetStatus("completed")
  /\ UNCHANGED <<detail, now, changeVars, readinessVars>>

(* _back_to_planning: a venue of the event becomes unavailable.  The       *)
(* safety approval stands.                                                 *)
VenueLost ==
  /\ event.status \in {"confirmed", "preparation"} /\ Live("bookings")
  /\ SetStatus("planning")
  /\ UNCHANGED <<detail, now, changeVars, readinessVars>>

-----------------------------------------------------------------------------
(* Cancellation: asked for by the Organiser and decided by the             *)
(* coordinator, or the coordinator's own.                                  *)

Cancellable ==
  event.status \in {"planning", "confirmed", "preparation"} /\ detail["start_at"] > now

RequestCancel(u) ==
  /\ u = Creator /\ Cancellable
  /\ cancellation # "pending"
  /\ cancellation' = "pending"
  /\ UNCHANGED <<rowVars, changeVars, revise>>

\* Variant for the checks: what was asked of the event is left for its deciders.
ReleaseOnly(outcome) ==
  /\ SetStatus("cancelled")
  /\ cancellation' = outcome
  /\ arranged' = [arranged EXCEPT !["bookings"] = "none",
                                  !["reservations"] = IF @ = "settled" THEN "approved" ELSE @]
  /\ flagged' = flagged \ {"bookings"}
  /\ current' = current \ {"bookings", "reservations"}
  /\ UNCHANGED <<detail, now, asked, reached, revise>>

\* _cancel: venues and equipment are released, pending change requests rejected.
Cancelled(outcome) ==
  /\ SetStatus("cancelled")
  /\ cancellation' = outcome
  /\ arranged' = [arranged EXCEPT !["bookings"] = "none",
                                  !["reservations"] = IF @ = "settled" THEN "approved" ELSE @]
  /\ flagged' = flagged \ {"bookings"}
  /\ current' = current \ {"bookings", "reservations"}
  /\ asked' = [i \in ChangeIds |-> Nothing]
  /\ UNCHANGED <<detail, now, reached, revise>>

CancelDirect(c) ==
  /\ Assigned(c) /\ Cancellable
  /\ cancellation # "pending"
  /\ Cancelled("direct")

\* Nobody decides on their own request.
MayDecideCancellation(c) == Assigned(c) /\ c # Creator /\ cancellation = "pending"

ApproveCancellation(c) ==
  /\ MayDecideCancellation(c) /\ Cancellable
  /\ Cancelled("approved")

RejectCancellation(c) ==
  /\ MayDecideCancellation(c)
  /\ cancellation' = "rejected"
  /\ UNCHANGED <<rowVars, changeVars, revise>>

-----------------------------------------------------------------------------
ReadinessNext ==
  \/ VenueLost
  \/ \E u \in Users :
       \/ Review(u) \/ RequestReview(u) \/ Confirm(u) \/ StartPreparation(u) \/ Complete(u)
       \/ RequestCancel(u) \/ CancelDirect(u) \/ ApproveCancellation(u) \/ RejectCancellation(u)
=============================================================================
