----------------------------- MODULE Lifecycle -----------------------------
(***************************************************************************)
(* What everybody relies on about an event: how its status, coordinator,   *)
(* safety approval and date may go together, whoever does what in          *)
(* whichever order (docs: US17, US18, US29b, US30a, US9, D105, D106).      *)
(***************************************************************************)
CONSTANTS
  Users,    \* the people
  Creator,  \* whose event it is
  Days,     \* when it may be
  Nothing   \* no coordinator, no date

VARIABLES status, coordinator, safe, day

vars == <<status, coordinator, safe, day>>

Init == status = "draft" /\ coordinator = Nothing /\ safe = FALSE /\ day = Nothing

Go(from, to) == status \in from /\ status' = to

(* A request is taken up by a coordinator who is not its creator, may go   *)
(* to another, and is decided: only a planned event has a date.            *)
Submit == Go({"draft"}, "submitted") /\ UNCHANGED <<coordinator, safe, day>>

TakeUp ==
  /\ Go({"submitted"}, "under_review")
  /\ coordinator = Nothing /\ coordinator' \in Users \ {Creator}
  /\ UNCHANGED <<safe, day>>

HandOver ==
  /\ status \notin {"draft", "submitted", "rejected", "cancelled", "completed"}
  /\ coordinator' \in Users \ {Creator, coordinator}
  /\ UNCHANGED <<status, safe, day>>

Discuss ==
  /\ \/ Go({"under_review"}, "awaiting_clarification")
     \/ Go({"awaiting_clarification"}, "under_review")
     \/ Go({"under_review"}, "rejected")
  /\ UNCHANGED <<coordinator, safe, day>>

Plan == Go({"under_review"}, "planning") /\ day' \in Days /\ UNCHANGED <<coordinator, safe>>

(* Nothing is confirmed before it is safe, and what is confirmed stays as  *)
(* it was found safe: another date puts it back to planning, unsafe.       *)
FoundSafe ==
  /\ status = "planning" /\ ~safe
  /\ safe' = TRUE /\ UNCHANGED <<status, coordinator, day>>

Confirm == safe /\ Go({"planning"}, "confirmed") /\ UNCHANGED <<coordinator, safe, day>>
Prepare == safe /\ Go({"confirmed"}, "preparation") /\ UNCHANGED <<coordinator, safe, day>>

Rearrange ==
  /\ Go({"planning", "confirmed"}, "planning")
  /\ day' \in Days /\ safe' = FALSE
  /\ UNCHANGED coordinator

VenueLost == Go({"confirmed", "preparation"}, "planning") /\ UNCHANGED <<coordinator, safe, day>>

(* It ends once, completed or cancelled.                                   *)
End ==
  /\ \/ safe /\ Go({"preparation"}, "completed")
     \/ Go({"planning", "confirmed", "preparation"}, "cancelled")
  /\ UNCHANGED <<coordinator, safe, day>>

Next ==
  \/ Submit \/ TakeUp \/ HandOver \/ Discuss \/ Plan \/ FoundSafe \/ Confirm \/ Prepare
  \/ Rearrange \/ VenueLost \/ End

Spec == Init /\ [][Next]_vars
=============================================================================
