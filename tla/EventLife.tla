------------------------------ MODULE EventLife ------------------------------
(***************************************************************************)
(* The life of an event: its request, the changes asked of it, and the way *)
(* to its confirmation and its end, as one system over one row of events.  *)
(***************************************************************************)
EXTENDS EventRequests, EventReadiness

vars == <<rowVars, requestVars, changeVars, readinessVars>>

Init == RowInit /\ RequestInit /\ ChangesInit /\ ReadinessInit

Next ==
  \/ RequestsNext /\ UNCHANGED <<changeVars, readinessVars>>
  \/ ChangesNext /\ UNCHANGED <<requestVars, readinessVars>>
  \/ ReadinessNext /\ UNCHANGED requestVars
  \/ NextDay /\ UNCHANGED <<requestVars, changeVars, readinessVars>>

Spec == Init /\ [][Next]_vars

-----------------------------------------------------------------------------
(* A well-formed state.                                                    *)
Request(r) ==
  /\ r.by \in Users
  /\ DOMAIN r.old = DOMAIN r.new /\ DOMAIN r.new \subseteq Fields
  /\ \A f \in DOMAIN r.new : r.old[f] \in Values(f) /\ r.new[f] \in Values(f) /\ r.old[f] # r.new[f]

TypeOK ==
  /\ event \in [status : Statuses, coordinator : Users \cup {Nothing}, safety : Users \cup {Nothing}]
  /\ DOMAIN detail = Fields /\ \A f \in Fields : detail[f] \in Values(f)
  /\ now \in 0..LastDay
  /\ thread \subseteq (1..MaxRounds) \X {"request", "response"}
  /\ history \in Seq([kind : {"assignment", "reassignment"}, by : Users, to : Users])
  /\ DOMAIN asked = ChangeIds /\ \A i \in ChangeIds : asked[i] = Nothing \/ Request(asked[i])
  /\ reached \subseteq Users \X ChangeIds
  /\ flagged \subseteq Kinds /\ current \subseteq Kinds \cup {"safety"}
  /\ arranged \in [Kinds -> Stages]
  /\ revise \in BOOLEAN
  /\ cancellation \in {"none", "pending", "rejected", "approved", "direct"}

-----------------------------------------------------------------------------
(* Whatever order the people work in, an event keeps to the lifecycle      *)
(* everybody relies on (Lifecycle).                                        *)
Abstract == INSTANCE Lifecycle WITH
  status <- event.status, coordinator <- event.coordinator,
  safe <- event.safety # Nothing, day <- detail["start_at"]

ImplementsLifecycle == Abstract!Spec

(* What is confirmed was arranged or looked at for the date it is on: no   *)
(* booking, reservation, registration or safety approval from before the   *)
(* last change of date goes unseen into a confirmed event, however changes,*)
(* flags, releases and lost venues follow each other (_flag, open_flags,   *)
(* _readiness).                                                            *)
ConfirmedForThisDate ==
  event.status \in {"confirmed", "preparation", "completed"} =>
    "safety" \in current /\ \A k \in Kinds : Live(k) => k \in current

(* The safety approval is never older than the event's date, whatever was  *)
(* asked, edited, approved and lost since it was given (review, approve).  *)
SafetyIsForThisDate == event.safety # Nothing => "safety" \in current

(* A cancelled event leaves nothing behind: no change that could still be  *)
(* approved, no live booking, no reservation.  And it was cancelled by an  *)
(* approved or a direct cancellation, which nothing follows (_cancel).     *)
NothingLeftOpen ==
  /\ event.status = "cancelled" <=> cancellation \in {"approved", "direct"}
  /\ event.status = "cancelled" =>
       (\A i \in ChangeIds : asked[i] = Nothing) /\ ~Live("bookings") /\ ~Live("reservations")

(* A change is applied to the event it was asked of: what its requester    *)
(* saw is still there when it is approved, so two changes in the queue, an *)
(* edit or a new stage never overwrite each other unseen (_recheck, D107). *)
ChangesApplyToWhatWasSeen ==
  [][\A p \in reached \ reached' :
       LET r == asked[p[2]] IN
         r # Nothing /\ asked'[p[2]] = Nothing /\ detail' # detail =>
           /\ \A f \in Fields : detail'[f] = IF f \in DOMAIN r.new THEN r.new[f] ELSE detail[f]
           /\ \A f \in DOMAIN r.new : detail[f] = r.old[f]]_vars

(* Whoever decides a change is, when it is decided, the event's            *)
(* coordinator or a Lead deciding the coordinator's own edit, and never    *)
(* the one who asked: a reassignment between finding the request and       *)
(* locking it counts (_lock).                                              *)
DecidedByWhoMay ==
  [][\A p \in reached \ reached' :
       LET r == asked[p[2]] IN
         r # Nothing /\ asked'[p[2]] = Nothing =>
           /\ p[1] # r.by
           /\ p[1] = event.coordinator \/ (r.by = event.coordinator /\ r.by # Creator)]_vars

(* The conversation and the status agree: the Organiser is waited for      *)
(* exactly when the last question has no answer, and every earlier one has *)
(* (send_request, send_response).                                          *)
ThreadMatchesStatus ==
  /\ event.status = "awaiting_clarification" <=>
       LastRound # 0 /\ <<LastRound, "response">> \notin thread
  /\ \A n \in 1..LastRound - 1 : {<<n, "request">>, <<n, "response">>} \subseteq thread

(* The history of coordinators ends with the event's coordinator, each     *)
(* handover changes hands, and nobody gave the event to its creator or to  *)
(* themselves (assign, reassign).                                          *)
HistoryNamesCoordinator ==
  /\ event.coordinator = IF history = <<>> THEN Nothing ELSE history[Len(history)].to
  /\ \A n \in DOMAIN history : history[n].to \notin {Creator, history[n].by}
  /\ \A n \in DOMAIN history \ {1} : history[n].to # history[n - 1].to
=============================================================================
