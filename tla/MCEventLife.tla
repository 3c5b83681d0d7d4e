----------------------------- MODULE MCEventLife -----------------------------
(* A small instance of EventLife for TLC.                                  *)
EXTENDS EventLife, TLC

CONSTANTS olga, cora, dana, erin, i1, i2

TheRoles ==
  (olga :> Roles @@ cora :> {"coordinator", "safety_officer"})
    @@ (dana :> {"coordinator", "coordinator_lead"} @@ erin :> {"coordinator_lead", "safety_officer"})

Pending == {i \in ChangeIds : asked[i] # Nothing}
Present == {k \in Kinds : arranged[k] # "none"}

(* Which of the states to go on from: the conversation and the first       *)
(* handovers are explored up to the decision, and one of the ways there    *)
(* beyond it; few changes and arrangements are about at a time.            *)
Followed ==
  /\ Cardinality(Pending) + Cardinality(Present) <= 3 /\ Cardinality(Present) <= 2
  /\ Cardinality(Pending) = 2 =>
       /\ Present = {} /\ Len(history) <= 1 /\ cancellation = "none"
       /\ event.status \notin {"rejected", "preparation"}
  /\ Len(history) = 2 =>
       Cardinality(Pending) + Cardinality(Present) <= 1 /\ cancellation \in {"none", "direct"}
  /\ cancellation = "pending" => Cardinality(Pending) + Cardinality(Present) <= 2
  /\ revise \/ cancellation = "rejected" => Pending = {}
  /\ event.status \notin {"draft"} \cup SubmittedRequest =>
       /\ thread = {} /\ detail["preferred_dates"] = Days
       /\ history[1] = [kind |-> "assignment", by |-> erin, to |-> cora]
  /\ thread # {} => Pending = {}

FollowedSpec == Init /\ [][Next /\ Followed']_vars

Symmetry == Permutations(ChangeIds)
=============================================================================
