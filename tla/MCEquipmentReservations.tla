----------------------- MODULE MCEquipmentReservations -----------------------
(* A small instance of EquipmentReservations for TLC.                      *)
EXTENDS EquipmentReservations, TLC

CONSTANTS r1, r2, l1, l2, concert, lecture, projector

Morning == [from |-> 1, to |-> 2]
Noon == [from |-> 2, to |-> 3]
AllDay == [from |-> 1, to |-> 3]
TheSpans == {Morning, Noon}
TwoProjectors == [y \in Types |-> 2]

Asking(ops) == \E r \in Requests : req[r].op \in ops

StockIsCounted ==
  \/ Asking({"edit", "remove", "check"})
  \/ \E r \in Requests : req[r].op = "create" /\ req[r].want.quantity = 1
  \/ \E l \in Lines : line[l].quantity = 1 \/ line[l].short # Nothing \/ line[l].status = "removed"

StaffIsSent ==
  \/ Asking({"assign", "unassign", "confirm", "prepare"})
  \/ assigned # {}
  \/ \E e \in Events : event[e].status \in {"confirmed", "preparation"}

IsThere(s) == \E e \in Events : event[e].status = s

(* Which of the states to go on from: lines of several quantities, edited, *)
(* removed and checked, or staff and confirmation around lines that each   *)
(* take all the stock; the rest of the operations are in both.  One line   *)
(* has a check, one event leaves planning, one changes its times once, and *)
(* little goes on around a line given up, an event cancelled or prepared.  *)
Followed ==
  /\ ~(StockIsCounted /\ StaffIsSent)
  /\ Cardinality({l \in Lines : line[l].short # Nothing}) <= 1
  /\ Cardinality({e \in Events : event[e].status # "planning"}) <= 1
  /\ (\E e \in Events : event[e].moved) =>
       /\ ~Asking({"change_dates"}) /\ ~IsThere("cancelled")
       /\ IsThere("confirmed") \/ IsThere("preparation") => \A l \in Lines : line[l].short = Nothing
  /\ IsThere("preparation") => ~Asking({"review", "unassign"})
  /\ (\E l \in Lines : line[l].status \in {"rejected", "removed"}) => \A l \in Lines : line[l].status # "approved"

FollowedSpec == Init /\ [][Next /\ Followed']_vars

Symmetry == Permutations(Requests) \cup Permutations(Lines) \cup Permutations(Events)
=============================================================================
