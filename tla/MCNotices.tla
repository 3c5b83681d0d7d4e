------------------------------ MODULE MCNotices ------------------------------
(* A small instance of Notices for TLC.                                    *)
EXTENDS Notices

CONSTANTS o, c1, c2, c3, l, v, t, a, r1, r2, r3

\* Three coordinators, of whom c3 is not active any more; v works for the
\* venues and for the technical staff, and t attends events too.
People == {o, c1, c2, c3, l, v, t, a}
Works ==
  [u \in People |->
    CASE u \in {c1, c2, c3} -> {"coordinator"}
      [] u = l -> {"coordinator_lead"}
      [] u = v -> {"venue_staff", "tech_support"}
      [] u = t -> {"tech_support", "attendee"}
      [] u = a -> {"attendee"}
      [] OTHER -> {}]
ActivePeople == People \ {c3}

(* Anything, while others ask, take places or cancel; and when the first   *)
(* asks, assigns or cancels, the event is moved as well.                   *)
Mix ==
  [r \in {r1, r2, r3} |->
    CASE r = r1 -> Operations
      [] r = r2 -> {"ask_change", "ask_cancellation", "cancel", "reassign", "assign_staff", "register"}
      [] r = r3 -> {"reassign"}]

MovedToo == op[r3] # Idle => op[r1].kind \in {"ask_change", "ask_cancellation", "assign", "cancel"}

MixedNext == Next /\ MovedToo'
MixedSpec == Init /\ [][MixedNext]_vars
=============================================================================
