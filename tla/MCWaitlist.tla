---------------------------- MODULE MCWaitlist ----------------------------
(* Waitlist for TLC.  Attendees and requests are interchangeable; rows are *)
(* not, because their ids break ties.                                      *)
EXTENDS WaitlistLedger, TLC

Symmetry == Permutations(Attendees) \cup Permutations(Requests)

(* Many requests around an event that is confirmed once and perhaps        *)
(* cancelled: Preparation and Completed are told apart from Confirmed and  *)
(* Planning only by RegistrationOpen.                                      *)
RaceNext ==
  \/ \E r \in Requests : RequestStep(r)
  \/ Confirm
  \/ CancelEvent
  \/ Tick

RaceSpec == Init /\ [][RaceNext]_vars
=============================================================================
