----------------------------- MODULE SeatLedger -----------------------------
(***************************************************************************)
(* What the registrations of an event promise, whatever requests, clocks   *)
(* and sweeps do below: every place is claimed once and only moves on      *)
(* (waiting, then offered, then seated, and out at any point); nobody goes *)
(* from waiting to seated without an offer or comes back after leaving;    *)
(* and no step seats, or offers a seat to, more people than the event can  *)
(* hold.                                                                   *)
(***************************************************************************)
EXTENDS Integers, FiniteSets

CONSTANTS
  Places,  \* the registrations there can be
  Limits   \* the capacities the event may have

VARIABLES seated, offered, waiting, left

ledger == <<seated, offered, waiting, left>>

Unclaimed == Places \ (seated \cup offered \cup waiting \cup left)

Within(held) == \E n \in Limits : Cardinality(held) <= n

Init == seated = {} /\ offered = {} /\ waiting = {} /\ left = {}

\* A newcomer takes a free seat.
Take(p) ==
  /\ p \in Unclaimed
  /\ seated' = seated \cup {p}
  /\ Within(seated' \cup offered)
  /\ UNCHANGED <<offered, waiting, left>>

\* A newcomer joins the waitlist.
Join(p) ==
  /\ p \in Unclaimed
  /\ waiting' = waiting \cup {p}
  /\ UNCHANGED <<seated, offered, left>>

\* An offer is taken up.
TakeUp(p) ==
  /\ p \in offered
  /\ offered' = offered \ {p}
  /\ seated' = seated \cup {p}
  /\ UNCHANGED <<waiting, left>>

\* Some leave, and seats that are free then are offered to some who wait.
Turnover(out, next) ==
  /\ out \subseteq seated \cup offered \cup waiting
  /\ next \subseteq waiting \ out
  /\ left' = left \cup out
  /\ seated' = seated \ out
  /\ offered' = (offered \ out) \cup next
  /\ waiting' = waiting \ (out \cup next)
  /\ Within(seated' \cup offered')

Next ==
  \/ \E p \in Places : Take(p) \/ Join(p) \/ TakeUp(p)
  \/ \E out, next \in SUBSET Places : Turnover(out, next)

Spec == Init /\ [][Next]_ledger
=============================================================================
