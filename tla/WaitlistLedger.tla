--------------------------- MODULE WaitlistLedger ---------------------------
(* Waitlist implements SeatLedger: the refinement mapping.                 *)
EXTENDS Waitlist

Leavers(s) == {r \in Rows : s[r] \in {"withdrawn", "declined", "expired"}}

Ledger == INSTANCE SeatLedger WITH
  Places  <- Rows,
  Limits  <- Capacities,
  seated  <- {r \in Rows : status[r] = "confirmed"},
  offered <- {r \in Rows : status[r] = "offered"},
  waiting <- Waiting(status),
  left    <- Leavers(status)

(* Every transaction of the registration service is one step of the        *)
(* ledger, or none: however requests, sweeps, approved changes of capacity *)
(* and the clock fall, a registration only moves on, and every seat given  *)
(* or offered is one the event has.                                        *)
ImplementsLedger == Ledger!Spec
=============================================================================
