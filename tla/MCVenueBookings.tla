--------------------------- MODULE MCVenueBookings ---------------------------
(* Small instances of VenueBookings for TLC.                               *)
EXTENDS VenueBookingsCalendar, TLC

CONSTANTS r1, r2

\* Two times of the day that touch, and the setup or turnaround that parts
\* or joins them.
Morning == [from |-> 1, to |-> 2]
Noon == [from |-> 2, to |-> 3]
Plain == [setup |-> 0, turnaround |-> 0]
LongTurnaround == [setup |-> 0, turnaround |-> 1]
LongSetup == [setup |-> 1, turnaround |-> 0]

OneWindow == {Morning}
TwoWindows == {Morning, Noon}
Evening == [from |-> 3, to |-> 4]
ThreeWindows == {Morning, Noon, Evening}
NoBuffers == {Plain}
SomeBuffers == {Plain, LongTurnaround}
AnyBuffers == {Plain, LongSetup, LongTurnaround}

NoPeriods == {}
MorningOut == [venue |-> 21, from |-> 1, to |-> 2]
OnePeriod == {MorningOut}
AllDayOut == [venue |-> 21, from |-> 1, to |-> 3]
TwoPeriods == {MorningOut, AllDayOut}

(* The evening, as free as noon, is asked for once noon was.               *)
NoonFirst == \A r \in Requests : req[r].asked.at = Evening => \E b \in Bookings : asked[b].at = Noon

(* Two events compete for the venue and its buffers change, or one event   *)
(* turns its holds into bookings and chooses its primary venue.            *)
AboutPrimary ==
  \/ \E r \in Requests : req[r].op \in {"confirm_hold", "make_primary"}
  \/ \E b \in Bookings : status[b] \in Live /\ expiry[b] # "none"

Competing ==
  \/ \E r \in Requests : req[r].op \in {"edit_buffers", "approve"} \/ req[r].asked.event = 12
  \/ \E b \in Bookings : status[b] = "approved" \/ asked[b].event = 12
  \/ buffers[21] # Plain

Arrive(r) == \E op \in Offered : Begin(r, op)

Continue ==
  \/ \E r \in Requests : Lock(r) \/ GoOn(r)
  \/ \E b \in Bookings : HoldDue(b) \/ LapseHold(b)

RearrangedNext == (\E r \in Requests : Arrive(r) /\ NoonFirst') \/ Continue
RearrangedSpec == Init /\ [][RearrangedNext]_vars

RaceNext == (\E r \in Requests : Arrive(r) /\ ~(AboutPrimary /\ Competing)') \/ Continue
RaceSpec == Init /\ [][RaceNext]_vars

RequestSymmetry == Permutations({r1, r2})
=============================================================================
