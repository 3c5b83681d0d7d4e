---------------------------- MODULE VenueCalendar ----------------------------
(***************************************************************************)
(* What the venue calendar promises, with no requests, locks or clocks: a  *)
(* booking claims its venue for some hours, its claim only moves forward   *)
(* from held to requested to granted to over, no two claims on a venue     *)
(* share an hour, and a claim that was granted keeps its hours.            *)
(***************************************************************************)
EXTENDS Naturals

CONSTANTS Bookings, Venues

VARIABLES
  stage,  \* "none", "held", "requested", "granted" or "over"
  place,  \* each claim's venue
  hours   \* each claim's hours, from the first to before the last

calendarVars == <<stage, place, hours>>

Claims == {b \in Bookings : stage[b] \in {"held", "requested", "granted"}}
Disjoint(i, j) == i.to <= j.from \/ j.to <= i.from

KeptApart ==
  \A b, c \in Claims : b # c /\ place[b] = place[c] => Disjoint(hours[b], hours[c])

CalendarInit == stage = [b \in Bookings |-> "none"]

(* A new claim, on hours that are free.                                    *)
Claim(b) ==
  /\ stage[b] = "none"
  /\ \E s \in {"held", "requested"} : stage' = [stage EXCEPT ![b] = s]
  /\ place'[b] \in Venues
  /\ \A c \in Bookings \ {b} : place'[c] = place[c] /\ hours'[c] = hours[c]

Request(b) ==
  /\ stage[b] = "held"
  /\ stage' = [stage EXCEPT ![b] = "requested"]
  /\ UNCHANGED <<place, hours>>

(* A claim is granted, perhaps in place of another.                        *)
Grant(b, others) ==
  /\ stage[b] = "requested"
  /\ stage' = [c \in Bookings |-> IF c = b THEN "granted"
                                  ELSE IF c \in others THEN "over" ELSE stage[c]]
  /\ UNCHANGED <<place, hours>>

GiveUp(leaving) ==
  /\ stage' = [b \in Bookings |-> IF b \in leaving THEN "over" ELSE stage[b]]
  /\ UNCHANGED <<place, hours>>

(* The hours of all claims on a venue change while none of them is granted. *)
Remeasure(v) ==
  /\ \A b \in Claims : place[b] = v => stage[b] # "granted"
  /\ \A b \in Bookings : b \notin Claims \/ place[b] # v => hours'[b] = hours[b]
  /\ UNCHANGED <<stage, place>>

CalendarNext ==
  /\ \/ \E b \in Bookings : Claim(b) \/ Request(b)
     \/ \E b \in Claims : \E others \in SUBSET (Claims \ {b}) : Grant(b, others)
     \/ \E leaving \in (SUBSET Claims) \ {{}} : GiveUp(leaving)
     \/ \E v \in Venues : Remeasure(v)
  /\ KeptApart'

CalendarSpec == CalendarInit /\ [][CalendarNext]_calendarVars
=============================================================================
