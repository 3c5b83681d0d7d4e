------------------------ MODULE VenueBookingsCalendar ------------------------
(***************************************************************************)
(* The bookings table keeps the calendar's promise.                        *)
(***************************************************************************)
EXTENDS VenueBookings

StageOf(s) ==
  CASE s \in {"none", "held", "requested"} -> s
    [] s = "approved" -> "granted"
    [] s \in Closed -> "over"
Stage == [b \in Bookings |-> StageOf(status[b])]

Calendar == INSTANCE VenueCalendar
  WITH stage <- Stage, place <- [b \in Bookings |-> asked[b].venue], hours <- occupied

(* Whatever requests do to the bookings table, in any order, is a step of  *)
(* the calendar or none: claims at a venue stay apart, a closed booking    *)
(* never comes back, an approved one keeps its hours.                      *)
ImplementsCalendar == Calendar!CalendarSpec
=============================================================================
