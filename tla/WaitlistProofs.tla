--------------------------- MODULE WaitlistProofs ---------------------------
(***************************************************************************)
(* Theorems about Waitlist, for every set of rows, attendees, requests,    *)
(* capacities and starts.                                                  *)
(***************************************************************************)
EXTENDS WaitlistLedger, FiniteSetTheorems, TLAPS

-----------------------------------------------------------------------------
(***************************************************************************)
(* The inductive invariant.                                                *)
(***************************************************************************)

\* A request's `now` is at most MaxAge old.
Ages ==
  \A r \in Requests :
    req[r].pc # "idle" => req[r].now <= clock /\ clock <= req[r].now + MaxAge

\* What a request that sweeps, or has swept, is about.
Errands ==
  \A r \in Requests :
    /\ req[r].pc = "sweep" /\ req[r].op = "browse" => req[r].loaded.capacity \in Capacities
    /\ req[r].pc = "act" => req[r].op \notin Reads

IInv == TypeOK /\ Ages /\ Errands /\ NothingLapsesUnderWay /\ SeatsWithinCapacity

-----------------------------------------------------------------------------
(***************************************************************************)
(* Places in line.                                                         *)
(***************************************************************************)

(* The people up to r in line are finitely many.                           *)
LEMMA LineIsFinite ==
  ASSUME NEW s, NEW r
  PROVE  IsFiniteSet({q \in Waiting(s) : q = r \/ AheadOf(q, r)})
BY RowsAssumption, FS_Subset DEF Waiting

(* They are never none, so positions start at 1.                           *)
LEMMA PositionType ==
  ASSUME NEW s, NEW r \in Waiting(s)
  PROVE  Position(s, r) \in Nat /\ Position(s, r) >= 1
<1> DEFINE Upto == {q \in Waiting(s) : q = r \/ AheadOf(q, r)}
<1>1. IsFiniteSet(Upto)
  BY LineIsFinite
<1>2. Cardinality(Upto) \in Nat /\ Upto # {}
  BY <1>1, FS_CardinalityType
<1>3. Cardinality(Upto) # 0
  BY <1>1, <1>2, FS_EmptySet
<1> QED BY <1>2, <1>3 DEF Position

(* Whoever is ahead in line has the smaller position.                      *)
LEMMA AheadIsSmaller ==
  ASSUME joined \in [Rows -> Nat],
         NEW s, NEW q \in Waiting(s), NEW r \in Waiting(s), AheadOf(q, r)
  PROVE  Position(s, q) < Position(s, r)
<1> DEFINE Upto(x) == {y \in Waiting(s) : y = x \/ AheadOf(y, x)}
<1>1. q \in Rows /\ r \in Rows /\ Waiting(s) \subseteq Nat /\ Waiting(s) \subseteq Rows
  BY RowsAssumption DEF Waiting
<1>2. Upto(q) \subseteq Upto(r)
  BY <1>1 DEF AheadOf
<1>3. r \in Upto(r) /\ r \notin Upto(q)
  BY <1>1 DEF AheadOf
<1>4. /\ IsFiniteSet(Upto(r))
      /\ Cardinality(Upto(q)) \in Nat
      /\ Cardinality(Upto(r)) \in Nat
  BY LineIsFinite, PositionType DEF Position
<1>5. /\ Cardinality(Upto(q)) <= Cardinality(Upto(r))
      /\ Cardinality(Upto(q)) # Cardinality(Upto(r))
  <2> Upto(q) \in SUBSET Upto(r) /\ Upto(q) # Upto(r)
    BY <1>2, <1>3
  <2> HIDE DEF Upto
  <2> QED BY <1>4, FS_Subset
<1> QED BY <1>4, <1>5 DEF Position

(* No two people in line have the same position.                           *)
LEMMA PositionsDistinct ==
  ASSUME joined \in [Rows -> Nat],
         NEW s, NEW q \in Waiting(s), NEW r \in Waiting(s), q # r
  PROVE  Position(s, q) # Position(s, r)
<1>1. q \in Rows /\ r \in Rows /\ q \in Nat /\ r \in Nat
  BY RowsAssumption DEF Waiting
<1>2. AheadOf(q, r) \/ AheadOf(r, q)
  BY <1>1 DEF AheadOf
<1>3. Position(s, q) \in Nat /\ Position(s, r) \in Nat
  BY PositionType
<1> QED BY <1>2, <1>3, AheadIsSmaller

(* At most n people are among the first n in line.                         *)
LEMMA FirstInLine ==
  ASSUME joined \in [Rows -> Nat], NEW s, NEW n \in Nat
  PROVE  LET first == {r \in Waiting(s) : Position(s, r) <= n}
         IN  IsFiniteSet(first) /\ Cardinality(first) <= n
<1> DEFINE first == {r \in Waiting(s) : Position(s, r) <= n}
           place == [r \in first |-> Position(s, r)]
<1>1. IsFiniteSet(first)
  BY RowsAssumption, FS_Subset DEF Waiting
<1>2. place \in [first -> 1..n]
  <2>1. \A r \in first : Position(s, r) \in 1..n
    BY PositionType
  <2> QED BY <2>1
<1>3. IsFiniteSet(1..n) /\ Cardinality(1..n) = n
  BY FS_Interval
<1>4. \A x, y \in first : x # y => place[x] # place[y]
  BY PositionsDistinct
<1>5. Cardinality(first) \in Nat
  BY <1>1, FS_CardinalityType
<1>6. ~(n < Cardinality(first))
  <2> HIDE DEF first, place
  <2> QED BY <1>1, <1>2, <1>3, <1>4, FS_PigeonHole
<1> QED BY <1>1, <1>5, <1>6

-----------------------------------------------------------------------------
(***************************************************************************)
(* Types.                                                                  *)
(***************************************************************************)

(* A request is about what its operation takes.                            *)
LEMMA SubjectTypes ==
  ASSUME NEW op \in Operations, NEW x \in Subjects(op)
  PROVE  /\ op \in Newcomers => x \in Attendees
         /\ op \in Holders => x \in Rows
BY DEF Subjects, Operations, Reads, Newcomers, Holders

(* What a statuses function must be for PassOn to end a transaction with.  *)
Statuses(s) ==
  /\ s \in [Rows -> RowStatuses]
  /\ \A x \in Rows : s[x] # "none" => owner[x] \in Attendees

(* Handing seats on keeps the rows' types.                                 *)
LEMMA PassOnTypes ==
  ASSUME TypeOK, NEW s, Statuses(s), NEW ev, NEW now \in Nat, NEW n,
         PassOn(s, ev, now, n)
  PROVE  /\ status' \in [Rows -> RowStatuses]
         /\ owner' \in [Rows -> Attendees \cup {Nobody}]
         /\ \A x \in Rows : status'[x] # "none" => owner'[x] \in Attendees
         /\ joined' \in [Rows -> Nat]
         /\ expires' \in [Rows -> Nat]
<1> DEFINE next == NextInLine(s, ev, now, n)
<1>1. next \subseteq Waiting(s)
  BY DEF NextInLine
<1> HIDE DEF next
<1>2. /\ status' = [r \in Rows |-> IF r \in next THEN "offered" ELSE s[r]]
      /\ joined' = [r \in Rows |-> IF r \in Waiting(s) \ next THEN joined[r] ELSE Never]
      /\ expires' = [r \in Rows |-> IF r \in next THEN now + OfferWindow
                                    ELSE IF s[r] = "offered" THEN expires[r] ELSE Never]
      /\ owner' = owner
  BY DEF PassOn, next
<1>3. status' \in [Rows -> RowStatuses]
  BY <1>2 DEF Statuses, RowStatuses, ActiveStatuses
<1>4. joined' \in [Rows -> Nat] /\ expires' \in [Rows -> Nat]
  BY <1>2, TimeAssumption DEF TypeOK, Never
<1>5. \A x \in Rows : status'[x] # "none" => owner'[x] \in Attendees
  BY <1>1, <1>2 DEF Statuses, Waiting
<1> QED BY <1>2, <1>3, <1>4, <1>5 DEF TypeOK

(* Every transaction of a request keeps the types.                         *)
LEMMA RequestTypes ==
  ASSUME TypeOK, NEW r \in Requests, RequestStep(r)
  PROVE  TypeOK'
<1> USE DEF TypeOK
<1>1. req[r] \in Request /\ req[r].now \in Nat /\ Idle \in Request
  BY DEF Request, Idle, EventRow, EventStatuses, Unloaded, Operations, Reads
<1>2. ASSUME NEW op \in Operations, NEW x \in Attendees \cup Rows \cup {Nobody},
             Arrive(r, op, x)
      PROVE  TypeOK'
  <2> DEFINE new == [pc |-> FirstStep(op), op |-> op, subject |-> x,
                     now |-> clock, loaded |-> Loaded(op)]
  <2>1. new \in Request
    BY <1>2 DEF Request, FirstStep, Loaded, EventRow, EventStatuses, Unloaded
  <2>2. x \in Subjects(op) /\ req' = [req EXCEPT ![r] = new]
    BY <1>2 DEF Arrive
  <2>3. (op \in Newcomers => x \in Attendees) /\ (op \in Holders => x \in Rows)
    BY <2>2, SubjectTypes
  <2>4. /\ req' \in [Requests -> Request]
        /\ \A q \in Requests :
             req'[q].pc # "idle" =>
               /\ req'[q].op \in Newcomers => req'[q].subject \in Attendees
               /\ req'[q].op \in Holders => req'[q].subject \in Rows
    BY <2>1, <2>2, <2>3
  <2> QED BY <1>2, <2>4 DEF Arrive, rowVars, eventVars
<1>3. ASSUME Answer(r)
      PROVE  /\ event' = event /\ window' = window /\ clock' = clock
             /\ req' \in [Requests -> Request]
             /\ \A q \in Requests :
                  req'[q].pc # "idle" =>
                    /\ req'[q].op \in Newcomers => req'[q].subject \in Attendees
                    /\ req'[q].op \in Holders => req'[q].subject \in Rows
  BY <1>1, <1>3 DEF Answer, eventVars, Idle
<1>4. ASSUME NEW s, Statuses(s), NEW ev, NEW n, PassOn(s, ev, req[r].now, n), Answer(r)
      PROVE  TypeOK'
  <2>1. /\ status' \in [Rows -> RowStatuses]
        /\ owner' \in [Rows -> Attendees \cup {Nobody}]
        /\ \A x \in Rows : status'[x] # "none" => owner'[x] \in Attendees
        /\ joined' \in [Rows -> Nat]
        /\ expires' \in [Rows -> Nat]
    BY <1>1, <1>4, PassOnTypes
  <2> QED BY <1>3, <1>4, <2>1
<1>5. ASSUME NEW a \in Attendees, NEW st \in {"confirmed", "waitlisted"},
             Insert(a, st, req[r].now), Answer(r)
      PROVE  TypeOK'
  <2>1. /\ status' \in [Rows -> RowStatuses]
        /\ owner' \in [Rows -> Attendees \cup {Nobody}]
        /\ \A x \in Rows : status'[x] # "none" => owner'[x] \in Attendees
        /\ joined' \in [Rows -> Nat]
        /\ expires' \in [Rows -> Nat]
    BY <1>1, <1>5 DEF Insert, RowStatuses, ActiveStatuses, Never
  <2> QED BY <1>3, <1>5, <2>1
<1>6. CASE Sweep(r)
  <2> DEFINE now == req[r].now
             lapsed == LapsedOffers(now)
             ev == EventAsRead(r)
  <2>1. /\ req' \in [Requests -> Request]
        /\ \A q \in Requests :
             req'[q].pc # "idle" =>
               /\ req'[q].op \in Newcomers => req'[q].subject \in Attendees
               /\ req'[q].op \in Holders => req'[q].subject \in Rows
    BY <1>1, <1>6 DEF Sweep, AfterSweep, Request, Idle
  <2>2. /\ status' \in [Rows -> RowStatuses]
        /\ owner' \in [Rows -> Attendees \cup {Nobody}]
        /\ \A x \in Rows : status'[x] # "none" => owner'[x] \in Attendees
        /\ joined' \in [Rows -> Nat]
        /\ expires' \in [Rows -> Nat]
    <3>1. CASE lapsed = {}
      BY <1>6, <3>1 DEF Sweep, rowVars
    <3>2. CASE lapsed # {}
      <4>1. Statuses(EndLapsed(lapsed))
        BY DEF Statuses, EndLapsed, LapsedOffers, RowStatuses
      <4>2. PassOn(EndLapsed(lapsed), ev, now, SweepOffers(ev, now))
        BY <1>6, <3>2 DEF Sweep
      <4> QED BY <1>1, <4>1, <4>2, PassOnTypes
    <3> QED BY <3>1, <3>2
  <2> QED BY <1>6, <2>1, <2>2 DEF Sweep, eventVars
<1>7. CASE Register(r)
  BY <1>5, <1>7 DEF Register, Acting, Newcomers
<1>8. CASE JoinWaitlist(r)
  BY <1>5, <1>8 DEF JoinWaitlist, Acting, Newcomers
<1>9. CASE AcceptOffer(r)
  <2>1. /\ status' \in [Rows -> RowStatuses]
        /\ owner' = owner /\ joined' = joined
        /\ \A x \in Rows : status'[x] # "none" => owner'[x] \in Attendees
        /\ expires' \in [Rows -> Nat]
    BY <1>9 DEF AcceptOffer, MayAccept, RowStatuses, ActiveStatuses, Never
  <2> QED BY <1>3, <1>9, <2>1 DEF AcceptOffer
<1>10. ASSUME NEW x \in Rows, status[x] # "none", NEW st \in RowStatuses
       PROVE  Statuses([status EXCEPT ![x] = st])
  BY <1>10 DEF Statuses
<1>11. req[r].pc = "act" /\ req[r].op \in Holders => req[r].subject \in Rows
  BY <1>1
<1>12. CASE DeclineOffer(r)
  BY <1>4, <1>10, <1>11, <1>12 DEF DeclineOffer, MayDecline, Acting, Holders, RowStatuses
<1>13. CASE ExpireOffer(r)
  BY <1>4, <1>10, <1>11, <1>13 DEF ExpireOffer, Acting, Holders, RowStatuses
<1>14. CASE Withdraw(r)
  BY <1>4, <1>10, <1>11, <1>14 DEF Withdraw, MayWithdraw, Acting, Holders, RowStatuses
<1>15. CASE Refuse(r)
  BY <1>3, <1>15 DEF Refuse, rowVars
<1> QED
  BY <1>2, <1>6, <1>7, <1>8, <1>9, <1>12, <1>13, <1>14, <1>15 DEF RequestStep

(* The rest of the application keeps the types of the events row.          *)
LEMMA EventTypes ==
  ASSUME TypeOK, EventStep
  PROVE  TypeOK'
<1> USE EventAssumption DEF TypeOK, EventRow, EventStatuses, OthersUnchanged, rowVars
<1>1. CASE Confirm
  BY <1>1 DEF Confirm
<1>2. CASE StartPreparation
  BY <1>2 DEF StartPreparation
<1>3. CASE Complete
  BY <1>3 DEF Complete
<1>4. CASE BackToPlanning
  BY <1>4 DEF BackToPlanning
<1>5. CASE CancelEvent
  BY <1>5 DEF CancelEvent
<1>6. CASE \E c \in Capacities, s \in Starts : ApproveChange(c, s)
  BY <1>6 DEF ApproveChange
<1> QED BY <1>1, <1>2, <1>3, <1>4, <1>5, <1>6 DEF EventStep

(* The initial state is well typed.                                        *)
LEMMA InitTypes ==
  ASSUME Init
  PROVE  TypeOK
<1>1. /\ req \in [Requests -> Request]
      /\ \A r \in Requests : req[r].pc = "idle"
  BY DEF Init, Request, Idle, EventRow, EventStatuses, Unloaded, Operations, Reads
<1>2. /\ event \in EventRow
      /\ event.capacity \in Capacities
      /\ event.startAt \in Starts
  BY EventAssumption DEF Init, EventRow, EventStatuses
<1> QED BY <1>1, <1>2 DEF Init, TypeOK, RowStatuses, Never

(* So is every state after a step.                                         *)
LEMMA TypesStep ==
  ASSUME TypeOK, [Next]_vars
  PROVE  TypeOK'
<1>1. CASE Tick
  BY <1>1 DEF Tick, TypeOK, rowVars, eventVars
<1>2. CASE UNCHANGED vars
  BY <1>2 DEF vars, TypeOK
<1> QED BY <1>1, <1>2, RequestTypes, EventTypes DEF Next

(* Types: every row in use belongs to an attendee, every time is one the   *)
(* server could have read, and requests are about what they should be.     *)
THEOREM TypeCorrect == Spec => []TypeOK
BY InitTypes, TypesStep, PTL DEF Spec

-----------------------------------------------------------------------------
(***************************************************************************)
(* Requests and their clocks.                                              *)
(***************************************************************************)

(* What a request's step does to the requests.                             *)
LEMMA RequestMoves ==
  ASSUME TypeOK, NEW r \in Requests, RequestStep(r)
  PROVE  /\ clock' = clock /\ event' = event /\ window' = window
         /\ \A q \in Requests : q # r => req'[q] = req[q]
         /\ \/ req'[r].pc = "idle"
            \/ /\ req[r].pc = "sweep" /\ req[r].op \notin Reads
               /\ Sweep(r)
               /\ req'[r].pc = "act" /\ req'[r].op = req[r].op /\ req'[r].now = req[r].now
            \/ /\ req'[r].now = clock
               /\ req'[r].pc = FirstStep(req'[r].op) /\ req'[r].loaded = Loaded(req'[r].op)
               /\ req'[r].op \in Reads => req'[r].pc = "sweep"
               /\ UNCHANGED rowVars
<1> USE DEF eventVars
<1>1. ASSUME Answer(r)
      PROVE  /\ clock' = clock /\ event' = event /\ window' = window
             /\ \A q \in Requests : q # r => req'[q] = req[q]
             /\ req'[r].pc = "idle"
  BY <1>1 DEF Answer, TypeOK, Idle
<1>2. ASSUME NEW op \in Operations, NEW x, Arrive(r, op, x)
      PROVE  /\ clock' = clock /\ event' = event /\ window' = window
             /\ \A q \in Requests : q # r => req'[q] = req[q]
             /\ req'[r].now = clock
             /\ req'[r].pc = FirstStep(req'[r].op)
             /\ req'[r].loaded = Loaded(req'[r].op)
             /\ req'[r].op \in Reads => req'[r].pc = "sweep"
             /\ UNCHANGED rowVars
  <2>1. req'[r] = [pc |-> FirstStep(op), op |-> op, subject |-> x,
                   now |-> clock, loaded |-> Loaded(op)]
    BY <1>2 DEF Arrive, TypeOK
  <2> QED BY <1>2, <2>1 DEF Arrive, TypeOK
<1>3. CASE Sweep(r)
  <2>1. /\ clock' = clock /\ event' = event /\ window' = window
        /\ \A q \in Requests : q # r => req'[q] = req[q]
        /\ req'[r] = AfterSweep(r)
    BY <1>3 DEF Sweep, TypeOK
  <2>2. CASE req[r].op \in Reads
    BY <2>1, <2>2 DEF AfterSweep, Idle
  <2>3. CASE req[r].op \notin Reads
    <3>1. req'[r] = [req[r] EXCEPT !.pc = "act"]
      BY <2>1, <2>3 DEF AfterSweep
    <3>2. req'[r].pc = "act" /\ req'[r].op = req[r].op /\ req'[r].now = req[r].now
      BY <3>1 DEF TypeOK, Request
    <3> QED BY <1>3, <2>1, <2>3, <3>2 DEF Sweep
  <2> QED BY <2>2, <2>3
<1>4. Sweep(r) \/ Answer(r) \/ \E op \in Operations, x \in Attendees \cup Rows \cup {Nobody} : Arrive(r, op, x)
  BY DEF RequestStep, Register, JoinWaitlist, AcceptOffer, DeclineOffer, ExpireOffer,
         Withdraw, Refuse
<1> QED BY <1>1, <1>2, <1>3, <1>4

(* Everything but a request's step leaves requests and rows alone.         *)
LEMMA OtherSteps ==
  ASSUME EventStep \/ Tick \/ UNCHANGED vars
  PROVE  UNCHANGED <<status, owner, joined, expires, req>>
BY DEF EventStep, Confirm, StartPreparation, Complete, BackToPlanning, CancelEvent,
       ApproveChange, OthersUnchanged, Tick, vars, rowVars

(* Approved changes give the event one of the capacities.                  *)
LEMMA EventClock ==
  ASSUME TypeOK, EventStep \/ UNCHANGED vars
  PROVE  clock' = clock
BY DEF EventStep, Confirm, StartPreparation, Complete, BackToPlanning, CancelEvent,
       ApproveChange, OthersUnchanged, vars

(* No request lives longer than MaxAge.                                    *)
LEMMA AgesStep ==
  ASSUME TypeOK, Ages, [Next]_vars
  PROVE  Ages'
<1>1. ASSUME NEW r \in Requests, RequestStep(r)
      PROVE  Ages'
  <2> SUFFICES ASSUME NEW q \in Requests, req'[q].pc # "idle"
               PROVE  req'[q].now <= clock' /\ clock' <= req'[q].now + MaxAge
    BY DEF Ages
  <2>1. req[q].now \in Nat /\ clock \in Nat /\ MaxAge \in Nat
    BY TimeAssumption DEF TypeOK, Request
  <2>2. clock' = clock
    BY <1>1, RequestMoves
  <2>3. \/ req'[q].now = clock
        \/ req'[q].now = req[q].now /\ req[q].pc # "idle"
    BY <1>1, RequestMoves
  <2> QED BY <2>1, <2>2, <2>3 DEF Ages
<1>2. CASE Tick
  <2>1. req' = req /\ clock' = clock + 1
    BY <1>2 DEF Tick
  <2>2. \A r \in Requests : req[r].now \in Nat
    BY DEF TypeOK, Request
  <2> QED BY <1>2, <2>1, <2>2, TimeAssumption DEF Tick, Ages, TypeOK
<1>3. CASE EventStep \/ UNCHANGED vars
  BY <1>3, OtherSteps, EventClock DEF Ages
<1> QED BY <1>1, <1>2, <1>3 DEF Next

(* A sweeping read has loaded a capacity the event was given.              *)
LEMMA ErrandsStep ==
  ASSUME TypeOK, Errands, [Next]_vars
  PROVE  Errands'
<1>1. ASSUME NEW r \in Requests, RequestStep(r)
      PROVE  Errands'
  <2> SUFFICES ASSUME NEW q \in Requests
               PROVE  /\ req'[q].pc = "sweep" /\ req'[q].op = "browse"
                           => req'[q].loaded.capacity \in Capacities
                      /\ req'[q].pc = "act" => req'[q].op \notin Reads
    BY DEF Errands
  <2>1. CASE q # r
    BY <1>1, <2>1, RequestMoves DEF Errands
  <2>2. CASE q = r
    BY <1>1, <2>2, RequestMoves DEF Loaded, TypeOK
  <2> QED BY <2>1, <2>2
<1>2. CASE EventStep \/ Tick \/ UNCHANGED vars
  BY <1>2, OtherSteps DEF Errands
<1> QED BY <1>1, <1>2 DEF Next

-----------------------------------------------------------------------------
(***************************************************************************)
(* Offers and seats.                                                       *)
(***************************************************************************)

(* What PassOn does to the offers: those of s stay, the new ones run for   *)
(* a whole window from now.                                                *)
LEMMA PassOnOffers ==
  ASSUME NEW s, NEW ev, NEW now, NEW n, PassOn(s, ev, now, n),
         NEW x \in Rows, status'[x] = "offered"
  PROVE  \/ expires'[x] = now + OfferWindow
         \/ s[x] = "offered" /\ expires'[x] = expires[x]
BY DEF PassOn

(* An offer standing after a request's step stood before it, or is good    *)
(* for a window from the request's `now`.                                  *)
LEMMA OffersMade ==
  ASSUME TypeOK, NEW r \in Requests, RequestStep(r),
         NEW x \in Rows, status'[x] = "offered"
  PROVE  \/ status[x] = "offered" /\ expires'[x] = expires[x]
         \/ req[r].pc # "idle" /\ expires'[x] = req[r].now + OfferWindow
<1>1. ASSUME NEW y, NEW st \in RowStatuses \ {"offered"}, NEW n, req[r].pc = "act",
             PassOn([status EXCEPT ![y] = st], event, req[r].now, n)
      PROVE  \/ status[x] = "offered" /\ expires'[x] = expires[x]
             \/ req[r].pc # "idle" /\ expires'[x] = req[r].now + OfferWindow
  <2> DEFINE s == [status EXCEPT ![y] = st]
  <2>1. s[x] = "offered" => status[x] = "offered"
    BY DEF TypeOK
  <2>2. PassOn(s, event, req[r].now, n)
    BY <1>1
  <2> HIDE DEF s
  <2>3. expires'[x] = req[r].now + OfferWindow \/ (s[x] = "offered" /\ expires'[x] = expires[x])
    BY <2>2, PassOnOffers
  <2> QED BY <1>1, <2>1, <2>3
<1>2. CASE Sweep(r)
  <2>1. EndLapsed(LapsedOffers(req[r].now))[x] = "offered" => status[x] = "offered"
    BY DEF EndLapsed
  <2> QED BY <1>2, <2>1, PassOnOffers DEF Sweep, rowVars
<1>3. ASSUME NEW a, NEW st \in {"confirmed", "waitlisted"}, Insert(a, st, req[r].now)
      PROVE  status[x] = "offered" /\ expires'[x] = expires[x]
  BY <1>3 DEF Insert, TypeOK
<1>4. CASE AcceptOffer(r)
  BY <1>4 DEF AcceptOffer, TypeOK
<1>5. CASE Register(r) \/ JoinWaitlist(r)
  BY <1>3, <1>5 DEF Register, JoinWaitlist
<1>6. CASE DeclineOffer(r)
  BY <1>1, <1>6 DEF DeclineOffer, Acting, RowStatuses
<1>7. CASE ExpireOffer(r)
  BY <1>1, <1>7 DEF ExpireOffer, Acting, RowStatuses
<1>8. CASE Withdraw(r)
  BY <1>1, <1>8 DEF Withdraw, Acting, RowStatuses
<1>9. CASE UNCHANGED rowVars
  BY <1>9 DEF rowVars
<1> QED BY <1>2, <1>4, <1>5, <1>6, <1>7, <1>8, <1>9 DEF RequestStep, Arrive, Refuse

(* A sweep leaves no offer lapsed.                                         *)
LEMMA SweepClears ==
  ASSUME TypeOK, NEW r \in Requests, Sweep(r),
         NEW x \in Rows, status'[x] = "offered"
  PROVE  expires'[x] > req[r].now
<1> DEFINE lapsed == LapsedOffers(req[r].now)
<1>1. req[r].now \in Nat /\ expires[x] \in Nat /\ OfferWindow \in Nat \ {0}
  BY TimeAssumption DEF TypeOK, Request
<1>2. CASE lapsed = {}
  BY <1>1, <1>2 DEF Sweep, rowVars, LapsedOffers
<1>3. CASE lapsed # {}
  <2>1. PassOn(EndLapsed(lapsed), EventAsRead(r), req[r].now,
               SweepOffers(EventAsRead(r), req[r].now))
    BY <1>3 DEF Sweep
  <2>2. EndLapsed(lapsed)[x] = "offered" => expires[x] > req[r].now
    BY <1>1 DEF EndLapsed, LapsedOffers
  <2> QED BY <1>1, <2>1, <2>2, PassOnOffers
<1> QED BY <1>2, <1>3

(* Nothing lapses between a request's sweep and its operation: new offers  *)
(* outlive every request there is, since MaxAge < OfferWindow.             *)
LEMMA UnderWayStep ==
  ASSUME TypeOK, Ages, NothingLapsesUnderWay, [Next]_vars
  PROVE  NothingLapsesUnderWay'
<1>1. ASSUME NEW r \in Requests, RequestStep(r)
      PROVE  NothingLapsesUnderWay'
  <2> SUFFICES ASSUME NEW q \in Requests, req'[q].pc = "act", req'[q].op # "expire_offer",
                      NEW x \in Rows, status'[x] = "offered"
               PROVE  ~(expires'[x] <= req'[q].now)
    BY DEF NothingLapsesUnderWay, LapsedOffers
  <2>1. /\ req[q].now \in Nat /\ req[r].now \in Nat /\ clock \in Nat
        /\ MaxAge \in Nat /\ OfferWindow \in Nat /\ MaxAge < OfferWindow
        /\ expires[x] \in Nat
    BY TimeAssumption DEF TypeOK, Request
  <2>2. \/ status[x] = "offered" /\ expires'[x] = expires[x]
        \/ req[r].pc # "idle" /\ expires'[x] = req[r].now + OfferWindow
    BY <1>1, OffersMade
  <2>3. CASE q # r
    <3>1. req'[q] = req[q]
      BY <1>1, <2>3, RequestMoves
    <3>2. status[x] = "offered" => ~(expires[x] <= req[q].now)
      BY <3>1 DEF NothingLapsesUnderWay, LapsedOffers
    <3>3. req[q].now <= clock /\ (req[r].pc # "idle" => clock <= req[r].now + MaxAge)
      BY <3>1 DEF Ages
    <3> QED BY <2>1, <2>2, <3>1, <3>2, <3>3
  <2>4. CASE q = r
    <3>1. CASE Sweep(r) /\ req'[r].now = req[r].now
      BY <2>1, <2>2, <2>4, <3>1, SweepClears
    <3>2. CASE /\ req'[r].now = clock /\ UNCHANGED rowVars
               /\ req'[r].pc = FirstStep(req'[r].op)
      <4>1. LapsedOffers(clock) = {}
        BY <2>4, <3>2 DEF FirstStep
      <4> QED BY <2>4, <3>2, <4>1 DEF LapsedOffers, rowVars
    <3> QED BY <1>1, <2>4, <3>1, <3>2, RequestMoves
  <2> QED BY <2>3, <2>4
<1>2. CASE EventStep \/ Tick \/ UNCHANGED vars
  BY <1>2, OtherSteps DEF NothingLapsesUnderWay, LapsedOffers
<1> QED BY <1>1, <1>2 DEF Next

(* Sets of rows are finite.                                                *)
LEMMA RowsFinite ==
  ASSUME NEW S \in SUBSET Rows
  PROVE  IsFiniteSet(S) /\ Cardinality(S) \in Nat
BY RowsAssumption, FS_Subset, FS_CardinalityType

(* The seats that remain are a number, negative when the event is          *)
(* overbooked by an approved change.                                       *)
LEMMA SeatsType ==
  ASSUME NEW s, NEW ev, ev.capacity \in Nat, NEW now
  PROVE  SeatsRemaining(s, ev, now) \in Int
<1> DEFINE taken == {r \in Rows : \/ s[r] = "confirmed"
                                  \/ s[r] = "offered" /\ expires[r] > now}
<1>1. Cardinality(taken) \in Nat
  BY RowsFinite
<1>2. SeatsRemaining(s, ev, now) = ev.capacity - Cardinality(taken)
  BY DEF SeatsRemaining
<1> HIDE DEF taken
<1> QED BY <1>1, <1>2

(* At most n people are called, and no more than there are seats.          *)
LEMMA NextBounded ==
  ASSUME joined \in [Rows -> Nat], NEW s, NEW ev, ev.capacity \in Nat, NEW now, NEW n \in Nat
  PROVE  LET next == NextInLine(s, ev, now, n)
         IN  /\ next \subseteq Waiting(s)
             /\ Cardinality(next) <= n
             /\ next # {} => Cardinality(next) <= SeatsRemaining(s, ev, now)
<1> DEFINE next == NextInLine(s, ev, now, n)
           seats == SeatsRemaining(s, ev, now)
           first(k) == {r \in Waiting(s) : Position(s, r) <= k}
<1>1. next \subseteq Waiting(s) /\ next \in SUBSET Rows
  BY DEF NextInLine, Waiting
<1>2. IsFiniteSet(next) /\ Cardinality(next) \in Nat
  BY <1>1, RowsFinite
<1>3. seats \in Int
  BY SeatsType
<1>4. ASSUME NEW k \in Nat, next \subseteq first(k)
      PROVE  Cardinality(next) <= k
  <2>1. IsFiniteSet(first(k)) /\ Cardinality(first(k)) <= k /\ Cardinality(first(k)) \in Nat
    BY FirstInLine, FS_CardinalityType
  <2> HIDE DEF next, first
  <2>2. Cardinality(next) <= Cardinality(first(k))
    BY <1>4, <2>1, FS_Subset
  <2> QED BY <1>2, <2>1, <2>2
<1>5. Cardinality(next) <= n
  <2>1. next \subseteq first(n)
    BY DEF NextInLine
  <2> QED BY <1>4, <2>1
<1>6. next # {} => Cardinality(next) <= seats
  <2> SUFFICES ASSUME next # {} PROVE Cardinality(next) <= seats
    OBVIOUS
  <2>1. next \subseteq first(seats)
    BY DEF NextInLine
  <2>2. PICK r \in next : r \in Waiting(s) /\ Position(s, r) <= seats
    BY <1>1, <2>1
  <2>3. Position(s, r) \in Nat /\ Position(s, r) >= 1
    BY <2>2, PositionType
  <2>4. seats \in Nat
    <3> HIDE DEF seats
    <3> QED BY <1>3, <2>2, <2>3
  <2> QED BY <1>4, <2>1, <2>4
<1> QED BY <1>1, <1>5, <1>6

(* After PassOn the seats held are those of s and those offered.           *)
LEMMA PassOnHolds ==
  ASSUME NEW s, NEW ev, NEW now, NEW n, PassOn(s, ev, now, n)
  PROVE  LET next == NextInLine(s, ev, now, n)
         IN  /\ Held(status') = Held(s) \cup next
             /\ Cardinality(Held(status')) <= Cardinality(Held(s)) + Cardinality(next)
             /\ next = {} => Held(status') = Held(s)
<1> DEFINE next == NextInLine(s, ev, now, n)
<1>1. next \subseteq Rows
  BY DEF NextInLine, Waiting
<1>2. status' = [r \in Rows |-> IF r \in next THEN "offered" ELSE s[r]]
  BY DEF PassOn
<1> HIDE DEF next
<1>3. Held(status') = Held(s) \cup next
  BY <1>1, <1>2 DEF Held
<1>4. Held(s) \in SUBSET Rows
  BY DEF Held
<1>5. Cardinality(Held(s) \cup next) <= Cardinality(Held(s)) + Cardinality(next)
  <2>1. /\ IsFiniteSet(Held(s)) /\ IsFiniteSet(next)
        /\ Cardinality(Held(s)) \in Nat /\ Cardinality(next) \in Nat
        /\ Cardinality(Held(s) \cap next) \in Nat
    BY <1>1, <1>4, RowsFinite
  <2>2. Cardinality(Held(s) \cup next)
          = Cardinality(Held(s)) + Cardinality(next) - Cardinality(Held(s) \cap next)
    BY <2>1, FS_Union
  <2> QED BY <2>1, <2>2
<1> QED BY <1>3, <1>5 DEF next

(* One leaves a seat and at most one is offered it.                        *)
LEMMA SeatHandedOn ==
  ASSUME TypeOK, NEW x \in Rows, x \in Held(status),
         NEW st \in RowStatuses \ {"confirmed", "offered"}, NEW now,
         PassOn([status EXCEPT ![x] = st], event, now, 1)
  PROVE  Cardinality(Held(status')) <= Cardinality(Held(status))
<1> DEFINE s == [status EXCEPT ![x] = st]
           next == NextInLine(s, event, now, 1)
<1>1. Held(s) = Held(status) \ {x}
  BY DEF Held, TypeOK
<1>2. event.capacity \in Nat /\ joined \in [Rows -> Nat]
  BY EventAssumption DEF TypeOK
<1>3. PassOn(s, event, now, 1)
  OBVIOUS
<1> HIDE DEF s
<1>4. IsFiniteSet(Held(status)) /\ Cardinality(Held(status)) \in Nat
  <2>1. Held(status) \in SUBSET Rows
    BY DEF Held
  <2> QED BY <2>1, RowsFinite
<1>5. Cardinality(Held(s)) = Cardinality(Held(status)) - 1
  BY <1>1, <1>4, FS_RemoveElement
<1>6. next \in SUBSET Rows /\ Cardinality(next) <= 1
  BY <1>2, NextBounded DEF Waiting
<1>7. Cardinality(next) \in Nat
  BY <1>6, RowsFinite
<1>8. Cardinality(Held(status')) <= Cardinality(Held(s)) + Cardinality(next)
  BY <1>3, PassOnHolds
<1>9. Cardinality(Held(status')) \in Nat
  <2>1. Held(status') \in SUBSET Rows
    BY DEF Held
  <2> QED BY <2>1, RowsFinite
<1> QED BY <1>4, <1>5, <1>6, <1>7, <1>8, <1>9

(* When nothing has lapsed, the seats counted as taken are those held.     *)
LEMMA SeatsCounted ==
  ASSUME NEW s, NEW ev, NEW now,
         \A x \in Rows : s[x] = "offered" => expires[x] > now
  PROVE  SeatsRemaining(s, ev, now) = ev.capacity - Cardinality(Held(s))
<1> DEFINE taken == {r \in Rows : \/ s[r] = "confirmed"
                                  \/ s[r] = "offered" /\ expires[r] > now}
<1>1. taken = Held(s)
  BY DEF Held
<1>2. SeatsRemaining(s, ev, now) = ev.capacity - Cardinality(taken)
  BY DEF SeatsRemaining
<1> HIDE DEF taken
<1> QED BY <1>1, <1>2

(* A sweep fills the seats of the event as it read it, and no more: every  *)
(* offer it leaves standing is one it counts.                              *)
LEMMA SweepSeats ==
  ASSUME IInv, NEW r \in Requests, Sweep(r)
  PROVE  \E c \in Capacities : Cardinality(Held(status')) <= c
<1> DEFINE now == req[r].now
           ev == EventAsRead(r)
           n == SweepOffers(ev, now)
           s == EndLapsed(LapsedOffers(now))
           next == NextInLine(s, ev, now, n)
<1> USE DEF IInv
<1>1. CASE LapsedOffers(now) = {}
  BY <1>1 DEF Sweep, rowVars, SeatsWithinCapacity
<1>2. CASE LapsedOffers(now) # {}
  <2>1. PassOn(s, ev, now, n)
    BY <1>2 DEF Sweep
  <2>2. ev.capacity \in Capacities /\ ev.capacity \in Nat
    BY EventAssumption DEF EventAsRead, Sweep, Errands, TypeOK
  <2>3. n \in Nat
    BY RowsAssumption, FS_CardinalityType DEF SweepOffers
  <2>4. joined \in [Rows -> Nat]
    BY DEF TypeOK
  <2>5. Held(s) \subseteq Held(status) /\ Held(s) \in SUBSET Rows /\ Held(status) \in SUBSET Rows
    BY DEF Held, EndLapsed, LapsedOffers
  <2>6. SeatsRemaining(s, ev, now) = ev.capacity - Cardinality(Held(s))
    <3>1. \A x \in Rows : s[x] = "offered" => expires[x] > now
      BY DEF EndLapsed, LapsedOffers, TypeOK, Request
    <3> QED BY <3>1, SeatsCounted
  <2> HIDE DEF s, n, ev, now
  <2>7. Cardinality(Held(s)) \in Nat /\ Cardinality(Held(status')) \in Nat
    <3>1. Held(status') \in SUBSET Rows
      BY DEF Held
    <3> QED BY <2>5, <3>1, RowsFinite
  <2>8. CASE next = {}
    <3>1. Held(status') = Held(s)
      BY <2>1, <2>8, PassOnHolds
    <3>2. Cardinality(Held(s)) <= Cardinality(Held(status)) /\ Cardinality(Held(status)) \in Nat
      BY <2>5, RowsFinite, FS_Subset
    <3> QED BY <2>7, <3>1, <3>2, EventAssumption DEF SeatsWithinCapacity
  <2>9. CASE next # {}
    <3>1. next \in SUBSET Rows /\ Cardinality(next) <= ev.capacity - Cardinality(Held(s))
      BY <2>2, <2>3, <2>4, <2>6, <2>9, NextBounded DEF Waiting
    <3>2. Cardinality(next) \in Nat
      BY <3>1, RowsFinite
    <3>3. Cardinality(Held(status')) <= Cardinality(Held(s)) + Cardinality(next)
      BY <2>1, PassOnHolds
    <3>4. Cardinality(Held(status')) <= ev.capacity
      BY <2>2, <2>7, <3>1, <3>2, <3>3
    <3> QED BY <2>2, <3>4
  <2> QED BY <2>8, <2>9
<1> QED BY <1>1, <1>2

(* A newcomer takes a seat only if, lapsed offers counted, one is free.    *)
LEMMA RegisterSeats ==
  ASSUME IInv, NEW r \in Requests, Register(r)
  PROVE  Cardinality(Held(status')) <= event.capacity
<1> USE DEF IInv
<1>1. PICK x \in Rows : status[x] = "none" /\ status' = [status EXCEPT ![x] = "confirmed"]
  BY DEF Register, Insert
<1>2. /\ Held(status') = Held(status) \cup {x}
      /\ x \notin Held(status) /\ Held(status) \in SUBSET Rows
  BY <1>1 DEF Held, TypeOK
<1>3. SeatsRemaining(status, event, req[r].now) = event.capacity - Cardinality(Held(status))
  <2>1. \A y \in Rows : status[y] = "offered" => expires[y] > req[r].now
    BY DEF Register, Acting, NothingLapsesUnderWay, LapsedOffers, TypeOK, Request
  <2> QED BY <2>1, SeatsCounted
<1>4. IsFiniteSet(Held(status)) /\ Cardinality(Held(status)) \in Nat
  BY <1>2, RowsFinite
<1>5. event.capacity - Cardinality(Held(status)) > 0 /\ event.capacity \in Nat
  BY <1>3, EventAssumption DEF Register, MayRegister, TypeOK
<1>6. Cardinality(Held(status) \cup {x}) = Cardinality(Held(status)) + 1
  BY <1>2, <1>4, FS_AddElement
<1> QED BY <1>2, <1>4, <1>5, <1>6

(* No step overbooks the event.                                            *)
LEMMA SeatsStep ==
  ASSUME IInv, [Next]_vars
  PROVE  SeatsWithinCapacity'
<1> USE DEF IInv
<1> SUFFICES \E c \in Capacities : Cardinality(Held(status')) <= c
  BY DEF SeatsWithinCapacity, Held
<1>1. ASSUME \/ Held(status') = Held(status)
             \/ Cardinality(Held(status')) <= Cardinality(Held(status))
      PROVE  \E c \in Capacities : Cardinality(Held(status')) <= c
  <2>1. Cardinality(Held(status)) \in Nat /\ Cardinality(Held(status')) \in Nat
    <3>1. Held(status) \in SUBSET Rows /\ Held(status') \in SUBSET Rows
      BY DEF Held
    <3> QED BY <3>1, RowsFinite
  <2>2. Cardinality(Held(status')) <= Cardinality(Held(status))
    BY <1>1, <2>1
  <2> QED BY <2>1, <2>2, EventAssumption DEF SeatsWithinCapacity
<1>2. ASSUME NEW r \in Requests, RequestStep(r)
      PROVE  \E c \in Capacities : Cardinality(Held(status')) <= c
  <2> DEFINE x == req[r].subject
  <2>1. req[r].pc = "act" /\ req[r].op \in Holders => x \in Rows
    BY DEF TypeOK
  <2>2. CASE Sweep(r)
    BY <2>2, SweepSeats
  <2>3. CASE Register(r)
    BY <2>3, RegisterSeats DEF TypeOK
  <2>4. CASE JoinWaitlist(r)
    <3>1. Held(status') = Held(status)
      BY <2>4 DEF JoinWaitlist, Insert, Held, TypeOK
    <3> QED BY <1>1, <3>1
  <2>5. CASE AcceptOffer(r)
    <3>1. Held(status') = Held(status)
      BY <2>1, <2>5 DEF AcceptOffer, MayAccept, Acting, Holders, Held, TypeOK
    <3> QED BY <1>1, <3>1
  <2>6. CASE DeclineOffer(r)
    <3>1. x \in Rows /\ x \in Held(status)
      BY <2>1, <2>6 DEF DeclineOffer, MayDecline, Acting, Holders, Held
    <3>2. "declined" \in RowStatuses \ {"confirmed", "offered"}
      BY DEF RowStatuses
    <3> QED BY <1>1, <2>6, <3>1, <3>2, SeatHandedOn DEF DeclineOffer
  <2>7. CASE ExpireOffer(r)
    <3>1. x \in Rows /\ x \in Held(status)
      BY <2>1, <2>7 DEF ExpireOffer, Acting, Holders, Held
    <3>2. "expired" \in RowStatuses \ {"confirmed", "offered"}
      BY DEF RowStatuses
    <3> QED BY <1>1, <2>7, <3>1, <3>2, SeatHandedOn DEF ExpireOffer
  <2>8. CASE Withdraw(r) /\ status[x] = "confirmed"
    <3>1. x \in Rows /\ x \in Held(status) /\ SeatsFreed(x) = 1
      BY <2>1, <2>8 DEF Withdraw, Acting, Holders, Held, SeatsFreed
    <3>2. "withdrawn" \in RowStatuses \ {"confirmed", "offered"}
      BY DEF RowStatuses
    <3> QED BY <1>1, <2>8, <3>1, <3>2, SeatHandedOn DEF Withdraw
  <2>9. CASE Withdraw(r) /\ status[x] # "confirmed"
    <3> DEFINE s == [status EXCEPT ![x] = "withdrawn"]
               next == NextInLine(s, event, req[r].now, 0)
    <3>1. PassOn(s, event, req[r].now, 0) /\ x \in Rows /\ status[x] = "waitlisted"
      BY <2>1, <2>9 DEF Withdraw, MayWithdraw, SeatsFreed, Acting, Holders
    <3>2. Held(s) = Held(status)
      BY <3>1 DEF Held, TypeOK
    <3>3. next = {}
      BY PositionType DEF NextInLine
    <3> HIDE DEF s
    <3>4. Held(status') = Held(s)
      BY <3>1, <3>3, PassOnHolds
    <3> QED BY <1>1, <3>2, <3>4
  <2>10. ASSUME UNCHANGED rowVars
         PROVE  \E c \in Capacities : Cardinality(Held(status')) <= c
    BY <1>1, <2>10 DEF rowVars
  <2>11. CASE Refuse(r)
    BY <2>10, <2>11 DEF Refuse
  <2>12. CASE \E op \in Operations, y \in Attendees \cup Rows \cup {Nobody} : Arrive(r, op, y)
    BY <2>10, <2>12 DEF Arrive
  <2> HIDE DEF x, IInv
  <2> QED
    BY <1>2, <2>2, <2>3, <2>4, <2>5, <2>6, <2>7, <2>8, <2>9, <2>11, <2>12 DEF RequestStep
<1>3. CASE EventStep \/ Tick \/ UNCHANGED vars
  BY <1>1, <1>3, OtherSteps
<1> QED BY <1>2, <1>3 DEF Next

-----------------------------------------------------------------------------
(***************************************************************************)
(* What a request's step does to the registrations: nothing, a new row, an *)
(* offer taken up, or some rows ended and some of the waitlist called.     *)
(***************************************************************************)

Ended == {"withdrawn", "declined", "expired"}

\* s is status with some active rows ended.
Ends(s) ==
  /\ s \in [Rows -> RowStatuses]
  /\ \A y \in Rows : s[y] = status[y] \/ (status[y] \in ActiveStatuses /\ s[y] \in Ended)

(* A row that leaves by an operation of its holder is one that has ended.  *)
LEMMA OneEnds ==
  ASSUME TypeOK, NEW x \in Rows, status[x] \in ActiveStatuses, NEW st \in Ended
  PROVE  Ends([status EXCEPT ![x] = st])
BY DEF Ends, TypeOK, Ended, RowStatuses

(* The four things a request's step may do to the rows.                    *)
LEMMA RowMoves ==
  ASSUME TypeOK, NEW r \in Requests, RequestStep(r)
  PROVE  \/ UNCHANGED rowVars
         \/ /\ Register(r)
            /\ \E x \in Rows :
                 status[x] = "none" /\ status' = [status EXCEPT ![x] = "confirmed"]
         \/ \E x \in Rows :
              status[x] = "none" /\ status' = [status EXCEPT ![x] = "waitlisted"]
         \/ /\ AcceptOffer(r)
            /\ \E x \in Rows :
                 status[x] = "offered" /\ status' = [status EXCEPT ![x] = "confirmed"]
         \/ \E s \in [Rows -> RowStatuses], ev \in EventRow, n \in Nat :
              Ends(s) /\ PassOn(s, ev, req[r].now, n)
<1> DEFINE x == req[r].subject
           PassesOn == \E s \in [Rows -> RowStatuses], ev \in EventRow, n \in Nat :
                         Ends(s) /\ PassOn(s, ev, req[r].now, n)
<1>1. req[r].pc = "act" /\ req[r].op \in Holders => x \in Rows
  BY DEF TypeOK
<1>2. event \in EventRow /\ 0 \in Nat /\ 1 \in Nat
  BY DEF TypeOK
<1>3. ASSUME NEW y \in Rows, status[y] \in ActiveStatuses, NEW st \in Ended, NEW n \in Nat,
             PassOn([status EXCEPT ![y] = st], event, req[r].now, n)
      PROVE  PassesOn
  <2> DEFINE s == [status EXCEPT ![y] = st]
  <2>1. Ends(s) /\ s \in [Rows -> RowStatuses] /\ PassOn(s, event, req[r].now, n)
    BY <1>3, OneEnds DEF Ends
  <2> HIDE DEF s
  <2> QED BY <1>2, <2>1
<1>4. CASE Sweep(r) /\ ~UNCHANGED rowVars
  <2> DEFINE now == req[r].now
             s == EndLapsed(LapsedOffers(now))
             ev == EventAsRead(r)
             n == SweepOffers(ev, now)
  <2>1. PassOn(s, ev, now, n)
    BY <1>4 DEF Sweep
  <2>2. Ends(s) /\ s \in [Rows -> RowStatuses]
    BY DEF Ends, EndLapsed, LapsedOffers, TypeOK, RowStatuses, ActiveStatuses, Ended
  <2>3. ev \in EventRow
    BY DEF EventAsRead, TypeOK, Request
  <2>4. n \in Nat
    BY RowsAssumption, FS_CardinalityType DEF SweepOffers
  <2> HIDE DEF s, ev, n
  <2> QED BY <2>1, <2>2, <2>3, <2>4
<1>5. CASE Register(r) \/ JoinWaitlist(r)
  BY <1>5 DEF Register, JoinWaitlist, Insert
<1>6. CASE AcceptOffer(r)
  <2>1. x \in Rows /\ status[x] = "offered" /\ status' = [status EXCEPT ![x] = "confirmed"]
    BY <1>1, <1>6 DEF AcceptOffer, MayAccept, Acting, Holders
  <2> QED BY <1>6, <2>1
<1>7. CASE DeclineOffer(r)
  <2>1. x \in Rows /\ status[x] \in ActiveStatuses
    BY <1>1, <1>7 DEF DeclineOffer, MayDecline, Acting, Holders, ActiveStatuses
  <2> QED BY <1>2, <1>3, <1>7, <2>1 DEF DeclineOffer, Ended
<1>8. CASE ExpireOffer(r)
  <2>1. x \in Rows /\ status[x] \in ActiveStatuses
    BY <1>1, <1>8 DEF ExpireOffer, Acting, Holders, ActiveStatuses
  <2> QED BY <1>2, <1>3, <1>8, <2>1 DEF ExpireOffer, Ended
<1>9. CASE Withdraw(r)
  <2>1. x \in Rows /\ status[x] \in ActiveStatuses
    BY <1>1, <1>9 DEF Withdraw, MayWithdraw, Acting, Holders, ActiveStatuses
  <2> QED BY <1>2, <1>3, <1>9, <2>1 DEF Withdraw, SeatsFreed, Ended
<1>10. CASE Refuse(r)
  BY <1>10 DEF Refuse
<1>11. CASE \E op \in Operations, y \in Attendees \cup Rows \cup {Nobody} : Arrive(r, op, y)
  BY <1>11 DEF Arrive
<1> HIDE DEF x
<1>12. CASE UNCHANGED rowVars
  BY <1>12
<1> QED
  BY <1>4, <1>5, <1>6, <1>7, <1>8, <1>9, <1>10, <1>11, <1>12 DEF RequestStep

-----------------------------------------------------------------------------
(***************************************************************************)
(* The theorems.                                                           *)
(***************************************************************************)

(* The inductive invariant holds from the start and at every step.         *)
THEOREM Inductive == Spec => []IInv
<1>1. Init => IInv
  <2> SUFFICES ASSUME Init PROVE IInv
    OBVIOUS
  <2>1. TypeOK
    BY InitTypes
  <2>2. Held(status) = {} /\ \A r \in Requests : req[r].pc = "idle"
    BY DEF Init, Held, Idle
  <2>3. Cardinality(Held(status)) = 0
    BY <2>2, FS_EmptySet
  <2>4. event.capacity \in Capacities /\ event.capacity \in Nat
    BY <2>1, EventAssumption DEF TypeOK
  <2>5. Cardinality(Held(status)) <= event.capacity
    BY <2>3, <2>4
  <2> QED BY <2>1, <2>2, <2>4, <2>5
          DEF IInv, Ages, Errands, NothingLapsesUnderWay, SeatsWithinCapacity
<1>2. IInv /\ [Next]_vars => IInv'
  BY TypesStep, AgesStep, ErrandsStep, UnderWayStep, SeatsStep DEF IInv
<1> QED BY <1>1, <1>2, PTL DEF Spec

(* Between a request's sweep and its own transaction no offer lapses for   *)
(* it, whatever the other requests commit in between.                      *)
THEOREM SweptStaysSwept == Spec => []NothingLapsesUnderWay
BY Inductive, PTL DEF IInv

(* The event is never overbooked, however requests, sweeps and approved    *)
(* changes interleave.                                                     *)
THEOREM NeverOverbooked == Spec => []SeatsWithinCapacity
BY Inductive, PTL DEF IInv

(* Offers are made in the order people joined, ids breaking ties, however  *)
(* many seats one transaction hands on and whatever the event's capacity.  *)
THEOREM QueueInOrder == Spec => OffersInOrder
<1> DEFINE InOrder ==
      \A x, y \in Rows :
        /\ status[x] = "waitlisted" /\ status'[x] = "offered"
        /\ status[y] = "waitlisted" /\ status'[y] = "waitlisted"
        => joined[x] < joined[y] \/ (joined[x] = joined[y] /\ x < y)
<1>1. TypeOK /\ [Next]_vars => InOrder
  <2> SUFFICES ASSUME TypeOK, [Next]_vars,
                      NEW x \in Rows, NEW y \in Rows,
                      status[x] = "waitlisted", status'[x] = "offered",
                      status[y] = "waitlisted", status'[y] = "waitlisted"
               PROVE  AheadOf(x, y)
    BY DEF AheadOf
  <2>1. PICK r \in Requests : RequestStep(r)
    BY OtherSteps DEF Next
  <2>2. PICK s \in [Rows -> RowStatuses], ev \in EventRow, n \in Nat :
          Ends(s) /\ PassOn(s, ev, req[r].now, n)
    <3>1. status'[x] # status[x]
      OBVIOUS
    <3> QED BY <2>1, <3>1, RowMoves DEF rowVars, TypeOK
  <2> DEFINE next == NextInLine(s, ev, req[r].now, n)
  <2>3. x \in next /\ y \in Waiting(s) /\ y \notin next
    BY <2>2 DEF PassOn, Ends, Ended, Waiting, ActiveStatuses
  <2>4. /\ x \in Waiting(s) /\ Position(s, x) <= n
        /\ Position(s, x) <= SeatsRemaining(s, ev, req[r].now)
        /\ ~(/\ Position(s, y) <= n
             /\ Position(s, y) <= SeatsRemaining(s, ev, req[r].now))
    BY <2>3 DEF NextInLine
  <2>5. SeatsRemaining(s, ev, req[r].now) \in Int
    BY SeatsType DEF EventRow
  <2>6. Position(s, x) \in Nat /\ Position(s, y) \in Nat
    BY <2>3, <2>4, PositionType
  <2>7. Position(s, x) < Position(s, y)
    BY <2>4, <2>5, <2>6
  <2>8. joined \in [Rows -> Nat] /\ x \in Nat /\ y \in Nat /\ joined[x] \in Nat /\ joined[y] \in Nat
    BY RowsAssumption DEF TypeOK
  <2>9. AheadOf(y, x) => Position(s, y) < Position(s, x)
    BY <2>3, <2>4, <2>8, AheadIsSmaller
  <2>10. x # y /\ ~AheadOf(y, x)
    BY <2>6, <2>7, <2>9
  <2> QED BY <2>8, <2>10 DEF AheadOf
<1>2. TypeOK /\ [Next]_vars => [InOrder]_vars
  BY <1>1
<1> QED BY <1>2, TypeCorrect, PTL DEF Spec, OffersInOrder

(* An offer is good for its whole window: only the forced path ends it as  *)
(* expired before that.                                                    *)
THEOREM OffersHold == Spec => UnexpiredOfferHolds
<1> DEFINE Holds ==
      \A x \in Rows :
        status[x] = "offered" /\ status'[x] = "expired" /\ clock < expires[x]
          => \E r \in Requests : Acting(r, "expire_offer") /\ req[r].subject = x
<1>1. TypeOK /\ Ages /\ [Next]_vars => Holds
  <2> SUFFICES ASSUME TypeOK, Ages, [Next]_vars,
                      NEW x \in Rows, status[x] = "offered", status'[x] = "expired",
                      clock < expires[x]
               PROVE  \E r \in Requests : Acting(r, "expire_offer") /\ req[r].subject = x
    OBVIOUS
  <2>1. PICK r \in Requests : RequestStep(r)
    BY OtherSteps DEF Next
  <2>2. ASSUME NEW s, NEW ev, NEW n, PassOn(s, ev, req[r].now, n)
        PROVE  s[x] = "expired"
    BY <2>2 DEF PassOn
  <2>3. ~Sweep(r)
    <3> SUFFICES ASSUME Sweep(r) PROVE FALSE
      OBVIOUS
    <3>1. EndLapsed(LapsedOffers(req[r].now))[x] = "expired"
      BY <2>2 DEF Sweep, rowVars
    <3>2. expires[x] <= req[r].now
      BY <3>1 DEF EndLapsed, LapsedOffers
    <3>3. req[r].now <= clock /\ req[r].now \in Nat /\ clock \in Nat /\ expires[x] \in Nat
      BY DEF Ages, Sweep, TypeOK, Request
    <3> QED BY <3>2, <3>3
  <2>4. ~Register(r) /\ ~JoinWaitlist(r) /\ ~AcceptOffer(r)
    BY DEF Register, JoinWaitlist, Insert, AcceptOffer, TypeOK
  <2>5. ~DeclineOffer(r) /\ ~Withdraw(r)
    <3>1. ASSUME NEW y, NEW st \in {"declined", "withdrawn"}, NEW n,
                 PassOn([status EXCEPT ![y] = st], event, req[r].now, n)
          PROVE  FALSE
      <4> DEFINE s == [status EXCEPT ![y] = st]
      <4>1. s[x] # "expired"
        BY DEF TypeOK
      <4>2. PassOn(s, event, req[r].now, n)
        BY <3>1
      <4> HIDE DEF s
      <4> QED BY <2>2, <4>1, <4>2
    <3> QED BY <3>1 DEF DeclineOffer, Withdraw
  <2>6. ExpireOffer(r)
    <3>1. ~UNCHANGED rowVars
      BY DEF rowVars
    <3> QED BY <2>1, <2>3, <2>4, <2>5, <3>1 DEF RequestStep, Refuse, Arrive
  <2>7. req[r].subject = x
    <3> DEFINE y == req[r].subject
               s == [status EXCEPT ![y] = "expired"]
    <3>1. PassOn(s, event, req[r].now, 1)
      BY <2>6 DEF ExpireOffer
    <3>2. y # x => s[x] = "offered"
      BY DEF TypeOK
    <3> HIDE DEF s
    <3> QED BY <2>2, <3>1, <3>2
  <2> QED BY <2>6, <2>7 DEF ExpireOffer
<1>2. IInv /\ [Next]_vars => [Holds]_vars
  BY <1>1 DEF IInv
<1> QED BY <1>2, Inductive, PTL DEF Spec, UnexpiredOfferHolds

(* A cancelled event confirms nobody.                                      *)
THEOREM CancelledSeatsNobody == Spec => NoSeatOnCancelledEvent
<1> DEFINE Closed ==
      event.status = "cancelled" =>
        \A x \in Rows : status'[x] = "confirmed" => status[x] = "confirmed"
<1>1. TypeOK /\ [Next]_vars => Closed
  <2> SUFFICES ASSUME TypeOK, [Next]_vars, event.status = "cancelled",
                      NEW x \in Rows, status'[x] = "confirmed", status[x] # "confirmed"
               PROVE  FALSE
    OBVIOUS
  <2>1. PICK r \in Requests : RequestStep(r)
    BY OtherSteps DEF Next
  <2>2. ~Register(r) /\ ~AcceptOffer(r)
    BY DEF Register, MayRegister, RegistrationOpen, AcceptOffer, MayAccept
  <2>3. ASSUME NEW s, NEW ev, NEW n, Ends(s), PassOn(s, ev, req[r].now, n)
        PROVE  FALSE
    BY <2>3 DEF PassOn, Ends, Ended
  <2>4. ~UNCHANGED rowVars
    BY DEF rowVars
  <2>5. PICK y \in Rows : status' = [status EXCEPT ![y] = "waitlisted"]
    BY <2>1, <2>2, <2>3, <2>4, RowMoves
  <2> QED BY <2>5 DEF TypeOK
<1>2. TypeOK /\ [Next]_vars => [Closed]_vars
  BY <1>1
<1> QED BY <1>2, TypeCorrect, PTL DEF Spec, NoSeatOnCancelledEvent

-----------------------------------------------------------------------------
(***************************************************************************)
(* The refinement.                                                         *)
(***************************************************************************)

Seated(s) == {r \in Rows : s[r] = "confirmed"}
Offered(s) == {r \in Rows : s[r] = "offered"}

(* The ledger counts as this module does.                                  *)
LEMMA SameCount ==
  \A S : Ledger!Cardinality(S) = Cardinality(S)
BY DEF Ledger!Cardinality, Cardinality

(* The seats a ledger step leaves held are those of the registrations.     *)
LEMMA LedgerWithin ==
  ASSUME SeatsWithinCapacity'
  PROVE  Ledger!Within(Seated(status') \cup Offered(status'))
<1>1. Seated(status') \cup Offered(status') = Held(status')
  BY DEF Seated, Offered, Held
<1>2. \E c \in Capacities : Cardinality(Held(status')) <= c
  BY DEF SeatsWithinCapacity, Held
<1> QED BY <1>1, <1>2, SameCount DEF Ledger!Within

(* Rows that end and rows that are called are a turnover of the ledger.    *)
LEMMA TurnoverStep ==
  ASSUME TypeOK, SeatsWithinCapacity',
         NEW s, Ends(s), NEW ev, NEW now, NEW n, PassOn(s, ev, now, n)
  PROVE  Ledger!Next
<1> DEFINE out == {r \in Rows : s[r] # status[r]}
           next == NextInLine(s, ev, now, n)
<1>1. next \subseteq Waiting(s)
  BY DEF NextInLine
<1>2. status' = [r \in Rows |-> IF r \in next THEN "offered" ELSE s[r]]
  BY DEF PassOn
<1> HIDE DEF next
<1>3. \A r \in Rows :
        s[r] = status[r] \/ (status[r] \in ActiveStatuses /\ s[r] \in Ended)
  BY DEF Ends
<1>4. out \subseteq Seated(status) \cup Offered(status) \cup Waiting(status)
  BY <1>3 DEF Seated, Offered, Waiting, ActiveStatuses
<1>5. next \subseteq Waiting(status) \ out
  BY <1>1, <1>3 DEF Waiting, Ended
<1>6. Leavers(status') = Leavers(status) \cup out
  BY <1>1, <1>2, <1>3 DEF Leavers, Waiting, ActiveStatuses, Ended
<1>7. Seated(status') = Seated(status) \ out
  BY <1>1, <1>2, <1>3 DEF Seated, Waiting, ActiveStatuses, Ended
<1>8. Offered(status') = (Offered(status) \ out) \cup next
  BY <1>1, <1>2, <1>3 DEF Offered, Waiting, ActiveStatuses, Ended
<1>9. Waiting(status') = Waiting(status) \ (out \cup next)
  BY <1>1, <1>2, <1>3 DEF Waiting, ActiveStatuses, Ended
<1>10. Ledger!Within(Seated(status') \cup Offered(status'))
  BY LedgerWithin
<1>11. out \in SUBSET Rows /\ next \in SUBSET Rows
  BY <1>1 DEF Waiting
<1> HIDE DEF out
<1>12. \E leave, call \in SUBSET Rows :
         /\ leave \subseteq Seated(status) \cup Offered(status) \cup Waiting(status)
         /\ call \subseteq Waiting(status) \ leave
         /\ Leavers(status') = Leavers(status) \cup leave
         /\ Seated(status') = Seated(status) \ leave
         /\ Offered(status') = (Offered(status) \ leave) \cup call
         /\ Waiting(status') = Waiting(status) \ (leave \cup call)
         /\ Ledger!Within(Seated(status') \cup Offered(status'))
  BY <1>4, <1>5, <1>6, <1>7, <1>8, <1>9, <1>10, <1>11
<1> QED
  BY <1>12 DEF Ledger!Next, Ledger!Turnover, Seated, Offered, Waiting, Leavers

(* The registration service implements the ledger: a registration only     *)
(* moves on, and every seat given or offered is one the event has.         *)
THEOREM Implementation == Spec => ImplementsLedger
<1>1. Init => Ledger!Init
  BY DEF Init, Ledger!Init, Waiting, Leavers
<1>2. IInv /\ IInv' /\ [Next]_vars => [Ledger!Next]_(Ledger!ledger)
  <2> SUFFICES ASSUME TypeOK, SeatsWithinCapacity', [Next]_vars
               PROVE  [Ledger!Next]_(Ledger!ledger)
    BY DEF IInv
  <2>1. CASE status' = status
    BY <2>1 DEF Ledger!ledger, Waiting, Leavers
  <2>2. CASE status' # status
    <3>1. PICK r \in Requests : RequestStep(r)
      BY <2>2, OtherSteps DEF Next
    <3>2. ASSUME NEW x \in Rows, status[x] = "none",
                 status' = [status EXCEPT ![x] = "confirmed"]
          PROVE  Ledger!Next
      <4>1. /\ Seated(status') = Seated(status) \cup {x}
            /\ Offered(status') = Offered(status)
            /\ Waiting(status') = Waiting(status)
            /\ Leavers(status') = Leavers(status)
        BY <3>2 DEF TypeOK, Seated, Offered, Waiting, Leavers
      <4>2. x \notin Seated(status) \cup Offered(status) \cup Waiting(status) \cup Leavers(status)
        BY <3>2 DEF Seated, Offered, Waiting, Leavers
      <4>3. Ledger!Within(Seated(status') \cup Offered(status))
        BY <4>1, LedgerWithin
      <4>4. Ledger!Take(x)
        BY <4>1, <4>2, <4>3
           DEF Ledger!Take, Ledger!Unclaimed, Seated, Offered, Waiting, Leavers
      <4> QED BY <4>4 DEF Ledger!Next
    <3>3. ASSUME NEW x \in Rows, status[x] = "none",
                 status' = [status EXCEPT ![x] = "waitlisted"]
          PROVE  Ledger!Next
      <4>1. /\ Seated(status') = Seated(status)
            /\ Offered(status') = Offered(status)
            /\ Waiting(status') = Waiting(status) \cup {x}
            /\ Leavers(status') = Leavers(status)
        BY <3>3 DEF TypeOK, Seated, Offered, Waiting, Leavers
      <4>2. x \notin Seated(status) \cup Offered(status) \cup Waiting(status) \cup Leavers(status)
        BY <3>3 DEF Seated, Offered, Waiting, Leavers
      <4>3. Ledger!Join(x)
        BY <4>1, <4>2 DEF Ledger!Join, Ledger!Unclaimed, Seated, Offered, Waiting, Leavers
      <4> QED BY <4>3 DEF Ledger!Next
    <3>4. ASSUME NEW x \in Rows, status[x] = "offered",
                 status' = [status EXCEPT ![x] = "confirmed"]
          PROVE  Ledger!Next
      <4>1. /\ Seated(status') = Seated(status) \cup {x}
            /\ Offered(status') = Offered(status) \ {x}
            /\ Waiting(status') = Waiting(status)
            /\ Leavers(status') = Leavers(status)
        BY <3>4 DEF TypeOK, Seated, Offered, Waiting, Leavers
      <4>2. x \in Offered(status)
        BY <3>4 DEF Offered
      <4>3. Ledger!TakeUp(x)
        BY <4>1, <4>2 DEF Ledger!TakeUp, Seated, Offered, Waiting, Leavers
      <4> QED BY <4>3 DEF Ledger!Next
    <3>5. ~UNCHANGED rowVars
      BY <2>2 DEF rowVars
    <3> QED BY <3>1, <3>2, <3>3, <3>4, <3>5, RowMoves, TurnoverStep
  <2> QED BY <2>1, <2>2
<1> QED BY <1>1, <1>2, Inductive, PTL DEF Spec, ImplementsLedger, Ledger!Spec

-----------------------------------------------------------------------------
(***************************************************************************)
(* No idle seat.  A change of capacity frees seats that nobody hands on    *)
(* (the next sweep that finds a lapsed offer does), so what follows is     *)
(* about an event whose capacity and start no request changes.             *)
(***************************************************************************)

EventKept == event'.capacity = event.capacity /\ event'.startAt = event.startAt

\* What a read holds of the event it sweeps for is not out of date.
LoadedFresh ==
  \A r \in Requests :
    req[r].pc = "sweep" /\ req[r].op = "browse" =>
      /\ req[r].loaded.capacity = event.capacity
      /\ req[r].loaded.startAt = event.startAt
      /\ req[r].loaded.status = "cancelled" => event.status = "cancelled"

(* Nobody's place is beyond the end of the line.                           *)
LEMMA PositionBounded ==
  ASSUME NEW s, NEW r \in Waiting(s)
  PROVE  Position(s, r) <= Cardinality(Waiting(s))
<1> DEFINE Upto == {q \in Waiting(s) : q = r \/ AheadOf(q, r)}
           W == Waiting(s)
<1>1. IsFiniteSet(W) /\ Cardinality(W) \in Nat
  BY RowsFinite DEF Waiting
<1>2. Upto \in SUBSET W
  OBVIOUS
<1>3. Position(s, r) = Cardinality(Upto)
  BY DEF Position
<1> HIDE DEF Upto, W
<1>4. Cardinality(Upto) <= Cardinality(W)
  BY <1>1, <1>2, FS_Subset
<1> QED BY <1>3, <1>4 DEF W

(* When somebody waits beyond the first k places, those are all taken: no  *)
(* place in line is skipped.                                               *)
LEMMA LineHasNoGap ==
  ASSUME joined \in [Rows -> Nat], NEW s, NEW k \in Nat,
         NEW w \in Waiting(s), Position(s, w) > k
  PROVE  Cardinality({r \in Waiting(s) : Position(s, r) <= k}) >= k
<1> DEFINE W == Waiting(s)
           N == Cardinality(W)
           first == {r \in Waiting(s) : Position(s, r) <= k}
           rest == {r \in Waiting(s) : Position(s, r) > k}
           place == [r \in rest |-> Position(s, r)]
<1>1. /\ IsFiniteSet(W) /\ N \in Nat
      /\ IsFiniteSet(first) /\ Cardinality(first) \in Nat
      /\ IsFiniteSet(rest) /\ Cardinality(rest) \in Nat
  <2>1. W \in SUBSET Rows /\ first \in SUBSET Rows /\ rest \in SUBSET Rows
    BY DEF Waiting
  <2> HIDE DEF W, first, rest
  <2> QED BY <2>1, RowsFinite
<1>2. \A r \in Waiting(s) : Position(s, r) \in Nat /\ Position(s, r) <= N
  BY PositionType, PositionBounded
<1>3. first \cup rest = W /\ first \cap rest = {}
  <2> HIDE DEF N
  <2> QED BY <1>2
<1>4. place \in [rest -> (k + 1)..N]
  <2>1. \A r \in rest : Position(s, r) \in (k + 1)..N
    <3> HIDE DEF N
    <3> QED BY <1>1, <1>2
  <2> QED BY <2>1
<1>5. k < N
  <2> HIDE DEF N
  <2> QED BY <1>1, <1>2
<1>6. IsFiniteSet((k + 1)..N) /\ Cardinality((k + 1)..N) = N - k
  <2> HIDE DEF N
  <2>1. k + 1 \in Int /\ N \in Int /\ ~(k + 1 > N) /\ N - (k + 1) + 1 = N - k
    BY <1>1, <1>5
  <2>2. Cardinality((k + 1)..N) = N - (k + 1) + 1
    BY <2>1, FS_Interval
  <2> QED BY <2>1, <2>2, FS_Interval
<1>7. \A x, y \in rest : x # y => place[x] # place[y]
  BY PositionsDistinct
<1>8. ~(N - k < Cardinality(rest))
  <2> HIDE DEF rest, place, N
  <2> QED BY <1>1, <1>4, <1>6, <1>7, FS_PigeonHole
<1>9. N = Cardinality(first) + Cardinality(rest)
  <2>1. Cardinality(first \cup rest)
          = Cardinality(first) + Cardinality(rest) - Cardinality(first \cap rest)
    <3> HIDE DEF first, rest
    <3> QED BY <1>1, FS_Union
  <2>2. Cardinality(first \cap rest) = 0
    <3> HIDE DEF first, rest
    <3> QED BY <1>1, <1>3, FS_EmptySet
  <2>3. Cardinality(first \cup rest) = N
    <3> HIDE DEF first, rest, W
    <3> QED BY <1>3
  <2> HIDE DEF first, rest, N
  <2> QED BY <1>1, <2>1, <2>2, <2>3
<1> HIDE DEF first, rest, N
<1> QED BY <1>1, <1>8, <1>9 DEF first

(* Seats that lapsed offers are said to hold count as free.                *)
LEMMA SeatsAtLeast ==
  ASSUME NEW s, NEW ev, ev.capacity \in Nat, NEW now
  PROVE  SeatsRemaining(s, ev, now) >= ev.capacity - Cardinality(Held(s))
<1> DEFINE taken == {r \in Rows : \/ s[r] = "confirmed"
                                  \/ s[r] = "offered" /\ expires[r] > now}
<1>1. taken \in SUBSET Held(s) /\ Held(s) \in SUBSET Rows
  BY DEF Held
<1>2. SeatsRemaining(s, ev, now) = ev.capacity - Cardinality(taken)
  BY DEF SeatsRemaining
<1> HIDE DEF taken
<1>3. /\ IsFiniteSet(Held(s)) /\ Cardinality(Held(s)) \in Nat
      /\ Cardinality(taken) \in Nat /\ taken \in SUBSET Rows
  BY <1>1, RowsFinite
<1>4. Cardinality(taken) <= Cardinality(Held(s))
  BY <1>1, <1>3, FS_Subset
<1> QED BY <1>2, <1>3, <1>4

(* If anybody still waits, all n calls of offer_freed_seat found someone   *)
(* or every free seat was offered.                                         *)
LEMMA CalledEnough ==
  ASSUME joined \in [Rows -> Nat], NEW s, NEW ev, ev.capacity \in Nat,
         ev.status # "cancelled", NEW now, NEW n \in Nat,
         NEW w \in Waiting(s), w \notin NextInLine(s, ev, now, n)
  PROVE  LET next == NextInLine(s, ev, now, n)
         IN  \/ SeatsRemaining(s, ev, now) <= 0
             \/ Cardinality(next) >= n
             \/ Cardinality(next) >= SeatsRemaining(s, ev, now)
<1> DEFINE next == NextInLine(s, ev, now, n)
           seats == SeatsRemaining(s, ev, now)
           first(k) == {r \in Waiting(s) : Position(s, r) <= k}
<1>1. seats \in Int
  BY SeatsType
<1>2. \A r \in Waiting(s) : Position(s, r) \in Nat
  BY PositionType
<1>3. /\ next = {r \in Waiting(s) : Position(s, r) <= n /\ Position(s, r) <= seats}
      /\ ~(Position(s, w) <= n /\ Position(s, w) <= seats)
  BY DEF NextInLine
<1> HIDE DEF next, seats
<1>4. CASE n <= seats
  <2>1. next = first(n) /\ Position(s, w) > n
    BY <1>1, <1>2, <1>3, <1>4
  <2> QED BY <2>1, LineHasNoGap DEF next
<1>5. CASE seats < n /\ seats > 0
  <2>1. seats \in Nat /\ next = first(seats) /\ Position(s, w) > seats
    BY <1>1, <1>2, <1>3, <1>5
  <2> QED BY <2>1, LineHasNoGap DEF next, seats
<1> QED BY <1>1, <1>4, <1>5 DEF seats

(* A transaction that hands on n seats and leaves somebody waiting leaves  *)
(* no seat free, or has n seats more held than when it began to.           *)
LEMMA HandedOn ==
  ASSUME TypeOK, NEW s, NEW ev, ev.capacity \in Nat, ev.status # "cancelled",
         NEW now, NEW n \in Nat, PassOn(s, ev, now, n), Waiting(status') # {}
  PROVE  LET next == NextInLine(s, ev, now, n)
         IN  /\ next \in SUBSET Rows /\ next # Rows
             /\ Waiting(s) # {}
             /\ \/ Cardinality(Held(status')) >= ev.capacity
                \/ /\ Cardinality(next) >= n
                   /\ Cardinality(Held(status')) >= Cardinality(Held(s)) + n
<1> DEFINE next == NextInLine(s, ev, now, n)
           seats == SeatsRemaining(s, ev, now)
<1>1. next \subseteq Waiting(s) /\ next \in SUBSET Rows
  BY DEF NextInLine, Waiting
<1>2. status' = [r \in Rows |-> IF r \in next THEN "offered" ELSE s[r]]
  BY DEF PassOn
<1>3. PICK w \in Waiting(s) : w \notin next
  <2> HIDE DEF next
  <2> QED BY <1>2 DEF Waiting
<1>4. joined \in [Rows -> Nat]
  BY DEF TypeOK
<1>5. seats <= 0 \/ Cardinality(next) >= n \/ Cardinality(next) >= seats
  BY <1>3, <1>4, CalledEnough
<1>6. seats \in Int /\ seats >= ev.capacity - Cardinality(Held(s))
  BY SeatsType, SeatsAtLeast
<1>7. Held(status') = Held(s) \cup next
  BY PassOnHolds
<1>8. Held(s) \cap next = {}
  BY <1>1 DEF Held, Waiting
<1> HIDE DEF next, seats
<1>9. Held(s) \in SUBSET Rows
  BY DEF Held
<1>10. /\ IsFiniteSet(Held(s)) /\ Cardinality(Held(s)) \in Nat
       /\ IsFiniteSet(next) /\ Cardinality(next) \in Nat
  BY <1>1, <1>9, RowsFinite
<1>11. Cardinality(Held(status')) = Cardinality(Held(s)) + Cardinality(next)
  <2>1. Cardinality(Held(s) \cup next)
          = Cardinality(Held(s)) + Cardinality(next) - Cardinality(Held(s) \cap next)
    BY <1>10, FS_Union
  <2>2. Cardinality(Held(s) \cap next) = 0
    BY <1>8, <1>10, FS_EmptySet
  <2> QED BY <1>7, <1>10, <2>1, <2>2
<1>12. next # Rows
  BY <1>3 DEF Waiting
<1>13. \/ Cardinality(Held(status')) >= ev.capacity
       \/ /\ Cardinality(next) >= n
          /\ Cardinality(Held(status')) >= Cardinality(Held(s)) + n
  BY <1>5, <1>6, <1>10, <1>11
<1> QED BY <1>1, <1>3, <1>12, <1>13 DEF next

(* A cancelled event stays cancelled, and the clock never goes back.       *)
LEMMA EventMoves ==
  ASSUME TypeOK, EventStep \/ Tick \/ UNCHANGED vars
  PROVE  /\ event.status = "cancelled" => event'.status = "cancelled"
         /\ clock <= clock'
<1> USE DEF TypeOK, EventRow
<1>1. ASSUME NEW st \in EventStatuses, event' = [event EXCEPT !.status = st]
      PROVE  event'.status = st
  BY <1>1
<1>2. clock' = clock \/ clock' = clock + 1
  BY EventClock DEF Tick
<1>3. CASE Confirm \/ StartPreparation \/ Complete \/ BackToPlanning \/ CancelEvent
  BY <1>2, <1>3
     DEF Confirm, StartPreparation, Complete, BackToPlanning, CancelEvent, EventStatuses
<1>4. CASE \E c \in Capacities, s \in Starts : ApproveChange(c, s)
  BY <1>2, <1>4 DEF ApproveChange
<1>5. CASE Tick \/ UNCHANGED vars
  BY <1>2, <1>5 DEF Tick, eventVars, vars
<1> QED BY <1>3, <1>4, <1>5 DEF EventStep

(* What a read holds stays fresh, because only a change would make its     *)
(* capacity or start stale.                                                *)
LEMMA FreshStep ==
  ASSUME TypeOK, LoadedFresh, [Next]_vars, [EventKept]_vars
  PROVE  LoadedFresh'
<1>1. EventKept
  BY DEF EventKept, vars
<1>2. ASSUME NEW r \in Requests, RequestStep(r)
      PROVE  LoadedFresh'
  <2> SUFFICES ASSUME NEW q \in Requests, req'[q].pc = "sweep", req'[q].op = "browse"
               PROVE  /\ req'[q].loaded.capacity = event'.capacity
                      /\ req'[q].loaded.startAt = event'.startAt
                      /\ req'[q].loaded.status = "cancelled" => event'.status = "cancelled"
    BY DEF LoadedFresh
  <2>1. CASE q # r
    BY <1>2, <2>1, RequestMoves DEF LoadedFresh
  <2>2. CASE q = r
    BY <1>2, <2>2, RequestMoves DEF Loaded
  <2> QED BY <2>1, <2>2
<1>3. CASE EventStep \/ Tick \/ UNCHANGED vars
  <2>1. event.status = "cancelled" => event'.status = "cancelled"
    BY <1>3, EventMoves
  <2> QED BY <1>1, <1>3, <2>1, OtherSteps DEF LoadedFresh, EventKept
<1> QED BY <1>2, <1>3 DEF Next

(* A sweep leaves nobody waiting, or no seat free.                         *)
LEMMA SweepFills ==
  ASSUME IInv, LoadedFresh, NEW r \in Requests, Sweep(r), ~UNCHANGED rowVars,
         event.status # "cancelled", clock < event.startAt, Waiting(status') # {}
  PROVE  Cardinality(Held(status')) >= event.capacity
<1> DEFINE now == req[r].now
           ev == EventAsRead(r)
           n == SweepOffers(ev, now)
           s == EndLapsed(LapsedOffers(now))
           next == NextInLine(s, ev, now, n)
<1>1. PassOn(s, ev, now, n)
  BY DEF Sweep
<1>2. /\ ev.capacity = event.capacity /\ ev.startAt = event.startAt
      /\ ev.status # "cancelled" /\ event.capacity \in Nat
  BY EventAssumption DEF EventAsRead, LoadedFresh, Sweep, IInv, TypeOK
<1>3. n = Cardinality(Rows) /\ n \in Nat
  <2>1. now <= clock /\ now \in Nat /\ clock \in Nat /\ event.startAt \in Nat
    BY EventAssumption DEF IInv, TypeOK, Ages, Sweep, Request
  <2>2. now < ev.startAt
    BY <1>2, <2>1
  <2> QED BY <2>2, RowsAssumption, FS_CardinalityType DEF SweepOffers
<1>4. Held(s) \in SUBSET Rows
  BY DEF Held
<1> HIDE DEF s, ev, n, now
<1>5. /\ next \in SUBSET Rows /\ next # Rows
      /\ \/ Cardinality(Held(status')) >= ev.capacity
         \/ Cardinality(next) >= n
  BY <1>1, <1>2, <1>3, HandedOn DEF IInv
<1> HIDE DEF next
<1>6. Cardinality(next) < n
  <2>1. Cardinality(next) <= Cardinality(Rows) /\ Cardinality(next) # Cardinality(Rows)
    BY <1>5, RowsAssumption, FS_Subset
  <2> QED BY <1>3, <1>5, <2>1, RowsFinite
<1>7. Cardinality(next) \in Nat
  BY <1>5, RowsFinite
<1> QED BY <1>2, <1>3, <1>5, <1>6, <1>7

(* Whoever gives a seat up leaves nobody waiting, or no seat free.         *)
LEMMA GivenUpFills ==
  ASSUME TypeOK, NoIdleSeat, event.status # "cancelled", clock < event.startAt,
         NEW x \in Rows, x \in Held(status), NEW st \in Ended, NEW now,
         PassOn([status EXCEPT ![x] = st], event, now, 1), Waiting(status') # {}
  PROVE  Cardinality(Held(status')) >= event.capacity
<1> DEFINE s == [status EXCEPT ![x] = st]
<1>1. Held(s) = Held(status) \ {x} /\ Waiting(s) = Waiting(status)
  BY DEF Held, Waiting, TypeOK, Ended
<1>2. event.capacity \in Nat
  BY EventAssumption DEF TypeOK
<1>3. PassOn(s, event, now, 1)
  OBVIOUS
<1> HIDE DEF s
<1>4. /\ Waiting(s) # {}
      /\ \/ Cardinality(Held(status')) >= event.capacity
         \/ Cardinality(Held(status')) >= Cardinality(Held(s)) + 1
  BY <1>2, <1>3, HandedOn
<1>5. Cardinality(Held(status)) >= event.capacity
  BY <1>1, <1>4 DEF NoIdleSeat
<1>6. /\ IsFiniteSet(Held(status)) /\ Cardinality(Held(status)) \in Nat
      /\ Cardinality(Held(status')) \in Nat
  <2>1. Held(status) \in SUBSET Rows /\ Held(status') \in SUBSET Rows
    BY DEF Held
  <2> QED BY <2>1, RowsFinite
<1>7. Cardinality(Held(s)) = Cardinality(Held(status)) - 1
  BY <1>1, <1>6, FS_RemoveElement
<1> QED BY <1>2, <1>4, <1>5, <1>6, <1>7

(* No request's step leaves a seat idle.                                   *)
LEMMA NoIdleByRequest ==
  ASSUME IInv, LoadedFresh, NoIdleSeat, NEW r \in Requests, RequestStep(r)
  PROVE  NoIdleSeat'
<1> USE DEF IInv
<1>1. clock' = clock /\ event' = event
  BY RequestMoves
<1> SUFFICES ASSUME event.status # "cancelled", clock < event.startAt, Waiting(status') # {}
             PROVE  Cardinality(Held(status')) >= event.capacity
  BY <1>1 DEF NoIdleSeat, Waiting, Held
<1> DEFINE x == req[r].subject
           now == req[r].now
           enough == Cardinality(Held(status')) >= event.capacity
<1>2. event.capacity \in Nat
  BY EventAssumption DEF TypeOK
<1>3. req[r].pc = "act" /\ req[r].op \in Holders => x \in Rows
  BY DEF TypeOK
<1>4. ASSUME Held(status') = Held(status), Waiting(status) # {}
      PROVE  enough
  BY <1>4 DEF NoIdleSeat
<1>5. ASSUME UNCHANGED rowVars
      PROVE  enough
  BY <1>4, <1>5 DEF rowVars
<1>6. CASE Sweep(r) /\ ~UNCHANGED rowVars
  BY <1>6, SweepFills
<1>7. CASE Register(r)
  <2>1. PICK y \in Rows : status[y] = "none" /\ status' = [status EXCEPT ![y] = "confirmed"]
    BY <1>7 DEF Register, Insert
  <2>2. /\ Held(status) \in SUBSET Held(status') /\ Held(status') \in SUBSET Rows
        /\ Held(status) \in SUBSET Rows /\ Waiting(status') = Waiting(status)
    BY <2>1 DEF Held, Waiting, TypeOK
  <2>3. /\ Cardinality(Held(status)) <= Cardinality(Held(status'))
        /\ Cardinality(Held(status)) \in Nat /\ Cardinality(Held(status')) \in Nat
    BY <2>2, RowsFinite, FS_Subset
  <2> QED BY <1>2, <2>2, <2>3 DEF NoIdleSeat
<1>8. CASE JoinWaitlist(r)
  <2>1. Held(status') = Held(status)
    BY <1>8 DEF JoinWaitlist, Insert, Held, TypeOK
  <2>2. SeatsRemaining(status, event, now) = event.capacity - Cardinality(Held(status))
    <3>1. \A y \in Rows : status[y] = "offered" => expires[y] > now
      BY <1>8 DEF JoinWaitlist, Acting, NothingLapsesUnderWay, LapsedOffers, TypeOK, Request
    <3> QED BY <3>1, SeatsCounted
  <2>3. SeatsRemaining(status, event, now) <= 0
    BY <1>8 DEF JoinWaitlist, MayJoin, WaitlistAvailable
  <2>4. Cardinality(Held(status)) \in Nat
    <3>1. Held(status) \in SUBSET Rows
      BY DEF Held
    <3> QED BY <3>1, RowsFinite
  <2> QED BY <1>2, <2>1, <2>2, <2>3, <2>4
<1>9. CASE AcceptOffer(r)
  <2>1. Held(status') = Held(status) /\ Waiting(status') = Waiting(status)
    BY <1>3, <1>9 DEF AcceptOffer, MayAccept, Acting, Holders, Held, Waiting, TypeOK
  <2> QED BY <1>4, <2>1
<1>10. CASE DeclineOffer(r)
  <2>1. x \in Rows /\ x \in Held(status) /\ "declined" \in Ended
    BY <1>3, <1>10 DEF DeclineOffer, MayDecline, Acting, Holders, Held, Ended
  <2>2. PassOn([status EXCEPT ![x] = "declined"], event, now, 1)
    BY <1>10 DEF DeclineOffer
  <2> HIDE DEF x, now
  <2> QED BY <2>1, <2>2, GivenUpFills
<1>11. CASE ExpireOffer(r)
  <2>1. x \in Rows /\ x \in Held(status) /\ "expired" \in Ended
    BY <1>3, <1>11 DEF ExpireOffer, Acting, Holders, Held, Ended
  <2>2. PassOn([status EXCEPT ![x] = "expired"], event, now, 1)
    BY <1>11 DEF ExpireOffer
  <2> HIDE DEF x, now
  <2> QED BY <2>1, <2>2, GivenUpFills
<1>12. CASE Withdraw(r) /\ status[x] = "confirmed"
  <2>1. x \in Rows /\ x \in Held(status) /\ "withdrawn" \in Ended
    BY <1>3, <1>12 DEF Withdraw, Acting, Holders, Held, Ended
  <2>2. PassOn([status EXCEPT ![x] = "withdrawn"], event, now, 1)
    BY <1>12 DEF Withdraw, SeatsFreed
  <2> HIDE DEF x, now
  <2> QED BY <2>1, <2>2, GivenUpFills
<1>13. CASE Withdraw(r) /\ status[x] # "confirmed"
  <2> DEFINE s == [status EXCEPT ![x] = "withdrawn"]
             next == NextInLine(s, event, now, 0)
  <2>1. PassOn(s, event, now, 0) /\ x \in Rows /\ status[x] = "waitlisted"
    BY <1>3, <1>13 DEF Withdraw, MayWithdraw, SeatsFreed, Acting, Holders
  <2>2. Held(s) = Held(status) /\ Waiting(status) # {}
    BY <2>1 DEF Held, Waiting, TypeOK
  <2>3. next = {}
    BY PositionType DEF NextInLine
  <2> HIDE DEF s
  <2>4. Held(status') = Held(s)
    BY <2>1, <2>3, PassOnHolds
  <2> QED BY <1>4, <2>2, <2>4
<1>14. CASE Refuse(r)
  BY <1>5, <1>14 DEF Refuse
<1>15. CASE \E op \in Operations, y \in Attendees \cup Rows \cup {Nobody} : Arrive(r, op, y)
  BY <1>5, <1>15 DEF Arrive
<1>16. CASE UNCHANGED rowVars
  BY <1>5, <1>16
<1> HIDE DEF x, now, enough, IInv
<1> QED
  BY <1>6, <1>7, <1>8, <1>9, <1>10, <1>11, <1>12, <1>13, <1>14, <1>15, <1>16
     DEF RequestStep, enough

(* Nor does anything else, while capacity and start stay as they are.      *)
LEMMA NoIdleStep ==
  ASSUME IInv, LoadedFresh, NoIdleSeat, [Next]_vars, [EventKept]_vars
  PROVE  NoIdleSeat'
<1>1. ASSUME NEW r \in Requests, RequestStep(r)
      PROVE  NoIdleSeat'
  BY <1>1, NoIdleByRequest
<1>2. CASE EventStep \/ Tick \/ UNCHANGED vars
  <2>1. EventKept
    BY DEF EventKept, vars
  <2>2. /\ event.status = "cancelled" => event'.status = "cancelled"
        /\ clock <= clock'
    BY <1>2, EventMoves DEF IInv
  <2>3. status' = status
    BY <1>2, OtherSteps
  <2>4. clock' < event'.startAt => clock < event.startAt
    <3>1. clock \in Nat /\ clock' \in Nat /\ event.startAt \in Nat
      BY TypesStep, EventAssumption DEF IInv, TypeOK
    <3> QED BY <2>1, <2>2, <3>1 DEF EventKept
  <2> QED BY <2>1, <2>2, <2>3, <2>4 DEF NoIdleSeat, Waiting, Held, EventKept
<1> QED BY <1>1, <1>2 DEF Next

(* No seat stays free while somebody waits, from the first registration to *)
(* the start of an event that keeps its capacity and start.                *)
THEOREM NoneIdle == Spec /\ [][EventKept]_vars => []NoIdleSeat
<1> DEFINE JInv == IInv /\ LoadedFresh /\ NoIdleSeat
<1>1. Init => LoadedFresh /\ NoIdleSeat
  BY DEF Init, LoadedFresh, Idle, NoIdleSeat, Waiting
<1>2. JInv /\ IInv' /\ [Next]_vars /\ [EventKept]_vars => JInv'
  BY FreshStep, NoIdleStep DEF IInv
<1>3. JInv => NoIdleSeat
  OBVIOUS
<1> HIDE DEF JInv
<1>4. IInv /\ LoadedFresh /\ NoIdleSeat => JInv
  BY DEF JInv
<1> QED BY <1>1, <1>2, <1>3, <1>4, Inductive, PTL DEF Spec

(* So a newcomer to such an event never takes a seat over the heads of the *)
(* people in line.                                                         *)
THEOREM NoneJumps == Spec /\ [][EventKept]_vars => NoQueueJumping
<1> DEFINE InTurn ==
      clock < event.startAt =>
        \A x \in Rows : status[x] = "none" /\ status'[x] = "confirmed"
                          => Waiting(status) = {}
<1>1. IInv /\ NoIdleSeat /\ [Next]_vars => InTurn
  <2> SUFFICES ASSUME IInv, NoIdleSeat, [Next]_vars, clock < event.startAt,
                      NEW x \in Rows, status[x] = "none", status'[x] = "confirmed"
               PROVE  Waiting(status) = {}
    OBVIOUS
  <2> USE DEF IInv
  <2>1. PICK r \in Requests : RequestStep(r)
    BY OtherSteps DEF Next
  <2>2. ~UNCHANGED rowVars
    BY DEF rowVars
  <2>3. ASSUME NEW s, NEW ev, NEW n, Ends(s), PassOn(s, ev, req[r].now, n)
        PROVE  FALSE
    BY <2>3 DEF PassOn, Ends, Ended, ActiveStatuses
  <2>4. ASSUME NEW y \in Rows, status' = [status EXCEPT ![y] = "waitlisted"]
        PROVE  FALSE
    BY <2>4 DEF TypeOK
  <2>5. ASSUME NEW y \in Rows, status[y] = "offered", status' = [status EXCEPT ![y] = "confirmed"]
        PROVE  FALSE
    BY <2>5 DEF TypeOK
  <2>6. Register(r)
    BY <2>1, <2>2, <2>3, <2>4, <2>5, RowMoves
  <2>7. SeatsRemaining(status, event, req[r].now) = event.capacity - Cardinality(Held(status))
    <3>1. \A y \in Rows : status[y] = "offered" => expires[y] > req[r].now
      BY <2>6 DEF Register, Acting, NothingLapsesUnderWay, LapsedOffers, TypeOK, Request
    <3> QED BY <3>1, SeatsCounted
  <2>8. /\ SeatsRemaining(status, event, req[r].now) > 0 /\ event.status # "cancelled"
        /\ event.capacity \in Nat
    BY <2>6, EventAssumption DEF Register, MayRegister, RegistrationOpen, TypeOK
  <2>9. Cardinality(Held(status)) \in Nat
    <3>1. Held(status) \in SUBSET Rows
      BY DEF Held
    <3> QED BY <3>1, RowsFinite
  <2>10. ~(Cardinality(Held(status)) >= event.capacity)
    BY <2>7, <2>8, <2>9
  <2> QED BY <2>8, <2>10 DEF NoIdleSeat
<1>2. IInv /\ NoIdleSeat /\ [Next]_vars => [InTurn]_vars
  BY <1>1
<1> QED BY <1>2, Inductive, NoneIdle, PTL DEF Spec, NoQueueJumping

(* An event that is only ever given one capacity and one start keeps them. *)
THEOREM OneEventIsKept ==
  ASSUME NEW c, Capacities = {c}, NEW s, Starts = {s}
  PROVE  Spec => [][EventKept]_vars
<1>1. TypeOK /\ TypeOK' /\ [Next]_vars => [EventKept]_vars
  BY DEF TypeOK, EventKept
<1> QED BY <1>1, TypeCorrect, PTL DEF Spec
=============================================================================
