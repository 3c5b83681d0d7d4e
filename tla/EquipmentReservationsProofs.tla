--------------------- MODULE EquipmentReservationsProofs ---------------------
(***************************************************************************)
(* Theorems about EquipmentReservations, for every set of lines, events,   *)
(* types, staff, times and requests.                                       *)
(*                                                                         *)
(* The layers of the argument, in this order:                              *)
(*   Pieces        the units of a set of lines, which more lines raise by  *)
(*                 their quantity at most                                  *)
(*   IInv          the tables (Tables), what each request has locked and   *)
(*                 found by now (Sound), and that no two requests have one *)
(*                 row (Exclusive)                                         *)
(*   locks         a request that arrives, gets a row or goes on is sound  *)
(*   Apart         what a step of another request leaves to a request, and *)
(*                 that it stays sound                                     *)
(*   Writes, Settles   what a commit may do to a line or to an event, and  *)
(*                 that the tables keep what they promise                  *)
(*   theorems      the properties are part of IInv                         *)
(***************************************************************************)
EXTENDS EquipmentReservations, FiniteSetTheorems, TLAPS

-----------------------------------------------------------------------------
(***************************************************************************)
(* Counting units.                                                         *)
(***************************************************************************)

(* The units reserved in f for the lines S, apart.                         *)
Pieces(f, S) == UNION {{l} \X (1..f[l].quantity) : l \in S}

(* So many quantities are reserved at every moment.                        *)
Counted(f) == \A l \in Lines : f[l] # Nothing => f[l].quantity \in Nat
Rows(f) == {l \in Lines : f[l] # Nothing}

(* Finitely many lines have finitely many units.                           *)
LEMMA PiecesFinite ==
  ASSUME NEW f, Counted(f), NEW S \in SUBSET Rows(f)
  PROVE  IsFiniteSet(Pieces(f, S)) /\ Cardinality(Pieces(f, S)) \in Nat
<1>1. IsFiniteSet(S)
  BY LinesAssumption, FS_Subset DEF Rows
<1> DEFINE g == [l \in S |-> {l} \X (1..f[l].quantity)]
           T == {g[l] : l \in S}
<1>2. IsFiniteSet(T)
  <2>1. g \in Surjection(S, T)
    BY DEF Surjection
  <2> QED
    BY <1>1, <2>1, FS_Surjection
<1>3. \A x \in T : IsFiniteSet(x)
  <2> TAKE x \in T
  <2>1. PICK l \in S : x = {l} \X (1..f[l].quantity)
    OBVIOUS
  <2>2. f[l].quantity \in Nat
    BY DEF Counted, Rows
  <2>3. IsFiniteSet({l}) /\ IsFiniteSet(1..f[l].quantity)
    <3>1. \A n \in Nat : IsFiniteSet(1..n)
      BY FS_Interval
    <3> QED
      BY <2>2, <3>1, FS_Singleton
  <2> QED
    BY <2>1, <2>3, FS_Product
<1>4. Pieces(f, S) = UNION T
  BY DEF Pieces
<1>5. IsFiniteSet(Pieces(f, S))
  BY <1>2, <1>3, <1>4, FS_UNION
<1> QED
  BY <1>5, FS_CardinalityType

(* Fewer lines have fewer units.                                           *)
LEMMA PiecesFewer ==
  ASSUME NEW f, NEW g, Counted(f), NEW S \in SUBSET Rows(f), NEW T \in SUBSET S,
         \A l \in T : g[l].quantity = f[l].quantity
  PROVE  Cardinality(Pieces(g, T)) <= Cardinality(Pieces(f, S))
<1>1. IsFiniteSet(Pieces(f, S))
  BY PiecesFinite
<1>2. Pieces(g, T) \subseteq Pieces(f, S)
  BY DEF Pieces
<1> QED
  BY <1>1, <1>2, FS_Subset

(* One more line adds its quantity at most.                                *)
LEMMA PiecesAdd ==
  ASSUME NEW f, Counted(f), NEW l \in Rows(f), NEW S \in SUBSET Rows(f)
  PROVE  Cardinality(Pieces(f, S \cup {l})) <= Cardinality(Pieces(f, S)) + f[l].quantity
<1> DEFINE q == f[l].quantity
           N == {l} \X (1..q)
<1>1. q \in Nat
  BY DEF Counted, Rows
<1> HIDE DEF q
<1>2. /\ IsFiniteSet({l}) /\ Cardinality({l}) = 1
      /\ IsFiniteSet(1..q) /\ Cardinality(1..q) = q
  <2>1. \A n \in Nat : IsFiniteSet(1..n) /\ Cardinality(1..n) = n
    BY FS_Interval
  <2> QED
    BY <1>1, <2>1, FS_Singleton
<1>3. IsFiniteSet(N) /\ Cardinality(N) = q
  <2>1. IsFiniteSet(N) /\ Cardinality(N) = 1 * q
    BY <1>2, FS_Product
  <2> QED
    BY <1>1, <2>1
<1>4. Pieces(f, S \cup {l}) = Pieces(f, S) \cup N
  BY DEF Pieces, q
<1>5. IsFiniteSet(Pieces(f, S)) /\ Cardinality(Pieces(f, S)) \in Nat
  BY PiecesFinite
<1> HIDE DEF N
<1>6. /\ Cardinality(Pieces(f, S) \cup N) =
           Cardinality(Pieces(f, S)) + Cardinality(N) - Cardinality(Pieces(f, S) \cap N)
      /\ Cardinality(Pieces(f, S) \cap N) \in Nat
  BY <1>3, <1>5, FS_Union, FS_Intersection, FS_CardinalityType
<1>7. Cardinality(Pieces(f, S \cup {l})) <= Cardinality(Pieces(f, S)) + q
  <2> DEFINE P == Pieces(f, S)
  <2> HIDE DEF P
  <2>1. \A a, b, c \in Nat : a + b - c <= a + b
    OBVIOUS
  <2>2. Cardinality(P) + Cardinality(N) - Cardinality(P \cap N) <= Cardinality(P) + Cardinality(N)
    BY <1>1, <1>3, <1>5, <1>6, <2>1 DEF P
  <2> QED
    BY <1>3, <1>4, <1>6, <2>2 DEF P
<1> QED
  BY <1>7 DEF q

-----------------------------------------------------------------------------
(***************************************************************************)
(* The inductive invariant: the tables.                                    *)
(***************************************************************************)

LineRowOf(l) == <<"line", l>>
EventRowOf(e) == <<"event", e>>
TypeRowOf(y) == <<"type", y>>
UserRowOf(s) == <<"user", s>>

(* A line that was made asks for something, for an event.                  *)
LinesMade ==
  \A l \in Lines : line[l].status \notin {"none", "removed"} =>
    line[l].event \in Events /\ line[l].type \in Types /\ line[l].quantity \in Quantities

(* No event asks for a type twice.                                         *)
OneLive ==
  \A l, m \in Lines :
    /\ l # m /\ line[l].status \in Live /\ line[m].status \in Live
    /\ line[l].event = line[m].event
    => line[l].type # line[m].type

(* The lines whose reservations take from the stock of a type at an        *)
(* instant.                                                                *)
CountsAt(y, t) ==
  {l \in Reserved : /\ ~reserved[l].flagged /\ reserved[l].type = y
                    /\ event[line[l].event].at.from <= t /\ t < event[line[l].event].at.to}

-----------------------------------------------------------------------------
(***************************************************************************)
(* The inductive invariant: the requests.                                  *)
(***************************************************************************)

Wish(op) ==
  CASE op \in {"create", "edit"} -> Asks
    [] op = "review" -> {"approved", "rejected"}
    [] op \in {"assign", "unassign"} -> SUBSET Staff
    [] op = "change_dates" -> Spans
    [] OTHER -> {Nothing}

OfLine == {"edit", "remove", "check", "review", "reserve"}  \* those that lock a line

(* The shape of a transaction.                                             *)
IsTransaction(q) ==
  q \in [op : Operations \cup {"none"}, line : Lines \cup {Nothing}, event : Events \cup {Nothing},
         want : {q.want}, step : Nat, todo : {q.todo}, has : {q.has}, shares : {q.shares}, short : Nat]

(* What a request is about.                                                *)
Aims(q) ==
  /\ q.op \in Operations /\ q.want \in Wish(q.op) /\ q.step \in 1..Len(Plan[q.op])
  /\ q.event \in Events
  /\ q.op \in AboutLine \cup {"create"} => q.line \in Lines
  /\ q.op = "create" => line[q.line].status = "none"
  /\ q.op \in OfLine => line[q.line].status \notin {"none", "removed"} /\ line[q.line].event = q.event

(* The rows it has, alone or not, and those of its s-th statement that it  *)
(* still waits for.                                                        *)
Held(q) == q.has \cup q.shares
Awaited(q, s) == IF q.step = s THEN q.todo ELSE {}

(* The rows it has taken by now.                                           *)
Taken(q) ==
  /\ q.op \in OfLine => LineRowOf(q.line) \in q.has
  /\ q.op \in {"change_dates", "confirm", "prepare", "cancel"} => EventRowOf(q.event) \in q.has
  /\ q.op \in {"create", "assign", "unassign"} => EventRowOf(q.event) \in Held(q)
  /\ q.op \in {"review", "reserve"} /\ q.step >= 2 => EventRowOf(q.event) \in Held(q) \cup Awaited(q, 2)
  /\ q.op = "reserve" /\ q.step >= 3 => TypeRowOf(line[q.line].type) \in q.has \cup Awaited(q, 3)
  /\ q.op = "assign" /\ q.step >= 2 => \A s \in q.want : UserRowOf(s) \in q.has \cup Awaited(q, 2)

(* The reservations that a new one of a line must leave room for.          *)
Rivals(q) ==
  {l \in Reserved : /\ ~reserved[l].flagged /\ reserved[l].type = line[q.line].type
                    /\ line[l].event # q.event /\ Overlap(event[line[l].event].at, event[q.event].at)}

Room(q) == Cardinality(Pieces(reserved, Rivals(q))) + line[q.line].quantity <= Stock[line[q.line].type]

(* Those it is about to assign are not elsewhere at the time.              *)
Spare(q) ==
  \A s \in q.want, f \in Events \ {q.event} :
    <<f, s>> \in assigned /\ event[f].status # "cancelled" /\ ~event[f].moved =>
      ~Overlap(event[f].at, event[q.event].at)

Arranged(e) ==
  /\ \A l \in LiveLines(e) : line[l].status = "approved"
  /\ LiveLines(e) # {} => \E s \in Staff : <<e, s>> \in assigned

(* A shortage that a line may have.                                        *)
Plausible(l, short) == short <= line[l].quantity /\ line[l].quantity - Stock[line[l].type] <= short

(* What it found of the rows it has, and what stays so until it ends.      *)
Judged(q) ==
  /\ q.op \in {"edit", "remove"} => line[q.line].status = "pending"
  /\ q.op = "check" /\ q.step = 2 => Plausible(q.line, q.short)
  /\ q.op = "reserve" => line[q.line].status = "approved"
  /\ q.op = "reserve" /\ q.step >= 3 => event[q.event].status \in Eligible /\ reserved[q.line] = Nothing
  /\ q.op = "reserve" /\ q.step = 4 => Room(q)
  /\ q.op = "assign" /\ q.step = 3 => Spare(q)
  /\ q.op = "confirm" => event[q.event].status = "planning"
  /\ q.op = "confirm" /\ q.step = 3 => Arranged(q.event)

Sound(q) == IsTransaction(q) /\ Aims(q) /\ Taken(q) /\ Judged(q)

RequestsSound == DOMAIN req = Requests /\ \A r \in Requests : req[r] = Idle \/ Sound(req[r])

(* A row that one request has, no other has or shares.                     *)
Exclusive == \A p, r \in Requests : p # r => req[p].has \cap Held(req[r]) = {}

(* No two requests are about to insert one line.                           *)
Distinct ==
  \A p, r \in Requests : p # r /\ req[p].op = "create" /\ req[r].op = "create" =>
    req[p].line # req[r].line

RowsTyped ==
  /\ line \in [Lines -> LineRow] /\ reserved \in [Lines -> Reservation \cup {Nothing}]
  /\ event \in [Events -> EventRow] /\ assigned \subseteq Events \X Staff

(* The tables, and what the properties say of them.                        *)
Tables == /\ RowsTyped /\ LinesMade /\ OneLive /\ ReservationsStand
          /\ StockSuffices /\ ChecksStillApply /\ NoAssignmentOverlaps

IInv == Tables /\ RequestsSound /\ Exclusive /\ Distinct

-----------------------------------------------------------------------------
(***************************************************************************)
(* Plans.                                                                  *)
(***************************************************************************)

(* The operations, how many statements each has and what these lock.       *)
LEMMA PlansOf ==
  /\ Operations = {"create", "edit", "remove", "check", "review", "reserve", "release", "assign",
                   "unassign", "change_dates", "confirm", "prepare", "cancel"}
  /\ Len(Plan["create"]) = 2 /\ Plan["create"][1] = "event shared" /\ Plan["create"][2] = "write"
  /\ Len(Plan["edit"]) = 2 /\ Plan["edit"][1] = "line" /\ Plan["edit"][2] = "write"
  /\ Len(Plan["remove"]) = 1 /\ Plan["remove"][1] = "line"
  /\ Len(Plan["check"]) = 2 /\ Plan["check"][1] = "line" /\ Plan["check"][2] = "write"
  /\ Len(Plan["review"]) = 2 /\ Plan["review"][1] = "line" /\ Plan["review"][2] = "event shared"
  /\ Len(Plan["reserve"]) = 4 /\ Plan["reserve"][1] = "line" /\ Plan["reserve"][2] = "event shared" /\ Plan["reserve"][3] = "type"
  /\ Plan["reserve"][4] = "write"
  /\ Len(Plan["release"]) = 1 /\ Plan["release"][1] = "reservation"
  /\ Len(Plan["assign"]) = 3 /\ Plan["assign"][1] = "event shared" /\ Plan["assign"][2] = "staff" /\ Plan["assign"][3] = "write"
  /\ Len(Plan["unassign"]) = 2 /\ Plan["unassign"][1] = "event shared" /\ Plan["unassign"][2] = "assignment"
  /\ Len(Plan["change_dates"]) = 1 /\ Plan["change_dates"][1] = "event"
  /\ Len(Plan["confirm"]) = 3 /\ Plan["confirm"][1] = "event" /\ Plan["confirm"][2] = "lines" /\ Plan["confirm"][3] = "write"
  /\ Len(Plan["prepare"]) = 1 /\ Plan["prepare"][1] = "event"
  /\ Len(Plan["cancel"]) = 2 /\ Plan["cancel"][1] = "event" /\ Plan["cancel"][2] = "reservations"
BY DEF Plan, Operations

(* An operation has one to four statements.                                *)
LEMMA PlansLength == \A op \in Operations : 1 \in 1..Len(Plan[op]) /\ Len(Plan[op]) \in 1..4
<1> TAKE op \in Operations
<1>1. \E k \in {1, 2, 3, 4} : Len(Plan[op]) = k
  BY PlansOf, Zenon
<1> QED
  BY <1>1

-----------------------------------------------------------------------------
(***************************************************************************)
(* Taking locks.                                                           *)
(***************************************************************************)

(* The rows each statement asks for.                                       *)
LEMMA RowsFound ==
  ASSUME NEW q
  PROVE  /\ Found(q, "event") = {EventRowOf(q.event)} /\ Found(q, "event shared") = {EventRowOf(q.event)}
         /\ line[q.line].status # "removed" => Found(q, "line") = {LineRowOf(q.line)}
         /\ Found(q, "type") = {TypeRowOf(line[q.line].type)}
         /\ Found(q, "staff") = {UserRowOf(s) : s \in q.want}
BY DEF Found, EventRowOf, LineRowOf, TypeRowOf, UserRowOf

(* Whatever n has that q has not, no other request has.                    *)
Free(r, q, n) ==
  \A p \in Requests \ {r} : /\ \A x \in n.has \ q.has : x \notin Held(req[p])
                            /\ \A x \in n.shares \ q.shares : x \notin req[p].has

(* The two are about the same.                                             *)
SameAim(q, n) == n.op = q.op /\ n.line = q.line /\ n.event = q.event /\ n.want = q.want /\ n.short = q.short

(* n is q with the rows S, which q waited for and nobody else has.         *)
Takes(r, q, S, n) ==
  /\ IsTransaction(n) /\ SameAim(q, n) /\ n.step = q.step /\ Free(r, q, n)
  /\ n.todo = q.todo \ S
  /\ q.has \subseteq n.has /\ q.shares \subseteq n.shares
  /\ S \subseteq Held(n) /\ (~Shared(q) => S \subseteq n.has)

(* Rows that nobody keeps are taken.                                       *)
LEMMA HoldingTakes ==
  ASSUME NEW r, NEW q, IsTransaction(q), NEW S, \A x \in S : ~Kept(r, x, q)
  PROVE  Takes(r, q, S, Holding(q, S))
<1> PICK n : n = Holding(q, S)
  OBVIOUS
<1>1. IsTransaction(n) /\ SameAim(q, n) /\ n.step = q.step /\ n.todo = q.todo \ S
  BY DEF IsTransaction, Holding, SameAim
<1>2. /\ n.has = (IF Shared(q) THEN q.has ELSE q.has \cup S)
      /\ n.shares = (IF Shared(q) THEN q.shares \cup S ELSE q.shares)
  BY DEF IsTransaction, Holding
<1>3. Free(r, q, n)
  BY <1>2 DEF Free, Kept, Keeps, Held
<1> QED
  BY <1>1, <1>2, <1>3 DEF Held, Takes

(* n is q at its s-th statement, whose rows it has or waits for.           *)
Advances(r, q, s, n) ==
  /\ IsTransaction(n) /\ SameAim(q, n) /\ n.step = s /\ Free(r, q, n)
  /\ n.todo \subseteq Found(q, Plan[q.op][s])
  /\ q.has \subseteq n.has /\ q.shares \subseteq n.shares
  /\ Found(q, Plan[q.op][s]) \subseteq Held(n) \cup n.todo
  /\ Plan[q.op][s] # "event shared" => Found(q, Plan[q.op][s]) \subseteq n.has \cup n.todo

(* A statement takes all its rows or none.                                 *)
LEMMA AtAdvances ==
  ASSUME NEW r, NEW q, IsTransaction(q), NEW s \in Nat
  PROVE  Advances(r, q, s, At(r, q, s))
<1> PICK n, F : n = At(r, q, s) /\ F = Found(q, Plan[q.op][s])
  OBVIOUS
<1> PICK m : m = [q EXCEPT !.step = s, !.todo = F \ q.has]
  OBVIOUS
<1>1. IsTransaction(m) /\ SameAim(q, m) /\ m.step = s /\ m.todo = F \ q.has /\ m.has = q.has /\ m.shares = q.shares
  BY DEF IsTransaction, SameAim
<1>2. n = (IF \E x \in m.todo : Kept(r, x, m) THEN m ELSE Holding(m, m.todo))
  BY DEF At
<1>3. CASE \E x \in m.todo : Kept(r, x, m)
  BY <1>1, <1>2, <1>3 DEF Free, Held, Advances
<1>4. CASE ~(\E x \in m.todo : Kept(r, x, m))
  <2> PICK S : S = m.todo
    OBVIOUS
  <2>1. IsTransaction(m) /\ n = Holding(m, S) /\ \A x \in S : ~Kept(r, x, m)
    BY <1>1, <1>2, <1>4
  <2>2. Takes(r, m, S, n)
    BY <2>1, HoldingTakes
  <2>3. Shared(m) <=> Plan[q.op][s] = "event shared"
    BY <1>1 DEF Shared, Statement, SameAim
  <2>4. Free(r, q, n) /\ SameAim(q, n)
    BY <1>1, <2>2 DEF Free, SameAim, Takes
  <2> QED
    BY <1>1, <2>2, <2>3, <2>4 DEF Held, Takes, Advances
<1> QED
  BY <1>3, <1>4

(* Requests that take only what is free leave no row with two of them.     *)
LEMMA StaysExclusive ==
  ASSUME Exclusive, DOMAIN req = Requests, NEW r \in Requests, NEW n, req' = [req EXCEPT ![r] = n],
         Free(r, req[r], n)
  PROVE  Exclusive'
<1> SUFFICES ASSUME NEW p \in Requests, NEW u \in Requests, p # u, NEW x, x \in req'[p].has, x \in Held(req[u])'
             PROVE  FALSE
  BY DEF Exclusive
<1>1. req'[r] = n /\ \A v \in Requests \ {r} : req'[v] = req[v]
  OBVIOUS
<1>2. x \in req'[u].has \cup req'[u].shares
  BY DEF Held
<1>3. \A v, w \in Requests : v # w => x \notin req[v].has \/ x \notin req[w].has \cup req[w].shares
  BY DEF Exclusive, Held
<1>4. \A v \in Requests \ {r} : /\ x \in n.has \ req[r].has => x \notin req[v].has \cup req[v].shares
                                /\ x \in n.shares \ req[r].shares => x \notin req[v].has
  BY DEF Free, Held
<1> QED
  BY <1>1, <1>2, <1>3, <1>4

-----------------------------------------------------------------------------
(***************************************************************************)
(* A request stays sound as it goes on.                                    *)
(***************************************************************************)

(* What each operation insists on.                                         *)
LEMMA PassesIs ==
  ASSUME NEW q, Passes(q)
  PROVE  /\ q.op = "create" => MayCreate(q)
         /\ q.op = "edit" => MayEdit(q)
         /\ q.op = "remove" => MayRemove(q)
         /\ q.op = "check" => MayCheck(q)
         /\ q.op = "review" => MayReview(q)
         /\ q.op = "reserve" => MayReserve(q)
         /\ q.op = "release" => MayRelease(q)
         /\ q.op = "assign" => MayAssign(q)
         /\ q.op = "unassign" => MayUnassign(q)
         /\ q.op = "change_dates" => MayChangeDates(q)
         /\ q.op = "confirm" => MayConfirm(q)
         /\ q.op = "prepare" => MayPrepare(q)
         /\ q.op = "cancel" => MayCancel(q)
BY DEF Passes

(* A request under way is sound.                                           *)
LEMMA UnderWay ==
  ASSUME RequestsSound, NEW r \in Requests, req[r].op # "none"
  PROVE  Sound(req[r])
BY DEF RequestsSound, Idle

(* What a request may be about when it arrives.                            *)
Arrived(op, q) ==
  /\ IsTransaction(q) /\ q.op = op /\ q.want \in Wish(op) /\ q.event \in Events /\ q.has = {} /\ q.shares = {}
  /\ op \in AboutLine \cup {"create"} => q.line \in Lines
  /\ op = "create" => line[q.line].status = "none" /\ q.line \notin Promised
  /\ op \in OfLine => line[q.line].status \notin {"none", "removed"} /\ line[q.line].event = q.event

(* It is about what there is.                                              *)
LEMMA Arrives ==
  ASSUME IInv, NEW op \in Operations, NEW s \in Subjects(op), NEW w \in Wants(op)
  PROVE  Arrived(op, [Idle EXCEPT !.op = op, !.line = s[1], !.event = s[2], !.want = w])
<1>0. PICK q : q = [Idle EXCEPT !.op = op, !.line = s[1], !.event = s[2], !.want = w]
  OBVIOUS
<1> SUFFICES Arrived(op, q)
  BY <1>0
<1>1. s[1] \in Lines \cup {Nothing} /\ s[2] \in Events
  <2>1. CASE op = "create"
    BY <2>1 DEF Subjects, AboutLine
  <2>2. CASE op \in AboutLine
    <3>1. PICK l \in Lines : line[l].status \in Live \cup {"rejected"} /\ s = <<l, line[l].event>>
      BY <2>2 DEF Subjects, AboutLine
    <3>2. line[l].event \in Events
      BY <3>1 DEF IInv, Tables, LinesMade, Live
    <3> QED
      BY <3>1, <3>2
  <2>3. CASE op \notin AboutLine \cup {"create"}
    BY <2>3 DEF Subjects
  <2> QED
    BY <2>1, <2>2, <2>3
<1>2. q = [op |-> op, line |-> s[1], event |-> s[2], want |-> w, step |-> 0, todo |-> {}, has |-> {},
           shares |-> {}, short |-> 0]
  BY <1>0 DEF Idle
<1>3. /\ q.op = op /\ q.event = s[2] /\ q.has = {} /\ q.shares = {} /\ q.line = s[1] /\ q.want = w
      /\ q.event \in Events
  BY <1>1, <1>2
<1>9. IsTransaction(q)
  BY <1>1, <1>2 DEF IsTransaction
<1>4. w \in Wish(op)
  BY DEF Wants, Wish
<1>5. CASE op = "create"
  <2>1. s \in {l \in Lines \ Promised : line[l].status = "none"} \X Events
    BY <1>5 DEF Subjects, AboutLine
  <2>2. s[1] \in Lines \ Promised /\ line[s[1]].status = "none"
    BY <2>1
  <2>3. q.line \in Lines /\ line[q.line].status = "none" /\ q.line \notin Promised
    BY <1>3, <2>2
  <2>4. op \notin OfLine
    BY <1>5 DEF OfLine
  <2> QED
    BY <1>3, <1>4, <1>9, <2>3, <2>4 DEF Arrived
<1>6. CASE op \in AboutLine
  <2>1. PICK l \in Lines : line[l].status \in Live \cup {"rejected"} /\ s = <<l, line[l].event>>
    BY <1>6 DEF Subjects, AboutLine
  <2>2. s[1] = l /\ s[2] = line[l].event
    BY <2>1
  <2>3. q.line = l /\ q.event = line[l].event /\ q.line \in Lines
    BY <1>3, <2>1, <2>2
  <2>4. line[l].status \notin {"none", "removed"}
    BY <2>1 DEF Live
  <2>5. op # "create"
    BY <1>6 DEF AboutLine
  <2> QED
    BY <1>3, <1>4, <1>9, <2>3, <2>4, <2>5 DEF Arrived
<1>7. CASE op \notin AboutLine \cup {"create"}
  <2>1. op \notin OfLine /\ op # "create"
    BY <1>7 DEF OfLine, AboutLine
  <2> QED
    BY <1>3, <1>4, <1>7, <1>9, <2>1 DEF Arrived
<1> QED
  BY <1>5, <1>6, <1>7

(* A request that arrives is sound.                                        *)
LEMMA BeginsSound ==
  ASSUME IInv, NEW r \in Requests, NEW op \in Offered, Begin(r, op)
  PROVE  \E n : /\ req' = [req EXCEPT ![r] = n] /\ Sound(n) /\ Free(r, req[r], n) /\ n.op = op
                /\ op = "create" => n.line \notin Promised
<1>1. op \in Operations
  BY OfferedAssumption
<1>2. PICK s \in Subjects(op), w \in Wants(op) :
        LET q == At(r, [Idle EXCEPT !.op = op, !.line = s[1], !.event = s[2], !.want = w], 1)
        IN q.todo = {} /\ Passes(q) /\ req' = [req EXCEPT ![r] = q]
  BY DEF Begin
<1>3. PICK q : q = [Idle EXCEPT !.op = op, !.line = s[1], !.event = s[2], !.want = w]
  OBVIOUS
<1>4. PICK n : n = At(r, q, 1)
  OBVIOUS
<1>5. n.todo = {} /\ Passes(n) /\ req' = [req EXCEPT ![r] = n]
  BY <1>2, <1>3, <1>4
<1>6. Arrived(op, q)
  BY <1>1, <1>2, <1>3, Arrives
<1>7. Advances(r, q, 1, n)
  BY <1>4, <1>6, AtAdvances DEF Arrived
<1>8. /\ IsTransaction(n) /\ n.op = op /\ n.line = q.line /\ n.event = q.event /\ n.want = q.want /\ n.step = 1
      /\ Free(r, q, n)
      /\ Found(q, Plan[op][1]) \subseteq Held(n)
      /\ Plan[op][1] # "event shared" => Found(q, Plan[op][1]) \subseteq n.has
  BY <1>5, <1>6, <1>7 DEF Advances, SameAim, Arrived
<1>9. Free(r, req[r], n)
  <2>1. req[r].has = {} /\ req[r].shares = {}
    BY DEF Begin, Idle
  <2> QED
    BY <1>6, <1>8, <2>1 DEF Free, Arrived
<1>10. Aims(n)
  <2>1. 1 \in 1..Len(Plan[op])
    BY <1>1, PlansLength
  <2> QED
    BY <1>1, <1>6, <1>8, <2>1 DEF Aims, Arrived
<1>11. Taken(n)
  <2>1. op \in OfLine => LineRowOf(n.line) \in n.has
    BY <1>6, <1>8, PlansOf, RowsFound DEF OfLine, Arrived
  <2>2. op \in {"change_dates", "confirm", "prepare", "cancel"} => EventRowOf(n.event) \in n.has
    BY <1>8, PlansOf, RowsFound
  <2>3. op \in {"create", "assign", "unassign"} => EventRowOf(n.event) \in Held(n)
    BY <1>8, PlansOf, RowsFound
  <2>4. ~(n.step >= 2) /\ ~(n.step >= 3)
    <3>1. n.step = 1
      BY <1>8
    <3> QED
      BY <3>1
  <2> QED
    BY <1>8, <2>1, <2>2, <2>3, <2>4 DEF Taken
<1>12. Judged(n)
  <2>1. op \in {"edit", "remove"} => line[n.line].status = "pending"
    BY <1>5, <1>8, PassesIs DEF MayEdit, MayRemove, LineStatus
  <2>2. op = "reserve" => line[n.line].status = "approved"
    BY <1>5, <1>8, PassesIs DEF MayReserve, LineStatus
  <2>3. op = "confirm" => event[n.event].status = "planning"
    BY <1>5, <1>8, PassesIs DEF MayConfirm, EventStatus
  <2>4. ~(n.step >= 3) /\ n.step # 2 /\ n.step # 3 /\ n.step # 4
    <3>1. n.step = 1
      BY <1>8
    <3> QED
      BY <3>1
  <2> QED
    BY <1>8, <2>1, <2>2, <2>3, <2>4 DEF Judged
<1> QED
  BY <1>5, <1>6, <1>8, <1>9, <1>10, <1>11, <1>12 DEF Sound, Arrived

(* What is judged depends on the aim and the statement only.               *)
LEMMA JudgedAlike ==
  ASSUME NEW q, NEW n, SameAim(q, n), n.step = q.step, Judged(q)
  PROVE  Judged(n)
BY DEF SameAim, Judged, Plausible, Room, Rivals, Spare

(* A request that gets a row it waited for is sound.                       *)
LEMMA LocksSound ==
  ASSUME IInv, NEW r \in Requests, Lock(r)
  PROVE  \E n : /\ req' = [req EXCEPT ![r] = n] /\ Sound(n) /\ Free(r, req[r], n) /\ n.op = req[r].op
                /\ n.line = req[r].line
<1>1. PICK q : q = req[r]
  OBVIOUS
<1>2. PICK x \in NextRows(q) : ~Kept(r, x, q) /\ req' = [req EXCEPT ![r] = Holding(q, {x})]
  BY <1>1 DEF Lock
<1>3. PICK n : n = Holding(q, {x})
  OBVIOUS
<1>4. x \in q.todo
  BY <1>2 DEF NextRows
<1>5. Sound(q)
  <2>1. q # Idle
    BY <1>4 DEF Idle
  <2> QED
    BY <1>1, <2>1 DEF IInv, RequestsSound
<1>6. Takes(r, q, {x}, n)
  BY <1>2, <1>3, <1>5, HoldingTakes DEF Sound
<1>7. /\ n.op = q.op /\ n.line = q.line /\ n.event = q.event /\ n.want = q.want /\ n.step = q.step
      /\ q.has \subseteq n.has /\ Held(q) \subseteq Held(n) /\ x \in Held(n) /\ n.todo = q.todo \ {x}
      /\ Statement(q) # "event shared" => x \in n.has
  BY <1>6 DEF Takes, SameAim, Held, Shared
<1>8. Aims(n)
  BY <1>5, <1>7 DEF Sound, Aims
<1>9. Taken(n)
  <2>1. Taken(q)
    BY <1>5 DEF Sound
  <2>2. \A s : Held(q) \cup Awaited(q, s) \subseteq Held(n) \cup Awaited(n, s)
    BY <1>7 DEF Awaited
  <2>3. \A s : q.step = s /\ Plan[q.op][s] # "event shared" =>
          q.has \cup Awaited(q, s) \subseteq n.has \cup Awaited(n, s)
    <3> SUFFICES ASSUME NEW s, q.step = s, Plan[q.op][s] # "event shared"
                 PROVE  q.has \cup Awaited(q, s) \subseteq n.has \cup Awaited(n, s)
      OBVIOUS
    <3>1. x \in n.has
      BY <1>7 DEF Statement
    <3> QED
      BY <1>7, <3>1 DEF Awaited
  <2>4. \A s : q.step # s => q.has \cup Awaited(q, s) \subseteq n.has \cup Awaited(n, s)
    BY <1>7 DEF Awaited
  <2>5. /\ q.op = "reserve" => q.has \cup Awaited(q, 3) \subseteq n.has \cup Awaited(n, 3)
        /\ q.op = "assign" => q.has \cup Awaited(q, 2) \subseteq n.has \cup Awaited(n, 2)
    BY <2>3, <2>4, PlansOf
  <2>6. n.op = "reserve" /\ n.step >= 3 => TypeRowOf(line[n.line].type) \in n.has \cup Awaited(n, 3)
    BY <1>7, <2>1, <2>5 DEF Taken
  <2>7. n.op = "assign" /\ n.step >= 2 => \A s \in n.want : UserRowOf(s) \in n.has \cup Awaited(n, 2)
    BY <1>7, <2>1, <2>5 DEF Taken
  <2>8. n.op \in {"review", "reserve"} /\ n.step >= 2 => EventRowOf(n.event) \in Held(n) \cup Awaited(n, 2)
    BY <1>7, <2>1, <2>2 DEF Taken
  <2> QED
    BY <1>7, <2>1, <2>6, <2>7, <2>8 DEF Taken
<1>10. Judged(n)
  BY <1>5, <1>6, JudgedAlike DEF Sound, Takes
<1> QED
  BY <1>1, <1>2, <1>3, <1>6, <1>7, <1>8, <1>9, <1>10 DEF Sound, Takes

(* What is available is no more than there is.                             *)
LEMMA AvailableBounds ==
  ASSUME RowsTyped, NEW e, NEW y \in Types
  PROVE  /\ Units(CountedElsewhere(e, y)) \in Nat /\ Available(e, y) \in Nat /\ Available(e, y) <= Stock[y]
         /\ \A n \in Nat \ {0} : Available(e, y) >= n => Units(CountedElsewhere(e, y)) + n <= Stock[y]
<1> PICK S : S = CountedElsewhere(e, y)
  OBVIOUS
<1>1. Counted(reserved)
  BY QuantitiesAssumption DEF RowsTyped, Reservation, Counted
<1>2. S \subseteq Rows(reserved)
  BY DEF CountedElsewhere, Rows
<1>3. Units(S) \in Nat
  BY <1>1, <1>2, PiecesFinite DEF Units, Pieces
<1>4. Stock[y] \in Nat
  BY QuantitiesAssumption
<1>5. \A a, b \in Nat : /\ AtLeastZero(a - b) \in Nat /\ AtLeastZero(a - b) <= a
                        /\ \A n \in Nat \ {0} : AtLeastZero(a - b) >= n => b + n <= a
  BY DEF AtLeastZero
<1>6. Available(e, y) = AtLeastZero(Stock[y] - Units(S))
  BY DEF Available
<1> QED
  BY <1>3, <1>4, <1>5, <1>6

(* The stock available for a line's event leaves room for the line.        *)
LEMMA AvailableLeavesRoom ==
  ASSUME RowsTyped, ReservationsStand, NEW q, line[q.line].type \in Types, line[q.line].quantity \in Quantities,
         Available(q.event, line[q.line].type) >= line[q.line].quantity
  PROVE  Room(q)
<1> PICK y : y = line[q.line].type
  OBVIOUS
<1> PICK S : S = CountedElsewhere(q.event, y)
  OBVIOUS
<1>1. Counted(reserved)
  BY QuantitiesAssumption DEF RowsTyped, Reservation, Counted
<1>2. S \subseteq Rows(reserved)
  BY DEF CountedElsewhere, Rows
<1>3. Rivals(q) \subseteq S
  BY DEF Rivals, CountedElsewhere, Reserved, ReservationsStand
<1>4. Cardinality(Pieces(reserved, Rivals(q))) <= Cardinality(Pieces(reserved, S))
  BY <1>1, <1>2, <1>3, PiecesFewer
<1>5. /\ Cardinality(Pieces(reserved, Rivals(q))) \in Nat /\ Cardinality(Pieces(reserved, S)) \in Nat
  BY <1>1, <1>2, <1>3, PiecesFinite
<1>6. Units(S) + line[q.line].quantity <= Stock[y]
  BY AvailableBounds, QuantitiesAssumption
<1>7. Units(S) = Cardinality(Pieces(reserved, S))
  BY DEF Units, Pieces
<1>8. line[q.line].quantity \in Nat /\ Stock[y] \in Nat
  BY QuantitiesAssumption
<1>9. \A a, b, c, d \in Nat : a <= b /\ b + c <= d => a + c <= d
  OBVIOUS
<1> QED
  BY <1>4, <1>5, <1>6, <1>7, <1>8, <1>9 DEF Room

(* A request that goes on to its next statement is sound.                  *)
LEMMA ProceedsSound ==
  ASSUME IInv, NEW r \in Requests, Proceed(r)
  PROVE  \E n : /\ req' = [req EXCEPT ![r] = n] /\ Sound(n) /\ Free(r, req[r], n) /\ n.op = req[r].op
                /\ n.line = req[r].line
<1>1. PICK q : q = req[r]
  OBVIOUS
<1> DEFINE shortage == AtLeastZero(line[q.line].quantity - Available(q.event, line[q.line].type))
<1>2. PICK h : h = IF q.op = "check" THEN shortage ELSE 0
  OBVIOUS
<1>3. PICK p : p = [q EXCEPT !.short = h]
  OBVIOUS
<1>4. PICK n : n = At(r, p, q.step + 1)
  OBVIOUS
<1>5. q.op # "none" /\ q.todo = {} /\ ~Last(q) /\ Passes(q) /\ req' = [req EXCEPT ![r] = n]
  BY <1>1, <1>2, <1>3, <1>4 DEF Proceed, Locked
<1>6. Sound(q)
  BY <1>1, <1>5, UnderWay DEF IInv
<1>7. RowsTyped /\ ReservationsStand /\ LinesMade
  BY DEF IInv, Tables
<1>8. q.op = "check" => shortage \in Nat /\ Plausible(q.line, shortage)
  <2> SUFFICES ASSUME q.op = "check" PROVE shortage \in Nat /\ Plausible(q.line, shortage)
    OBVIOUS
  <2>1. q.line \in Lines /\ line[q.line].status \notin {"none", "removed"}
    BY <1>6 DEF Sound, Aims, OfLine, AboutLine
  <2>2. PICK y : y = line[q.line].type
    OBVIOUS
  <2>3. PICK k : k = line[q.line].quantity
    OBVIOUS
  <2>4. y \in Types /\ k \in Nat
    BY <1>7, <2>1, <2>2, <2>3, QuantitiesAssumption DEF LinesMade
  <2>5. PICK a : a = Available(q.event, y)
    OBVIOUS
  <2>6. a \in Nat /\ a <= Stock[y] /\ Stock[y] \in Nat
    BY <1>7, <2>4, <2>5, AvailableBounds, QuantitiesAssumption
  <2>7. shortage = AtLeastZero(k - a)
    BY <2>2, <2>3, <2>5
  <2> HIDE DEF shortage
  <2>8. shortage \in Nat /\ shortage <= k /\ k - Stock[y] <= shortage
    BY <2>4, <2>6, <2>7 DEF AtLeastZero
  <2> QED
    BY <2>2, <2>3, <2>8 DEF Plausible
<1> HIDE DEF shortage
<1>9. /\ IsTransaction(p) /\ p.op = q.op /\ p.line = q.line /\ p.event = q.event /\ p.want = q.want /\ p.short = h
      /\ p.has = q.has /\ p.shares = q.shares
  <2>1. h \in Nat
    BY <1>2, <1>8
  <2> QED
    BY <1>3, <1>6, <2>1 DEF Sound, IsTransaction
<1>10. q.step \in 1..Len(Plan[q.op]) /\ q.step # Len(Plan[q.op]) /\ q.op \in Operations /\ Len(Plan[q.op]) \in 1..4
  BY <1>5, <1>6, PlansLength DEF Sound, Aims, Last
<1>11. PICK s : s = q.step + 1
  OBVIOUS
<1>12. s \in 1..Len(Plan[q.op]) /\ s \in 2..4 /\ q.step = s - 1 /\ q.step \in 1..3
  <2>1. PICK k, m : k = Len(Plan[q.op]) /\ m = q.step
    OBVIOUS
  <2>2. k \in 1..4 /\ m \in 1..k /\ m # k /\ s = m + 1
    BY <1>10, <1>11, <2>1
  <2>3. s \in 1..k /\ s \in 2..4 /\ m = s - 1 /\ m \in 1..3
    BY <2>2
  <2> QED
    BY <2>1, <2>3
<1>13. Advances(r, p, s, n)
  BY <1>4, <1>9, <1>11, <1>12, AtAdvances
<1>14. PICK F : F = Found(p, Plan[q.op][s])
  OBVIOUS
<1>15. /\ IsTransaction(n) /\ n.op = q.op /\ n.line = q.line /\ n.event = q.event /\ n.want = q.want
       /\ n.short = h /\ n.step = s /\ Free(r, p, n)
       /\ q.has \subseteq n.has /\ Held(q) \subseteq Held(n)
       /\ F \subseteq Held(n) \cup n.todo
       /\ Plan[q.op][s] # "event shared" => F \subseteq n.has \cup n.todo
  BY <1>9, <1>13, <1>14 DEF Advances, SameAim, Held
<1>16. Free(r, q, n)
  BY <1>9, <1>15 DEF Free
<1>17. Aims(n)
  BY <1>6, <1>12, <1>15 DEF Sound, Aims
<1>18. Taken(n)
  <2>1. Taken(q)
    BY <1>6 DEF Sound
  <2>2. n.op \in {"review", "reserve"} => EventRowOf(n.event) \in Held(n) \cup Awaited(n, 2)
    <3> SUFFICES ASSUME n.op \in {"review", "reserve"} PROVE EventRowOf(n.event) \in Held(n) \cup Awaited(n, 2)
      OBVIOUS
    <3>1. CASE s = 2
      <4>2. Plan[q.op][s] = "event shared"
        BY <1>15, <3>1, PlansOf
      <4>1. F = {EventRowOf(q.event)}
        BY <1>9, <1>14, <4>2, RowsFound
      <4> QED
        BY <1>15, <3>1, <4>1 DEF Awaited
    <3>2. CASE s # 2
      <4>1. q.step >= 2
        BY <1>12, <3>2
      <4>2. Awaited(q, 2) = {}
        BY <1>5 DEF Awaited
      <4>3. EventRowOf(q.event) \in Held(q)
        BY <1>15, <2>1, <4>1, <4>2 DEF Taken
      <4> QED
        BY <1>15, <4>3
    <3> QED
      BY <3>1, <3>2
  <2>3. n.op = "reserve" /\ n.step >= 3 => TypeRowOf(line[n.line].type) \in n.has \cup Awaited(n, 3)
    <3> SUFFICES ASSUME n.op = "reserve", s >= 3
                 PROVE  TypeRowOf(line[n.line].type) \in n.has \cup Awaited(n, 3)
      BY <1>15
    <3>1. CASE s = 3
      <4>3. Plan[q.op][s] = "type"
        BY <1>15, <3>1, PlansOf
      <4>1. F = {TypeRowOf(line[q.line].type)}
        BY <1>9, <1>14, <4>3, RowsFound
      <4>2. Plan[q.op][s] # "event shared"
        BY <1>15, <3>1, PlansOf
      <4> QED
        BY <1>15, <3>1, <4>1, <4>2 DEF Awaited
    <3>2. CASE s # 3
      <4>1. q.step >= 3
        BY <1>12, <3>2
      <4>2. Awaited(q, 3) = {}
        BY <1>5 DEF Awaited
      <4>3. TypeRowOf(line[q.line].type) \in q.has
        BY <1>15, <2>1, <4>1, <4>2 DEF Taken
      <4> QED
        BY <1>15, <4>3
    <3> QED
      BY <3>1, <3>2
  <2>4. n.op = "assign" => \A u \in n.want : UserRowOf(u) \in n.has \cup Awaited(n, 2)
    <3> SUFFICES ASSUME n.op = "assign", NEW u \in n.want PROVE UserRowOf(u) \in n.has \cup Awaited(n, 2)
      OBVIOUS
    <3>1. CASE s = 2
      <4>1. UserRowOf(u) \in F
        BY <1>9, <1>14, <1>15, <3>1, PlansOf, RowsFound
      <4>2. Plan[q.op][s] # "event shared"
        BY <1>15, <3>1, PlansOf
      <4> QED
        BY <1>15, <3>1, <4>1, <4>2 DEF Awaited
    <3>2. CASE s # 2
      <4>1. q.step >= 2
        BY <1>12, <3>2
      <4>2. Awaited(q, 2) = {}
        BY <1>5 DEF Awaited
      <4>3. UserRowOf(u) \in q.has
        BY <1>15, <2>1, <4>1, <4>2 DEF Taken
      <4> QED
        BY <1>15, <4>3
    <3> QED
      BY <3>1, <3>2
  <2> QED
    BY <1>15, <2>1, <2>2, <2>3, <2>4 DEF Taken
<1>19. Judged(n)
  <2>1. Judged(q)
    BY <1>6 DEF Sound
  <2>2. /\ n.op \in {"edit", "remove"} => line[n.line].status = "pending"
        /\ n.op = "reserve" => line[n.line].status = "approved"
        /\ n.op = "confirm" => event[n.event].status = "planning"
    BY <1>15, <2>1 DEF Judged
  <2>3. n.op = "check" => Plausible(n.line, n.short)
    BY <1>2, <1>8, <1>15
  <2>4. n.op = "reserve" /\ s >= 3 => event[n.event].status \in Eligible /\ reserved[n.line] = Nothing
    <3>1. CASE q.op = "reserve" /\ q.step = 2
      BY <1>5, <1>15, <3>1, PassesIs DEF MayReserve, EventStatus
    <3>2. CASE q.op = "reserve" /\ q.step >= 3
      BY <1>15, <2>1, <3>2 DEF Judged
    <3>3. s >= 3 => q.step = 2 \/ q.step >= 3
      BY <1>12
    <3> QED
      BY <1>15, <3>1, <3>2, <3>3
  <2>5. n.op = "reserve" /\ s = 4 => Room(n)
    <3> SUFFICES ASSUME q.op = "reserve", s = 4 PROVE Room(n)
      BY <1>15
    <3>1. q.step = 3
      BY <1>12
    <3>2. Available(q.event, line[q.line].type) >= line[q.line].quantity
      BY <1>5, <3>1, PassesIs DEF MayReserve
    <3>3. line[q.line].type \in Types /\ line[q.line].quantity \in Quantities
      BY <1>6, <1>7 DEF Sound, Aims, OfLine, AboutLine, LinesMade
    <3> QED
      BY <1>7, <1>15, <3>2, <3>3, AvailableLeavesRoom
  <2>6. n.op = "assign" /\ s = 3 => Spare(n)
    <3> SUFFICES ASSUME q.op = "assign", s = 3 PROVE Spare(n)
      BY <1>15
    <3>1. q.step = 2
      BY <1>12
    <3>2. \A u \in q.want : ~Busy(q.event, u)
      BY <1>5, <3>1, PassesIs DEF MayAssign
    <3> QED
      BY <1>15, <3>2 DEF Spare, Busy
  <2>7. n.op = "confirm" /\ s = 3 => Arranged(n.event)
    <3> SUFFICES ASSUME q.op = "confirm", s = 3 PROVE Arranged(n.event)
      BY <1>15
    <3>1. q.step = 2
      BY <1>12
    <3>2. EquipmentReady(q.event)
      BY <1>5, <3>1, PassesIs DEF MayConfirm
    <3> QED
      BY <1>15, <3>2 DEF EquipmentReady, Arranged
  <2> QED
    BY <1>15, <2>2, <2>3, <2>4, <2>5, <2>6, <2>7 DEF Judged
<1> QED
  BY <1>1, <1>5, <1>15, <1>16, <1>17, <1>18, <1>19 DEF Sound

-----------------------------------------------------------------------------
(***************************************************************************)
(* A request stays sound while others commit.                              *)
(***************************************************************************)

(* The reservation of line l counts for the same times as before.          *)
KeepsReservation(l) ==
  /\ reserved'[l] = reserved[l] /\ line'[l].event = line[l].event
  /\ event'[line[l].event].at = event[line[l].event].at

(* What a step of another request leaves to the request q: the rows it     *)
(* has, and of what it read without a lock, that it did not grow.          *)
Apart(q) ==
  /\ q.op \in OfLine \cup {"create"} => line'[q.line] = line[q.line]
  /\ \A e \in Events : EventRowOf(e) \in Held(q) => event'[e] = event[e]
  /\ \A e \in Events : EventRowOf(e) \in q.has /\ Arranged(e) => Arranged(e)'
  /\ q.op = "reserve" /\ reserved[q.line] = Nothing => reserved'[q.line] = Nothing
  /\ \A l \in Lines : reserved'[l] # Nothing /\ ~reserved'[l].flagged =>
       KeepsReservation(l) \/ TypeRowOf(reserved'[l].type) \notin q.has
  /\ \A e \in Events : /\ event[e].status = "cancelled" => event'[e].status = "cancelled"
                       /\ event[e].moved => event'[e].moved
                       /\ event'[e].at = event[e].at \/ event'[e].moved
  /\ \A e \in Events, s \in Staff : <<e, s>> \in assigned' \ assigned => UserRowOf(s) \notin q.has

(* What a request relies on is left to it.                                 *)
LEMMA StaysSound ==
  ASSUME RowsTyped, LinesMade, NEW q, Sound(q), Apart(q)
  PROVE  Sound(q)'
<1>1. IsTransaction(q) /\ Aims(q) /\ Taken(q) /\ Judged(q)
  BY DEF Sound
<1>2. q.op \in OfLine => q.line \in Lines /\ line'[q.line] = line[q.line]
  BY <1>1 DEF Aims, Taken, Apart, OfLine, AboutLine
<1>3. q.op = "create" => q.line \in Lines /\ line'[q.line] = line[q.line]
  BY <1>1 DEF Aims, Apart
<1>4. q.op \in {"change_dates", "confirm", "prepare", "cancel"} => event'[q.event] = event[q.event]
  BY <1>1 DEF Aims, Taken, Apart, Held
<1>5. q.op = "assign" => event'[q.event] = event[q.event]
  BY <1>1 DEF Aims, Taken, Apart
<1>6. q.op = "reserve" /\ q.step >= 3 => event'[q.event] = event[q.event]
  <2> SUFFICES ASSUME q.op = "reserve", q.step >= 3 PROVE event'[q.event] = event[q.event]
    OBVIOUS
  <2>1. q.step \in Nat
    BY <1>1 DEF IsTransaction
  <2>2. q.step >= 2 /\ q.step # 2
    BY <2>1
  <2>3. EventRowOf(q.event) \in Held(q)
    BY <1>1, <2>2 DEF Taken, Awaited
  <2> QED
    BY <1>1, <2>3 DEF Aims, Apart
<1>7. Aims(q)'
  BY <1>1, <1>2, <1>3 DEF Aims
<1>8. Taken(q)'
  BY <1>1, <1>2 DEF Taken, OfLine
<1>9. q.op = "reserve" /\ q.step = 4 => Room(q)'
  <2> SUFFICES ASSUME q.op = "reserve", q.step = 4 PROVE Room(q)'
    OBVIOUS
  <2>1. q.step >= 2 /\ q.step >= 3 /\ q.step # 3 /\ q.step # 2
    OBVIOUS
  <2>2. TypeRowOf(line[q.line].type) \in q.has
    BY <1>1, <2>1 DEF Taken, Awaited
  <2>3. line'[q.line] = line[q.line] /\ event'[q.event] = event[q.event]
    BY <1>2, <1>6, <2>1 DEF OfLine
  <2>4. ASSUME NEW l, l \in Rivals(q)' PROVE l \in Rivals(q) /\ reserved'[l] = reserved[l]
    <3>1. /\ l \in Lines /\ reserved'[l] # Nothing /\ ~reserved'[l].flagged /\ reserved'[l].type = line[q.line].type
          /\ line'[l].event # q.event /\ Overlap(event'[line'[l].event].at, event[q.event].at)
      BY <2>3, <2>4 DEF Rivals, Reserved
    <3>2. KeepsReservation(l)
      BY <2>2, <3>1 DEF Apart
    <3> QED
      BY <3>1, <3>2 DEF KeepsReservation, Rivals, Reserved
  <2>5. PICK S, T, g : S = Rivals(q) /\ T = Rivals(q)' /\ g = reserved'
    OBVIOUS
  <2>6. Counted(reserved) /\ S \subseteq Rows(reserved)
    BY <2>5, QuantitiesAssumption DEF RowsTyped, Reservation, Counted, Rivals, Reserved, Rows
  <2>7. T \subseteq S /\ \A l \in T : g[l].quantity = reserved[l].quantity
    BY <2>4, <2>5
  <2>8. T \subseteq Rows(reserved)
    BY <2>6, <2>7
  <2>9. Cardinality(Pieces(g, T)) <= Cardinality(Pieces(reserved, S))
    BY <2>6, <2>7, PiecesFewer
  <2>10. Cardinality(Pieces(g, T)) \in Nat /\ Cardinality(Pieces(reserved, S)) \in Nat
    <3>1. Pieces(g, T) = Pieces(reserved, T)
      BY <2>7 DEF Pieces
    <3> QED
      BY <2>6, <2>8, <3>1, PiecesFinite
  <2>11. Cardinality(Pieces(reserved, S)) + line[q.line].quantity <= Stock[line[q.line].type]
    BY <1>1, <2>5 DEF Judged, Room
  <2>12. line[q.line].quantity \in Nat /\ Stock[line[q.line].type] \in Nat
    BY <1>1, QuantitiesAssumption DEF Aims, OfLine, AboutLine, LinesMade
  <2>13. \A a, b, c, d \in Nat : a <= b /\ b + c <= d => a + c <= d
    OBVIOUS
  <2>14. Cardinality(Pieces(g, T)) + line[q.line].quantity <= Stock[line[q.line].type]
    BY <2>9, <2>10, <2>11, <2>12, <2>13
  <2> QED
    BY <2>3, <2>5, <2>14 DEF Room
<1>10. q.op = "assign" /\ q.step = 3 => Spare(q)'
  <2> SUFFICES ASSUME q.op = "assign", q.step = 3,
                      NEW s \in q.want, NEW f \in Events \ {q.event},
                      <<f, s>> \in assigned', event'[f].status # "cancelled", ~event'[f].moved
               PROVE  ~Overlap(event'[f].at, event'[q.event].at)
    BY DEF Spare
  <2>1. q.step >= 2 /\ q.step # 2
    OBVIOUS
  <2>2. UserRowOf(s) \in q.has
    BY <1>1, <2>1 DEF Taken, Awaited
  <2>3. s \in Staff
    BY <1>1 DEF Aims, Wish
  <2>4. <<f, s>> \in assigned
    BY <2>2, <2>3 DEF Apart
  <2>5. event[f].status # "cancelled" /\ ~event[f].moved /\ event'[f].at = event[f].at
    BY DEF Apart
  <2> QED
    BY <1>1, <1>5, <2>4, <2>5 DEF Judged, Spare
<1>11. q.op = "confirm" /\ q.step = 3 => Arranged(q.event)'
  BY <1>1 DEF Aims, Taken, Judged, Apart
<1>12. q.op = "check" /\ q.step = 2 => Plausible(q.line, q.short)'
  BY <1>1, <1>2 DEF Judged, Plausible, OfLine
<1>13. q.op = "reserve" /\ q.step >= 3 => event'[q.event].status \in Eligible /\ reserved'[q.line] = Nothing
  BY <1>1, <1>6 DEF Judged, Apart
<1>14. /\ q.op \in {"edit", "remove"} => line'[q.line].status = "pending"
       /\ q.op = "reserve" => line'[q.line].status = "approved"
       /\ q.op = "confirm" => event'[q.event].status = "planning"
  BY <1>1, <1>2, <1>4 DEF Judged, OfLine
<1>15. Judged(q)'
  BY <1>9, <1>10, <1>11, <1>12, <1>13, <1>14 DEF Judged
<1> QED
  BY <1>1, <1>7, <1>8, <1>15 DEF Sound, IsTransaction

-----------------------------------------------------------------------------
(***************************************************************************)
(* A step of one request, of which only the tables are left to see to.     *)
(***************************************************************************)

(* Nobody else is about to insert the line that n is about to insert.      *)
Alone(r, n) ==
  n.op = "create" => \A p \in Requests \ {r} : req[p].op = "create" => req[p].line # n.line

(* A request that goes on soundly, or ends, keeps the invariant if the     *)
(* tables do and the others are left what they rely on.                    *)
LEMMA StepKeeps ==
  ASSUME IInv, NEW r \in Requests, NEW n, req' = [req EXCEPT ![r] = n],
         n = Idle \/ Sound(n)', Free(r, req[r], n), Alone(r, n), Tables',
         \A p \in Requests \ {r} : Apart(req[p])
  PROVE  IInv'
<1>1. DOMAIN req = Requests
  BY DEF IInv, RequestsSound
<1>2. DOMAIN req' = Requests /\ req'[r] = n /\ \A p \in Requests \ {r} : req'[p] = req[p]
  BY <1>1
<1>3. RequestsSound'
  <2> SUFFICES ASSUME NEW p \in Requests, ~(req[p] = Idle)' PROVE Sound(req[p])'
    BY <1>2 DEF RequestsSound
  <2>1. PICK m : m = req'[p]
    OBVIOUS
  <2>2. Sound(m)'
    <3>1. CASE p = r
      BY <1>2, <2>1, <3>1 DEF Idle
    <3>2. CASE p # r
      <4>1. m = req[p]
        BY <1>2, <2>1, <3>2
      <4>2. Sound(m)
        BY <2>1, <4>1 DEF IInv, RequestsSound, Idle
      <4>3. Apart(m)
        BY <3>2, <4>1
      <4> QED
        BY <4>2, <4>3, StaysSound DEF IInv, Tables
    <3> QED
      BY <3>1, <3>2
  <2>3. IsTransaction(req[p])' /\ Aims(req[p])' /\ Taken(req[p])'
    BY <2>1, <2>2 DEF Sound, IsTransaction, Aims, Taken, Held, Awaited
  <2>4. Judged(req[p])'
    BY <2>1, <2>2 DEF Sound, Judged, Plausible, Room, Rivals, Spare, Arranged
  <2> QED
    BY <2>3, <2>4 DEF Sound
<1>4. Exclusive'
  BY <1>1, StaysExclusive DEF IInv
<1>5. Distinct'
  BY <1>2 DEF IInv, Distinct, Alone
<1> QED
  BY <1>3, <1>4, <1>5 DEF IInv

(* Nothing is taken from anybody when no table changes.                    *)
LEMMA NothingChanges ==
  ASSUME UNCHANGED rowVars
  PROVE  /\ Tables => Tables'
         /\ \A q : Apart(q)
         /\ \A q : Sound(q) => Sound(q)'
<1>1. line' = line /\ reserved' = reserved /\ event' = event /\ assigned' = assigned
  BY DEF rowVars
<1>2. Tables => Tables'
  BY <1>1 DEF Tables, RowsTyped, LinesMade, OneLive, ReservationsStand, StockSuffices, InUse, Units, Reserved,
              ChecksStillApply, NoAssignmentOverlaps, Together
<1>3. ASSUME NEW q PROVE Apart(q)
  BY <1>1 DEF Apart, KeepsReservation, Arranged, LiveLines
<1>4. ASSUME NEW q, Sound(q) PROVE Sound(q)'
  <2>1. IsTransaction(q)' /\ Aims(q)' /\ Taken(q)'
    BY <1>1, <1>4 DEF Sound, IsTransaction, Aims, Taken, Held, Awaited
  <2>2. Judged(q)'
    BY <1>1, <1>4 DEF Sound, Judged, Plausible, Room, Rivals, Reserved, Spare, Arranged, LiveLines
  <2> QED
    BY <2>1, <2>2 DEF Sound
<1> QED
  BY <1>2, <1>3, <1>4

(* A request that arrives, gets a row or goes on keeps the invariant.      *)
LEMMA GoingOnKeeps ==
  ASSUME IInv, NEW r \in Requests, (\E op \in Offered : Begin(r, op)) \/ Lock(r) \/ Proceed(r)
  PROVE  IInv'
<1>1. UNCHANGED rowVars
  BY DEF Begin, Lock, Proceed
<1>2. PICK n : req' = [req EXCEPT ![r] = n] /\ Sound(n) /\ Free(r, req[r], n) /\ Alone(r, n)
  <2>1. CASE \E op \in Offered : Begin(r, op)
    <3>1. PICK op \in Offered : Begin(r, op)
      BY <2>1
    <3>2. PICK n : /\ req' = [req EXCEPT ![r] = n] /\ Sound(n) /\ Free(r, req[r], n) /\ n.op = op
                   /\ op = "create" => n.line \notin Promised
      BY <3>1, BeginsSound
    <3>3. Alone(r, n)
      BY <3>2 DEF Alone, Promised
    <3> QED
      BY <3>2, <3>3
  <2>2. CASE Lock(r) \/ Proceed(r)
    <3>1. PICK n : /\ req' = [req EXCEPT ![r] = n] /\ Sound(n) /\ Free(r, req[r], n) /\ n.op = req[r].op
                   /\ n.line = req[r].line
      BY <2>2, LocksSound, ProceedsSound
    <3>2. Alone(r, n)
      BY <3>1 DEF Alone, IInv, Distinct
    <3> QED
      BY <3>1, <3>2
  <2> QED
    BY <2>1, <2>2
<1>3. Tables' /\ (\A p \in Requests \ {r} : Apart(req[p])) /\ Sound(n)'
  BY <1>1, <1>2, NothingChanges DEF IInv
<1> QED
  BY <1>2, <1>3, StepKeeps

(* A request that ends holds nothing, and keeps the invariant if the       *)
(* tables do.                                                              *)
LEMMA EndingKeeps ==
  ASSUME IInv, NEW r \in Requests, End(r), Tables', \A p \in Requests \ {r} : Apart(req[p])
  PROVE  IInv'
<1>1. Free(r, req[r], Idle) /\ Alone(r, Idle)
  BY DEF Free, Alone, Idle
<1> QED
  BY <1>1, StepKeeps DEF End

(* Nothing happens to the tables when a request is refused or aborted.     *)
LEMMA RefusalKeeps ==
  ASSUME IInv, NEW r \in Requests, Refuse(r) \/ Abort(r)
  PROVE  IInv'
<1>1. UNCHANGED rowVars /\ End(r)
  BY DEF Refuse, Abort
<1> QED
  BY <1>1, NothingChanges, EndingKeeps DEF IInv

-----------------------------------------------------------------------------
(***************************************************************************)
(* Stock.                                                                  *)
(***************************************************************************)

(* What is in use counts the units of those lines.                         *)
LEMMA InUseIs ==
  ASSUME NEW y, NEW t
  PROVE  InUse(y, t, {l \in Reserved : ~reserved[l].flagged}) = Cardinality(Pieces(reserved, CountsAt(y, t)))
<1>1. {l \in {k \in Reserved : ~reserved[k].flagged} :
         /\ reserved[l].type = y
         /\ event[line[l].event].at.from <= t /\ t < event[line[l].event].at.to} = CountsAt(y, t)
  BY DEF CountsAt
<1> QED
  BY <1>1 DEF InUse, Units, Pieces

(* And so in the next state.                                               *)
LEMMA InUseIsNext ==
  ASSUME NEW y, NEW t
  PROVE  InUse(y, t, {l \in Reserved : ~reserved[l].flagged})' = Cardinality(Pieces(reserved', CountsAt(y, t)'))
<1>1. {l \in {k \in Reserved' : ~reserved'[k].flagged} :
         /\ reserved'[l].type = y
         /\ event'[line'[l].event].at.from <= t /\ t < event'[line'[l].event].at.to} = CountsAt(y, t)'
  BY DEF CountsAt
<1> QED
  BY <1>1 DEF InUse, Units, Pieces

(* Fewer reservations that count take no more.                             *)
LEMMA StockShrinks ==
  ASSUME RowsTyped, StockSuffices,
         \A l \in Lines : reserved'[l] # Nothing /\ ~reserved'[l].flagged => KeepsReservation(l)
  PROVE  StockSuffices'
<1> SUFFICES ASSUME NEW y \in Types, NEW t \in Instants
             PROVE  InUse(y, t, {l \in Reserved : ~reserved[l].flagged})' <= Stock[y]
  BY DEF StockSuffices
<1>1. PICK S, T, g : S = CountsAt(y, t) /\ T = CountsAt(y, t)' /\ g = reserved'
  OBVIOUS
<1>2. Counted(reserved) /\ S \subseteq Rows(reserved)
  BY <1>1, QuantitiesAssumption DEF RowsTyped, Reservation, Counted, CountsAt, Reserved, Rows
<1>3. ASSUME NEW l, l \in T PROVE l \in S /\ g[l] = reserved[l]
  <2>1. /\ l \in Lines /\ reserved'[l] # Nothing /\ ~reserved'[l].flagged /\ reserved'[l].type = y
        /\ event'[line'[l].event].at.from <= t /\ t < event'[line'[l].event].at.to
    BY <1>1, <1>3 DEF CountsAt, Reserved
  <2>2. KeepsReservation(l)
    BY <2>1
  <2> QED
    BY <1>1, <2>1, <2>2 DEF KeepsReservation, CountsAt, Reserved
<1>4. T \subseteq S /\ T \subseteq Rows(reserved) /\ \A l \in T : g[l].quantity = reserved[l].quantity
  BY <1>2, <1>3
<1>5. Cardinality(Pieces(g, T)) <= Cardinality(Pieces(reserved, S))
  BY <1>2, <1>4, PiecesFewer
<1>6. Cardinality(Pieces(g, T)) \in Nat /\ Cardinality(Pieces(reserved, S)) \in Nat /\ Stock[y] \in Nat
  <2>1. Pieces(g, T) = Pieces(reserved, T)
    BY <1>4 DEF Pieces
  <2> QED
    BY <1>2, <1>4, <2>1, PiecesFinite, QuantitiesAssumption
<1>7. Cardinality(Pieces(reserved, S)) <= Stock[y]
  BY <1>1, InUseIs DEF StockSuffices
<1>8. \A a, b, c \in Nat : a <= b /\ b <= c => a <= c
  OBVIOUS
<1>9. Cardinality(Pieces(g, T)) <= Stock[y]
  BY <1>5, <1>6, <1>7, <1>8
<1> QED
  BY <1>1, <1>9, InUseIsNext

(* A reservation for which there is room, and the line of which is the     *)
(* only one of its type for its event, leaves enough stock.                *)
LEMMA StockTaken ==
  ASSUME RowsTyped, LinesMade, OneLive, ReservationsStand, StockSuffices,
         NEW q, q.line \in Lines, line[q.line].status = "approved", line[q.line].event = q.event, Room(q),
         reserved' = [reserved EXCEPT ![q.line] =
           [type |-> line[q.line].type, quantity |-> line[q.line].quantity, flagged |-> FALSE]],
         UNCHANGED <<line, event>>
  PROVE  StockSuffices'
<1> SUFFICES ASSUME NEW y \in Types, NEW t \in Instants
             PROVE  InUse(y, t, {l \in Reserved : ~reserved[l].flagged})' <= Stock[y]
  BY DEF StockSuffices
<1>1. PICK k, g, T, R : k = q.line /\ g = reserved' /\ T = CountsAt(y, t)' /\ R = Rivals(q)
  OBVIOUS
<1>2. /\ k \in Lines /\ line[k].type \in Types /\ line[k].quantity \in Nat /\ line[k].quantity \in Quantities
      /\ q.event \in Events /\ event[q.event].at \in Spans
  BY <1>1, QuantitiesAssumption DEF LinesMade, RowsTyped, EventRow
<1>3. /\ g[k].type = line[k].type /\ g[k].quantity = line[k].quantity
      /\ \A l \in Lines \ {k} : g[l] = reserved[l]
  <2>1. g[k] = [type |-> line[k].type, quantity |-> line[k].quantity, flagged |-> FALSE]
    BY <1>1, <1>2 DEF RowsTyped
  <2> QED
    BY <1>1, <1>2, <2>1 DEF RowsTyped
<1>4. Counted(reserved) /\ Counted(g)
  <2>1. \A l \in Lines : reserved[l] # Nothing => reserved[l].quantity \in Nat
    BY QuantitiesAssumption DEF RowsTyped, Reservation
  <2> QED
    BY <1>2, <1>3, <2>1 DEF Counted
<1>5. T \subseteq Rows(g) /\ R \subseteq Rows(reserved)
  BY <1>1 DEF CountsAt, Rivals, Reserved, Rows
<1>6. Stock[y] \in Nat
  BY QuantitiesAssumption
<1>7. ASSUME NEW l, l \in T, l # k
      PROVE  /\ l \in CountsAt(y, t) /\ l \in Lines /\ reserved[l] # Nothing /\ ~reserved[l].flagged
             /\ reserved[l].type = y
             /\ event[line[l].event].at.from <= t /\ t < event[line[l].event].at.to
  BY <1>1, <1>3, <1>7 DEF CountsAt, Reserved
<1>8. CASE k \notin T
  <2>1. PICK S : S = CountsAt(y, t)
    OBVIOUS
  <2>2. S \subseteq Rows(reserved) /\ T \subseteq S /\ \A l \in T : g[l].quantity = reserved[l].quantity
    BY <1>3, <1>7, <1>8, <2>1 DEF CountsAt, Reserved, Rows
  <2>3. Cardinality(Pieces(g, T)) <= Cardinality(Pieces(reserved, S))
    BY <1>4, <2>2, PiecesFewer
  <2>4. Cardinality(Pieces(g, T)) \in Nat /\ Cardinality(Pieces(reserved, S)) \in Nat
    BY <1>4, <1>5, <2>2, PiecesFinite
  <2>5. Cardinality(Pieces(reserved, S)) <= Stock[y]
    BY <2>1, InUseIs DEF StockSuffices
  <2>6. \A a, b, c \in Nat : a <= b /\ b <= c => a <= c
    OBVIOUS
  <2>7. Cardinality(Pieces(g, T)) <= Stock[y]
    BY <1>6, <2>3, <2>4, <2>5, <2>6
  <2> QED
    BY <1>1, <2>7, InUseIsNext
<1>9. CASE k \in T
  <2>1. PICK U : U = T \ {k}
    OBVIOUS
  <2>2. line[k].type = y /\ event[q.event].at.from <= t /\ t < event[q.event].at.to
    BY <1>1, <1>3, <1>9 DEF CountsAt
  <2>3. ASSUME NEW l \in U PROVE l \in R /\ g[l].quantity = reserved[l].quantity
    <3>1. /\ l \in Lines /\ l # k /\ reserved[l] # Nothing /\ ~reserved[l].flagged /\ reserved[l].type = y
          /\ event[line[l].event].at.from <= t /\ t < event[line[l].event].at.to
      BY <1>7, <2>1
    <3>2. line[l].status = "approved" /\ line[l].type = y
      BY <3>1 DEF ReservationsStand
    <3>3. line[l].event # q.event
      BY <1>1, <1>2, <2>2, <3>1, <3>2 DEF OneLive, Live
    <3>4. line[l].event \in Events
      BY <3>1, <3>2 DEF LinesMade
    <3>5. PICK a, b : a = event[line[l].event].at /\ b = event[q.event].at
      OBVIOUS
    <3>6. a.from \in Nat /\ a.to \in Nat /\ b.from \in Nat /\ b.to \in Nat
      BY <1>2, <3>4, <3>5, SpansAssumption DEF RowsTyped, EventRow
    <3>7. t \in Int
      <4>1. PICK s \in Spans : t \in s.from..s.to
        BY DEF Instants
      <4> QED
        BY <4>1
    <3>8. \A c, d, e, f \in Nat : c <= t /\ t < d /\ e <= t /\ t < f => c < f /\ e < d
      BY <3>7
    <3>9. Overlap(a, b)
      BY <2>2, <3>1, <3>5, <3>6, <3>8 DEF Overlap
    <3> QED
      BY <1>1, <1>3, <2>2, <3>1, <3>3, <3>5, <3>9 DEF Rivals, Reserved
  <2>4. U \subseteq R /\ U \subseteq Rows(g) /\ k \in Rows(g) /\ T = U \cup {k}
    BY <1>5, <1>9, <2>1, <2>3
  <2>5. Cardinality(Pieces(g, U)) <= Cardinality(Pieces(reserved, R))
    BY <1>4, <1>5, <2>3, <2>4, PiecesFewer
  <2>6. Cardinality(Pieces(g, U \cup {k})) <= Cardinality(Pieces(g, U)) + g[k].quantity
    BY <1>4, <2>4, PiecesAdd
  <2>7. /\ Cardinality(Pieces(g, U)) \in Nat /\ Cardinality(Pieces(reserved, R)) \in Nat
        /\ Cardinality(Pieces(g, T)) \in Nat
    BY <1>4, <1>5, <2>4, PiecesFinite
  <2>8. Cardinality(Pieces(reserved, R)) + g[k].quantity <= Stock[y]
    BY <1>1, <1>3, <2>2 DEF Room
  <2>9. \A a, b, c, d, e \in Nat : a <= b + c /\ b <= d /\ d + c <= e => a <= e
    OBVIOUS
  <2>10. Cardinality(Pieces(g, T)) <= Stock[y]
    BY <1>2, <1>3, <1>6, <2>4, <2>5, <2>6, <2>7, <2>8, <2>9
  <2> QED
    BY <1>1, <2>10, InUseIsNext
<1> QED
  BY <1>8, <1>9

-----------------------------------------------------------------------------
(***************************************************************************)
(* Requests that commit.                                                   *)
(***************************************************************************)

(* A request that commits is sound, has all its rows and is at its last    *)
(* statement.                                                              *)
LEMMA ReadyIs ==
  ASSUME IInv, NEW r \in Requests, NEW op, Ready(r, op), NEW q, q = req[r]
  PROVE  /\ IsTransaction(q) /\ Aims(q) /\ Taken(q) /\ Judged(q)
         /\ q.op = op /\ q.todo = {} /\ q.step = Len(Plan[op]) /\ Passes(q)
<1>1. q.op = op /\ q.todo = {} /\ q.step = Len(Plan[op]) /\ Passes(q) /\ q.op # "none"
  BY DEF Ready, Locked, Last
<1>2. Sound(q)
  BY <1>1, UnderWay DEF IInv
<1> QED
  BY <1>1, <1>2 DEF Sound

(* Others have none of its rows.                                           *)
LEMMA OthersAre ==
  ASSUME IInv, NEW r \in Requests, NEW p \in Requests \ {r}, NEW q, q = req[r], NEW m, m = req[p]
  PROVE  /\ \A x : x \in q.has => x \notin Held(m)
         /\ \A x : x \in m.has => x \notin Held(q)
         /\ m.op = "create" /\ q.op = "create" => m.line # q.line
         /\ m.op # "none" => Sound(m)
BY DEF IInv, Exclusive, Distinct, RequestsSound, Idle

(* The line l that request r may write becomes w.                          *)
Writes(r, l, w) ==
  /\ l \in Lines /\ w \in LineRow /\ line' = [line EXCEPT ![l] = w] /\ UNCHANGED <<reserved, event, assigned>>
  /\ \/ LineRowOf(l) \in req[r].has /\ line[l].status # "none"
     \/ req[r].op = "create" /\ req[r].line = l
  /\ reserved[l] # Nothing =>
       w.event = line[l].event /\ w.status = line[l].status /\ w.type = line[l].type /\ w.quantity = line[l].quantity
  /\ w.status \notin {"none", "removed"} => w.event \in Events /\ w.type \in Types /\ w.quantity \in Quantities
  /\ w.status \in Live =>
       /\ \A m \in Lines \ {l} : line[m].status \in Live /\ line[m].event = w.event => line[m].type # w.type
       /\ w.short # Nothing => w.short <= w.quantity /\ w.quantity - Stock[w.type] <= w.short
       /\ \/ EventRowOf(w.event) \in Held(req[r])
          \/ line[l].status = w.status /\ line[l].event = w.event

(* Such a line keeps what the tables promise and the others rely on.       *)
LEMMA WritingKeeps ==
  ASSUME IInv, NEW r \in Requests, NEW l, NEW w, Writes(r, l, w), End(r)
  PROVE  IInv'
<1>1. /\ l \in Lines /\ w \in LineRow /\ line'[l] = w /\ \A m \in Lines \ {l} : line'[m] = line[m]
      /\ reserved' = reserved /\ event' = event /\ assigned' = assigned
  BY DEF IInv, Tables, RowsTyped, Writes
<1>2. RowsTyped'
  BY DEF IInv, Tables, RowsTyped, Writes
<1>3. LinesMade'
  BY <1>1 DEF IInv, Tables, LinesMade, Writes
<1>4. OneLive'
  <2> SUFFICES ASSUME NEW a \in Lines, NEW b \in Lines, a # b, line'[a].status \in Live, line'[b].status \in Live,
                      line'[a].event = line'[b].event
               PROVE  line'[a].type # line'[b].type
    BY DEF OneLive
  <2>1. CASE a = l
    BY <1>1, <2>1 DEF Writes
  <2>2. CASE b = l
    BY <1>1, <2>2 DEF Writes
  <2>3. CASE a # l /\ b # l
    BY <1>1, <2>3 DEF IInv, Tables, OneLive
  <2> QED
    BY <2>1, <2>2, <2>3
<1>5. ReservationsStand'
  <2> SUFFICES ASSUME NEW m \in Lines, reserved'[m] # Nothing
               PROVE  /\ line'[m].status = "approved" /\ reserved'[m].type = line'[m].type
                      /\ reserved'[m].quantity = line'[m].quantity /\ event'[line'[m].event].status # "cancelled"
    BY DEF ReservationsStand
  <2>1. /\ line'[m].event = line[m].event /\ line'[m].status = line[m].status /\ line'[m].type = line[m].type
        /\ line'[m].quantity = line[m].quantity
    BY <1>1 DEF Writes
  <2> QED
    BY <1>1, <2>1 DEF IInv, Tables, ReservationsStand
<1>6. \A m \in Lines : reserved'[m] # Nothing => KeepsReservation(m)
  BY <1>1 DEF KeepsReservation, Writes
<1>7. StockSuffices'
  BY <1>6, StockShrinks DEF IInv, Tables
<1>8. ChecksStillApply'
  <2> SUFFICES ASSUME NEW m \in Lines, line'[m].status \in Live, line'[m].short # Nothing
               PROVE  /\ line'[m].short <= line'[m].quantity
                      /\ line'[m].quantity - Stock[line'[m].type] <= line'[m].short
    BY DEF ChecksStillApply
  <2>1. CASE m = l
    BY <1>1, <2>1 DEF Writes
  <2>2. CASE m # l
    BY <1>1, <2>2 DEF IInv, Tables, ChecksStillApply
  <2> QED
    BY <2>1, <2>2
<1>9. NoAssignmentOverlaps'
  BY <1>1 DEF IInv, Tables, NoAssignmentOverlaps, Together
<1>10. Tables'
  BY <1>2, <1>3, <1>4, <1>5, <1>7, <1>8, <1>9 DEF Tables
<1>11. ASSUME NEW p \in Requests \ {r} PROVE Apart(req[p])
  <2>1. PICK m, q : m = req[p] /\ q = req[r]
    OBVIOUS
  <2>2. /\ \A x : x \in q.has => x \notin Held(m)
        /\ \A x : x \in m.has => x \notin Held(q)
        /\ m.op = "create" /\ q.op = "create" => m.line # q.line
        /\ m.op # "none" => Sound(m)
    BY <2>1, OthersAre
  <2>3. m.op \in OfLine \cup {"create"} => line'[m.line] = line[m.line]
    <3> SUFFICES ASSUME m.op \in OfLine \cup {"create"}, m.line = l PROVE FALSE
      <4>1. m.op \in OfLine \cup {"create"} => m.line \in Lines
        BY <2>2 DEF OfLine, Sound, Aims, AboutLine
      <4> QED
        BY <1>1, <4>1
    <3>1. Aims(m) /\ Taken(m)
      BY <2>2 DEF OfLine, Sound
    <3>2. CASE m.op \in OfLine
      <4>1. LineRowOf(l) \in m.has /\ line[l].status # "none"
        BY <3>1, <3>2 DEF Aims, Taken
      <4>2. LineRowOf(l) \notin q.has
        BY <2>2, <4>1 DEF Held
      <4>3. req[r].op = "create" /\ req[r].line = l
        BY <2>1, <4>2 DEF Writes
      <4>4. Sound(q)
        BY <2>1, <4>3, UnderWay DEF IInv
      <4> QED
        BY <2>1, <4>1, <4>3, <4>4 DEF Sound, Aims
    <3>3. CASE m.op = "create"
      <4>1. line[l].status = "none"
        BY <3>1, <3>3 DEF Aims
      <4> QED
        BY <2>1, <2>2, <3>3, <4>1 DEF Writes
    <3> QED
      BY <3>2, <3>3
  <2>4. ASSUME NEW e \in Events, EventRowOf(e) \in m.has, Arranged(e) PROVE Arranged(e)'
    <3>1. ASSUME NEW k \in LiveLines(e)' PROVE k \in LiveLines(e) /\ line'[k].status = "approved"
      <4>1. k \in Lines /\ line'[k].status \in Live /\ line'[k].event = e
        BY <3>1 DEF LiveLines
      <4>2. CASE k # l
        BY <1>1, <2>4, <4>1, <4>2 DEF LiveLines, Arranged
      <4>3. CASE k = l
        <5>1. EventRowOf(e) \notin Held(q)
          BY <2>2, <2>4
        <5>2. line[l].status = line'[l].status /\ line[l].event = e
          BY <1>1, <2>1, <4>1, <4>3, <5>1 DEF Writes
        <5> QED
          BY <2>4, <4>1, <4>3, <5>2 DEF LiveLines, Arranged
      <4> QED
        BY <4>2, <4>3
    <3> QED
      BY <1>1, <2>4, <3>1 DEF Arranged
  <2>5. Apart(m)
    BY <1>1, <1>6, <2>3, <2>4 DEF Apart
  <2> QED
    BY <2>1, <2>5
<1> QED
  BY <1>10, <1>11, EndingKeeps

(* A new line.                                                             *)
LEMMA CreateKeeps ==
  ASSUME IInv, NEW r \in Requests, Create(r)
  PROVE  IInv'
<1>1. PICK q : q = req[r]
  OBVIOUS
<1>2. PICK w : w = [status |-> "pending", event |-> q.event, type |-> q.want.type,
                    quantity |-> q.want.quantity, short |-> Nothing]
  OBVIOUS
<1>3. /\ line' = [line EXCEPT ![q.line] = w] /\ UNCHANGED <<reserved, event, assigned>>
      /\ Ready(r, "create") /\ End(r)
  BY <1>1, <1>2 DEF Create
<1>4. /\ Aims(q) /\ Taken(q) /\ q.op = "create" /\ q.todo = {} /\ q.step = Len(Plan["create"]) /\ Passes(q)
  BY <1>1, <1>3, ReadyIs
<1>5. /\ q.line \in Lines /\ line[q.line].status = "none" /\ q.event \in Events /\ q.want \in Asks
      /\ EventRowOf(q.event) \in Held(q)
  BY <1>4 DEF Aims, Taken, Wish
<1>6. q.want.type \in Types /\ q.want.quantity \in Quantities
  BY <1>5 DEF Asks
<1>7. /\ w.status = "pending" /\ w.event = q.event /\ w.type = q.want.type /\ w.quantity = q.want.quantity
      /\ w.short = Nothing /\ w \in LineRow
  BY <1>2, <1>5, <1>6, QuantitiesAssumption DEF LineRow, Live
<1>8. reserved[q.line] = Nothing
  BY <1>5 DEF IInv, Tables, ReservationsStand
<1>9. \A m \in Lines \ {q.line} : line[m].status \in Live /\ line[m].event = q.event => line[m].type # q.want.type
  <2>1. q.step = 2
    BY <1>4, PlansOf
  <2>2. ~Indexed(q.event, q.want.type, q.line)
    BY <1>4, <2>1, PassesIs DEF MayCreate
  <2> QED
    BY <2>2 DEF Indexed, Duplicate, LiveLines
<1>10. Writes(r, q.line, w)
  BY <1>1, <1>3, <1>4, <1>5, <1>6, <1>7, <1>8, <1>9 DEF Writes
<1> QED
  BY <1>3, <1>10, WritingKeeps

(* What is known of a line that a request has locked.                      *)
LEMMA LockedLine ==
  ASSUME IInv, NEW q, Aims(q), Taken(q), q.op \in OfLine
  PROVE  /\ q.line \in Lines /\ line[q.line].status \notin {"none", "removed"} /\ line[q.line].event = q.event
         /\ q.event \in Events /\ LineRowOf(q.line) \in q.has
         /\ line[q.line] \in LineRow /\ line[q.line].type \in Types /\ line[q.line].quantity \in Quantities
<1>1. /\ q.line \in Lines /\ line[q.line].status \notin {"none", "removed"} /\ line[q.line].event = q.event
      /\ q.event \in Events /\ LineRowOf(q.line) \in q.has
  BY DEF Aims, Taken, OfLine, AboutLine
<1> QED
  BY <1>1 DEF IInv, Tables, RowsTyped, LinesMade

(* An edited line.                                                         *)
LEMMA EditKeeps ==
  ASSUME IInv, NEW r \in Requests, Edit(r)
  PROVE  IInv'
<1>1. PICK q, l, c : q = req[r] /\ l = q.line
                     /\ c = (q.want # [type |-> line[l].type, quantity |-> line[l].quantity])
  OBVIOUS
<1>2. Ready(r, "edit") /\ End(r) /\ UNCHANGED <<reserved, event, assigned>>
  BY DEF Edit
<1>3. PICK w : w = [line[l] EXCEPT !.type = q.want.type, !.quantity = q.want.quantity,
                                   !.short = IF c THEN Nothing ELSE @]
  OBVIOUS
<1>4. /\ Aims(q) /\ Taken(q) /\ Judged(q) /\ q.op = "edit" /\ q.step = Len(Plan["edit"]) /\ Passes(q)
  BY <1>1, <1>2, ReadyIs
<1>5. /\ l \in Lines /\ line[l].event = q.event /\ q.event \in Events /\ LineRowOf(l) \in q.has
      /\ line[l] \in LineRow /\ line[l].status = "pending"
  BY <1>1, <1>4, LockedLine DEF OfLine, Judged
<1>6. line' = [line EXCEPT ![l] = w]
  <2>1. line' = [line EXCEPT ![l].type = q.want.type, ![l].quantity = q.want.quantity,
                             ![l].short = IF c THEN Nothing ELSE @]
    BY <1>1 DEF Edit
  <2> QED
    BY <1>3, <1>5, <2>1 DEF IInv, Tables, RowsTyped, LineRow
<1>7. q.want \in Asks /\ q.want.type \in Types /\ q.want.quantity \in Quantities
  BY <1>4 DEF Aims, Wish, Asks
<1>8. /\ w.status = "pending" /\ w.event = q.event /\ w.type = q.want.type /\ w.quantity = q.want.quantity
      /\ w.short = (IF c THEN Nothing ELSE line[l].short) /\ w \in LineRow
  BY <1>3, <1>5, <1>7, QuantitiesAssumption DEF LineRow
<1>9. reserved[l] = Nothing
  BY <1>5 DEF IInv, Tables, ReservationsStand
<1>10. \A m \in Lines \ {l} : line[m].status \in Live /\ line[m].event = q.event => line[m].type # q.want.type
  <2>1. q.step = 2
    BY <1>4, PlansOf
  <2>2. ~Indexed(q.event, q.want.type, q.line)
    BY <1>4, <2>1, PassesIs DEF MayEdit
  <2> QED
    BY <1>1, <2>2 DEF Indexed, Duplicate, LiveLines
<1>11. w.short # Nothing => w.short <= w.quantity /\ w.quantity - Stock[w.type] <= w.short
  <2> SUFFICES ASSUME w.short # Nothing PROVE w.short <= w.quantity /\ w.quantity - Stock[w.type] <= w.short
    OBVIOUS
  <2>1. w.short = line[l].short /\ q.want = [type |-> line[l].type, quantity |-> line[l].quantity]
    BY <1>1, <1>8
  <2>2. w.type = line[l].type /\ w.quantity = line[l].quantity
    BY <1>8, <2>1
  <2>3. line[l].status \in Live
    BY <1>5 DEF Live
  <2> QED
    BY <1>5, <2>1, <2>2, <2>3 DEF IInv, Tables, ChecksStillApply
<1>12. Writes(r, l, w)
  BY <1>1, <1>2, <1>5, <1>6, <1>7, <1>8, <1>9, <1>10, <1>11 DEF Writes
<1> QED
  BY <1>2, <1>12, WritingKeeps

(* A line that is removed.                                                 *)
LEMMA RemoveKeeps ==
  ASSUME IInv, NEW r \in Requests, Remove(r)
  PROVE  IInv'
<1>1. PICK q, l : q = req[r] /\ l = q.line
  OBVIOUS
<1>2. PICK w : w = [NoLine EXCEPT !.status = "removed"]
  OBVIOUS
<1>3. /\ line' = [line EXCEPT ![l] = w] /\ UNCHANGED <<reserved, event, assigned>>
      /\ Ready(r, "remove") /\ End(r)
  BY <1>1, <1>2 DEF Remove
<1>4. /\ Aims(q) /\ Taken(q) /\ Judged(q) /\ q.op = "remove"
  BY <1>1, <1>3, ReadyIs
<1>5. l \in Lines /\ LineRowOf(l) \in q.has /\ line[l].status = "pending"
  BY <1>1, <1>4, LockedLine DEF OfLine, Judged
<1>6. w.status = "removed" /\ w \in LineRow
  BY <1>2 DEF NoLine, LineRow
<1>7. reserved[l] = Nothing
  BY <1>5 DEF IInv, Tables, ReservationsStand
<1>8. Writes(r, l, w)
  BY <1>1, <1>3, <1>5, <1>6, <1>7 DEF Writes, Live
<1> QED
  BY <1>3, <1>8, WritingKeeps

(* A line that is checked.                                                 *)
LEMMA CheckKeeps ==
  ASSUME IInv, NEW r \in Requests, Check(r)
  PROVE  IInv'
<1>1. PICK q, l : q = req[r] /\ l = q.line
  OBVIOUS
<1>2. Ready(r, "check") /\ End(r) /\ UNCHANGED <<reserved, event, assigned>>
  BY DEF Check
<1>3. PICK w : w = [line[l] EXCEPT !.short = q.short]
  OBVIOUS
<1>4. /\ IsTransaction(q) /\ Aims(q) /\ Taken(q) /\ Judged(q) /\ q.op = "check" /\ q.step = Len(Plan["check"])
  BY <1>1, <1>2, ReadyIs
<1>5. /\ l \in Lines /\ line[l].event = q.event /\ q.event \in Events /\ LineRowOf(l) \in q.has
      /\ line[l] \in LineRow /\ line[l].status \notin {"none", "removed"}
      /\ line[l].type \in Types /\ line[l].quantity \in Quantities
  BY <1>1, <1>4, LockedLine DEF OfLine
<1>6. line' = [line EXCEPT ![l] = w]
  BY <1>1, <1>3, <1>5 DEF Check, IInv, Tables, RowsTyped
<1>7. /\ w.status = line[l].status /\ w.event = line[l].event /\ w.type = line[l].type
      /\ w.quantity = line[l].quantity /\ w.short = q.short /\ w \in LineRow
  BY <1>3, <1>4, <1>5 DEF LineRow, IsTransaction
<1>8. w.short <= w.quantity /\ w.quantity - Stock[w.type] <= w.short
  <2>1. q.step = 2
    BY <1>4, PlansOf
  <2> QED
    BY <1>1, <1>4, <1>7, <2>1 DEF Judged, Plausible
<1>9. w.status \in Live =>
        \A m \in Lines \ {l} : line[m].status \in Live /\ line[m].event = w.event => line[m].type # w.type
  BY <1>5, <1>7 DEF IInv, Tables, OneLive
<1>10. Writes(r, l, w)
  BY <1>1, <1>2, <1>5, <1>6, <1>7, <1>8, <1>9 DEF Writes
<1> QED
  BY <1>2, <1>10, WritingKeeps

(* A line that is approved or rejected.                                    *)
LEMMA ReviewKeeps ==
  ASSUME IInv, NEW r \in Requests, Review(r)
  PROVE  IInv'
<1>1. PICK q, l : q = req[r] /\ l = q.line
  OBVIOUS
<1>2. Ready(r, "review") /\ End(r) /\ UNCHANGED <<reserved, event, assigned>>
  BY DEF Review
<1>3. PICK w : w = [line[l] EXCEPT !.status = q.want]
  OBVIOUS
<1>4. /\ Aims(q) /\ Taken(q) /\ q.op = "review" /\ q.todo = {} /\ q.step = Len(Plan["review"]) /\ Passes(q)
  BY <1>1, <1>2, ReadyIs
<1>5. /\ l \in Lines /\ line[l].event = q.event /\ q.event \in Events /\ LineRowOf(l) \in q.has
      /\ line[l] \in LineRow /\ line[l].type \in Types /\ line[l].quantity \in Quantities
  BY <1>1, <1>4, LockedLine DEF OfLine
<1>6. line' = [line EXCEPT ![l] = w]
  BY <1>1, <1>3, <1>5 DEF Review, IInv, Tables, RowsTyped
<1>7. q.step = 2
  BY <1>4, PlansOf
<1>8. line[l].status = "pending"
  BY <1>1, <1>4, <1>7, PassesIs DEF MayReview, LineStatus
<1>9. q.want \in {"approved", "rejected"}
  BY <1>4 DEF Aims, Wish
<1>10. /\ w.status = q.want /\ w.event = line[l].event /\ w.type = line[l].type
       /\ w.quantity = line[l].quantity /\ w.short = line[l].short /\ w \in LineRow
  BY <1>3, <1>5, <1>9 DEF LineRow, Live
<1>11. EventRowOf(q.event) \in Held(q)
  BY <1>4, <1>7 DEF Taken, Awaited
<1>12. reserved[l] = Nothing
  BY <1>5, <1>8 DEF IInv, Tables, ReservationsStand
<1>13. line[l].status \in Live
  BY <1>8 DEF Live
<1>14. w.short # Nothing => w.short <= w.quantity /\ w.quantity - Stock[w.type] <= w.short
  BY <1>5, <1>10, <1>13 DEF IInv, Tables, ChecksStillApply
<1>15. \A m \in Lines \ {l} : line[m].status \in Live /\ line[m].event = w.event => line[m].type # w.type
  BY <1>5, <1>10, <1>13 DEF IInv, Tables, OneLive
<1>16. Writes(r, l, w)
  BY <1>1, <1>2, <1>5, <1>6, <1>8, <1>10, <1>11, <1>12, <1>14, <1>15 DEF Writes
<1> QED
  BY <1>2, <1>16, WritingKeeps

(* A reservation.                                                          *)
LEMMA ReserveKeeps ==
  ASSUME IInv, NEW r \in Requests, Reserve(r)
  PROVE  IInv'
<1>1. PICK q, l : q = req[r] /\ l = q.line
  OBVIOUS
<1>2. PICK w : w = [type |-> line[l].type, quantity |-> line[l].quantity, flagged |-> FALSE]
  OBVIOUS
<1>3. /\ reserved' = [reserved EXCEPT ![l] = w] /\ line' = line /\ event' = event /\ assigned' = assigned
      /\ Ready(r, "reserve") /\ End(r)
  BY <1>1, <1>2 DEF Reserve
<1>4. /\ Aims(q) /\ Taken(q) /\ Judged(q) /\ q.op = "reserve" /\ q.todo = {} /\ q.step = Len(Plan["reserve"])
  BY <1>1, <1>3, ReadyIs
<1>5. q.step = 4 /\ q.step >= 3 /\ q.step >= 2
  <2>1. Len(Plan["reserve"]) = 4
    BY PlansOf
  <2>2. q.step = 4
    BY <1>4, <2>1
  <2> QED
    BY <2>2
<1>6. /\ l \in Lines /\ line[l].event = q.event /\ q.event \in Events /\ LineRowOf(l) \in q.has
      /\ line[l] \in LineRow /\ line[l].type \in Types /\ line[l].quantity \in Quantities
  BY <1>1, <1>4, LockedLine DEF OfLine
<1>7. /\ line[l].status = "approved" /\ event[q.event].status \in Eligible /\ reserved[l] = Nothing /\ Room(q)
  BY <1>1, <1>4, <1>5 DEF Judged
<1>8. TypeRowOf(line[l].type) \in q.has
  BY <1>1, <1>4, <1>5 DEF Taken, Awaited
<1>9. /\ w.type = line[l].type /\ w.quantity = line[l].quantity /\ w \in Reservation
  BY <1>2, <1>6 DEF Reservation
<1>10. reserved'[l] = w /\ \A m \in Lines \ {l} : reserved'[m] = reserved[m]
  BY <1>3, <1>6 DEF IInv, Tables, RowsTyped
<1>11. RowsTyped'
  BY <1>3, <1>9 DEF IInv, Tables, RowsTyped
<1>12. ReservationsStand'
  BY <1>3, <1>6, <1>7, <1>9, <1>10 DEF IInv, Tables, ReservationsStand, Eligible
<1>13. StockSuffices'
  BY <1>1, <1>2, <1>3, <1>6, <1>7, StockTaken DEF IInv, Tables
<1>14. LinesMade' /\ OneLive' /\ ChecksStillApply' /\ NoAssignmentOverlaps'
  BY <1>3 DEF IInv, Tables, LinesMade, OneLive, ChecksStillApply, NoAssignmentOverlaps, Together
<1>15. Tables'
  BY <1>11, <1>12, <1>13, <1>14 DEF Tables
<1>16. ASSUME NEW p \in Requests \ {r} PROVE Apart(req[p])
  <2>1. PICK m : m = req[p]
    OBVIOUS
  <2>2. /\ \A x : x \in q.has => x \notin Held(m)
        /\ m.op # "none" => Sound(m)
    BY <1>1, <2>1, OthersAre
  <2>3. m.op = "reserve" => m.line \in Lines /\ m.line # l
    BY <1>6, <2>2 DEF Sound, Aims, Taken, Held, OfLine, AboutLine
  <2>4. \A k \in Lines : KeepsReservation(k) \/ TypeRowOf(reserved'[k].type) \notin m.has
    BY <1>3, <1>8, <1>9, <1>10, <2>2 DEF KeepsReservation, Held
  <2>5. Apart(m)
    BY <1>3, <1>10, <2>3, <2>4 DEF Apart, Arranged, LiveLines
  <2> QED
    BY <2>1, <2>5
<1> QED
  BY <1>3, <1>15, <1>16, EndingKeeps

(* A reservation given up.                                                 *)
LEMMA ReleaseKeeps ==
  ASSUME IInv, NEW r \in Requests, Release(r)
  PROVE  IInv'
<1>1. PICK q, l : q = req[r] /\ l = q.line
  OBVIOUS
<1>2. /\ reserved' = [reserved EXCEPT ![l] = Nothing] /\ line' = line /\ event' = event /\ assigned' = assigned
      /\ Ready(r, "release") /\ End(r)
  BY <1>1 DEF Release
<1>3. Aims(q) /\ q.op = "release"
  BY <1>1, <1>2, ReadyIs
<1>4. l \in Lines
  BY <1>1, <1>3 DEF Aims, AboutLine
<1>5. reserved'[l] = Nothing /\ \A m \in Lines \ {l} : reserved'[m] = reserved[m]
  BY <1>2, <1>4 DEF IInv, Tables, RowsTyped
<1>6. RowsTyped'
  BY <1>2 DEF IInv, Tables, RowsTyped
<1>7. ReservationsStand'
  BY <1>2, <1>5 DEF IInv, Tables, ReservationsStand
<1>8. \A k \in Lines : reserved'[k] # Nothing => KeepsReservation(k)
  BY <1>2, <1>5 DEF KeepsReservation
<1>9. StockSuffices'
  BY <1>8, StockShrinks DEF IInv, Tables
<1>10. LinesMade' /\ OneLive' /\ ChecksStillApply' /\ NoAssignmentOverlaps'
  BY <1>2 DEF IInv, Tables, LinesMade, OneLive, ChecksStillApply, NoAssignmentOverlaps, Together
<1>11. Tables'
  BY <1>6, <1>7, <1>9, <1>10 DEF Tables
<1>12. ASSUME NEW p \in Requests \ {r} PROVE Apart(req[p])
  <2>1. PICK m : m = req[p]
    OBVIOUS
  <2>2. m.op # "none" => Sound(m)
    BY <1>1, <2>1, OthersAre
  <2>3. m.op = "reserve" => m.line \in Lines
    BY <2>2 DEF Sound, Aims, AboutLine
  <2>4. Apart(m)
    BY <1>2, <1>5, <1>8, <2>3 DEF Apart, Arranged, LiveLines
  <2> QED
    BY <2>1, <2>4
<1> QED
  BY <1>2, <1>11, <1>12, EndingKeeps

(* Staff who are assigned.                                                 *)
LEMMA AssignKeeps ==
  ASSUME IInv, NEW r \in Requests, Assign(r)
  PROVE  IInv'
<1>1. PICK q : q = req[r]
  OBVIOUS
<1>2. /\ assigned' = assigned \cup ({q.event} \X q.want) /\ line' = line /\ event' = event /\ reserved' = reserved
      /\ Ready(r, "assign") /\ End(r)
  BY <1>1 DEF Assign
<1>3. /\ Aims(q) /\ Taken(q) /\ Judged(q) /\ q.op = "assign" /\ q.todo = {} /\ q.step = Len(Plan["assign"])
  BY <1>1, <1>2, ReadyIs
<1>4. q.step = 3 /\ q.step >= 2
  <2>1. Len(Plan["assign"]) = 3
    BY PlansOf
  <2>2. q.step = 3
    BY <1>3, <2>1
  <2> QED
    BY <2>2
<1>5. /\ q.event \in Events /\ q.want \subseteq Staff /\ Spare(q) /\ \A s \in q.want : UserRowOf(s) \in q.has
  BY <1>3, <1>4 DEF Aims, Wish, Judged, Taken, Awaited
<1>6. RowsTyped'
  BY <1>2, <1>5 DEF IInv, Tables, RowsTyped
<1>7. ReservationsStand' /\ LinesMade' /\ OneLive' /\ ChecksStillApply'
  BY <1>2 DEF IInv, Tables, ReservationsStand, LinesMade, OneLive, ChecksStillApply
<1>8. \A k \in Lines : KeepsReservation(k)
  BY <1>2 DEF KeepsReservation
<1>9. StockSuffices'
  BY <1>8, StockShrinks DEF IInv, Tables
<1>10. NoAssignmentOverlaps'
  <2> SUFFICES ASSUME NEW e \in Events, NEW f \in Events, e # f, Together(e, f), ~event[e].moved, ~event[f].moved,
                      NEW s \in Staff, <<e, s>> \in assigned', <<f, s>> \in assigned'
               PROVE  FALSE
    BY <1>2 DEF NoAssignmentOverlaps, Together
  <2>1. ~(<<e, s>> \in assigned /\ <<f, s>> \in assigned)
    BY DEF IInv, Tables, NoAssignmentOverlaps
  <2>2. CASE <<e, s>> \notin assigned
    <3>1. e = q.event /\ s \in q.want /\ <<f, s>> \in assigned
      BY <1>2, <2>2
    <3> QED
      BY <1>5, <3>1 DEF Spare, Together, Overlap
  <2>3. CASE <<f, s>> \notin assigned
    <3>1. f = q.event /\ s \in q.want /\ <<e, s>> \in assigned
      BY <1>2, <2>3
    <3> QED
      BY <1>5, <3>1 DEF Spare, Together, Overlap
  <2> QED
    BY <2>1, <2>2, <2>3
<1>11. Tables'
  BY <1>6, <1>7, <1>9, <1>10 DEF Tables
<1>12. ASSUME NEW p \in Requests \ {r} PROVE Apart(req[p])
  <2>1. PICK m : m = req[p]
    OBVIOUS
  <2>2. \A x : x \in q.has => x \notin Held(m)
    BY <1>1, <2>1, OthersAre
  <2>3. \A e \in Events, s \in Staff : <<e, s>> \in assigned' \ assigned => UserRowOf(s) \notin m.has
    BY <1>2, <1>5, <2>2 DEF Held
  <2>4. Apart(m)
    BY <1>2, <1>8, <2>3 DEF Apart, Arranged, LiveLines
  <2> QED
    BY <2>1, <2>4
<1> QED
  BY <1>2, <1>11, <1>12, EndingKeeps

(* Somebody who is no longer assigned.                                     *)
LEMMA UnassignKeeps ==
  ASSUME IInv, NEW r \in Requests, Unassign(r)
  PROVE  IInv'
<1>1. PICK q : q = req[r]
  OBVIOUS
<1>2. /\ assigned' = assigned \ ({q.event} \X q.want) /\ line' = line /\ event' = event /\ reserved' = reserved
      /\ Ready(r, "unassign") /\ End(r)
  BY <1>1 DEF Unassign
<1>3. Aims(q) /\ Taken(q) /\ q.op = "unassign"
  BY <1>1, <1>2, ReadyIs
<1>4. EventRowOf(q.event) \in Held(q)
  BY <1>3 DEF Taken
<1>5. RowsTyped'
  BY <1>2 DEF IInv, Tables, RowsTyped
<1>6. ReservationsStand' /\ LinesMade' /\ OneLive' /\ ChecksStillApply'
  BY <1>2 DEF IInv, Tables, ReservationsStand, LinesMade, OneLive, ChecksStillApply
<1>7. \A k \in Lines : KeepsReservation(k)
  BY <1>2 DEF KeepsReservation
<1>8. StockSuffices'
  BY <1>7, StockShrinks DEF IInv, Tables
<1>9. NoAssignmentOverlaps'
  BY <1>2 DEF IInv, Tables, NoAssignmentOverlaps, Together
<1>10. Tables'
  BY <1>5, <1>6, <1>8, <1>9 DEF Tables
<1>11. ASSUME NEW p \in Requests \ {r} PROVE Apart(req[p])
  <2>1. PICK m : m = req[p]
    OBVIOUS
  <2>2. \A x : x \in m.has => x \notin Held(q)
    BY <1>1, <2>1, OthersAre
  <2>3. ASSUME NEW e \in Events, EventRowOf(e) \in m.has, Arranged(e) PROVE Arranged(e)'
    <3>1. e # q.event
      BY <1>4, <2>2, <2>3
    <3>2. \A s \in Staff : <<e, s>> \in assigned => <<e, s>> \in assigned'
      BY <1>2, <3>1
    <3> QED
      BY <1>2, <2>3, <3>2 DEF Arranged, LiveLines
  <2>4. Apart(m)
    BY <1>2, <1>7, <2>3 DEF Apart
  <2> QED
    BY <2>1, <2>4
<1> QED
  BY <1>2, <1>10, <1>11, EndingKeeps

(* The event e, which request r has, becomes w, and its reservations are   *)
(* as before, flagged or gone.                                             *)
Settles(r, e, w) ==
  /\ e \in Events /\ w \in EventRow /\ event' = [event EXCEPT ![e] = w] /\ UNCHANGED <<line, assigned>>
  /\ EventRowOf(e) \in req[r].has
  /\ w.status # "cancelled" => event[e].status # "cancelled"
  /\ w.moved \/ (w.moved = event[e].moved /\ w.at = event[e].at)
  /\ reserved' \in [Lines -> Reservation \cup {Nothing}]
  /\ \A l \in Lines : reserved'[l] # Nothing =>
       /\ reserved[l] # Nothing /\ reserved'[l].type = reserved[l].type /\ reserved'[l].quantity = reserved[l].quantity
       /\ w.status = "cancelled" => line[l].event # e
       /\ reserved'[l].flagged \/ (reserved'[l] = reserved[l] /\ (line[l].event # e \/ w.at = event[e].at))

(* Such an event keeps what the tables promise and the others rely on.     *)
LEMMA SettlingKeeps ==
  ASSUME IInv, NEW r \in Requests, NEW e, NEW w, Settles(r, e, w), End(r)
  PROVE  IInv'
<1>1. /\ e \in Events /\ w \in EventRow /\ event'[e] = w /\ \A f \in Events \ {e} : event'[f] = event[f]
      /\ line' = line /\ assigned' = assigned
  BY DEF IInv, Tables, RowsTyped, Settles
<1>2. RowsTyped'
  BY <1>1 DEF IInv, Tables, RowsTyped, Settles
<1>3. LinesMade' /\ OneLive' /\ ChecksStillApply'
  BY <1>1 DEF IInv, Tables, LinesMade, OneLive, ChecksStillApply
<1>4. ASSUME NEW l \in Lines, reserved'[l] # Nothing
      PROVE  /\ line[l].status = "approved" /\ reserved[l] # Nothing /\ line[l].event \in Events
             /\ reserved[l].type = line[l].type /\ reserved[l].quantity = line[l].quantity
             /\ event[line[l].event].status # "cancelled"
  <2>1. reserved[l] # Nothing
    BY <1>4 DEF Settles
  <2> QED
    BY <2>1 DEF IInv, Tables, ReservationsStand, LinesMade
<1>5. ReservationsStand'
  <2> SUFFICES ASSUME NEW l \in Lines, reserved'[l] # Nothing
               PROVE  /\ line'[l].status = "approved" /\ reserved'[l].type = line'[l].type
                      /\ reserved'[l].quantity = line'[l].quantity /\ event'[line'[l].event].status # "cancelled"
    BY DEF ReservationsStand
  <2>1. reserved'[l].type = reserved[l].type /\ reserved'[l].quantity = reserved[l].quantity
    BY DEF Settles
  <2>2. event'[line[l].event].status # "cancelled"
    BY <1>1, <1>4 DEF Settles
  <2> QED
    BY <1>1, <1>4, <2>1, <2>2
<1>6. ASSUME NEW l \in Lines, reserved'[l] # Nothing, ~reserved'[l].flagged PROVE KeepsReservation(l)
  BY <1>1, <1>4, <1>6 DEF Settles, KeepsReservation
<1>7. StockSuffices'
  BY <1>6, StockShrinks DEF IInv, Tables
<1>8. \A f \in Events : /\ event[f].status = "cancelled" => event'[f].status = "cancelled"
                        /\ event[f].moved => event'[f].moved
                        /\ event'[f].at = event[f].at \/ event'[f].moved
  BY <1>1 DEF Settles
<1>9. NoAssignmentOverlaps'
  <2> SUFFICES ASSUME NEW f \in Events, NEW g \in Events, f # g, Together(f, g)', ~event'[f].moved, ~event'[g].moved,
                      NEW s \in Staff, <<f, s>> \in assigned', <<g, s>> \in assigned'
               PROVE  FALSE
    BY DEF NoAssignmentOverlaps
  <2>1. /\ ~event[f].moved /\ ~event[g].moved /\ event'[f].at = event[f].at /\ event'[g].at = event[g].at
        /\ event[f].status # "cancelled" /\ event[g].status # "cancelled"
    BY <1>8 DEF Together
  <2>2. Together(f, g)
    BY <2>1 DEF Together
  <2> QED
    BY <1>1, <2>1, <2>2 DEF IInv, Tables, NoAssignmentOverlaps
<1>10. Tables'
  BY <1>2, <1>3, <1>5, <1>7, <1>9 DEF Tables
<1>11. ASSUME NEW p \in Requests \ {r} PROVE Apart(req[p])
  <2>1. PICK m, q : m = req[p] /\ q = req[r]
    OBVIOUS
  <2>2. (\A x : x \in q.has => x \notin Held(m)) /\ (m.op # "none" => Sound(m))
    BY <2>1, OthersAre
  <2>3. \A f \in Events : EventRowOf(f) \in Held(m) => event'[f] = event[f]
    BY <1>1, <2>1, <2>2 DEF Settles
  <2>4. m.op = "reserve" /\ reserved[m.line] = Nothing => reserved'[m.line] = Nothing
    <3>1. m.op = "reserve" => m.line \in Lines
      BY <2>2 DEF Sound, Aims, AboutLine
    <3> QED
      BY <1>4, <3>1
  <2>5. Apart(m)
    BY <1>1, <1>6, <1>8, <2>3, <2>4 DEF Apart, Arranged, LiveLines
  <2> QED
    BY <2>1, <2>5
<1> QED
  BY <1>10, <1>11, EndingKeeps

(* What is known of an event that a request has locked.                    *)
LEMMA LockedEvent ==
  ASSUME IInv, NEW q, Aims(q), Taken(q), q.op \in {"change_dates", "confirm", "prepare", "cancel"}
  PROVE  /\ q.event \in Events /\ EventRowOf(q.event) \in q.has /\ event[q.event] \in EventRow
BY DEF IInv, Tables, RowsTyped, Aims, Taken

(* New times.                                                              *)
LEMMA ChangeDatesKeeps ==
  ASSUME IInv, NEW r \in Requests, ChangeDates(r)
  PROVE  IInv'
<1>1. PICK q, e : q = req[r] /\ e = q.event
  OBVIOUS
<1>2. PICK w : w = [status |-> "planning", at |-> q.want, moved |-> TRUE]
  OBVIOUS
<1>3. /\ event' = [event EXCEPT ![e] = w] /\ UNCHANGED <<line, assigned>> /\ Ready(r, "change_dates") /\ End(r)
      /\ reserved' = [l \in Lines |-> IF l \in ReservedFor(e) THEN [reserved[l] EXCEPT !.flagged = TRUE]
                                      ELSE reserved[l]]
  BY <1>1, <1>2 DEF ChangeDates
<1>4. /\ Aims(q) /\ Taken(q) /\ Passes(q) /\ q.op = "change_dates"
  BY <1>1, <1>3, ReadyIs
<1>5. e \in Events /\ EventRowOf(e) \in q.has /\ event[e] \in EventRow /\ q.want \in Spans
  BY <1>1, <1>4, LockedEvent DEF Aims, Wish
<1>6. event[e].status \in Eligible
  BY <1>1, <1>4, PassesIs DEF MayChangeDates, EventStatus
<1>7. w.status = "planning" /\ w.at = q.want /\ w.moved = TRUE /\ w \in EventRow
  BY <1>2, <1>5 DEF EventRow, Eligible
<1>8. ASSUME NEW l \in Lines
      PROVE  /\ reserved'[l] \in Reservation \cup {Nothing}
             /\ reserved'[l] # Nothing =>
                  /\ reserved[l] # Nothing /\ reserved'[l].type = reserved[l].type
                  /\ reserved'[l].quantity = reserved[l].quantity
                  /\ reserved'[l].flagged \/ (reserved'[l] = reserved[l] /\ line[l].event # e)
  <2>1. CASE l \in ReservedFor(e)
    <3>1. reserved[l] # Nothing /\ reserved[l] \in Reservation
      BY <2>1 DEF ReservedFor, IInv, Tables, RowsTyped
    <3>2. reserved'[l] = [reserved[l] EXCEPT !.flagged = TRUE]
      BY <1>3, <2>1
    <3> QED
      BY <3>1, <3>2 DEF Reservation
  <2>2. CASE l \notin ReservedFor(e)
    <3>1. reserved'[l] = reserved[l]
      BY <1>3, <2>2
    <3> QED
      BY <2>2, <3>1 DEF ReservedFor, IInv, Tables, RowsTyped
  <2> QED
    BY <2>1, <2>2
<1>9. Settles(r, e, w)
  BY <1>1, <1>3, <1>5, <1>6, <1>7, <1>8 DEF Settles, Eligible
<1> QED
  BY <1>3, <1>9, SettlingKeeps

(* A new status, with the reservations as they are.                        *)
LEMMA StatusKeeps ==
  ASSUME IInv, NEW r \in Requests, NEW s \in {"confirmed", "preparation"}, SetEvent(r, s), End(r),
         UNCHANGED <<line, reserved, assigned>>,
         NEW e, e = req[r].event, e \in Events, EventRowOf(e) \in req[r].has, event[e] \in EventRow,
         event[e].status # "cancelled"
  PROVE  IInv'
<1>1. PICK w : w = [event[e] EXCEPT !.status = s]
  OBVIOUS
<1>2. event' = [event EXCEPT ![e] = w]
  BY <1>1 DEF SetEvent, IInv, Tables, RowsTyped
<1>3. w.status = s /\ w.at = event[e].at /\ w.moved = event[e].moved /\ w \in EventRow
  BY <1>1 DEF EventRow, Eligible
<1>4. Settles(r, e, w)
  BY <1>2, <1>3 DEF Settles, IInv, Tables, RowsTyped
<1> QED
  BY <1>4, SettlingKeeps

(* An event that is confirmed.                                             *)
LEMMA ConfirmKeeps ==
  ASSUME IInv, NEW r \in Requests, Confirm(r)
  PROVE  IInv'
<1>1. PICK q : q = req[r]
  OBVIOUS
<1>2. Ready(r, "confirm") /\ End(r) /\ SetEvent(r, "confirmed") /\ UNCHANGED <<line, reserved, assigned>>
  BY DEF Confirm
<1>3. /\ Aims(q) /\ Taken(q) /\ Judged(q) /\ q.op = "confirm"
  BY <1>1, <1>2, ReadyIs
<1>4. q.event \in Events /\ EventRowOf(q.event) \in q.has /\ event[q.event] \in EventRow
  BY <1>3, LockedEvent
<1>5. event[q.event].status = "planning"
  BY <1>3 DEF Judged
<1> QED
  BY <1>1, <1>2, <1>4, <1>5, StatusKeeps

(* An event that is prepared.                                              *)
LEMMA PrepareKeeps ==
  ASSUME IInv, NEW r \in Requests, Prepare(r)
  PROVE  IInv'
<1>1. PICK q : q = req[r]
  OBVIOUS
<1>2. Ready(r, "prepare") /\ End(r) /\ SetEvent(r, "preparation") /\ UNCHANGED <<line, reserved, assigned>>
  BY DEF Prepare
<1>3. /\ Aims(q) /\ Taken(q) /\ Passes(q) /\ q.op = "prepare"
  BY <1>1, <1>2, ReadyIs
<1>4. q.event \in Events /\ EventRowOf(q.event) \in q.has /\ event[q.event] \in EventRow
  BY <1>3, LockedEvent
<1>5. event[q.event].status = "confirmed"
  BY <1>3, PassesIs DEF MayPrepare, EventStatus
<1> QED
  BY <1>1, <1>2, <1>4, <1>5, StatusKeeps

(* An event that is cancelled.                                             *)
LEMMA CancelKeeps ==
  ASSUME IInv, NEW r \in Requests, Cancel(r)
  PROVE  IInv'
<1>1. PICK q, e : q = req[r] /\ e = q.event
  OBVIOUS
<1>2. PICK w : w = [event[e] EXCEPT !.status = "cancelled"]
  OBVIOUS
<1>3. /\ UNCHANGED <<line, assigned>> /\ Ready(r, "cancel") /\ End(r)
      /\ reserved' = [l \in Lines |-> IF line[l].event = e THEN Nothing ELSE reserved[l]]
      /\ SetEvent(r, "cancelled")
  BY <1>1 DEF Cancel
<1>4. /\ Aims(q) /\ Taken(q) /\ q.op = "cancel"
  BY <1>1, <1>3, ReadyIs
<1>5. e \in Events /\ EventRowOf(e) \in q.has /\ event[e] \in EventRow
  BY <1>1, <1>4, LockedEvent
<1>6. event' = [event EXCEPT ![e] = w]
  BY <1>1, <1>2, <1>3, <1>5 DEF SetEvent, IInv, Tables, RowsTyped
<1>7. w.status = "cancelled" /\ w.at = event[e].at /\ w.moved = event[e].moved /\ w \in EventRow
  BY <1>2, <1>5 DEF EventRow
<1>8. /\ reserved' \in [Lines -> Reservation \cup {Nothing}]
      /\ \A l \in Lines : reserved'[l] # Nothing => reserved'[l] = reserved[l] /\ line[l].event # e
  BY <1>3 DEF IInv, Tables, RowsTyped
<1>9. Settles(r, e, w)
  BY <1>1, <1>3, <1>5, <1>6, <1>7, <1>8 DEF Settles
<1> QED
  BY <1>3, <1>9, SettlingKeeps

-----------------------------------------------------------------------------
(***************************************************************************)
(* Theorems.                                                               *)
(***************************************************************************)

(* Before any request there is nothing in the tables.                      *)
LEMMA InitHolds == Init => IInv
<1> SUFFICES ASSUME Init PROVE IInv
  OBVIOUS
<1>1. /\ \A l \in Lines : line[l] = NoLine /\ reserved[l] = Nothing
      /\ assigned = {} /\ DOMAIN req = Requests /\ \A r \in Requests : req[r] = Idle
  BY DEF Init
<1>2. RowsTyped
  <2>1. NoLine \in LineRow
    BY DEF NoLine, LineRow
  <2>2. event \in [Events -> EventRow]
    BY DEF Init, EventRow, Eligible
  <2> QED
    BY <1>1, <2>1, <2>2 DEF RowsTyped, Init
<1>3. LinesMade /\ OneLive /\ ReservationsStand /\ ChecksStillApply
  BY <1>1 DEF LinesMade, OneLive, ReservationsStand, ChecksStillApply, NoLine, Live
<1>4. NoAssignmentOverlaps
  BY <1>1 DEF NoAssignmentOverlaps
<1>5. StockSuffices
  <2> SUFFICES ASSUME NEW y \in Types, NEW t \in Instants
               PROVE  InUse(y, t, {l \in Reserved : ~reserved[l].flagged}) <= Stock[y]
    BY DEF StockSuffices
  <2>1. Pieces(reserved, CountsAt(y, t)) = {}
    BY <1>1 DEF Pieces, CountsAt, Reserved
  <2>2. Cardinality(Pieces(reserved, CountsAt(y, t))) = 0 /\ Stock[y] \in Nat
    BY <2>1, FS_EmptySet, QuantitiesAssumption
  <2> QED
    BY <2>2, InUseIs
<1>6. RequestsSound /\ Exclusive /\ Distinct
  BY <1>1 DEF RequestsSound, Exclusive, Distinct, Idle, Held
<1> QED
  BY <1>2, <1>3, <1>4, <1>5, <1>6 DEF IInv, Tables

(* Every step keeps the invariant.                                         *)
LEMMA NextKeeps == IInv /\ [Next]_vars => IInv'
<1> SUFFICES ASSUME IInv, [Next]_vars PROVE IInv'
  OBVIOUS
<1>1. CASE UNCHANGED vars
  <2>1. UNCHANGED rowVars /\ req' = req
    BY <1>1 DEF vars, rowVars
  <2>2. Tables'
    BY <2>1, NothingChanges DEF IInv
  <2>3. RequestsSound'
    <3> SUFFICES ASSUME NEW p \in Requests, ~(req[p] = Idle)' PROVE Sound(req[p])'
      BY <2>1 DEF IInv, RequestsSound
    <3>1. PICK m : m = req'[p]
      OBVIOUS
    <3>2. Sound(m)'
      BY <2>1, <3>1, NothingChanges DEF IInv, RequestsSound
    <3>3. IsTransaction(req[p])' /\ Aims(req[p])' /\ Taken(req[p])'
      BY <3>1, <3>2 DEF Sound, IsTransaction, Aims, Taken, Held, Awaited
    <3>4. Judged(req[p])'
      BY <3>1, <3>2 DEF Sound, Judged, Plausible, Room, Rivals, Spare, Arranged
    <3> QED
      BY <3>3, <3>4 DEF Sound
  <2>4. Exclusive' /\ Distinct'
    BY <2>1 DEF IInv, Exclusive, Distinct, Held
  <2> QED
    BY <2>2, <2>3, <2>4 DEF IInv
<1>2. ASSUME NEW r \in Requests, (\E op \in Offered : Begin(r, op)) \/ Lock(r) \/ GoOn(r) PROVE IInv'
  <2>1. CASE (\E op \in Offered : Begin(r, op)) \/ Lock(r) \/ Proceed(r)
    BY <2>1, GoingOnKeeps
  <2>2. CASE Refuse(r) \/ Abort(r)
    BY <2>2, RefusalKeeps
  <2>3. CASE Commit(r)
    BY <2>3, CreateKeeps, EditKeeps, RemoveKeeps, CheckKeeps, ReviewKeeps, ReserveKeeps, ReleaseKeeps, AssignKeeps,
       UnassignKeeps, ChangeDatesKeeps, ConfirmKeeps, PrepareKeeps, CancelKeeps DEF Commit
  <2> QED
    BY <1>2, <2>1, <2>2, <2>3 DEF GoOn
<1> QED
  BY <1>1, <1>2 DEF Next

(* The invariant holds in every reachable state.                           *)
THEOREM Invariance == Spec => []IInv
BY InitHolds, NextKeeps, PTL DEF Spec

(* Every variable always has its type, whatever the instance.              *)
THEOREM TypeCorrect == Spec => []TypeOK
<1>1. IInv => TypeOK
  BY DEF IInv, Tables, RowsTyped, RequestsSound, Sound, Aims, TypeOK
<1> QED
  BY <1>1, Invariance, PTL

(* However reservations race, no more of a type is reserved at an instant  *)
(* than there is, for any number of lines, events and requests: the lock   *)
(* of the type carries what reserve counted to its commit, and each event  *)
(* has one line of a type.                                                 *)
THEOREM StockHolds == Spec => []StockSuffices
<1>1. IInv => StockSuffices
  BY DEF IInv, Tables
<1> QED
  BY <1>1, Invariance, PTL

(* A reservation always agrees with its approved line, and its event is    *)
(* not cancelled: the lock of the line and the event FOR SHARE last until  *)
(* reserve commits.                                                        *)
THEOREM ReservationsAgree == Spec => []ReservationsStand
<1>1. IInv => ReservationsStand
  BY DEF IInv, Tables
<1> QED
  BY <1>1, Invariance, PTL

(* A recorded check can always have been made for the line as it is.       *)
THEOREM ChecksCurrent == Spec => []ChecksStillApply
<1>1. IInv => ChecksStillApply
  BY DEF IInv, Tables
<1> QED
  BY <1>1, Invariance, PTL

(* However assignments race, nobody is assigned to two events at the same  *)
(* time unless the times of one of them changed: the locks of the staff    *)
(* carry what assign judged to its commit.                                 *)
THEOREM NobodyTwice == Spec => []NoAssignmentOverlaps
<1>1. IInv => NoAssignmentOverlaps
  BY DEF IInv, Tables
<1> QED
  BY <1>1, Invariance, PTL

(* A row that a request has locked FOR UPDATE, no other has at all.        *)
THEOREM LocksExclusive == Spec => []Exclusive
<1>1. IInv => Exclusive
  BY DEF IInv
<1> QED
  BY <1>1, Invariance, PTL

(* Only a confirmation confirms an event.                                  *)
LEMMA OnlyConfirmConfirms ==
  ASSUME IInv, [Next]_vars, NEW e \in Events, event[e].status # "confirmed", event'[e].status = "confirmed"
  PROVE  \E r \in Requests : Confirm(r) /\ req[r].event = e
<1>1. event \in [Events -> EventRow]
  BY DEF IInv, Tables, RowsTyped
<1>2. event' # event
  OBVIOUS
<1>3. PICK r \in Requests : ChangeDates(r) \/ Confirm(r) \/ Prepare(r) \/ Cancel(r)
  <2>1. PICK r \in Requests : (\E op \in Offered : Begin(r, op)) \/ Lock(r) \/ GoOn(r)
    BY <1>2 DEF Next, vars
  <2>2. ~(\E op \in Offered : Begin(r, op)) /\ ~Lock(r) /\ ~Proceed(r) /\ ~Refuse(r) /\ ~Abort(r)
    BY <1>2 DEF Begin, Lock, Proceed, Refuse, Abort, rowVars
  <2>3. /\ ~Create(r) /\ ~Edit(r) /\ ~Remove(r) /\ ~Check(r) /\ ~Review(r) /\ ~Reserve(r) /\ ~Release(r)
        /\ ~Assign(r) /\ ~Unassign(r)
    BY <1>2 DEF Create, Edit, Remove, Check, Review, Reserve, Release, Assign, Unassign
  <2> QED
    BY <2>1, <2>2, <2>3 DEF GoOn, Commit
<1>4. PICK f, w : /\ f = req[r].event /\ event' = [event EXCEPT ![f] = w]
                  /\ w.status = "confirmed" => Confirm(r)
  <2>1. PICK f : f = req[r].event
    OBVIOUS
  <2>2. CASE ChangeDates(r)
    <3>1. PICK w : w = [status |-> "planning", at |-> req[r].want, moved |-> TRUE]
      OBVIOUS
    <3>2. event' = [event EXCEPT ![f] = w]
      BY <2>1, <2>2, <3>1 DEF ChangeDates
    <3>3. w.status # "confirmed"
      BY <3>1
    <3> QED
      BY <2>1, <3>2, <3>3
  <2>3. CASE Confirm(r) \/ Prepare(r) \/ Cancel(r)
    <3>1. PICK s : /\ event' = [event EXCEPT ![f].status = s]
                   /\ (s = "confirmed" /\ Confirm(r)) \/ s \in {"preparation", "cancelled"}
      BY <2>1, <2>3 DEF Confirm, Prepare, Cancel, SetEvent
    <3>2. PICK w : w = [event[f] EXCEPT !.status = s]
      OBVIOUS
    <3>3. f \in Events => w.status = s
      BY <1>1, <3>2 DEF EventRow
    <3>4. f \in Events
      BY <1>1, <1>2, <3>1
    <3> QED
      BY <2>1, <3>1, <3>2, <3>3, <3>4
  <2> QED
    BY <1>3, <2>2, <2>3
<1>5. f = e /\ event'[e] = w
  BY <1>1, <1>4
<1> QED
  BY <1>4, <1>5

(* What confirm judged holds at the moment the event becomes confirmed,    *)
(* for any number of lines, staff and requests.                            *)
THEOREM ConfirmedArranged == Spec => ConfirmedAsArranged
<1>1. IInv /\ [Next]_vars =>
        [\A e \in Events : event[e].status # "confirmed" /\ event'[e].status = "confirmed" =>
           /\ \A l \in LiveLines(e) : line[l].status = "approved"
           /\ LiveLines(e) # {} => \E s \in Staff : <<e, s>> \in assigned]_vars
  <2> SUFFICES ASSUME IInv, [Next]_vars, NEW e \in Events,
                      event[e].status # "confirmed", event'[e].status = "confirmed"
               PROVE  Arranged(e)
    BY DEF Arranged
  <2>1. PICK r \in Requests : Confirm(r) /\ req[r].event = e
    BY OnlyConfirmConfirms
  <2>2. PICK q : q = req[r]
    OBVIOUS
  <2>3. Judged(q) /\ q.op = "confirm" /\ q.step = Len(Plan["confirm"])
    BY <2>1, <2>2, ReadyIs DEF Confirm
  <2>4. q.step = 3
    BY <2>3, PlansOf
  <2> QED
    BY <2>1, <2>2, <2>3, <2>4 DEF Judged
<1> QED
  BY <1>1, Invariance, PTL DEF Spec, ConfirmedAsArranged
=============================================================================
