---------------------------- MODULE NoticesProofs ----------------------------
(***************************************************************************)
(* Theorems about Notices, for every set of users with any roles, every    *)
(* organiser, capacity and set of requests.                                *)
(*                                                                         *)
(* The layers of the argument, in this order:                              *)
(*   Lists         a list of notices for a set of people tells each of     *)
(*                 them once                                               *)
(*   IInv          the tables, what each request has said and will say     *)
(*                 (Speaks), what it relies on while it is open (Stands),  *)
(*                 and who knows of the requests to be decided (Known)     *)
(*   what is gathered and looked up is well formed and owes nobody         *)
(*   steps         those that tell or fail to, the lookups, the commits    *)
(*   theorems      the properties follow from IInv                         *)
(***************************************************************************)
EXTENDS Notices, FiniteSetTheorems, TLAPS

-----------------------------------------------------------------------------
(***************************************************************************)
(* The inductive invariant: the tables.                                    *)
(***************************************************************************)

Notes == [kind : Kinds, to : Users]
Statuses == {"draft", "rejected", "cancelled"} \cup Requestable

Tables ==
  /\ event \in [status : Statuses, coordinator : Coordinators \cup {Nobody}, venue : BOOLEAN,
                reserved : BOOLEAN, staff : SUBSET Users, open : SUBSET Requests,
                going : [Attendees -> {"none"} \cup InLine]]
  /\ op \in [Requests -> [kind : Operations \cup {Nobody}, who : Users \cup {Nobody}, stage : Stages,
                          now : Seq(Notes), later : Seq(Notes)]]
  /\ told \in [Requests -> Seq(Notes)]
  /\ untold \in [Requests -> SUBSET Notes]
  /\ log \in Seq(Requests)

(* An event that is assigned has a coordinator, who did not create it.     *)
Managed ==
  /\ event.status \in Assigned => event.coordinator # Nobody
  /\ event.coordinator # Organiser

-----------------------------------------------------------------------------
(***************************************************************************)
(* The inductive invariant: what a request has said and will say.          *)
(***************************************************************************)

(* Operations that look nobody up after their commit, and those whose      *)
(* notices somebody relies on.                                             *)
Quiet == {"review_safety", "ask_safety_changes", "ask_cancellation", "cancel", "approve_change",
          "reject_change", "record_period", "end_period", "sweep_hold", "assign_staff", "register",
          "join", "withdraw"}
Asking == {"ask_change", "ask_cancellation"}
Appointing == {"assign", "reassign"}
Minded == {"cancel"} \cup Asking \cup Appointing

(* A notice that an operation does not look up later.                      *)
Clear(kind, n) ==
  CASE kind \in Appointing -> n.to # Organiser
    [] kind = "approve_replacement" -> n.kind = "venue_changed"
    [] kind \in Quiet -> TRUE
    [] OTHER -> FALSE

(* Who a request is about, once it has begun.                              *)
Aimed(r) ==
  /\ op[r].kind \in Operations
  /\ op[r].kind \in Appointing => op[r].who \in (Coordinators \cap Active) \ {Organiser}
  /\ op[r].kind \in ForSeats => op[r].who \in Attendees
  /\ op[r].kind \in {"assign_staff", "review_line"} => op[r].who \in Users

(* What a request has left to say at each stage, and whether it committed. *)
Phase(r) ==
  /\ op[r].stage # "idle" => Aimed(r)
  /\ op[r].stage = "idle" => told[r] = <<>>
  /\ op[r].stage # "open" => op[r].later = <<>>
  /\ op[r].stage \in {"idle", "refused", "crashed"} => op[r].now = <<>>
  /\ op[r].stage \in {"idle", "open", "refused"} => r \notin ToSet(log)
  /\ op[r].stage \in {"committed", "telling"} => r \in ToSet(log)

Said(r) == ToSet(told[r]) \cup ToSet(op[r].now) \cup ToSet(op[r].later)

(* It says nothing twice.                                                  *)
Once(r) ==
  /\ IsInjective(told[r]) /\ IsInjective(op[r].now) /\ IsInjective(op[r].later)
  /\ ToSet(told[r]) \cap ToSet(op[r].now) = {}
  /\ (ToSet(told[r]) \cup ToSet(op[r].now)) \cap ToSet(op[r].later) = {}

(* Before its commit it only tells of an offer; until it has looked people *)
(* up it has told none of them; and nobody loses a notice that matters to  *)
(* another's failure.                                                      *)
Speaks(r) ==
  /\ Phase(r)
  /\ Once(r)
  /\ r \notin ToSet(log) => \A n \in ToSet(told[r]) \cup ToSet(op[r].now) : n.kind = "waitlist_offer"
  /\ op[r].stage \in {"open", "committed"} => \A n \in Said(r) : Clear(op[r].kind, n)
  /\ op[r].kind \in Minded =>
       \A n \in ToSet(op[r].now) \cup ToSet(op[r].later) : n.kind \notin OneTry

-----------------------------------------------------------------------------
(***************************************************************************)
(* The inductive invariant: what a request relies on and promises.         *)
(***************************************************************************)

(* The statuses an operation finds, which its lock keeps.                  *)
Finds(kind) ==
  CASE kind = "submit" -> {"draft"}
    [] kind = "assign" -> {"submitted"}
    [] kind = "decide_request" -> {"under_review"}
    [] kind = "confirm" -> {"planning"}
    [] kind \in {"reassign", "approve_change"} -> Assigned
    [] kind \in {"cancel", "record_period", "assign_staff"} -> Cancellable
    [] kind \in {"register", "join"} -> {"confirmed"}
    [] OTHER -> Statuses

Deciders == IF event.coordinator \in Active THEN {event.coordinator} ELSE With("coordinator_lead")
Involved == {Organiser} \cup (event.staff \cap Active) \cup Going
All(kind, S) == {Notice(kind, u) : u \in S}

(* What an operation owes whom, the way the event stands.                  *)
Owed(kind, who) ==
  CASE kind = "cancel" -> All("event_cancelled", Involved)
    [] kind = "assign" -> {Notice("assignment_made", who)}
    [] kind = "reassign" -> {Notice("event_reassigned", who)}
    [] kind = "ask_cancellation" -> All("cancellation_requested", Deciders)
    [] OTHER -> {}

Due(r) == Owed(op[r].kind, op[r].who)

Handled(r) == ToSet(op[r].now) \cup ToSet(told[r]) \cup untold[r]
Informed(r, N) == op[r].stage = "crashed" \/ N \subseteq Handled(r)

Stands(r) ==
  /\ op[r].stage = "open" => event.status \in Finds(op[r].kind) /\ Due(r) \subseteq ToSet(op[r].later)
  /\ r \in ToSet(log) =>
       /\ op[r].kind \in {"cancel"} \cup Appointing => Informed(r, Due(r))
       /\ op[r].kind = "cancel" => event.status = "cancelled"

(* No two open requests exclude each other.                                *)
Locked ==
  \A q, r \in Requests :
    q # r /\ op[q].stage = "open" /\ op[r].stage = "open" => ~Excludes(op[q].kind, op[r].kind)

(* Somebody was appointed after q, and hears of it.                        *)
Succeeded(q, u) ==
  \E r \in Requests :
    Before(q, r) /\ op[r].kind \in Appointing /\ op[r].who = u /\ Informed(r, Due(r))

(* Whoever decides on the open request q knows of it or will, unless q is  *)
(* still to look them up.                                                  *)
Known(q) ==
  /\ q \in ToSet(log) /\ op[q].kind \in Asking
  /\ \/ op[q].kind = "ask_change" /\ op[q].stage = "committed"
     \/ Informed(q, All(AskedKind(q), Deciders))
     \/ event.coordinator \in Active /\ Succeeded(q, event.coordinator)

IInv ==
  /\ Tables
  /\ Managed
  /\ Locked
  /\ \A r \in Requests : Speaks(r) /\ Stands(r)
  /\ \A q \in event.open : Known(q)

-----------------------------------------------------------------------------
(***************************************************************************)
(* Lists.                                                                  *)
(***************************************************************************)

(* s lists the members of S, each once.                                    *)
Lists(s, S) == ToSet(s) = S /\ IsInjective(s)

(* An empty list.                                                          *)
LEMMA EmptyList == Lists(<<>>, {})
BY DEF Lists, ToSet, IsInjective

(* What is left of a list when its head is taken.                          *)
LEMMA TailLists ==
  ASSUME NEW T, NEW s \in Seq(T), s # <<>>
  PROVE  /\ Head(s) \in T /\ Tail(s) \in Seq(T)
         /\ ToSet(s) = {Head(s)} \cup ToSet(Tail(s))
         /\ IsInjective(s) => IsInjective(Tail(s)) /\ Head(s) \notin ToSet(Tail(s))
<1>1. /\ Head(s) = s[1] /\ Tail(s) \in Seq(T) /\ Len(s) \in Nat /\ Len(s) # 0
      /\ DOMAIN s = 1..Len(s) /\ DOMAIN Tail(s) = 1..(Len(s) - 1)
      /\ \A i \in 1..(Len(s) - 1) : Tail(s)[i] = s[i + 1]
  OBVIOUS
<1>2. ToSet(s) \subseteq {Head(s)} \cup ToSet(Tail(s))
  <2> SUFFICES ASSUME NEW i \in 1..Len(s), i # 1
               PROVE  s[i] \in ToSet(Tail(s))
    BY <1>1 DEF ToSet
  <2>1. i - 1 \in 1..(Len(s) - 1) /\ (i - 1) + 1 = i
    BY <1>1
  <2>2. Tail(s)[i - 1] = s[i]
    BY <1>1, <2>1
  <2> QED
    BY <1>1, <2>1, <2>2 DEF ToSet
<1>3. {Head(s)} \cup ToSet(Tail(s)) \subseteq ToSet(s)
  BY <1>1 DEF ToSet
<1>4. ASSUME IsInjective(s)
      PROVE  IsInjective(Tail(s)) /\ Head(s) \notin ToSet(Tail(s))
  <2>1. \A i, j \in 1..Len(s) : s[i] = s[j] => i = j
    BY <1>1, <1>4 DEF IsInjective
  <2>2. \A i \in 1..(Len(s) - 1) : i + 1 \in 1..Len(s) /\ i + 1 # 1
    BY <1>1
  <2>3. ASSUME NEW i \in 1..(Len(s) - 1), NEW j \in 1..(Len(s) - 1), Tail(s)[i] = Tail(s)[j]
        PROVE  i = j
    <3>1. i + 1 = j + 1
      BY <1>1, <2>1, <2>2, <2>3
    <3> QED
      BY <3>1
  <2>4. Head(s) \notin ToSet(Tail(s))
    BY <1>1, <2>1, <2>2 DEF ToSet
  <2> QED
    BY <1>1, <2>3, <2>4 DEF IsInjective
<1> QED
  BY <1>1, <1>2, <1>3, <1>4

(* One more at the end.                                                    *)
LEMMA AppendLists ==
  ASSUME NEW T, NEW s \in Seq(T), NEW e \in T
  PROVE  /\ Append(s, e) \in Seq(T)
         /\ ToSet(Append(s, e)) = ToSet(s) \cup {e}
         /\ IsInjective(s) /\ e \notin ToSet(s) => IsInjective(Append(s, e))
<1>1. /\ Append(s, e) \in Seq(T) /\ Len(s) \in Nat
      /\ DOMAIN s = 1..Len(s) /\ DOMAIN Append(s, e) = 1..(Len(s) + 1)
      /\ \A i \in 1..Len(s) : Append(s, e)[i] = s[i]
      /\ Append(s, e)[Len(s) + 1] = e
  OBVIOUS
<1>2. \A i \in 1..(Len(s) + 1) : i \in 1..Len(s) \/ i = Len(s) + 1
  BY <1>1
<1>3. \A i \in 1..Len(s) : i \in 1..(Len(s) + 1) /\ i # Len(s) + 1
  BY <1>1
<1>4. Len(s) + 1 \in 1..(Len(s) + 1)
  BY <1>1
<1>5. ToSet(Append(s, e)) = ToSet(s) \cup {e}
  BY <1>1, <1>2, <1>3, <1>4 DEF ToSet
<1>6. IsInjective(s) /\ e \notin ToSet(s) => IsInjective(Append(s, e))
  BY <1>1, <1>2, <1>3 DEF IsInjective, ToSet
<1> QED
  BY <1>1, <1>5, <1>6

(* One list after another.                                                 *)
LEMMA JoinLists ==
  ASSUME NEW T, NEW s \in Seq(T), NEW t \in Seq(T)
  PROVE  /\ s \o t \in Seq(T)
         /\ ToSet(s \o t) = ToSet(s) \cup ToSet(t)
         /\ IsInjective(s) /\ IsInjective(t) /\ ToSet(s) \cap ToSet(t) = {} => IsInjective(s \o t)
<1>1. /\ s \o t \in Seq(T) /\ Len(s) \in Nat /\ Len(t) \in Nat
      /\ DOMAIN s = 1..Len(s) /\ DOMAIN t = 1..Len(t)
      /\ DOMAIN (s \o t) = 1..(Len(s) + Len(t))
      /\ \A i \in 1..Len(s) : (s \o t)[i] = s[i]
      /\ \A i \in (Len(s) + 1)..(Len(s) + Len(t)) : (s \o t)[i] = t[i - Len(s)]
  OBVIOUS
<1>2. \A i \in 1..(Len(s) + Len(t)) :
        \/ i \in 1..Len(s)
        \/ i \in (Len(s) + 1)..(Len(s) + Len(t)) /\ i - Len(s) \in 1..Len(t)
  BY <1>1
<1>3. \A i \in 1..Len(s) : i \in 1..(Len(s) + Len(t))
  BY <1>1
<1>4. \A i \in 1..Len(t) : /\ i + Len(s) \in (Len(s) + 1)..(Len(s) + Len(t))
                           /\ i + Len(s) \in 1..(Len(s) + Len(t))
                           /\ (i + Len(s)) - Len(s) = i
  BY <1>1
<1>5. ToSet(s \o t) \subseteq ToSet(s) \cup ToSet(t)
  BY <1>1, <1>2 DEF ToSet
<1>6. ToSet(s) \subseteq ToSet(s \o t)
  BY <1>1, <1>3 DEF ToSet
<1>7. ToSet(t) \subseteq ToSet(s \o t)
  <2> SUFFICES ASSUME NEW i \in 1..Len(t)
               PROVE  t[i] \in ToSet(s \o t)
    BY <1>1 DEF ToSet
  <2>1. (s \o t)[i + Len(s)] = t[i]
    BY <1>1, <1>4
  <2> QED
    BY <1>1, <1>4, <2>1 DEF ToSet
<1>8. ASSUME IsInjective(s), IsInjective(t), ToSet(s) \cap ToSet(t) = {},
             NEW i \in 1..(Len(s) + Len(t)), NEW j \in 1..(Len(s) + Len(t)), (s \o t)[i] = (s \o t)[j]
      PROVE  i = j
  <2>1. /\ \A k \in 1..Len(s) : s[k] \in ToSet(s)
        /\ \A k \in 1..Len(t) : t[k] \in ToSet(t)
    BY <1>1 DEF ToSet
  <2>2. CASE i \in 1..Len(s) /\ j \in 1..Len(s)
    BY <1>1, <1>8, <2>2 DEF IsInjective
  <2>3. CASE /\ i \in (Len(s) + 1)..(Len(s) + Len(t)) /\ i - Len(s) \in 1..Len(t)
             /\ j \in (Len(s) + 1)..(Len(s) + Len(t)) /\ j - Len(s) \in 1..Len(t)
    <3>1. t[i - Len(s)] = t[j - Len(s)]
      BY <1>1, <1>8, <2>3
    <3>2. i - Len(s) = j - Len(s)
      BY <1>1, <1>8, <2>3, <3>1 DEF IsInjective
    <3> QED
      BY <1>1, <2>3, <3>2
  <2>4. CASE i \in 1..Len(s) /\ j \in (Len(s) + 1)..(Len(s) + Len(t)) /\ j - Len(s) \in 1..Len(t)
    <3>1. s[i] = t[j - Len(s)]
      BY <1>1, <1>8, <2>4
    <3> QED
      BY <1>8, <2>1, <2>4, <3>1
  <2>5. CASE j \in 1..Len(s) /\ i \in (Len(s) + 1)..(Len(s) + Len(t)) /\ i - Len(s) \in 1..Len(t)
    <3>1. s[j] = t[i - Len(s)]
      BY <1>1, <1>8, <2>5
    <3> QED
      BY <1>8, <2>1, <2>5, <3>1
  <2> QED
    BY <1>2, <2>2, <2>3, <2>4, <2>5
<1>9. IsInjective(s) /\ IsInjective(t) /\ ToSet(s) \cap ToSet(t) = {} => IsInjective(s \o t)
  BY <1>1, <1>8 DEF IsInjective
<1> QED
  BY <1>1, <1>5, <1>6, <1>7, <1>9

(* What is left of a list when some at its front are dropped.              *)
LEMMA DropLists ==
  ASSUME NEW T, NEW s \in Seq(T), NEW n \in Nat
  PROVE  /\ SubSeq(s, n + 1, Len(s)) \in Seq(T)
         /\ ToSet(SubSeq(s, n + 1, Len(s))) \subseteq ToSet(s)
         /\ IsInjective(s) => IsInjective(SubSeq(s, n + 1, Len(s)))
<1> DEFINE d == SubSeq(s, n + 1, Len(s))
<1>1. CASE n > Len(s)
  <2>1. d \in Seq(T) /\ Len(d) = 0
    BY <1>1
  <2>2. d = <<>>
    BY <2>1
  <2> QED
    BY <2>1, <2>2, EmptyList DEF Lists
<1>2. CASE n <= Len(s)
  <2>1. /\ d \in Seq(T) /\ Len(s) \in Nat /\ DOMAIN s = 1..Len(s) /\ DOMAIN d = 1..(Len(s) - n)
        /\ \A i \in 1..(Len(s) - n) : d[i] = s[i + n]
    BY <1>2
  <2>2. \A i \in 1..(Len(s) - n) : i + n \in 1..Len(s)
    BY <1>2, <2>1
  <2> HIDE DEF d
  <2>3. ToSet(d) \subseteq ToSet(s)
    BY <2>1, <2>2 DEF ToSet
  <2>4. ASSUME IsInjective(s), NEW i \in 1..(Len(s) - n), NEW j \in 1..(Len(s) - n), d[i] = d[j]
        PROVE  i = j
    <3>1. i + n = j + n
      BY <2>1, <2>2, <2>4 DEF IsInjective
    <3> QED
      BY <2>1, <3>1
  <2>5. IsInjective(s) => IsInjective(d)
    BY <2>1, <2>4 DEF IsInjective
  <2> QED
    BY <2>1, <2>3, <2>5 DEF d
<1> QED
  BY <1>1, <1>2

(* A finite set can be listed.                                             *)
LEMMA SetsLists ==
  ASSUME NEW S, IsFiniteSet(S)
  PROVE  SetToSeq(S) \in Seq(S) /\ Lists(SetToSeq(S), S)
<1> DEFINE n == Cardinality(S)
<1>1. n \in Nat /\ ExistsBijection(1..n, S)
  BY FS_CardinalityType
<1>2. PICK f \in Bijection(1..n, S) : TRUE
  BY <1>1 DEF ExistsBijection
<1>3. f \in [1..n -> S] /\ IsInjective(f)
  BY <1>2 DEF Bijection, Injection, Surjection
<1>4. SetToSeq(S) \in [1..n -> S] /\ IsInjective(SetToSeq(S))
  BY <1>3 DEF SetToSeq
<1>5. SetToSeq(S) \in Injection(1..n, S)
  BY <1>4 DEF Injection
<1>6. Cardinality(1..n) = n
  <2>1. \A m \in Nat : Cardinality(1..m) = m
    BY FS_Interval
  <2> QED
    BY <1>1, <2>1
<1>7. SetToSeq(S) \in Surjection(1..n, S)
  BY <1>5, <1>6, FS_Injection
<1>8. ToSet(SetToSeq(S)) = S
  BY <1>4, <1>7 DEF ToSet, Surjection
<1>9. SetToSeq(S) \in Seq(S)
  BY <1>1, <1>4
<1> QED
  BY <1>4, <1>8, <1>9 DEF Lists

(* A list names finitely many.                                             *)
LEMMA ListsFinite ==
  ASSUME NEW T, NEW s \in Seq(T)
  PROVE  IsFiniteSet(ToSet(s)) /\ ToSet(s) \subseteq T
<1>1. s \in [1..Len(s) -> T] /\ Len(s) \in Nat
  OBVIOUS
<1>2. ToSet(s) \subseteq T
  BY <1>1 DEF ToSet
<1>3. s \in Surjection(1..Len(s), ToSet(s))
  BY <1>1 DEF Surjection, ToSet
<1>4. \A m \in Nat : IsFiniteSet(1..m)
  BY FS_Interval
<1> QED
  BY <1>1, <1>2, <1>3, <1>4, FS_Surjection

(* Everybody in a list, once.                                              *)
LEMMA EachLists ==
  ASSUME NEW T, NEW s \in Seq(T)
  PROVE  EachOnce(s) \in Seq(T) /\ Lists(EachOnce(s), ToSet(s))
<1>1. IsFiniteSet(ToSet(s)) /\ ToSet(s) \subseteq T
  BY ListsFinite
<1>2. EachOnce(s) \in Seq(ToSet(s)) /\ Lists(EachOnce(s), ToSet(s))
  BY <1>1, SetsLists DEF EachOnce
<1>3. Seq(ToSet(s)) \subseteq Seq(T)
  BY <1>1
<1> QED
  BY <1>2, <1>3

(* A notice to each of some users.                                         *)
LEMMA NoticesLists ==
  ASSUME NEW kind \in Kinds, NEW S \in SUBSET Users
  PROVE  /\ Notices(kind, S) \in Seq(Notes)
         /\ Lists(Notices(kind, S), All(kind, S))
         /\ All(kind, S) \subseteq Notes
<1>1. IsFiniteSet(S)
  BY FiniteAssumption, FS_Subset
<1> DEFINE f == SetToSeq(S)
<1>2. f \in Seq(S) /\ ToSet(f) = S /\ IsInjective(f)
  BY <1>1, SetsLists DEF Lists
<1> HIDE DEF f
<1>3. Notices(kind, S) = [i \in DOMAIN f |-> Notice(kind, f[i])]
  BY DEF Notices, f
<1>4. DOMAIN f = 1..Len(f) /\ Len(f) \in Nat /\ \A i \in 1..Len(f) : f[i] \in Users
  BY <1>2
<1>5. \A i \in 1..Len(f) : Notice(kind, f[i]) \in Notes
  BY <1>4 DEF Notice, Notes
<1>6. Notices(kind, S) \in Seq(Notes)
  BY <1>3, <1>4, <1>5
<1>7. IsInjective(Notices(kind, S))
  BY <1>2, <1>3, <1>4 DEF IsInjective, Notice
<1>8. ToSet(Notices(kind, S)) = All(kind, S)
  BY <1>2, <1>3, <1>4 DEF ToSet, All
<1>9. All(kind, S) \subseteq Notes
  BY DEF All, Notes, Notice
<1> QED
  BY <1>6, <1>7, <1>8, <1>9 DEF Lists

-----------------------------------------------------------------------------
(***************************************************************************)
(* What is gathered.                                                       *)
(***************************************************************************)

(* A list of notices of the kinds K, without repetition.                   *)
Tells(s, K) == s \in Seq(Notes) /\ IsInjective(s) /\ \A n \in ToSet(s) : n.kind \in K

LEMMA TellsNobody == ASSUME NEW K PROVE Tells(<<>>, K)
BY EmptyList DEF Tells, Lists

LEMMA TellsSome ==
  ASSUME NEW kind \in Kinds, NEW S \in SUBSET Users
  PROVE  /\ Tells(Notices(kind, S), {kind})
         /\ ToSet(Notices(kind, S)) = All(kind, S)
         /\ \A n \in ToSet(Notices(kind, S)) : n.to \in S
BY NoticesLists DEF Tells, Lists, All, Notice

LEMMA TellsBoth ==
  ASSUME NEW s, NEW t, NEW K, NEW L, Tells(s, K), Tells(t, L)
  PROVE  /\ ToSet(s) \cap ToSet(t) = {} => Tells(s \o t, K \cup L)
         /\ K \cap L = {} => Tells(s \o t, K \cup L)
         /\ ToSet(s \o t) = ToSet(s) \cup ToSet(t)
<1>1. /\ s \o t \in Seq(Notes) /\ ToSet(s \o t) = ToSet(s) \cup ToSet(t)
      /\ ToSet(s) \cap ToSet(t) = {} => IsInjective(s \o t)
  BY JoinLists DEF Tells
<1>2. K \cap L = {} => ToSet(s) \cap ToSet(t) = {}
  BY DEF Tells
<1> QED
  BY <1>1, <1>2 DEF Tells

LEMMA TellsEach ==
  ASSUME NEW s, NEW K, s \in Seq(Notes), \A n \in ToSet(s) : n.kind \in K
  PROVE  Tells(EachOnce(s), K) /\ ToSet(EachOnce(s)) = ToSet(s)
BY EachLists DEF Tells, Lists

(* Every kind a service tells of is one.                                   *)
LEMMA KindsTold ==
  /\ RequestNotices \cup BookingNotices \cup AssignmentNotices \cup ArrangementNotices \subseteq Kinds
  /\ ReviewNotices \cup ChangeNotices \cup VenueNotices \subseteq Kinds
BY DEF Kinds

(* Those who have a role, and who are going, are users.                    *)
LEMMA PeopleAreUsers ==
  ASSUME Tables
  PROVE  /\ Active \subseteq Users /\ Organiser \in Users /\ \A role : With(role) \subseteq Users
         /\ Going \subseteq Users /\ event.staff \subseteq Users /\ {event.coordinator} \cap Active \subseteq Users
         /\ Coordinators \subseteq Users /\ Attendees \subseteq Users /\ Deciders \subseteq Users
BY UsersAssumption, OrganiserAssumption DEF Tables, With, Going, Coordinators, Attendees, Deciders

(* An assigned event's coordinator is a user, and not its organiser.       *)
LEMMA CoordinatorIsUser ==
  ASSUME Tables, Managed
  PROVE  /\ event.status \in Assigned => {event.coordinator} \subseteq Users
         /\ event.coordinator # Organiser
         /\ Cancellable \subseteq Assigned
<1>1. event.coordinator \in Coordinators \cup {Nobody} /\ Coordinators \subseteq Users
  BY DEF Tables, Coordinators
<1> QED
  BY <1>1 DEF Managed, Cancellable, Assigned

(* What an operation gathers in its transaction.                           *)
Fits(kind, s) ==
  /\ s \in Seq(Notes) /\ IsInjective(s)
  /\ \A n \in ToSet(s) : Clear(kind, n) /\ (kind \in Minded => n.kind \notin OneTry)

(* For an operation that looks nobody up and that nobody relies on, any    *)
(* list fits.                                                              *)
LEMMA FitsQuiet ==
  ASSUME NEW kind \in Quiet \ Minded, NEW s, NEW K, Tells(s, K)
  PROVE  Fits(kind, s)
BY DEF Fits, Tells, Clear, Quiet, Appointing

(* A change that is decided, and the arrangements it makes doubtful.       *)
LEMMA ChangesTold ==
  ASSUME Tables, NEW who, NEW approved \in BOOLEAN
  PROVE  /\ Tells(ChangeDecided(who, approved), {"change_request_decided"})
         /\ Tells(Flagged, {"booking_flagged", "reservation_flagged"})
         /\ Tells(ChangeDecided(who, approved) \o Flagged,
                  {"change_request_decided"} \cup {"booking_flagged", "reservation_flagged"})
<1>1. {"change_request_decided", "booking_flagged", "reservation_flagged"} \subseteq Kinds
  BY KindsTold DEF ChangeNotices
<1>2. Tells(ChangeDecided(who, approved), {"change_request_decided"})
  <2> DEFINE s == Notices("change_request_decided", {who} \cap Active)
             t == IF approved /\ who # Organiser THEN ForOrganiser("change_request_decided") ELSE <<>>
  <2>1. Tells(s, {"change_request_decided"}) /\ \A n \in ToSet(s) : n.to \in {who}
    <3>1. {who} \cap Active \in SUBSET Users
      BY UsersAssumption
    <3> QED
      BY <1>1, <3>1, TellsSome
  <2>2. Tells(t, {"change_request_decided"}) /\ \A n \in ToSet(t) : who # Organiser /\ n.to \in {Organiser}
    <3>1. CASE approved /\ who # Organiser
      <4>1. {Organiser} \in SUBSET Users
        BY PeopleAreUsers
      <4>2. t = Notices("change_request_decided", {Organiser})
        BY <3>1 DEF ForOrganiser
      <4> QED
        BY <1>1, <3>1, <4>1, <4>2, TellsSome
    <3>2. CASE ~(approved /\ who # Organiser)
      BY <3>2, TellsNobody, EmptyList DEF Lists
    <3> QED
      BY <3>1, <3>2
  <2>3. ToSet(s) \cap ToSet(t) = {}
    BY <2>1, <2>2
  <2>4. ChangeDecided(who, approved) = s \o t
    BY DEF ChangeDecided
  <2> HIDE DEF s, t
  <2>5. Tells(s \o t, {"change_request_decided"} \cup {"change_request_decided"})
    BY <2>1, <2>2, <2>3, TellsBoth
  <2> QED
    BY <2>4, <2>5 DEF Tells
<1>3. Tells(Flagged, {"booking_flagged", "reservation_flagged"})
  <2> DEFINE s == IF event.venue THEN VenueStaff("booking_flagged") ELSE <<>>
             t == IF event.reserved THEN Notices("reservation_flagged", With("tech_support")) ELSE <<>>
  <2>1. With("venue_staff") \in SUBSET Users /\ With("tech_support") \in SUBSET Users
    BY PeopleAreUsers
  <2>2. Tells(s, {"booking_flagged"})
    BY <1>1, <2>1, TellsSome, TellsNobody DEF VenueStaff
  <2>3. Tells(t, {"reservation_flagged"})
    BY <1>1, <2>1, TellsSome, TellsNobody
  <2>4. Flagged = s \o t
    BY DEF Flagged
  <2> HIDE DEF s, t
  <2>5. {"booking_flagged"} \cap {"reservation_flagged"} = {}
    OBVIOUS
  <2>6. Tells(s \o t, {"booking_flagged"} \cup {"reservation_flagged"})
    BY <2>2, <2>3, <2>5, TellsBoth
  <2> QED
    BY <2>4, <2>6 DEF Tells
<1>4. {"change_request_decided"} \cap {"booking_flagged", "reservation_flagged"} = {}
  OBVIOUS
<1> QED
  BY <1>2, <1>3, <1>4, TellsBoth

(* Everybody a cancellation concerns.                                      *)
LEMMA CancellationTold ==
  ASSUME Tables
  PROVE  Tells(Cancelled, {"event_cancelled"}) /\ All("event_cancelled", Involved) \subseteq ToSet(Cancelled)
<1> DEFINE a == ForOrganiser("event_cancelled")
           b == IF event.venue THEN VenueStaff("event_cancelled") ELSE <<>>
           c == Notices("event_cancelled", event.staff \cap Active)
           d == Notices("event_cancelled", Going)
<1>1. "event_cancelled" \in Kinds
  BY KindsTold DEF ReviewNotices
<1>2. /\ {Organiser} \in SUBSET Users /\ With("venue_staff") \in SUBSET Users
      /\ event.staff \cap Active \in SUBSET Users /\ Going \in SUBSET Users
  BY PeopleAreUsers
<1>3. Tells(a, {"event_cancelled"}) /\ ToSet(a) = All("event_cancelled", {Organiser})
  BY <1>1, <1>2, TellsSome DEF ForOrganiser
<1>4. Tells(b, {"event_cancelled"})
  BY <1>1, <1>2, TellsSome, TellsNobody DEF VenueStaff
<1>5. Tells(c, {"event_cancelled"}) /\ ToSet(c) = All("event_cancelled", event.staff \cap Active)
  BY <1>1, <1>2, TellsSome
<1>6. Tells(d, {"event_cancelled"}) /\ ToSet(d) = All("event_cancelled", Going)
  BY <1>1, <1>2, TellsSome
<1> DEFINE ab == a \o b
           abc == ab \o c
           abcd == abc \o d
<1>7. Cancelled = EachOnce(abcd)
  BY DEF Cancelled
<1> HIDE DEF a, b, c, d
<1>8. abcd \in Seq(Notes) /\ ToSet(abcd) = ToSet(a) \cup ToSet(b) \cup ToSet(c) \cup ToSet(d)
  <2>1. a \in Seq(Notes) /\ b \in Seq(Notes) /\ c \in Seq(Notes) /\ d \in Seq(Notes)
    BY <1>3, <1>4, <1>5, <1>6 DEF Tells
  <2>2. ab \in Seq(Notes) /\ ToSet(ab) = ToSet(a) \cup ToSet(b)
    BY <2>1, JoinLists
  <2> HIDE DEF ab
  <2>3. abc \in Seq(Notes) /\ ToSet(abc) = ToSet(ab) \cup ToSet(c)
    BY <2>1, <2>2, JoinLists
  <2> HIDE DEF abc
  <2>4. abcd \in Seq(Notes) /\ ToSet(abcd) = ToSet(abc) \cup ToSet(d)
    BY <2>1, <2>3, JoinLists
  <2> QED
    BY <2>2, <2>3, <2>4
<1> HIDE DEF abcd
<1>9. \A n \in ToSet(abcd) : n.kind \in {"event_cancelled"}
  BY <1>3, <1>4, <1>5, <1>6, <1>8 DEF Tells
<1>10. Tells(Cancelled, {"event_cancelled"}) /\ ToSet(Cancelled) = ToSet(abcd)
  BY <1>7, <1>8, <1>9, TellsEach
<1>11. \A n \in All("event_cancelled", Involved) :
         n \in All("event_cancelled", {Organiser}) \cup All("event_cancelled", event.staff \cap Active)
               \cup All("event_cancelled", Going)
  BY DEF All, Involved
<1> QED
  BY <1>3, <1>5, <1>6, <1>8, <1>10, <1>11

(* Whoever decides on a request.                                           *)
LEMMA DecidersTold ==
  ASSUME Tables, NEW kind \in Kinds
  PROVE  Tells(CoordinatorOrLeads(kind), {kind}) /\ ToSet(CoordinatorOrLeads(kind)) = All(kind, Deciders)
<1>1. CoordinatorOrLeads(kind) = Notices(kind, Deciders)
  BY DEF CoordinatorOrLeads, Deciders
<1> QED
  BY <1>1, PeopleAreUsers, TellsSome

(* What an operation gathers fits it, and is owed.                         *)
LEMMA GatheredFits ==
  ASSUME Tables, Managed, NEW kind \in Operations, May(kind), NEW who \in About(kind)
  PROVE  Fits(kind, Gathered(kind, who))
<1> DEFINE s == Gathered(kind, who)
<1>1. /\ Organiser \in Users /\ Going \in SUBSET Users /\ Deciders \in SUBSET Users
      /\ {event.coordinator} \cap Active \in SUBSET Users /\ {Organiser} \in SUBSET Users
  BY PeopleAreUsers
<1>2. /\ event.status \in Assigned => {event.coordinator} \in SUBSET Users
      /\ event.coordinator # Organiser /\ Cancellable \subseteq Assigned
  BY CoordinatorIsUser
<1>3. CASE kind = "assign"
  <2>1. s = Notices("assignment_made", {who})
    BY <1>3 DEF Gathered, Appointed
  <2>2. who \in Users /\ who # Organiser
    BY <1>3 DEF About, Coordinators
  <2>3. "assignment_made" \in Kinds /\ {who} \in SUBSET Users
    BY <2>2, KindsTold DEF AssignmentNotices
  <2>4. Tells(s, {"assignment_made"}) /\ \A n \in ToSet(s) : n.to \in {who}
    BY <2>1, <2>3, TellsSome
  <2> QED
    BY <1>3, <2>2, <2>4 DEF Fits, Tells, Clear, Appointing, OneTry
<1>4. CASE kind = "reassign"
  <2>1. s = Notices("event_reassigned", {who, event.coordinator})
    BY <1>4 DEF Gathered, Moved
  <2>2. who \in Users /\ who # Organiser /\ {event.coordinator} \in SUBSET Users
    BY <1>2, <1>4 DEF About, Coordinators, May
  <2>3. "event_reassigned" \in Kinds /\ {who, event.coordinator} \in SUBSET Users
    BY <2>2, KindsTold DEF AssignmentNotices
  <2>4. Tells(s, {"event_reassigned"}) /\ \A n \in ToSet(s) : n.to \in {who, event.coordinator}
    BY <2>1, <2>3, TellsSome
  <2> QED
    BY <1>2, <1>4, <2>2, <2>4 DEF Fits, Tells, Clear, Appointing, OneTry
<1>5. CASE kind \in {"review_safety", "ask_safety_changes"}
  <2>1. PICK k \in ReviewNotices : s = Notices(k, {event.coordinator})
    BY <1>5 DEF Gathered, SafetyReviewed, ReviewNotices
  <2>2. {event.coordinator} \in SUBSET Users
    BY <1>2, <1>5 DEF May
  <2>3. Tells(s, {k})
    BY <2>1, <2>2, KindsTold, TellsSome
  <2>4. kind \in Quiet \ Minded
    BY <1>5 DEF Quiet, Minded, Asking, Appointing
  <2> QED
    BY <2>3, <2>4, FitsQuiet
<1>6. CASE kind = "ask_cancellation"
  <2>1. s = CoordinatorOrLeads("cancellation_requested") /\ "cancellation_requested" \in Kinds
    BY <1>6, KindsTold DEF Gathered, CancellationAsked, ReviewNotices
  <2>2. Tells(s, {"cancellation_requested"})
    BY <2>1, DecidersTold
  <2> QED
    BY <1>6, <2>2 DEF Fits, Tells, Clear, Quiet, Appointing, OneTry
<1>7. CASE kind = "cancel"
  <2>1. s = Cancelled
    BY <1>7 DEF Gathered
  <2>2. Tells(s, {"event_cancelled"})
    BY <2>1, CancellationTold
  <2> QED
    BY <1>7, <2>2 DEF Fits, Tells, Clear, Quiet, Appointing, OneTry
<1>8. CASE kind \in {"approve_change", "reject_change"}
  <2>1. \/ s = ChangeDecided(who, TRUE) \o Flagged
        \/ s = ChangeDecided(who, FALSE)
    BY <1>8 DEF Gathered
  <2>2. \E K : Tells(s, K)
    BY <2>1, ChangesTold
  <2>3. kind \in Quiet \ Minded
    BY <1>8 DEF Quiet, Minded, Asking, Appointing
  <2> QED
    BY <2>2, <2>3, FitsQuiet
<1>9. CASE kind = "approve_replacement"
  <2>1. s = Notices("venue_changed", Going) /\ "venue_changed" \in Kinds
    BY <1>9, KindsTold DEF Gathered, VenueMoved, VenueNotices
  <2>2. Tells(s, {"venue_changed"})
    BY <1>1, <2>1, TellsSome
  <2> QED
    BY <1>9, <2>2 DEF Fits, Tells, Clear, Minded, Asking, Appointing
<1>10. CASE kind = "record_period"
  <2> DEFINE a == TheCoordinator("venue_unavailable")
             b == ForOrganiser("venue_unavailable")
  <2>1. s = a \o b /\ "venue_unavailable" \in Kinds
    BY <1>10, KindsTold DEF Gathered, Unavailable, VenueNotices
  <2>2. Tells(a, {"venue_unavailable"}) /\ \A n \in ToSet(a) : n.to \in {event.coordinator}
    BY <1>1, <2>1, TellsSome DEF TheCoordinator
  <2>3. Tells(b, {"venue_unavailable"}) /\ \A n \in ToSet(b) : n.to \in {Organiser}
    BY <1>1, <2>1, TellsSome DEF ForOrganiser
  <2>4. ToSet(a) \cap ToSet(b) = {}
    BY <1>2, <2>2, <2>3
  <2> HIDE DEF a, b
  <2>5. Tells(a \o b, {"venue_unavailable"} \cup {"venue_unavailable"})
    BY <2>2, <2>3, <2>4, TellsBoth
  <2>6. kind \in Quiet \ Minded
    BY <1>10 DEF Quiet, Minded, Asking, Appointing
  <2> QED
    BY <2>1, <2>5, <2>6, FitsQuiet
<1>11. CASE kind \in {"end_period", "sweep_hold"}
  <2>1. PICK k \in Kinds : s = Notices(k, {event.coordinator} \cap Active)
    BY <1>11, KindsTold DEF Gathered, PeriodEnded, Held, TheCoordinator, VenueNotices, ChangeNotices
  <2>2. Tells(s, {k})
    BY <1>1, <2>1, TellsSome
  <2>3. kind \in Quiet \ Minded
    BY <1>11 DEF Quiet, Minded, Asking, Appointing
  <2> QED
    BY <2>2, <2>3, FitsQuiet
<1>12. CASE kind \in {"assign_staff", "register", "withdraw"}
  <2>1. PICK k \in Kinds : s = Notices(k, {who})
    BY <1>12, KindsTold DEF Gathered, StaffAssigned, SeatChanged, ArrangementNotices, ReviewNotices
  <2>2. {who} \in SUBSET Users
    <3>1. With("tech_support") \subseteq Users /\ Attendees \subseteq Users
      BY PeopleAreUsers
    <3> QED
      BY <1>12, <3>1 DEF About
  <2>3. Tells(s, {k})
    BY <2>1, <2>2, TellsSome
  <2>4. kind \in Quiet \ Minded
    BY <1>12 DEF Quiet, Minded, Asking, Appointing
  <2> QED
    BY <2>3, <2>4, FitsQuiet
<1>13. CASE kind \notin (Quiet \ {"join"}) \cup Appointing \cup {"approve_replacement"}
  <2>1. s = <<>>
    BY <1>13 DEF Gathered, Quiet, Appointing
  <2> QED
    BY <2>1, EmptyList DEF Fits, Lists
<1> QED
  BY <1>3, <1>4, <1>5, <1>6, <1>7, <1>8, <1>9, <1>10, <1>11, <1>12, <1>13 DEF Quiet, Appointing

(* The offer that a withdrawal tells of before it commits.                 *)
LEMMA InsideFits ==
  ASSUME Tables, NEW kind \in Operations, NEW who
  PROVE  /\ Fits(kind, ToldInside(kind, who))
         /\ \A n \in ToSet(ToldInside(kind, who)) : n.kind = "waitlist_offer"
         /\ kind # "withdraw" => ToldInside(kind, who) = <<>>
<1>1. CASE kind = "withdraw" /\ FreesAPlace(who)
  <2>1. ToldInside(kind, who) = Notices("waitlist_offer", {NextInLine}) /\ "waitlist_offer" \in Kinds
    BY <1>1, KindsTold DEF ToldInside, RequestNotices
  <2>2. {NextInLine} \in SUBSET Users
    BY <1>1 DEF FreesAPlace, NextInLine, Waiting, Attendees
  <2>3. Tells(ToldInside(kind, who), {"waitlist_offer"})
    BY <2>1, <2>2, TellsSome
  <2>4. kind \in Quiet \ Minded
    BY <1>1 DEF Quiet, Minded, Asking, Appointing
  <2> QED
    BY <1>1, <2>3, <2>4, FitsQuiet DEF Tells
<1>2. CASE ~(kind = "withdraw" /\ FreesAPlace(who))
  <2>1. ToldInside(kind, who) = <<>>
    BY <1>2 DEF ToldInside
  <2> QED
    BY <2>1, EmptyList DEF Fits, Lists
<1> QED
  BY <1>1, <1>2

(* It owes nobody else.                                                    *)
LEMMA GatheredOwes ==
  ASSUME Tables, Managed, NEW kind \in Operations, May(kind), NEW who \in About(kind)
  PROVE  /\ Owed(kind, who) \subseteq ToSet(Gathered(kind, who))
         /\ kind = "withdraw" => \A n \in ToSet(Gathered(kind, who)) : n.kind # "waitlist_offer"
<1>1. CASE kind = "assign"
  <2>1. who \in Users /\ "assignment_made" \in Kinds
    BY <1>1, KindsTold DEF About, Coordinators, AssignmentNotices
  <2>2. ToSet(Gathered(kind, who)) = All("assignment_made", {who})
    BY <1>1, <2>1, TellsSome DEF Gathered, Appointed
  <2> QED
    BY <1>1, <2>2 DEF All, Owed
<1>2. CASE kind = "reassign"
  <2>1. who \in Users /\ {event.coordinator} \subseteq Users /\ "event_reassigned" \in Kinds
    BY <1>2, CoordinatorIsUser, KindsTold DEF About, Coordinators, May, AssignmentNotices
  <2>2. {who, event.coordinator} \in SUBSET Users
    BY <2>1
  <2>3. ToSet(Gathered(kind, who)) = All("event_reassigned", {who, event.coordinator})
    BY <1>2, <2>1, <2>2, TellsSome DEF Gathered, Moved
  <2> QED
    BY <1>2, <2>3 DEF All, Owed
<1>3. CASE kind = "cancel"
  BY <1>3, CancellationTold DEF Gathered, Owed
<1>4. CASE kind = "ask_cancellation"
  <2>1. "cancellation_requested" \in Kinds
    BY KindsTold DEF ReviewNotices
  <2> QED
    BY <1>4, <2>1, DecidersTold DEF Gathered, CancellationAsked, Owed
<1>5. CASE kind \notin {"cancel", "ask_cancellation"} \cup Appointing
  <2>1. Owed(kind, who) = {}
    BY <1>5 DEF Owed, Appointing
  <2>2. CASE kind = "withdraw"
    <3>1. "registration_changed" \in Kinds /\ {who} \in SUBSET Users
      <4>1. Attendees \subseteq Users
        BY PeopleAreUsers
      <4> QED
        BY <2>2, <4>1, KindsTold DEF About, ReviewNotices
    <3>2. Tells(Gathered(kind, who), {"registration_changed"})
      BY <2>2, <3>1, TellsSome DEF Gathered, SeatChanged
    <3> QED
      BY <2>1, <3>2 DEF Tells
  <2> QED
    BY <2>1, <2>2
<1> QED
  BY <1>1, <1>2, <1>3, <1>4, <1>5 DEF Appointing

-----------------------------------------------------------------------------
(***************************************************************************)
(* What is looked up.                                                      *)
(***************************************************************************)

(* People are looked up once, for what they have not been told.            *)
Adds(kind, s) ==
  /\ s \in Seq(Notes) /\ IsInjective(s)
  /\ \A n \in ToSet(s) : ~Clear(kind, n) /\ (kind \in Minded => n.kind \notin OneTry)

LEMMA LookedUpAdds ==
  ASSUME Tables, NEW kind \in Operations, NEW who, kind = "review_line" => who \in Users
  PROVE  /\ Adds(kind, LookedUp(kind, who))
         /\ kind = "ask_change" => ToSet(LookedUp(kind, who)) = All("change_requested", Deciders)
<1> DEFINE s == LookedUp(kind, who)
<1>1. /\ {Organiser} \in SUBSET Users /\ {event.coordinator} \cap Active \in SUBSET Users
      /\ {who, event.coordinator} \cap Active \in SUBSET Users
      /\ With("coordinator_lead") \in SUBSET Users /\ With("venue_staff") \in SUBSET Users
  BY PeopleAreUsers, UsersAssumption
<1>2. CASE kind \in Quiet
  <2>1. s = <<>>
    BY <1>2 DEF LookedUp, Quiet
  <2> QED
    BY <1>2, <2>1, EmptyList DEF Adds, Lists, Quiet
<1>3. CASE kind \in Appointing
  <2>1. PICK k \in AssignmentNotices : s = Notices(k, {Organiser})
    BY <1>3 DEF LookedUp, ForOrganiser, Appointing, AssignmentNotices
  <2>2. Tells(s, {k}) /\ \A n \in ToSet(s) : n.to \in {Organiser}
    BY <1>1, <2>1, KindsTold, TellsSome
  <2>3. k \notin OneTry
    BY DEF AssignmentNotices, OneTry
  <2>4. \A n \in ToSet(s) : ~Clear(kind, n)
    BY <1>3, <2>2 DEF Clear, Appointing, Quiet
  <2> QED
    BY <1>3, <2>2, <2>3, <2>4 DEF Adds, Tells, Appointing
<1>4. CASE kind = "ask_change"
  <2>1. s = CoordinatorOrLeads("change_requested") /\ "change_requested" \in Kinds
    BY <1>4, KindsTold DEF LookedUp, ChangeAsked, ReviewNotices
  <2>2. Tells(s, {"change_requested"}) /\ ToSet(s) = All("change_requested", Deciders)
    BY <2>1, DecidersTold
  <2> QED
    BY <1>4, <2>2 DEF Adds, Tells, Clear, Appointing, Quiet, OneTry
<1>5. CASE kind = "edit_venue"
  <2> DEFINE a == VenueStaff("venue_booking_needs_review")
             b == TheCoordinator("venue_booking_needs_review")
  <2>1. s = EachOnce(a \o b) /\ "venue_booking_needs_review" \in Kinds
    BY <1>5, KindsTold DEF LookedUp, NeedsReview, VenueNotices
  <2>2. Tells(a, {"venue_booking_needs_review"}) /\ Tells(b, {"venue_booking_needs_review"})
    BY <1>1, <2>1, TellsSome DEF VenueStaff, TheCoordinator
  <2> HIDE DEF a, b
  <2>3. a \o b \in Seq(Notes)
    BY <2>2, JoinLists DEF Tells
  <2>4. IsInjective(s) /\ s \in Seq(Notes)
    BY <2>1, <2>3, EachLists DEF Lists
  <2> QED
    BY <1>5, <2>4 DEF Adds, Clear, Appointing, Quiet, Minded, Asking
<1>6. CASE kind \notin Quiet \cup Appointing \cup {"ask_change", "edit_venue"}
  <2>1. PICK S \in SUBSET Users :
          \E k \in Kinds : s = Notices(k, S) /\ (kind = "approve_replacement" => k = "venue_booking_decided")
    <3>1. CASE kind \in {"submit", "request_transfer"}
      BY <1>1, <3>1, KindsTold
         DEF LookedUp, Queued, TransferAsked, ForLeads, AssignmentNotices
    <3>2. CASE kind \in {"clarify", "decide_request", "confirm", "reject_cancellation"}
      BY <1>1, <3>2, KindsTold
         DEF LookedUp, Clarify, RequestDecided, Confirmed, CancellationRejected, ForOrganiser, RequestNotices,
             ArrangementNotices, ReviewNotices
    <3>3. CASE kind \in {"request_booking", "withdraw_booking", "ask_restore"}
      BY <1>1, <3>3, KindsTold
         DEF LookedUp, BookingAsked, BookingWithdrawn, VenueStaff, BookingNotices, VenueNotices
    <3>4. CASE kind \in {"approve_booking", "approve_replacement", "reject_booking", "decide_restore"}
      BY <1>1, <3>4, KindsTold DEF LookedUp, BookingDecided, BothOnce, BookingNotices, VenueNotices
    <3>5. CASE kind = "place_hold"
      BY <1>1, <3>5, KindsTold DEF LookedUp, Held, TheCoordinator, ChangeNotices
    <3>6. CASE kind = "review_line"
      <4>1. {who} \in SUBSET Users
        BY <3>6
      <4> QED
        BY <3>6, <4>1, KindsTold DEF LookedUp, LineReviewed, ArrangementNotices
    <3> QED
      BY <1>6, <3>1, <3>2, <3>3, <3>4, <3>5, <3>6 DEF Operations, Quiet, Appointing
  <2>2. PICK k \in Kinds : s = Notices(k, S) /\ (kind = "approve_replacement" => k = "venue_booking_decided")
    BY <2>1
  <2>3. Tells(s, {k})
    BY <2>2, TellsSome
  <2>4. \A n \in ToSet(s) : ~Clear(kind, n)
    BY <1>6, <2>2, <2>3 DEF Tells, Clear
  <2>5. kind \notin Minded
    BY <1>6 DEF Minded, Asking, Appointing, Quiet
  <2> QED
    BY <1>6, <2>3, <2>4, <2>5 DEF Adds, Tells
<1> QED
  BY <1>2, <1>3, <1>4, <1>5, <1>6

-----------------------------------------------------------------------------
(***************************************************************************)
(* Steps that leave the event and the log alone.                           *)
(***************************************************************************)

(* What becomes of the request r that takes a step: how far it is, what it *)
(* is to send now and later.                                               *)
Turns(r, stage, now, later) ==
  /\ op'[r] = [kind |-> op[r].kind, who |-> op[r].who, stage |-> stage, now |-> now, later |-> later]
  /\ op' \in [Requests -> [kind : Operations \cup {Nobody}, who : Users \cup {Nobody}, stage : Stages,
                           now : Seq(Notes), later : Seq(Notes)]]
  /\ \A p \in Requests \ {r} : op'[p] = op[p]

(* The requests' fields.                                                   *)
LEMMA Fields ==
  ASSUME Tables, NEW r \in Requests
  PROVE  /\ op[r].kind \in Operations \cup {Nobody} /\ op[r].who \in Users \cup {Nobody}
         /\ op[r].stage \in Stages /\ op[r].now \in Seq(Notes) /\ op[r].later \in Seq(Notes)
         /\ told[r] \in Seq(Notes) /\ untold[r] \subseteq Notes
BY DEF Tables

LEMMA Turned ==
  ASSUME Tables, NEW r \in Requests, NEW stage \in Stages, NEW now \in Seq(Notes), NEW later \in Seq(Notes)
  PROVE  /\ op' = [op EXCEPT ![r].stage = stage, ![r].now = now, ![r].later = later]
              => Turns(r, stage, now, later)
         /\ op' = [op EXCEPT ![r].stage = stage, ![r].now = now] => Turns(r, stage, now, op[r].later)
         /\ op' = [op EXCEPT ![r].stage = stage, ![r].later = later] => Turns(r, stage, op[r].now, later)
         /\ op' = [op EXCEPT ![r].stage = stage] => Turns(r, stage, op[r].now, op[r].later)
         /\ op' = [op EXCEPT ![r].now = now] => Turns(r, op[r].stage, now, op[r].later)
<1>1. op \in [Requests -> [kind : Operations \cup {Nobody}, who : Users \cup {Nobody}, stage : Stages,
                           now : Seq(Notes), later : Seq(Notes)]]
  BY DEF Tables
<1>2. op' = [op EXCEPT ![r].stage = stage, ![r].now = now, ![r].later = later]
        => Turns(r, stage, now, later)
  <2> SUFFICES ASSUME op' = [op EXCEPT ![r].stage = stage, ![r].now = now, ![r].later = later]
               PROVE  Turns(r, stage, now, later)
    OBVIOUS
  <2>1. \A p \in Requests \ {r} : op'[p] = op[p]
    BY <1>1
  <2>2. DOMAIN op' = Requests
    BY <1>1
  <2>3. op'[r] = [op[r] EXCEPT !.stage = stage, !.now = now, !.later = later]
    BY <1>1
  <2>4. op[r] = [kind |-> op[r].kind, who |-> op[r].who, stage |-> op[r].stage, now |-> op[r].now,
                 later |-> op[r].later]
    BY <1>1
  <2>5. op'[r] = [kind |-> op[r].kind, who |-> op[r].who, stage |-> stage, now |-> now, later |-> later]
    BY <2>3, <2>4
  <2> QED
    BY <1>1, <2>1, <2>2, <2>5 DEF Turns
<1>3. op' = [op EXCEPT ![r].stage = stage, ![r].now = now] => Turns(r, stage, now, op[r].later)
  BY <1>1 DEF Turns
<1>4. op' = [op EXCEPT ![r].stage = stage, ![r].later = later] => Turns(r, stage, op[r].now, later)
  BY <1>1 DEF Turns
<1>5. op' = [op EXCEPT ![r].stage = stage] => Turns(r, stage, op[r].now, op[r].later)
  BY <1>1 DEF Turns
<1>6. op' = [op EXCEPT ![r].now = now] => Turns(r, op[r].stage, now, op[r].later)
  BY <1>1 DEF Turns
<1> QED
  BY <1>2, <1>3, <1>4, <1>5, <1>6

(* What others know of a request is kept by a step.                        *)
Keeps(r) ==
  /\ op'[r].kind = op[r].kind /\ op'[r].who = op[r].who
  /\ op[r].stage = "crashed" => op'[r].stage = "crashed"
  /\ op[r].kind \in Minded => op'[r].stage = "crashed" \/ Handled(r) \subseteq Handled(r)'

LEMMA InformedStays ==
  ASSUME NEW r, Keeps(r), op[r].kind \in Minded, NEW N, Informed(r, N)
  PROVE  Informed(r, N)'
BY DEF Keeps, Informed

(* A request that another's step leaves alone.                             *)
Same(p) == op'[p] = op[p] /\ told'[p] = told[p] /\ untold'[p] = untold[p]

LEMMA SameKeeps == ASSUME NEW p, Same(p) PROVE Keeps(p)
BY DEF Same, Keeps, Handled

LEMMA SameSpeaks ==
  ASSUME NEW p, Same(p), p \in ToSet(log)' <=> p \in ToSet(log), Speaks(p)
  PROVE  Speaks(p)'
<1>1. op'[p] = op[p] /\ told'[p] = told[p]
  BY DEF Same
<1>2. Phase(p)'
  BY <1>1 DEF Speaks, Phase, Aimed
<1>3. Once(p)'
  BY <1>1 DEF Speaks, Once
<1>4. Said(p)' = Said(p)
  BY <1>1 DEF Said
<1> QED
  BY <1>1, <1>2, <1>3, <1>4 DEF Speaks

(* The event's part in what is promised.                                   *)
LEMMA EventUnmoved ==
  ASSUME event' = event
  PROVE  /\ Deciders' = Deciders /\ Involved' = Involved
         /\ \A kind, who : Owed(kind, who)' = Owed(kind, who)
<1>1. Deciders' = Deciders /\ Involved' = Involved
  BY DEF Deciders, Involved, Going
<1> QED
  BY <1>1 DEF Owed

(* An appointment owes the same whatever becomes of the event.             *)
LEMMA AppointmentOwes ==
  ASSUME NEW kind \in Appointing, NEW who
  PROVE  /\ Owed(kind, who)' = Owed(kind, who)
         /\ Owed(kind, who) = {Notice(IF kind = "assign" THEN "assignment_made" ELSE "event_reassigned", who)}
BY DEF Owed, Appointing

(* The order of commits.                                                   *)
LEMMA BeforeLogged ==
  ASSUME Tables, NEW q, NEW r, Before(q, r)
  PROVE  q \in ToSet(log) /\ r \in ToSet(log)
BY DEF Before, ToSet

(* A step of r that moves neither the event nor the log.                   *)
Mild(r) ==
  /\ event' = event /\ log' = log
  /\ \A p \in Requests \ {r} : Same(p)
  /\ r \in ToSet(log) => Keeps(r)
  /\ op'[r].stage = "open" =>
       \A q \in Requests \ {r} : op[q].stage = "open" => ~Excludes(op'[r].kind, op[q].kind)
  /\ op[r].kind = "ask_change" /\ op[r].stage = "committed" =>
       op'[r].stage = "committed" \/ Informed(r, All("change_requested", Deciders))'

LEMMA ExcludesBoth ==
  ASSUME NEW k, NEW l
  PROVE  Excludes(k, l) <=> Excludes(l, k)
BY DEF Excludes

LEMMA MildKnown ==
  ASSUME IInv, NEW r \in Requests, Mild(r), NEW q \in event.open
  PROVE  Known(q)'
<1>1. /\ Known(q) /\ Tables /\ q \in Requests
  BY DEF IInv, Tables
<1>2. \A p \in Requests : p \in ToSet(log) => Keeps(p)
  BY SameKeeps DEF Mild
<1>3. event' = event /\ log' = log /\ Deciders' = Deciders
  BY EventUnmoved DEF Mild
<1>4. q \in ToSet(log) /\ op[q].kind \in Asking /\ Keeps(q)
  BY <1>1, <1>2 DEF Known
<1>5. (q \in ToSet(log))' /\ op'[q].kind = op[q].kind /\ op[q].kind \in Minded
  BY <1>3, <1>4 DEF Keeps, Minded
<1>6. AskedKind(q)' = AskedKind(q)
  BY <1>5 DEF AskedKind
<1>7. CASE op[q].kind = "ask_change" /\ op[q].stage = "committed"
  <2>1. op'[q].stage = "committed" \/ Informed(q, All("change_requested", Deciders))'
    <3>1. CASE q = r
      BY <1>7, <3>1 DEF Mild
    <3>2. CASE q # r
      BY <1>1, <1>7, <3>2 DEF Mild, Same
    <3> QED
      BY <3>1, <3>2
  <2>2. AskedKind(q)' = "change_requested"
    BY <1>5, <1>7 DEF AskedKind
  <2> QED
    BY <1>4, <1>5, <1>7, <2>1, <2>2 DEF Known
<1>8. CASE Informed(q, All(AskedKind(q), Deciders))
  <2>1. PICK N : N = All(AskedKind(q), Deciders)
    OBVIOUS
  <2>2. Informed(q, N)'
    BY <1>4, <1>5, <1>8, <2>1, InformedStays
  <2>3. All(AskedKind(q), Deciders)' = N
    BY <1>3, <1>6, <2>1 DEF All
  <2>4. Informed(q, All(AskedKind(q), Deciders))'
    BY <2>2, <2>3
  <2> QED
    BY <1>4, <1>5, <2>4 DEF Known
<1>9. CASE event.coordinator \in Active /\ Succeeded(q, event.coordinator)
  <2>1. PICK p \in Requests :
          Before(q, p) /\ op[p].kind \in Appointing /\ op[p].who = event.coordinator /\ Informed(p, Due(p))
    BY <1>9 DEF Succeeded
  <2>2. p \in ToSet(log) /\ Keeps(p) /\ op[p].kind \in Minded
    BY <1>1, <1>2, <2>1, BeforeLogged DEF Minded
  <2>3. Before(q, p)'
    BY <1>3, <2>1 DEF Before
  <2>4. op'[p].kind = op[p].kind /\ op'[p].who = op[p].who
    BY <2>2 DEF Keeps
  <2>5. PICK N : N = Due(p)
    OBVIOUS
  <2>6. Informed(p, N)'
    BY <2>1, <2>2, <2>5, InformedStays
  <2>7. Due(p)' = N
    BY <2>1, <2>4, <2>5, AppointmentOwes DEF Due, Owed
  <2>8. Succeeded(q, event.coordinator)'
    BY <1>3, <2>1, <2>3, <2>4, <2>6, <2>7 DEF Succeeded
  <2> QED
    BY <1>3, <1>4, <1>5, <1>9, <2>8 DEF Known
<1> QED
  BY <1>1, <1>7, <1>8, <1>9 DEF Known

LEMMA MildKeeps ==
  ASSUME IInv, NEW r \in Requests, Mild(r), Tables', Speaks(r)', Stands(r)'
  PROVE  IInv'
<1>1. event' = event /\ log' = log
  BY DEF Mild
<1>2. Managed'
  BY <1>1 DEF IInv, Managed
<1>3. ASSUME NEW p \in Requests
      PROVE  Speaks(p)' /\ Stands(p)'
  <2>1. CASE p = r
    BY <2>1
  <2>2. CASE p # r
    <3>1. Same(p) /\ Speaks(p) /\ Stands(p)
      BY <2>2 DEF Mild, IInv
    <3>2. Speaks(p)'
      BY <1>1, <3>1, SameSpeaks
    <3>3. Due(p)' = Due(p) /\ Handled(p)' = Handled(p)
      BY <1>1, <3>1, EventUnmoved DEF Due, Same, Handled
    <3>4. Stands(p)'
      BY <1>1, <3>1, <3>3 DEF Stands, Same, Informed
    <3> QED
      BY <3>2, <3>4
  <2> QED
    BY <2>1, <2>2
<1>4. Locked'
  <2> SUFFICES ASSUME NEW p \in Requests, NEW q \in Requests, p # q,
                      op'[p].stage = "open", op'[q].stage = "open"
               PROVE  ~Excludes(op'[p].kind, op'[q].kind)
    BY DEF Locked, Excludes
  <2>1. \A k \in Requests \ {r} : op'[k] = op[k]
    BY DEF Mild, Same
  <2>2. CASE p = r
    BY <2>1, <2>2 DEF Mild
  <2>3. CASE q = r
    BY <2>1, <2>3, ExcludesBoth DEF Mild
  <2>4. CASE p # r /\ q # r
    BY <2>1, <2>4 DEF IInv, Locked
  <2> QED
    BY <2>2, <2>3, <2>4
<1>5. \A q \in event.open' : Known(q)'
  BY <1>1, MildKnown
<1> QED
  BY <1>2, <1>3, <1>4, <1>5 DEF IInv

-----------------------------------------------------------------------------
(***************************************************************************)
(* A request begins.                                                       *)
(***************************************************************************)

(* Whom an operation may be about.                                         *)
LEMMA AboutAims ==
  ASSUME Tables, NEW kind \in Operations, NEW who \in About(kind)
  PROVE  /\ who \in Users \cup {Nobody}
         /\ kind \in Appointing => who \in (Coordinators \cap Active) \ {Organiser}
         /\ kind \in ForSeats => who \in Attendees
         /\ kind \in {"assign_staff", "review_line"} => who \in Users
<1>1. Organiser \in Users /\ With("tech_support") \subseteq Users /\ Coordinators \subseteq Users /\ Attendees \subseteq Users
  BY PeopleAreUsers
<1>2. \A q \in event.open : op[q].who \in Users \cup {Nobody}
  BY DEF Tables
<1>3. CASE kind \in Appointing
  BY <1>1, <1>3 DEF About, Appointing, ForSeats
<1>4. CASE kind \in {"approve_change", "reject_change"}
  BY <1>1, <1>2, <1>4 DEF About, Appointing, ForSeats, Asked
<1>5. CASE kind \in {"approve_booking", "approve_replacement", "reject_booking", "decide_restore", "review_line",
                     "assign_staff"}
  BY <1>1, <1>5 DEF About, Appointing, ForSeats
<1>6. CASE kind \in ForSeats
  BY <1>1, <1>6 DEF About, Appointing, ForSeats
<1>7. CASE kind \notin Appointing \cup ForSeats
                 \cup {"approve_change", "reject_change", "approve_booking", "approve_replacement",
                       "reject_booking", "decide_restore", "review_line", "assign_staff"}
  BY <1>1, <1>7 DEF About, Appointing, ForSeats
<1> QED
  BY <1>3, <1>4, <1>5, <1>6, <1>7

(* An operation that may begin finds its statuses.                         *)
LEMMA MayFinds ==
  ASSUME Tables, NEW kind \in Operations, May(kind)
  PROVE  event.status \in Finds(kind)
<1>1. event.status \in Statuses
  BY DEF Tables
<1>2. CASE kind \in {"submit", "assign", "decide_request", "confirm"}
  BY <1>2 DEF May, Finds
<1>3. CASE kind \in {"reassign", "approve_change", "cancel", "record_period", "assign_staff", "register", "join"}
  BY <1>3 DEF May, Finds
<1>4. CASE kind \notin {"submit", "assign", "decide_request", "confirm", "reassign", "approve_change", "cancel",
                        "record_period", "assign_staff", "register", "join"}
  BY <1>1, <1>4 DEF Finds
<1> QED
  BY <1>2, <1>3, <1>4

LEMMA BeginKeeps ==
  ASSUME IInv, NEW r \in Requests, NEW kind \in Offered[r], Begin(r, kind)
  PROVE  IInv'
<1>1. PICK who \in About(kind) :
        op' = [op EXCEPT ![r] = [kind |-> kind, who |-> who, stage |-> "open",
                                 now |-> ToldInside(kind, who), later |-> Gathered(kind, who)]]
  BY DEF Begin
<1>2. PICK now, later : now = ToldInside(kind, who) /\ later = Gathered(kind, who)
  OBVIOUS
<1>3. kind \in Operations /\ Tables /\ Managed /\ May(kind) /\ op[r] = Idle
  BY OfferedAssumption DEF IInv, Begin
<1>4. event' = event /\ log' = log /\ told' = told /\ untold' = untold
  BY DEF Begin
<1>5. /\ Fits(kind, now) /\ Fits(kind, later)
      /\ \A n \in ToSet(now) : n.kind = "waitlist_offer"
      /\ kind # "withdraw" => now = <<>>
      /\ kind = "withdraw" => \A n \in ToSet(later) : n.kind # "waitlist_offer"
      /\ Owed(kind, who) \subseteq ToSet(later)
  BY <1>2, <1>3, InsideFits, GatheredFits, GatheredOwes
<1>6. /\ op'[r] = [kind |-> kind, who |-> who, stage |-> "open", now |-> now, later |-> later]
      /\ \A p \in Requests \ {r} : op'[p] = op[p]
      /\ op' \in [Requests -> [kind : Operations \cup {Nobody}, who : Users \cup {Nobody}, stage : Stages,
                               now : Seq(Notes), later : Seq(Notes)]]
  <2>1. who \in Users \cup {Nobody}
    BY <1>3, AboutAims
  <2>2. now \in Seq(Notes) /\ later \in Seq(Notes)
    BY <1>5 DEF Fits
  <2>3. op' = [op EXCEPT ![r] = [kind |-> kind, who |-> who, stage |-> "open", now |-> now, later |-> later]]
    BY <1>1, <1>2
  <2> QED
    BY <1>3, <2>1, <2>2, <2>3 DEF Tables, Stages
<1>7. op[r].stage = "idle" /\ r \notin ToSet(log) /\ told[r] = <<>>
  <2>1. op[r].stage = "idle"
    BY <1>3 DEF Idle
  <2> QED
    BY <2>1 DEF IInv, Speaks, Phase
<1>8. Tables'
  BY <1>3, <1>4, <1>6 DEF Tables
<1>9. Mild(r)
  <2>1. \A q \in Requests : op[q].stage = "open" => ~Excludes(kind, op[q].kind)
    BY DEF Begin
  <2>2. \A p \in Requests \ {r} : Same(p)
    BY <1>4, <1>6 DEF Same
  <2> QED
    BY <1>4, <1>6, <1>7, <2>1, <2>2 DEF Mild
<1>10. Speaks(r)'
  <2>1. ToSet(<<>>) = {} /\ IsInjective(<<>>)
    BY EmptyList DEF Lists
  <2>2. Aimed(r)'
    BY <1>3, <1>6, AboutAims DEF Aimed
  <2>3. Phase(r)'
    BY <1>4, <1>6, <1>7, <2>2 DEF Phase
  <2>4. Once(r)'
    <3>1. ToSet(now) \cap ToSet(later) = {}
      BY <1>5, <2>1
    <3> QED
      BY <1>4, <1>5, <1>6, <1>7, <2>1, <3>1 DEF Once, Fits
  <2>5. \A n \in ToSet(now) \cup ToSet(later) : Clear(kind, n) /\ (kind \in Minded => n.kind \notin OneTry)
    BY <1>5 DEF Fits
  <2>6. Said(r)' = ToSet(now) \cup ToSet(later)
    BY <1>4, <1>6, <1>7, <2>1 DEF Said
  <2> QED
    BY <1>4, <1>5, <1>6, <1>7, <2>1, <2>3, <2>4, <2>5, <2>6 DEF Speaks
<1>11. Stands(r)'
  <2>1. event.status \in Finds(kind)
    BY <1>3, MayFinds
  <2>2. Due(r)' = Owed(kind, who)
    BY <1>4, <1>6, EventUnmoved DEF Due
  <2> QED
    BY <1>4, <1>5, <1>6, <1>7, <2>1, <2>2 DEF Stands
<1> QED
  BY <1>8, <1>9, <1>10, <1>11, MildKeeps

-----------------------------------------------------------------------------
(***************************************************************************)
(* A request is given up.                                                  *)
(***************************************************************************)

(* A step that leaves the tables' other columns alone.                     *)
LEMMA TurnsTables ==
  ASSUME IInv, NEW r \in Requests, NEW stage, NEW now, NEW later, Turns(r, stage, now, later),
         event' = event, log' = log, told' \in [Requests -> Seq(Notes)], untold' \in [Requests -> SUBSET Notes]
  PROVE  Tables'
BY DEF IInv, Tables, Turns

LEMMA RollbackKeeps ==
  ASSUME IInv, NEW r \in Requests, Rollback(r)
  PROVE  IInv'
<1>1. /\ Tables /\ Speaks(r) /\ op[r].stage = "open" /\ op[r].now = <<>>
      /\ event' = event /\ log' = log /\ told' = told /\ untold' = untold
  BY DEF IInv, Rollback
<1>2. Turns(r, "refused", op[r].now, <<>>)
  <2>1. op' = [op EXCEPT ![r].stage = "refused", ![r].later = <<>>]
    BY DEF Rollback
  <2>2. "refused" \in Stages /\ <<>> \in Seq(Notes) /\ op[r].now \in Seq(Notes)
    BY <1>1, Fields DEF Stages
  <2> QED
    BY <1>1, <2>1, <2>2, Turned
<1>3. Tables'
  BY <1>1, <1>2, TurnsTables DEF Tables
<1>4. /\ op'[r].stage = "refused" /\ op'[r].now = <<>> /\ op'[r].later = <<>>
      /\ op'[r].kind = op[r].kind /\ op'[r].who = op[r].who
      /\ \A p \in Requests \ {r} : op'[p] = op[p]
  BY <1>1, <1>2 DEF Turns
<1>5. r \notin ToSet(log)
  BY <1>1 DEF Speaks, Phase
<1>6. Mild(r)
  BY <1>1, <1>4, <1>5 DEF Mild, Same
<1>7. Speaks(r)'
  <2>1. ToSet(<<>>) = {} /\ IsInjective(<<>>)
    BY EmptyList DEF Lists
  <2>2. Phase(r)'
    BY <1>1, <1>4, <1>5 DEF Speaks, Phase, Aimed
  <2>3. Once(r)'
    BY <1>1, <1>4, <2>1 DEF Speaks, Once
  <2> QED
    BY <1>1, <1>4, <2>1, <2>2, <2>3 DEF Speaks
<1>8. Stands(r)'
  BY <1>1, <1>4, <1>5 DEF Stands
<1> QED
  BY <1>3, <1>6, <1>7, <1>8, MildKeeps

LEMMA CrashKeeps ==
  ASSUME IInv, NEW r \in Requests, Crash(r)
  PROVE  IInv'
<1>1. /\ Tables /\ Speaks(r) /\ Stands(r) /\ op[r].stage \in {"open", "committed", "telling"}
      /\ event' = event /\ log' = log /\ told' = told /\ untold' = untold
  BY DEF IInv, Crash
<1>2. Turns(r, "crashed", <<>>, <<>>)
  <2>1. op' = [op EXCEPT ![r].stage = "crashed", ![r].now = <<>>, ![r].later = <<>>]
    BY DEF Crash
  <2>2. "crashed" \in Stages /\ <<>> \in Seq(Notes)
    BY DEF Stages
  <2> QED
    BY <1>1, <2>1, <2>2, Turned
<1>3. Tables'
  BY <1>1, <1>2, TurnsTables DEF Tables
<1>4. /\ op'[r].stage = "crashed" /\ op'[r].now = <<>> /\ op'[r].later = <<>>
      /\ op'[r].kind = op[r].kind /\ op'[r].who = op[r].who
      /\ \A p \in Requests \ {r} : op'[p] = op[p]
  BY <1>1, <1>2 DEF Turns
<1>5. Mild(r)
  BY <1>1, <1>4 DEF Mild, Same, Keeps, Informed
<1>6. Speaks(r)'
  <2>1. ToSet(<<>>) = {} /\ IsInjective(<<>>)
    BY EmptyList DEF Lists
  <2>2. Phase(r)'
    BY <1>1, <1>4 DEF Speaks, Phase, Aimed
  <2>3. Once(r)'
    BY <1>1, <1>4, <2>1 DEF Speaks, Once
  <2> QED
    BY <1>1, <1>4, <2>1, <2>2, <2>3 DEF Speaks
<1>7. Stands(r)'
  BY <1>1, <1>4 DEF Stands, Informed
<1> QED
  BY <1>3, <1>5, <1>6, <1>7, MildKeeps

-----------------------------------------------------------------------------
(***************************************************************************)
(* People are looked up.                                                   *)
(***************************************************************************)

(* What both outcomes of a lookup have in common: what it adds to what the *)
(* request says, or could not find out.                                    *)
LEMMA LookingUp ==
  ASSUME IInv, NEW r \in Requests, op[r].stage = "committed"
  PROVE  LET s == LookedUp(op[r].kind, op[r].who)
         IN  /\ Tables /\ Speaks(r) /\ Stands(r) /\ Aimed(r) /\ r \in ToSet(log) /\ op[r].later = <<>>
             /\ s \in Seq(Notes) /\ IsInjective(s)
             /\ ToSet(s) \cap ToSet(told[r]) = {} /\ ToSet(s) \cap ToSet(op[r].now) = {}
             /\ op[r].kind \in Minded => \A n \in ToSet(s) : n.kind \notin OneTry
             /\ op[r].kind = "ask_change" => ToSet(s) = All("change_requested", Deciders)
             /\ ToSet(op[r].now \o s) = ToSet(op[r].now) \cup ToSet(s)
             /\ op[r].now \o s \in Seq(Notes)
             /\ IsInjective(op[r].now \o s)
<1> DEFINE s == LookedUp(op[r].kind, op[r].who)
<1>1. Tables /\ Speaks(r) /\ Stands(r)
  BY DEF IInv
<1>2. Aimed(r) /\ r \in ToSet(log) /\ op[r].later = <<>>
  BY <1>1 DEF Speaks, Phase
<1>3. /\ Adds(op[r].kind, s)
      /\ op[r].kind = "ask_change" => ToSet(s) = All("change_requested", Deciders)
  BY <1>1, <1>2, LookedUpAdds DEF Aimed
<1> HIDE DEF s
<1>4. \A n \in ToSet(told[r]) \cup ToSet(op[r].now) : Clear(op[r].kind, n)
  BY <1>1 DEF Speaks, Said
<1>5. ToSet(s) \cap ToSet(told[r]) = {} /\ ToSet(s) \cap ToSet(op[r].now) = {}
  BY <1>3, <1>4 DEF Adds
<1>6. op[r].now \in Seq(Notes) /\ IsInjective(op[r].now)
  BY <1>1, Fields DEF Speaks, Once
<1>7. /\ ToSet(op[r].now \o s) = ToSet(op[r].now) \cup ToSet(s) /\ op[r].now \o s \in Seq(Notes)
      /\ IsInjective(op[r].now \o s)
  BY <1>3, <1>5, <1>6, JoinLists DEF Adds
<1> QED
  BY <1>1, <1>2, <1>3, <1>5, <1>7 DEF Adds, s

LEMMA LookUpKeeps ==
  ASSUME IInv, NEW r \in Requests, LookUp(r)
  PROVE  IInv'
<1>1. PICK s : s = LookedUp(op[r].kind, op[r].who)
  OBVIOUS
<1>2. /\ op[r].stage = "committed"
      /\ event' = event /\ log' = log /\ told' = told /\ untold' = untold
      /\ op' = [op EXCEPT ![r].stage = "telling", ![r].now = op[r].now \o s]
  <2>1. op' = [op EXCEPT ![r].stage = "telling", ![r].now = @ \o s]
    BY <1>1 DEF LookUp
  <2>2. op \in [Requests -> [kind : Operations \cup {Nobody}, who : Users \cup {Nobody}, stage : Stages,
                             now : Seq(Notes), later : Seq(Notes)]]
    BY DEF IInv, Tables
  <2> QED
    BY <2>1, <2>2 DEF LookUp
<1>3. /\ Tables /\ Speaks(r) /\ Stands(r) /\ Aimed(r) /\ r \in ToSet(log) /\ op[r].later = <<>>
      /\ ToSet(s) \cap ToSet(told[r]) = {}
      /\ op[r].kind \in Minded => \A n \in ToSet(s) : n.kind \notin OneTry
      /\ op[r].kind = "ask_change" => ToSet(s) = All("change_requested", Deciders)
      /\ ToSet(op[r].now \o s) = ToSet(op[r].now) \cup ToSet(s)
      /\ op[r].now \o s \in Seq(Notes) /\ IsInjective(op[r].now \o s)
  BY <1>1, <1>2, LookingUp
<1>4. PICK now : now = op[r].now \o s
  OBVIOUS
<1>5. Turns(r, "telling", now, <<>>)
  <2>1. "telling" \in Stages /\ <<>> \in Seq(Notes)
    BY DEF Stages
  <2> QED
    BY <1>2, <1>3, <1>4, <2>1, Turned
<1>6. Tables'
  BY <1>2, <1>3, <1>5, TurnsTables DEF Tables
<1>7. /\ op'[r].stage = "telling" /\ op'[r].now = now /\ op'[r].later = <<>>
      /\ op'[r].kind = op[r].kind /\ op'[r].who = op[r].who
      /\ \A p \in Requests \ {r} : op'[p] = op[p]
  BY <1>5 DEF Turns
<1>8. Handled(r)' = Handled(r) \cup ToSet(s)
  BY <1>2, <1>3, <1>4, <1>7 DEF Handled
<1>9. Mild(r)
  <2>1. op[r].kind = "ask_change" => Informed(r, All("change_requested", Deciders))'
    <3>1. All("change_requested", Deciders)' = All("change_requested", Deciders)
      BY <1>2, EventUnmoved DEF All
    <3> QED
      BY <1>3, <1>8, <3>1 DEF Informed
  <2> QED
    BY <1>2, <1>7, <1>8, <2>1 DEF Mild, Same, Keeps
<1>10. Speaks(r)'
  <2>1. ToSet(<<>>) = {} /\ IsInjective(<<>>)
    BY EmptyList DEF Lists
  <2>2. Phase(r)'
    BY <1>2, <1>3, <1>7 DEF Speaks, Phase, Aimed
  <2>3. Once(r)'
    BY <1>2, <1>3, <1>4, <1>7, <2>1 DEF Speaks, Once
  <2> QED
    BY <1>2, <1>3, <1>4, <1>7, <2>1, <2>2, <2>3 DEF Speaks
<1>11. Stands(r)'
  <2>1. Due(r)' = Due(r)
    BY <1>2, <1>7, EventUnmoved DEF Due
  <2> QED
    BY <1>2, <1>3, <1>7, <1>8, <2>1 DEF Stands, Informed
<1> QED
  BY <1>6, <1>9, <1>10, <1>11, MildKeeps

LEMMA LookUpFailsKeeps ==
  ASSUME IInv, NEW r \in Requests, LookUpFails(r)
  PROVE  IInv'
<1>1. PICK s : s = LookedUp(op[r].kind, op[r].who)
  OBVIOUS
<1>2. /\ op[r].stage = "committed"
      /\ event' = event /\ log' = log /\ told' = told
      /\ untold' = [untold EXCEPT ![r] = @ \cup ToSet(s)]
      /\ op' = [op EXCEPT ![r].stage = "telling"]
  BY <1>1 DEF LookUpFails
<1>3. /\ Tables /\ Speaks(r) /\ Stands(r) /\ Aimed(r) /\ r \in ToSet(log) /\ op[r].later = <<>>
      /\ op[r].kind = "ask_change" => ToSet(s) = All("change_requested", Deciders)
      /\ s \in Seq(Notes)
  BY <1>1, <1>2, LookingUp
<1>4. Turns(r, "telling", op[r].now, op[r].later)
  <2>1. "telling" \in Stages /\ op[r].now \in Seq(Notes) /\ op[r].later \in Seq(Notes)
    BY <1>3, Fields DEF Stages
  <2> QED
    BY <1>2, <1>3, <2>1, Turned
<1>5. /\ untold' \in [Requests -> SUBSET Notes] /\ untold'[r] = untold[r] \cup ToSet(s)
      /\ \A p \in Requests \ {r} : untold'[p] = untold[p]
  <2>1. ToSet(s) \subseteq Notes /\ untold \in [Requests -> SUBSET Notes]
    BY <1>3, ListsFinite DEF Tables
  <2> QED
    BY <1>2, <2>1
<1>6. Tables'
  BY <1>2, <1>3, <1>4, <1>5, TurnsTables DEF Tables
<1>7. /\ op'[r].stage = "telling" /\ op'[r].now = op[r].now /\ op'[r].later = op[r].later
      /\ op'[r].kind = op[r].kind /\ op'[r].who = op[r].who
      /\ \A p \in Requests \ {r} : op'[p] = op[p]
  BY <1>4 DEF Turns
<1>8. Handled(r)' = Handled(r) \cup ToSet(s)
  BY <1>2, <1>5, <1>7 DEF Handled
<1>9. Mild(r)
  <2>1. op[r].kind = "ask_change" => Informed(r, All("change_requested", Deciders))'
    <3>1. All("change_requested", Deciders)' = All("change_requested", Deciders)
      BY <1>2, EventUnmoved DEF All
    <3> QED
      BY <1>3, <1>8, <3>1 DEF Informed
  <2> QED
    BY <1>2, <1>5, <1>7, <1>8, <2>1 DEF Mild, Same, Keeps
<1>10. Speaks(r)'
  <2>1. Phase(r)'
    BY <1>2, <1>3, <1>7 DEF Speaks, Phase, Aimed
  <2>2. Once(r)'
    BY <1>2, <1>3, <1>7 DEF Speaks, Once
  <2> QED
    BY <1>2, <1>3, <1>7, <2>1, <2>2 DEF Speaks
<1>11. Stands(r)'
  <2>1. Due(r)' = Due(r)
    BY <1>2, <1>7, EventUnmoved DEF Due
  <2> QED
    BY <1>2, <1>3, <1>7, <1>8, <2>1 DEF Stands, Informed
<1> QED
  BY <1>6, <1>9, <1>10, <1>11, MildKeeps

-----------------------------------------------------------------------------
(***************************************************************************)
(* Somebody is told, or is not.                                            *)
(***************************************************************************)

(* The first notice to send, and the rest.                                 *)
LEMMA Sending ==
  ASSUME IInv, NEW r \in Requests, Telling(r)
  PROVE  LET n == Head(op[r].now)
             rest == Tail(op[r].now)
         IN  /\ Tables /\ Speaks(r) /\ Stands(r) /\ op[r].stage \in {"open", "telling"}
             /\ n \in Notes /\ rest \in Seq(Notes) /\ IsInjective(rest)
             /\ ToSet(op[r].now) = {n} \cup ToSet(rest)
             /\ n \notin ToSet(rest) /\ n \notin ToSet(told[r]) /\ n \notin ToSet(op[r].later)
<1> DEFINE n == Head(op[r].now)
           rest == Tail(op[r].now)
<1>1. Tables /\ Speaks(r) /\ Stands(r) /\ op[r].stage \in {"open", "telling"} /\ op[r].now # <<>>
  BY DEF IInv, Telling
<1>2. op[r].now \in Seq(Notes) /\ IsInjective(op[r].now)
  BY <1>1, Fields DEF Speaks, Once
<1>3. /\ n \in Notes /\ rest \in Seq(Notes) /\ IsInjective(rest)
      /\ ToSet(op[r].now) = {n} \cup ToSet(rest) /\ n \notin ToSet(rest)
  BY <1>1, <1>2, TailLists
<1> HIDE DEF n, rest
<1>4. n \notin ToSet(told[r]) /\ n \notin ToSet(op[r].later)
  BY <1>1, <1>3 DEF Speaks, Once
<1> QED
  BY <1>1, <1>3, <1>4 DEF n, rest

LEMMA TellKeeps ==
  ASSUME IInv, NEW r \in Requests, Tell(r)
  PROVE  IInv'
<1>1. PICK n, rest : n = Head(op[r].now) /\ rest = Tail(op[r].now)
  OBVIOUS
<1>2. /\ Tables /\ Speaks(r) /\ Stands(r) /\ op[r].stage \in {"open", "telling"}
      /\ n \in Notes /\ rest \in Seq(Notes) /\ IsInjective(rest)
      /\ ToSet(op[r].now) = {n} \cup ToSet(rest)
      /\ n \notin ToSet(rest) /\ n \notin ToSet(told[r]) /\ n \notin ToSet(op[r].later)
  BY <1>1, Sending DEF Tell
<1>3. /\ event' = event /\ log' = log /\ untold' = untold
      /\ told' = [told EXCEPT ![r] = Append(@, n)]
      /\ op' = [op EXCEPT ![r].now = rest]
  <2>1. op' = [op EXCEPT ![r].now = Tail(@)]
    BY DEF Tell
  <2>2. op' = [op EXCEPT ![r].now = rest]
    BY <1>1, <1>2, <2>1 DEF Tables
  <2> QED
    BY <1>1, <2>2 DEF Tell
<1>4. Turns(r, op[r].stage, rest, op[r].later)
  <2>1. op[r].stage \in Stages /\ op[r].later \in Seq(Notes)
    BY <1>2, Fields
  <2> QED
    BY <1>2, <1>3, <2>1, Turned
<1>5. PICK t : t = Append(told[r], n)
  OBVIOUS
<1>6. told[r] \in Seq(Notes) /\ IsInjective(told[r])
  BY <1>2, Fields DEF Speaks, Once
<1>7. t \in Seq(Notes) /\ ToSet(t) = ToSet(told[r]) \cup {n} /\ IsInjective(t)
  BY <1>2, <1>5, <1>6, AppendLists
<1>8. /\ told' \in [Requests -> Seq(Notes)] /\ told'[r] = t
      /\ \A p \in Requests \ {r} : told'[p] = told[p]
  <2>1. told \in [Requests -> Seq(Notes)]
    BY <1>2 DEF Tables
  <2> QED
    BY <1>3, <1>5, <1>7, <2>1
<1>9. Tables'
  BY <1>2, <1>3, <1>4, <1>8, TurnsTables DEF Tables
<1>10. /\ op'[r].stage = op[r].stage /\ op'[r].now = rest /\ op'[r].later = op[r].later
       /\ op'[r].kind = op[r].kind /\ op'[r].who = op[r].who
       /\ \A p \in Requests \ {r} : op'[p] = op[p]
  BY <1>4 DEF Turns
<1>11. Handled(r)' = Handled(r)
  BY <1>2, <1>3, <1>7, <1>8, <1>10 DEF Handled
<1>12. Mild(r)
  <2>1. op[r].stage = "open" =>
          \A q \in Requests \ {r} : op[q].stage = "open" => ~Excludes(op[r].kind, op[q].kind)
    BY DEF IInv, Locked
  <2> QED
    BY <1>2, <1>3, <1>8, <1>10, <1>11, <2>1 DEF Mild, Same, Keeps
<1>13. Speaks(r)'
  <2>1. Phase(r)'
    BY <1>2, <1>3, <1>10 DEF Speaks, Phase, Aimed
  <2>2. Once(r)'
    BY <1>2, <1>7, <1>8, <1>10 DEF Speaks, Once
  <2>3. Said(r)' = Said(r)
    BY <1>2, <1>7, <1>8, <1>10 DEF Said
  <2> QED
    BY <1>2, <1>3, <1>7, <1>8, <1>10, <2>1, <2>2, <2>3 DEF Speaks
<1>14. Stands(r)'
  <2>1. Due(r)' = Due(r)
    BY <1>3, <1>10, EventUnmoved DEF Due
  <2> QED
    BY <1>2, <1>3, <1>10, <1>11, <2>1 DEF Stands, Informed
<1> QED
  BY <1>9, <1>12, <1>13, <1>14, MildKeeps

(* What is left after a failure was to be sent anyway, and all of it is    *)
(* when no loop ends early.                                                *)
LEMMA RestLists ==
  ASSUME NEW s \in Seq(Notes), s # <<>>
  PROVE  /\ Rest(s) \in Seq(Notes) /\ ToSet(Rest(s)) \subseteq ToSet(s)
         /\ IsInjective(s) => IsInjective(Rest(s))
         /\ Head(s).kind \notin OneTry => Rest(s) = Tail(s)
<1>1. CASE Head(s).kind \in OneTry
  <2>1. Alike(s) \in Nat
    <3>1. DOMAIN s = 1..Len(s) /\ Len(s) \in Nat
      OBVIOUS
    <3>2. \A m \in Nat : IsFiniteSet(1..m)
      BY FS_Interval
    <3>3. {i \in DOMAIN s : s[i].kind = Head(s).kind} \in SUBSET (1..Len(s))
      BY <3>1
    <3>4. IsFiniteSet({i \in DOMAIN s : s[i].kind = Head(s).kind})
      BY <3>1, <3>2, <3>3, FS_Subset
    <3> QED
      BY <3>4, FS_CardinalityType DEF Alike
  <2>2. PICK m \in Nat : m = Alike(s)
    BY <2>1
  <2>3. Rest(s) = SubSeq(s, m + 1, Len(s))
    BY <1>1, <2>2 DEF Rest
  <2> QED
    BY <1>1, <2>3, DropLists
<1>2. CASE Head(s).kind \notin OneTry
  <2>1. Rest(s) = Tail(s)
    BY <1>2 DEF Rest
  <2> QED
    BY <2>1, TailLists
<1> QED
  BY <1>1, <1>2

LEMMA NotToldKeeps ==
  ASSUME IInv, NEW r \in Requests, NotTold(r)
  PROVE  IInv'
<1>1. PICK n, tail : n = Head(op[r].now) /\ tail = Tail(op[r].now)
  OBVIOUS
<1>2. /\ Tables /\ Speaks(r) /\ Stands(r) /\ op[r].stage \in {"open", "telling"}
      /\ n \in Notes /\ tail \in Seq(Notes) /\ IsInjective(tail)
      /\ ToSet(op[r].now) = {n} \cup ToSet(tail)
      /\ op[r].now # <<>> /\ op[r].now \in Seq(Notes)
  <2>1. Telling(r) /\ op[r].now # <<>>
    BY DEF NotTold, Telling
  <2>2. op[r].now \in Seq(Notes)
    BY Fields DEF IInv
  <2> QED
    BY <1>1, <2>1, <2>2, Sending
<1>3. PICK rest \in {tail, Rest(op[r].now)} :
        /\ op' = [op EXCEPT ![r].now = rest]
        /\ untold' = [untold EXCEPT ![r] = @ \cup {n}]
  BY <1>1 DEF NotTold
<1>4. event' = event /\ log' = log /\ told' = told
  BY DEF NotTold
<1>5. /\ rest \in Seq(Notes) /\ IsInjective(rest) /\ ToSet(rest) \subseteq ToSet(op[r].now)
      /\ op[r].kind \in Minded => rest = tail
  <2>1. IsInjective(op[r].now)
    BY <1>2 DEF Speaks, Once
  <2>2. op[r].kind \in Minded => n.kind \notin OneTry
    BY <1>2 DEF Speaks
  <2>3. /\ Rest(op[r].now) \in Seq(Notes) /\ ToSet(Rest(op[r].now)) \subseteq ToSet(op[r].now)
        /\ IsInjective(Rest(op[r].now))
        /\ n.kind \notin OneTry => Rest(op[r].now) = tail
    BY <1>1, <1>2, <2>1, RestLists
  <2> QED
    BY <1>2, <1>3, <2>2, <2>3
<1>6. Turns(r, op[r].stage, rest, op[r].later)
  <2>1. op[r].stage \in Stages /\ op[r].later \in Seq(Notes)
    BY <1>2, Fields
  <2> QED
    BY <1>2, <1>3, <1>5, <2>1, Turned
<1>7. /\ untold' \in [Requests -> SUBSET Notes] /\ untold'[r] = untold[r] \cup {n}
      /\ \A p \in Requests \ {r} : untold'[p] = untold[p]
  <2>1. untold \in [Requests -> SUBSET Notes]
    BY <1>2 DEF Tables
  <2> QED
    BY <1>2, <1>3, <2>1
<1>8. Tables'
  BY <1>2, <1>4, <1>6, <1>7, TurnsTables DEF Tables
<1>9. /\ op'[r].stage = op[r].stage /\ op'[r].now = rest /\ op'[r].later = op[r].later
      /\ op'[r].kind = op[r].kind /\ op'[r].who = op[r].who
      /\ \A p \in Requests \ {r} : op'[p] = op[p]
  BY <1>6 DEF Turns
<1>10. op[r].kind \in Minded => Handled(r)' = Handled(r)
  BY <1>2, <1>4, <1>5, <1>7, <1>9 DEF Handled
<1>11. Mild(r)
  <2>1. op[r].stage = "open" =>
          \A q \in Requests \ {r} : op[q].stage = "open" => ~Excludes(op[r].kind, op[q].kind)
    BY DEF IInv, Locked
  <2> QED
    BY <1>2, <1>4, <1>7, <1>9, <1>10, <2>1 DEF Mild, Same, Keeps
<1>12. Speaks(r)'
  <2>1. Phase(r)'
    BY <1>2, <1>4, <1>9 DEF Speaks, Phase, Aimed
  <2>2. Once(r)'
    BY <1>2, <1>4, <1>5, <1>9 DEF Speaks, Once
  <2>3. Said(r)' \subseteq Said(r)
    BY <1>4, <1>5, <1>9 DEF Said
  <2> QED
    BY <1>2, <1>4, <1>5, <1>9, <2>1, <2>2, <2>3 DEF Speaks
<1>13. Stands(r)'
  <2>1. Due(r)' = Due(r)
    BY <1>4, <1>9, EventUnmoved DEF Due
  <2>2. op[r].kind \in {"cancel"} \cup Appointing => op[r].kind \in Minded
    BY DEF Minded
  <2> QED
    BY <1>2, <1>4, <1>9, <1>10, <2>1, <2>2 DEF Stands, Informed
<1> QED
  BY <1>8, <1>11, <1>12, <1>13, MildKeeps

-----------------------------------------------------------------------------
(***************************************************************************)
(* What a commit does to the event.                                        *)
(***************************************************************************)

EventRows ==
  [status : Statuses, coordinator : Coordinators \cup {Nobody}, venue : BOOLEAN, reserved : BOOLEAN,
   staff : SUBSET Users, open : SUBSET Requests, going : [Attendees -> {"none"} \cup InLine]]

(* Each operation changes what is its own, nothing revives a cancelled     *)
(* event, and an assigned one has a coordinator.                           *)
Outcome(r, kind, who) ==
  /\ event' \in EventRows
  /\ kind \notin OfEvent => event'.status = event.status
  /\ event'.coordinator = (IF kind \in Appointing THEN who ELSE event.coordinator)
  /\ kind # "assign_staff" => event'.staff = event.staff
  /\ kind \notin ForSeats => event'.going = event.going
  /\ event'.open \subseteq event.open \cup (IF kind \in Asking THEN {r} ELSE {})
  /\ event'.status \in Assigned => event'.coordinator # Nobody
  /\ kind = "cancel" => event'.status = "cancelled"
  /\ event.status = "cancelled" =>
       event'.status = "cancelled" /\ event'.staff = event.staff
       /\ \A a \in Attendees : event'.going[a] \in InLine => event.going[a] \in InLine

LEMMA CommitOutcome ==
  ASSUME IInv, NEW r \in Requests, op[r].stage = "open", event' \in After(r),
         NEW kind, kind = op[r].kind, NEW who, who = op[r].who
  PROVE  Outcome(r, kind, who)
<1>1. /\ Tables /\ Managed /\ kind \in Operations /\ event.status \in Finds(kind)
      /\ kind \in Appointing => who \in (Coordinators \cap Active) \ {Organiser}
      /\ kind \in ForSeats => who \in Attendees
      /\ kind = "assign_staff" => who \in Users
  BY DEF IInv, Speaks, Phase, Aimed, Stands
<1>2. /\ event \in EventRows
      /\ event = [status |-> event.status, coordinator |-> event.coordinator, venue |-> event.venue,
                  reserved |-> event.reserved, staff |-> event.staff, open |-> event.open, going |-> event.going]
      /\ event.status \in Statuses /\ event.coordinator \in Coordinators \cup {Nobody}
      /\ event.venue \in BOOLEAN /\ event.reserved \in BOOLEAN
      /\ event.staff \subseteq Users /\ event.open \subseteq Requests
      /\ event.going \in [Attendees -> {"none"} \cup InLine]
  BY <1>1 DEF Tables, EventRows
<1>3. event.status \in Assigned => event.coordinator # Nobody
  BY <1>1 DEF Managed
<1>4. CASE kind \in {"submit", "decide_request", "confirm", "record_period"}
  <2>1. PICK st : event' = [event EXCEPT !.status = st] /\ st \in Statuses
                  /\ (st \in Assigned => event.status \in Assigned)
    BY <1>1, <1>4 DEF After, Finds, Statuses, Requestable, Assigned, Cancellable
  <2>2. event' = [status |-> st, coordinator |-> event.coordinator, venue |-> event.venue,
                  reserved |-> event.reserved, staff |-> event.staff, open |-> event.open, going |-> event.going]
    BY <1>2, <2>1
  <2>3. kind \in OfEvent /\ kind \notin Appointing /\ kind # "cancel" /\ event.status # "cancelled"
    BY <1>1, <1>4 DEF OfEvent, Appointing, Finds, Cancellable
  <2> QED
    BY <1>2, <1>3, <2>1, <2>2, <2>3 DEF Outcome, EventRows
<1>5. CASE kind \in Appointing
  <2>1. PICK st : /\ event' = [event EXCEPT !.status = st, !.coordinator = who]
                  /\ st \in Statuses /\ event.status # "cancelled"
    <3>1. CASE kind = "assign"
      BY <1>1, <1>5, <3>1 DEF After, Finds, Statuses, Requestable, Assigned
    <3>2. CASE kind = "reassign"
      <4>1. event' = [event EXCEPT !.coordinator = who]
        BY <3>2 DEF After
      <4>2. event' = [event EXCEPT !.status = event.status, !.coordinator = who]
        BY <1>2, <4>1
      <4> QED
        BY <1>1, <1>2, <3>2, <4>2 DEF Finds, Assigned
    <3> QED
      BY <1>5, <3>1, <3>2 DEF Appointing
  <2>2. event' = [status |-> st, coordinator |-> who, venue |-> event.venue,
                  reserved |-> event.reserved, staff |-> event.staff, open |-> event.open, going |-> event.going]
    BY <1>2, <2>1
  <2>3. kind \in OfEvent /\ kind # "cancel" /\ who \in Coordinators /\ who # Nobody
    BY <1>1, <1>5, NobodyAssumption DEF OfEvent, Appointing, Coordinators
  <2> QED
    BY <1>2, <1>5, <2>1, <2>2, <2>3 DEF Outcome, EventRows
<1>6. CASE kind \in Asking \cup {"reject_cancellation", "reject_change"}
  <2>1. PICK S : event' = [event EXCEPT !.open = S]
                 /\ S \subseteq event.open \cup (IF kind \in Asking THEN {r} ELSE {})
    BY <1>6 DEF After, Asking
  <2>2. event' = [status |-> event.status, coordinator |-> event.coordinator, venue |-> event.venue,
                  reserved |-> event.reserved, staff |-> event.staff, open |-> S, going |-> event.going]
    BY <1>2, <2>1
  <2>3. S \subseteq Requests
    BY <1>2, <2>1
  <2>4. kind \notin Appointing /\ kind # "cancel"
    BY <1>6 DEF Appointing, Asking
  <2> QED
    BY <1>2, <1>3, <2>1, <2>2, <2>3, <2>4 DEF Outcome, EventRows
<1>7. CASE kind = "approve_change"
  <2>1. PICK D : event' = [event EXCEPT !.open = @ \ D, !.status = IF @ = "confirmed" THEN "planning" ELSE @]
    BY <1>7 DEF After
  <2>2. PICK st : st = IF event.status = "confirmed" THEN "planning" ELSE event.status
    OBVIOUS
  <2>3. event' = [status |-> st, coordinator |-> event.coordinator, venue |-> event.venue,
                  reserved |-> event.reserved, staff |-> event.staff, open |-> event.open \ D, going |-> event.going]
    BY <1>2, <2>1, <2>2
  <2>4. event.status \in Assigned /\ st \in Statuses
    BY <1>1, <1>7, <2>2 DEF Finds, Statuses, Requestable, Assigned
  <2>5. kind \in OfEvent /\ kind \notin Appointing /\ event.status # "cancelled"
    BY <1>7, <2>4 DEF OfEvent, Appointing, Assigned
  <2> QED
    BY <1>2, <1>3, <1>7, <2>3, <2>4, <2>5 DEF Outcome, EventRows
<1>8. CASE kind = "cancel"
  <2>1. event' = [event EXCEPT !.status = "cancelled", !.venue = FALSE, !.reserved = FALSE, !.open = {}]
    BY <1>8 DEF After
  <2>2. event' = [status |-> "cancelled", coordinator |-> event.coordinator, venue |-> FALSE,
                  reserved |-> FALSE, staff |-> event.staff, open |-> {}, going |-> event.going]
    BY <1>2, <2>1
  <2>3. kind \in OfEvent /\ kind \notin Appointing /\ "cancelled" \in Statuses /\ "cancelled" \notin Assigned
    BY <1>8 DEF OfEvent, Appointing, Statuses, Assigned
  <2> QED
    BY <1>2, <2>2, <2>3 DEF Outcome, EventRows
<1>9. CASE kind \in {"approve_booking", "withdraw_booking"}
  <2>1. PICK v \in BOOLEAN : event' = [event EXCEPT !.venue = v]
    BY <1>9 DEF After
  <2>2. event' = [status |-> event.status, coordinator |-> event.coordinator, venue |-> v,
                  reserved |-> event.reserved, staff |-> event.staff, open |-> event.open, going |-> event.going]
    BY <1>2, <2>1
  <2>3. kind \notin Appointing /\ kind # "cancel"
    BY <1>9 DEF Appointing
  <2> QED
    BY <1>2, <1>3, <2>2, <2>3 DEF Outcome, EventRows
<1>10. CASE kind = "assign_staff"
  <2>1. event' = [event EXCEPT !.staff = @ \cup {who}]
    BY <1>10 DEF After
  <2>2. event' = [status |-> event.status, coordinator |-> event.coordinator, venue |-> event.venue,
                  reserved |-> event.reserved, staff |-> event.staff \cup {who}, open |-> event.open,
                  going |-> event.going]
    BY <1>2, <2>1
  <2>3. kind \notin Appointing /\ event.status # "cancelled" /\ event.staff \cup {who} \subseteq Users
    BY <1>1, <1>2, <1>10 DEF Appointing, Finds, Cancellable
  <2> QED
    BY <1>2, <1>3, <1>10, <2>2, <2>3 DEF Outcome, EventRows
<1>11. CASE kind \in ForSeats
  <2>1. PICK g \in [Attendees -> {"none"} \cup InLine] :
          /\ event' = [event EXCEPT !.going = g]
          /\ event.status = "cancelled" => \A a \in Attendees : g[a] \in InLine => event.going[a] \in InLine
    <3>1. CASE kind \in {"register", "join"}
      <4>1. PICK s \in InLine : event' = [event EXCEPT !.going[who] = s]
        BY <3>1 DEF After, InLine
      <4>2. event.status # "cancelled"
        BY <1>1, <3>1 DEF Finds
      <4>3. event' = [event EXCEPT !.going = [event.going EXCEPT ![who] = s]]
        BY <4>1
      <4>4. [event.going EXCEPT ![who] = s] \in [Attendees -> {"none"} \cup InLine]
        BY <1>2
      <4> QED
        BY <4>2, <4>3, <4>4
    <3>2. CASE kind = "withdraw"
      <4> DEFINE g == [b \in Attendees |-> IF b = who THEN "none"
                       ELSE IF FreesAPlace(who) /\ b = NextInLine THEN "offered" ELSE event.going[b]]
      <4>1. event' = [event EXCEPT !.going = g]
        BY <3>2 DEF After, Withdrawn
      <4>2. g \in [Attendees -> {"none"} \cup InLine]
        BY <1>2 DEF InLine
      <4>3. event.status = "cancelled" => \A a \in Attendees : g[a] \in InLine => event.going[a] \in InLine
        BY DEF FreesAPlace, InLine
      <4> QED
        BY <4>1, <4>2, <4>3
    <3> QED
      BY <1>11, <3>1, <3>2 DEF ForSeats
  <2>2. event' = [status |-> event.status, coordinator |-> event.coordinator, venue |-> event.venue,
                  reserved |-> event.reserved, staff |-> event.staff, open |-> event.open, going |-> g]
    BY <1>2, <2>1
  <2>3. kind \notin Appointing /\ kind # "cancel"
    BY <1>11 DEF Appointing, ForSeats
  <2> QED
    BY <1>2, <1>3, <1>11, <2>1, <2>2, <2>3 DEF Outcome, EventRows
<1>12. CASE kind \notin {"submit", "decide_request", "confirm", "record_period", "reject_cancellation",
                         "reject_change", "approve_change", "cancel", "approve_booking", "withdraw_booking",
                         "assign_staff"} \cup Appointing \cup Asking \cup ForSeats
  <2>1. event' = event
    BY <1>12 DEF After, Appointing, Asking, ForSeats
  <2> QED
    BY <1>2, <1>3, <1>12, <2>1 DEF Outcome
<1> QED
  BY <1>4, <1>5, <1>6, <1>7, <1>8, <1>9, <1>10, <1>11, <1>12

-----------------------------------------------------------------------------
(***************************************************************************)
(* A request commits.                                                      *)
(***************************************************************************)

(* What was before something stays there, and a new commit comes last.     *)
LEMMA LogGrows ==
  ASSUME Tables, NEW r \in Requests, log' = Append(log, r)
  PROVE  /\ log' \in Seq(Requests) /\ ToSet(log') = ToSet(log) \cup {r}
         /\ \A q, p : Before(q, p) => Before(q, p)'
         /\ \A q : q \in ToSet(log) => Before(q, r)'
<1>1. log \in Seq(Requests)
  BY DEF Tables
<1>2. /\ Len(log) \in Nat /\ DOMAIN log = 1..Len(log) /\ DOMAIN log' = 1..(Len(log) + 1)
      /\ \A i \in 1..Len(log) : log'[i] = log[i] /\ i \in 1..(Len(log) + 1) /\ i < Len(log) + 1
      /\ log'[Len(log) + 1] = r /\ Len(log) + 1 \in 1..(Len(log) + 1)
  BY <1>1
<1>3. log' \in Seq(Requests) /\ ToSet(log') = ToSet(log) \cup {r}
  BY <1>1, AppendLists
<1>4. \A q, p : Before(q, p) => Before(q, p)'
  BY <1>2 DEF Before
<1>5. ASSUME NEW q, q \in ToSet(log)
      PROVE  Before(q, r)'
  <2>1. PICK i \in 1..Len(log) : log[i] = q
    BY <1>2, <1>5 DEF ToSet
  <2> QED
    BY <1>2, <2>1 DEF Before
<1> QED
  BY <1>3, <1>4, <1>5

(* What a commit brings about.                                             *)
Commits(r, kind, who) ==
  /\ Outcome(r, kind, who)
  /\ log' \in Seq(Requests) /\ ToSet(log') = ToSet(log) \cup {r}
  /\ \A q, p : Before(q, p) => Before(q, p)'
  /\ \A q : q \in ToSet(log) => Before(q, r)'
  /\ op[r].kind = kind /\ op[r].who = who /\ op[r].stage = "open"
  /\ r \notin ToSet(log)
  /\ \A p \in Requests \ {r} : Same(p)
  /\ \A p \in Requests \ {r} : op[p].stage = "open" => ~Excludes(kind, op[p].kind)
  /\ op'[r] = [kind |-> kind, who |-> who, stage |-> "committed", now |-> op[r].later, later |-> <<>>]
  /\ told'[r] = told[r] /\ untold'[r] = untold[r]
  /\ kind \in Appointing => who \in Active
  /\ kind \in Operations

LEMMA CommitCommits ==
  ASSUME IInv, NEW r \in Requests, Commit(r)
  PROVE  /\ Tables'
         /\ \E kind, who : Commits(r, kind, who)
<1>1. /\ Tables /\ Speaks(r) /\ op[r].stage = "open" /\ event' \in After(r)
      /\ log' = Append(log, r) /\ told' = told /\ untold' = untold
      /\ op' = [op EXCEPT ![r].stage = "committed", ![r].now = op[r].later, ![r].later = <<>>]
  BY DEF IInv, Commit
<1>2. PICK kind, who : kind = op[r].kind /\ who = op[r].who
  OBVIOUS
<1>3. Outcome(r, kind, who)
  BY <1>1, <1>2, CommitOutcome
<1>4. Turns(r, "committed", op[r].later, <<>>)
  <2>1. "committed" \in Stages /\ op[r].later \in Seq(Notes) /\ <<>> \in Seq(Notes)
    BY <1>1, Fields DEF Stages
  <2> QED
    BY <1>1, <2>1, Turned
<1>5. /\ log' \in Seq(Requests) /\ ToSet(log') = ToSet(log) \cup {r}
      /\ \A q, p : Before(q, p) => Before(q, p)'
      /\ \A q : q \in ToSet(log) => Before(q, r)'
  BY <1>1, LogGrows
<1>6. Tables'
  <2>1. event' \in EventRows
    BY <1>3 DEF Outcome
  <2> QED
    BY <1>1, <1>4, <1>5, <2>1 DEF Tables, Turns, EventRows
<1>7. r \notin ToSet(log) /\ kind \in Operations /\ (kind \in Appointing => who \in Active)
  BY <1>1, <1>2 DEF Speaks, Phase, Aimed
<1>8. \A p \in Requests \ {r} : op[p].stage = "open" => ~Excludes(kind, op[p].kind)
  BY <1>1, <1>2 DEF IInv, Locked
<1>9. \A p \in Requests \ {r} : Same(p)
  BY <1>1, <1>4 DEF Same, Turns
<1>10. op'[r] = [kind |-> kind, who |-> who, stage |-> "committed", now |-> op[r].later, later |-> <<>>]
  BY <1>2, <1>4 DEF Turns
<1>11. Commits(r, kind, who)
  BY <1>1, <1>2, <1>3, <1>5, <1>7, <1>8, <1>9, <1>10 DEF Commits
<1> QED
  BY <1>6, <1>11

(* Who decides, and who is involved, after a commit.                       *)
LEMMA CommitPeople ==
  ASSUME Tables, NEW r, NEW kind, NEW who, Outcome(r, kind, who)
  PROVE  /\ kind \notin Appointing => Deciders' = Deciders /\ event'.coordinator = event.coordinator
         /\ kind \notin {"assign_staff"} \cup ForSeats => Involved' = Involved
         /\ event.status = "cancelled" => Involved' \subseteq Involved
<1>1. kind \notin Appointing => Deciders' = Deciders /\ event'.coordinator = event.coordinator
  BY DEF Outcome, Deciders
<1>2. kind \notin ForSeats => Going' = Going
  BY DEF Outcome, Going
<1>3. event.status = "cancelled" => Going' \subseteq Going
  BY DEF Outcome, Going
<1>4. kind # "assign_staff" => event'.staff = event.staff
  BY DEF Outcome
<1>5. event.status = "cancelled" => event'.staff = event.staff
  BY DEF Outcome
<1> QED
  BY <1>1, <1>2, <1>3, <1>4, <1>5 DEF Involved

(* The request that commits has told nobody twice, and is about to tell    *)
(* whoever it owes.                                                        *)
LEMMA CommitSelf ==
  ASSUME IInv, NEW r \in Requests, NEW kind, NEW who, Commits(r, kind, who)
  PROVE  Speaks(r)' /\ Stands(r)'
<1>1. /\ Tables /\ Speaks(r) /\ Stands(r) /\ op[r].stage = "open" /\ op[r].kind = kind /\ op[r].who = who
      /\ ToSet(log)' = ToSet(log) \cup {r}
      /\ told'[r] = told[r] /\ untold'[r] = untold[r] /\ Outcome(r, kind, who)
  BY DEF IInv, Commits
<1>2. /\ op'[r].kind = kind /\ op'[r].who = who /\ op'[r].stage = "committed" /\ op'[r].now = op[r].later
      /\ op'[r].later = <<>>
  BY DEF Commits
<1>3. ToSet(<<>>) = {} /\ IsInjective(<<>>)
  BY EmptyList DEF Lists
<1>4. Speaks(r)'
  <2>1. Phase(r)'
    BY <1>1, <1>2 DEF Speaks, Phase, Aimed
  <2>2. Once(r)'
    BY <1>1, <1>2, <1>3 DEF Speaks, Once
  <2>3. Said(r)' \subseteq Said(r)
    BY <1>1, <1>2, <1>3 DEF Said
  <2> QED
    BY <1>1, <1>2, <1>3, <2>1, <2>2, <2>3 DEF Speaks
<1>5. Stands(r)'
  <2>1. Due(r) \subseteq ToSet(op[r].later)
    BY <1>1 DEF Stands
  <2>2. kind \in {"cancel"} \cup Appointing => Due(r)' = Due(r)
    <3>1. CASE kind = "cancel"
      <4>1. Involved' = Involved
        BY <1>1, <3>1, CommitPeople DEF ForSeats
      <4> QED
        BY <1>1, <1>2, <3>1, <4>1 DEF Due, Owed, All
    <3>2. CASE kind \in Appointing
      BY <1>1, <1>2, <3>2, AppointmentOwes DEF Due
    <3> QED
      BY <3>1, <3>2
  <2>3. kind = "cancel" => event'.status = "cancelled"
    BY <1>1 DEF Outcome
  <2> QED
    BY <1>1, <1>2, <2>1, <2>2, <2>3 DEF Stands, Informed, Handled
<1> QED
  BY <1>4, <1>5

(* The others' promises hold after it: the open ones' because their locks  *)
(* keep out whatever would break them.                                     *)
LEMMA CommitOthers ==
  ASSUME IInv, NEW r \in Requests, NEW kind, NEW who, Commits(r, kind, who), NEW p \in Requests \ {r}
  PROVE  Speaks(p)' /\ Stands(p)'
<1>1. /\ Tables /\ Speaks(p) /\ Stands(p) /\ Same(p) /\ Outcome(r, kind, who)
      /\ ToSet(log)' = ToSet(log) \cup {r}
      /\ op[p].stage = "open" => ~Excludes(kind, op[p].kind)
  BY DEF IInv, Commits
<1>2. p \in ToSet(log)' <=> p \in ToSet(log)
  BY <1>1
<1>3. Speaks(p)'
  BY <1>1, <1>2, SameSpeaks
<1>4. op'[p] = op[p] /\ Handled(p)' = Handled(p)
  BY <1>1 DEF Same, Handled
<1>5. ASSUME op[p].stage = "open"
      PROVE  event'.status \in Finds(op[p].kind)
  <2>1. CASE kind \in OfEvent
    <3>1. op[p].kind \notin Exclusive \cup Shared
      BY <1>1, <1>5, <2>1 DEF Excludes, Exclusive
    <3>2. Finds(op[p].kind) = Statuses
      BY <3>1 DEF Finds, Exclusive, Shared, OfEvent, ForSeats
    <3> QED
      BY <1>1, <3>2 DEF Outcome, EventRows
  <2>2. CASE kind \notin OfEvent
    BY <1>1, <1>5, <2>2 DEF Outcome, Stands
  <2> QED
    BY <2>1, <2>2
<1>6. ASSUME op[p].stage = "open"
      PROVE  Due(p)' = Due(p)
  <2>1. CASE op[p].kind = "cancel"
    <3>1. kind \notin Exclusive \cup Shared
      BY <1>1, <1>6, <2>1 DEF Excludes, Exclusive, OfEvent
    <3>2. kind \notin {"assign_staff"} \cup ForSeats
      BY <3>1 DEF Exclusive, Shared
    <3>3. Involved' = Involved
      BY <1>1, <3>2, CommitPeople
    <3> QED
      BY <1>4, <2>1, <3>3 DEF Due, Owed, All
  <2>2. CASE op[p].kind \in Appointing
    BY <1>4, <2>2, AppointmentOwes DEF Due
  <2>3. CASE op[p].kind = "ask_cancellation"
    <3>1. kind \notin Exclusive \cup Shared
      BY <1>1, <1>6, <2>3 DEF Excludes, Exclusive, OfEvent
    <3>2. kind \notin Appointing
      BY <3>1 DEF Exclusive, OfEvent, Appointing
    <3>3. Deciders' = Deciders
      BY <1>1, <3>2, CommitPeople
    <3> QED
      BY <1>4, <2>3, <3>3 DEF Due, Owed, All
  <2>4. CASE op[p].kind \notin {"cancel", "ask_cancellation"} \cup Appointing
    BY <1>4, <2>4 DEF Due, Owed, Appointing
  <2> QED
    BY <2>1, <2>2, <2>3, <2>4
<1>7. ASSUME p \in ToSet(log), op[p].kind = "cancel"
      PROVE  Informed(p, Due(p))' /\ event'.status = "cancelled"
  <2>1. event.status = "cancelled" /\ Informed(p, Due(p))
    BY <1>1, <1>7 DEF Stands
  <2>2. event'.status = "cancelled" /\ Involved' \subseteq Involved
    BY <1>1, <2>1, CommitPeople DEF Outcome
  <2>3. Due(p)' \subseteq Due(p)
    BY <1>4, <1>7, <2>2 DEF Due, Owed, All
  <2> QED
    BY <1>4, <2>1, <2>2, <2>3 DEF Informed
<1>8. ASSUME p \in ToSet(log), op[p].kind \in Appointing
      PROVE  Informed(p, Due(p))'
  <2>1. Informed(p, Due(p))
    BY <1>1, <1>8 DEF Stands
  <2>2. Due(p)' = Due(p)
    BY <1>4, <1>8, AppointmentOwes DEF Due
  <2> QED
    BY <1>4, <2>1, <2>2 DEF Informed
<1>9. Stands(p)'
  BY <1>1, <1>2, <1>4, <1>5, <1>6, <1>7, <1>8 DEF Stands, Appointing
<1> QED
  BY <1>3, <1>9

(* Whoever decides on an open request still knows of it.                   *)
LEMMA CommitKnown ==
  ASSUME IInv, NEW r \in Requests, NEW kind, NEW who, Commits(r, kind, who), Stands(r)', NEW q \in event'.open
  PROVE  Known(q)'
<1>1. /\ Tables /\ Outcome(r, kind, who) /\ ToSet(log)' = ToSet(log) \cup {r}
      /\ op[r].kind = kind /\ op[r].who = who /\ op[r].stage = "open" /\ r \notin ToSet(log)
      /\ op'[r].kind = kind /\ op'[r].who = who /\ op'[r].stage = "committed" /\ op'[r].now = op[r].later
  BY DEF IInv, Commits
<1>2. CASE q = r
  <2>1. r \notin event.open
    BY <1>1 DEF IInv, Known
  <2>2. kind \in Asking
    BY <1>1, <1>2, <2>1 DEF Outcome
  <2>3. CASE kind = "ask_change"
    BY <1>1, <1>2, <2>2, <2>3 DEF Known
  <2>4. CASE kind = "ask_cancellation"
    <3>1. Deciders' = Deciders
      BY <1>1, <2>4, CommitPeople DEF Appointing
    <3>2. All("cancellation_requested", Deciders) \subseteq ToSet(op[r].later)
      BY <1>1, <2>4 DEF IInv, Stands, Due, Owed, Appointing
    <3>3. AskedKind(r)' = "cancellation_requested"
      BY <1>1, <2>4 DEF AskedKind
    <3>4. All(AskedKind(r), Deciders)' \subseteq ToSet(op[r].later)
      BY <3>1, <3>2, <3>3 DEF All
    <3>5. Informed(r, All(AskedKind(r), Deciders))'
      BY <1>1, <3>4 DEF Informed, Handled
    <3> QED
      BY <1>1, <1>2, <2>2, <3>5 DEF Known
  <2> QED
    BY <2>2, <2>3, <2>4 DEF Asking
<1>3. CASE q # r
  <2>1. q \in event.open /\ q \in Requests /\ Known(q)
    <3>1. q \in event.open
      BY <1>1, <1>3 DEF Outcome
    <3> QED
      BY <1>1, <3>1 DEF IInv, Tables
  <2>2. Same(q) /\ \A p \in Requests \ {r} : Same(p)
    BY <1>3, <2>1 DEF Commits
  <2>3. q \in ToSet(log) /\ op[q].kind \in Asking /\ op'[q] = op[q] /\ Handled(q)' = Handled(q)
    BY <2>1, <2>2 DEF Known, Same, Handled
  <2>4. (q \in ToSet(log) /\ op[q].kind \in Asking)' /\ AskedKind(q)' = AskedKind(q)
    BY <1>1, <2>3 DEF AskedKind
  <2>5. CASE kind \in Appointing
    <3>1. event'.coordinator = who /\ who \in Active
      BY <1>1, <2>5 DEF Outcome, Commits
    <3>2. Before(q, r)'
      BY <2>3 DEF Commits
    <3>3. Informed(r, Due(r))'
      BY <1>1, <2>5 DEF Stands
    <3>4. Succeeded(q, event.coordinator)'
      BY <1>1, <2>5, <3>1, <3>2, <3>3 DEF Succeeded
    <3> QED
      BY <2>4, <3>1, <3>4 DEF Known
  <2>6. CASE kind \notin Appointing
    <3>1. Deciders' = Deciders /\ event'.coordinator = event.coordinator
      BY <1>1, <2>6, CommitPeople
    <3>2. CASE op[q].kind = "ask_change" /\ op[q].stage = "committed"
      BY <2>3, <2>4, <3>2 DEF Known
    <3>3. CASE Informed(q, All(AskedKind(q), Deciders))
      <4>1. All(AskedKind(q), Deciders)' = All(AskedKind(q), Deciders)
        BY <2>4, <3>1 DEF All
      <4>2. Informed(q, All(AskedKind(q), Deciders))'
        BY <2>3, <3>3, <4>1 DEF Informed
      <4> QED
        BY <2>4, <4>2 DEF Known
    <3>4. CASE event.coordinator \in Active /\ Succeeded(q, event.coordinator)
      <4>1. PICK p \in Requests :
              Before(q, p) /\ op[p].kind \in Appointing /\ op[p].who = event.coordinator /\ Informed(p, Due(p))
        BY <3>4 DEF Succeeded
      <4>2. p # r
        BY <1>1, <4>1, BeforeLogged
      <4>3. op'[p] = op[p] /\ Handled(p)' = Handled(p)
        BY <2>2, <4>2 DEF Same, Handled
      <4>4. Due(p)' = Due(p)
        BY <4>1, <4>3, AppointmentOwes DEF Due
      <4>5. Before(q, p)'
        BY <4>1 DEF Commits
      <4>6. Succeeded(q, event.coordinator)'
        BY <3>1, <4>1, <4>3, <4>4, <4>5 DEF Succeeded, Informed
      <4> QED
        BY <2>4, <3>1, <3>4, <4>6 DEF Known
    <3> QED
      BY <2>1, <3>2, <3>3, <3>4 DEF Known
  <2> QED
    BY <2>5, <2>6
<1> QED
  BY <1>2, <1>3

LEMMA CommitKeeps ==
  ASSUME IInv, NEW r \in Requests, Commit(r)
  PROVE  IInv'
<1>1. Tables'
  BY CommitCommits
<1>2. PICK kind, who : Commits(r, kind, who)
  BY CommitCommits
<1>3. Speaks(r)' /\ Stands(r)'
  BY <1>2, CommitSelf
<1>4. \A p \in Requests : Speaks(p)' /\ Stands(p)'
  <2> TAKE p \in Requests
  <2>1. CASE p = r
    BY <1>3, <2>1
  <2>2. CASE p # r
    BY <1>2, <2>2, CommitOthers
  <2> QED
    BY <2>1, <2>2
<1>5. \A q \in event'.open : Known(q)'
  BY <1>2, <1>3, CommitKnown
<1>6. Locked'
  <2>1. op'[r].stage = "committed" /\ \A p \in Requests \ {r} : op'[p] = op[p]
    BY <1>2 DEF Commits, Same
  <2> SUFFICES ASSUME NEW p \in Requests, NEW q \in Requests, p # q,
                      op'[p].stage = "open", op'[q].stage = "open"
               PROVE  ~Excludes(op'[p].kind, op'[q].kind)
    BY DEF Locked, Excludes
  <2>2. p # r /\ q # r
    BY <2>1
  <2>3. op'[p] = op[p] /\ op'[q] = op[q]
    BY <2>1, <2>2
  <2> QED
    BY <2>3 DEF IInv, Locked
<1>7. Managed'
  <2>1. Outcome(r, kind, who) /\ Managed
    BY <1>2 DEF Commits, IInv
  <2>2. event'.coordinator # Organiser
    <3>1. kind \in Appointing => who # Organiser
      <4>1. op[r].kind = kind /\ op[r].who = who /\ op[r].stage = "open"
        BY <1>2 DEF Commits
      <4>2. Aimed(r)
        BY <4>1 DEF IInv, Speaks, Phase
      <4> QED
        BY <4>1, <4>2 DEF Aimed
    <3> QED
      BY <2>1, <3>1 DEF Outcome, Managed
  <2> QED
    BY <2>1, <2>2 DEF Outcome, Managed
<1> QED
  BY <1>1, <1>4, <1>5, <1>6, <1>7 DEF IInv

-----------------------------------------------------------------------------
(***************************************************************************)
(* The theorems.                                                           *)
(***************************************************************************)

LEMMA InitHolds ==
  ASSUME Init
  PROVE  IInv
<1>1. /\ op = [r \in Requests |-> Idle] /\ told = [r \in Requests |-> <<>>]
      /\ untold = [r \in Requests |-> {}] /\ log = <<>>
  BY DEF Init
<1>2. ToSet(<<>>) = {} /\ IsInjective(<<>>)
  BY EmptyList DEF Lists
<1>3. Tables
  <2>1. event \in [status : {"draft", "submitted"} \cup Assigned, coordinator : Coordinators \cup {Nobody},
                   venue : BOOLEAN, reserved : BOOLEAN, staff : {{}}, open : {{}},
                   going : [Attendees -> {"none", "registered", "waitlisted"}]]
    BY DEF Init
  <2>2. event \in [status : Statuses, coordinator : Coordinators \cup {Nobody}, venue : BOOLEAN,
                   reserved : BOOLEAN, staff : SUBSET Users, open : SUBSET Requests,
                   going : [Attendees -> {"none"} \cup InLine]]
    <3>1. {"draft", "submitted"} \cup Assigned \subseteq Statuses
      BY DEF Statuses, Requestable
    <3>2. event.going \in [Attendees -> {"none"} \cup InLine]
      BY <2>1 DEF InLine
    <3> QED
      BY <2>1, <3>1, <3>2
  <2>3. Idle \in [kind : Operations \cup {Nobody}, who : Users \cup {Nobody}, stage : Stages,
                  now : Seq(Notes), later : Seq(Notes)]
    <3>1. <<>> \in Seq(Notes)
      OBVIOUS
    <3> QED
      BY <3>1 DEF Idle, Stages
  <2> QED
    BY <1>1, <2>2, <2>3 DEF Tables
<1>4. event.open = {}
  BY DEF Init
<1>5. Managed
  BY NobodyAssumption DEF Init, Managed
<1>6. ASSUME NEW r \in Requests
      PROVE  Speaks(r) /\ Stands(r) /\ op[r].stage = "idle"
  <2>1. /\ op[r].stage = "idle" /\ op[r].now = <<>> /\ op[r].later = <<>> /\ told[r] = <<>>
        /\ r \notin ToSet(log)
    BY <1>1, <1>2 DEF Idle
  <2>2. Phase(r)
    BY <1>1, <2>1 DEF Phase
  <2>3. Once(r)
    BY <1>2, <2>1 DEF Once
  <2> QED
    BY <1>2, <2>1, <2>2, <2>3 DEF Speaks, Stands
<1>7. Locked
  BY <1>6 DEF Locked
<1> QED
  BY <1>3, <1>4, <1>5, <1>6, <1>7 DEF IInv

LEMMA NextKeeps ==
  ASSUME IInv, [Next]_vars
  PROVE  IInv'
<1>1. CASE UNCHANGED vars
  <2>1. event' = event /\ op' = op /\ told' = told /\ untold' = untold /\ log' = log
    BY <1>1 DEF vars
  <2>2. Tables'
    BY <2>1 DEF IInv, Tables
  <2>3. CASE Requests = {}
    BY <2>1, <2>2, <2>3 DEF IInv, Tables, Managed, Locked
  <2>4. ASSUME NEW r \in Requests
        PROVE  IInv'
    <3>1. Same(r) /\ \A p \in Requests \ {r} : Same(p)
      BY <2>1 DEF Same
    <3>2. Speaks(r) /\ Stands(r) /\ Locked
      BY DEF IInv
    <3>3. Speaks(r)'
      BY <2>1, <3>1, <3>2, SameSpeaks
    <3>4. Due(r)' = Due(r) /\ Handled(r)' = Handled(r)
      BY <2>1, EventUnmoved DEF Due, Handled
    <3>5. Stands(r)'
      BY <2>1, <3>2, <3>4 DEF Stands, Informed
    <3>6. Mild(r)
      BY <2>1, <3>1, <3>2, SameKeeps DEF Mild, Locked
    <3> QED
      BY <2>2, <3>3, <3>5, <3>6, MildKeeps
  <2> QED
    BY <2>3, <2>4
<1>2. CASE Next
  <2>1. PICK r \in Requests :
          \/ \E kind \in Offered[r] : Begin(r, kind)
          \/ Commit(r) \/ Rollback(r) \/ LookUp(r) \/ LookUpFails(r)
          \/ Tell(r) \/ NotTold(r) \/ Crash(r)
    BY <1>2 DEF Next
  <2>2. CASE \E kind \in Offered[r] : Begin(r, kind)
    BY <2>2, BeginKeeps
  <2>3. CASE Commit(r)
    BY <2>3, CommitKeeps
  <2>4. CASE Rollback(r)
    BY <2>4, RollbackKeeps
  <2>5. CASE LookUp(r)
    BY <2>5, LookUpKeeps
  <2>6. CASE LookUpFails(r)
    BY <2>6, LookUpFailsKeeps
  <2>7. CASE Tell(r)
    BY <2>7, TellKeeps
  <2>8. CASE NotTold(r)
    BY <2>8, NotToldKeeps
  <2>9. CASE Crash(r)
    BY <2>9, CrashKeeps
  <2> QED
    BY <2>1, <2>2, <2>3, <2>4, <2>5, <2>6, <2>7, <2>8, <2>9
<1> QED
  BY <1>1, <1>2

(* The inductive invariant holds in every state the services reach.        *)
THEOREM Invariance == Spec => []IInv
<1>1. Init => IInv
  BY InitHolds
<1>2. IInv /\ [Next]_vars => IInv'
  BY NextKeeps
<1> QED
  BY <1>1, <1>2, PTL DEF Spec

(* Every state is a state of the tables, and every notice goes to a user:  *)
(* no service tells the coordinator an event does not have.                *)
THEOREM TypeCorrect == Spec => []TypeOK
<1>1. ASSUME IInv
      PROVE  TypeOK
  <2>1. Tables
    BY <1>1 DEF IInv
  <2>2. ASSUME NEW r \in Requests
        PROVE  ToSet(op[r].now \o op[r].later \o told[r]) \cup untold[r] \subseteq [kind : Kinds, to : Users]
    <3>1. PICK a, b, c : a = op[r].now /\ b = op[r].later /\ c = told[r]
      OBVIOUS
    <3>2. a \in Seq(Notes) /\ b \in Seq(Notes) /\ c \in Seq(Notes) /\ untold[r] \subseteq Notes
      BY <2>1, <3>1, Fields
    <3>3. PICK ab : ab = a \o b
      OBVIOUS
    <3>4. ab \in Seq(Notes)
      BY <3>2, <3>3
    <3>5. ab \o c \in Seq(Notes)
      BY <3>2, <3>4
    <3>6. ToSet(ab \o c) \subseteq Notes
      BY <3>5, ListsFinite
    <3> QED
      BY <3>1, <3>2, <3>3, <3>6 DEF Notes
  <2>3. ToSet(log) \subseteq Requests
    BY <2>1, ListsFinite DEF Tables
  <2> QED
    BY <2>1, <2>2, <2>3 DEF TypeOK, Tables, Statuses
<1> QED
  BY <1>1, Invariance, PTL

(* When a cancellation is over, everybody still involved in the event has  *)
(* been told, or the notice to that very person failed, whoever registers, *)
(* is assigned or withdraws meanwhile (CancellationService._recipients).   *)
THEOREM CancellationTellsAll == Spec => []CancellationReachesEveryone
<1>1. ASSUME IInv
      PROVE  CancellationReachesEveryone
  <2> SUFFICES ASSUME NEW r \in Committed("cancel"), Over(r), NEW u \in Involved
               PROVE  Reached(r, "event_cancelled", u)
    BY DEF CancellationReachesEveryone, Involved
  <2>1. r \in ToSet(log) /\ op[r].kind = "cancel" /\ r \in Requests
    <3>1. log \in Seq(Requests)
      BY <1>1 DEF IInv, Tables
    <3> QED
      BY <3>1, ListsFinite DEF Committed
  <2>2. Phase(r) /\ Informed(r, Due(r))
    BY <1>1, <2>1 DEF IInv, Speaks, Stands
  <2>3. op[r].now = <<>>
    BY <2>2 DEF Over, Phase
  <2>4. ToSet(op[r].now) = {}
    BY <2>3, EmptyList DEF Lists
  <2>5. Notice("event_cancelled", u) \in Due(r)
    BY <2>1 DEF Due, Owed, All
  <2> QED
    BY <2>2, <2>4, <2>5 DEF Informed, Handled, Reached
<1> QED
  BY <1>1, Invariance, PTL

(* While an organiser's request is open, whoever decides on it knows of    *)
(* it, however the event changes hands (ChangeRequestService._notify,      *)
(* CancellationService._notify_requested, AssignmentService.reassign).     *)
THEOREM DecidersAreTold == Spec => []DecidersKnow
<1>1. ASSUME IInv
      PROVE  DecidersKnow
  <2> SUFFICES ASSUME \A r \in Requests : Over(r), NEW q \in event.open
               PROVE  IF event.coordinator \in Active
                      THEN Reached(q, AskedKind(q), event.coordinator) \/ AppointedAfter(q, event.coordinator)
                      ELSE \A u \in With("coordinator_lead") : Reached(q, AskedKind(q), u)
    BY DEF DecidersKnow
  <2>1. Known(q) /\ q \in Requests
    BY <1>1 DEF IInv, Tables
  <2>2. ASSUME NEW r \in Requests
        PROVE  ToSet(op[r].now) = {} /\ op[r].stage # "committed"
    <3>1. Phase(r) /\ Over(r)
      BY <1>1 DEF IInv, Speaks
    <3>2. op[r].now = <<>> /\ op[r].stage # "committed"
      BY <3>1 DEF Over, Phase
    <3> QED
      BY <3>2, EmptyList DEF Lists
  <2>3. CASE Informed(q, All(AskedKind(q), Deciders))
    <3>1. \A u \in Deciders : Reached(q, AskedKind(q), u)
      BY <2>1, <2>2, <2>3 DEF Informed, Handled, All, Reached
    <3> QED
      BY <3>1 DEF Deciders
  <2>4. CASE event.coordinator \in Active /\ Succeeded(q, event.coordinator)
    <3>1. PICK r \in Requests :
            Before(q, r) /\ op[r].kind \in Appointing /\ op[r].who = event.coordinator /\ Informed(r, Due(r))
      BY <2>4 DEF Succeeded
    <3>2. Due(r) = {Notice(IF op[r].kind = "assign" THEN "assignment_made" ELSE "event_reassigned",
                           event.coordinator)}
      BY <3>1, AppointmentOwes DEF Due
    <3>3. Reached(r, IF op[r].kind = "assign" THEN "assignment_made" ELSE "event_reassigned", event.coordinator)
      BY <2>2, <3>1, <3>2 DEF Informed, Handled, Reached
    <3>4. AppointedAfter(q, event.coordinator)
      BY <3>1, <3>3 DEF AppointedAfter, Appointing
    <3> QED
      BY <2>4, <3>4
  <2> QED
    BY <2>1, <2>2, <2>3, <2>4 DEF Known
<1> QED
  BY <1>1, Invariance, PTL

(* A notice is recorded for what was committed, the offer of a freed place *)
(* apart, and no request tells anyone the same thing twice                 *)
(* (RecordingNotifier and the services' recipients).                       *)
THEOREM NothingFalse == Spec => []NoFalseNotice
<1>1. IInv => NoFalseNotice
  BY DEF IInv, Speaks, Once, NoFalseNotice
<1> QED
  BY <1>1, Invariance, PTL
=============================================================================
