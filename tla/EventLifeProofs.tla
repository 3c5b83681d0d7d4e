--------------------------- MODULE EventLifeProofs ---------------------------
(***************************************************************************)
(* Theorems about EventLife, for every set of people and roles, every set  *)
(* of days, and every bound.                                               *)
(***************************************************************************)
EXTENDS EventLife, WellFoundedInduction, TLAPS

-----------------------------------------------------------------------------
(***************************************************************************)
(* The least and the greatest of a set of numbers.                         *)
(***************************************************************************)

(* A set of numbers has a least one.                                       *)
LEMMA LeastExists ==
  ASSUME NEW D \in SUBSET Nat, D # {}
  PROVE  \E d \in D : \A e \in D : d <= e
<1>1. PICK d \in D : \A e \in D : ~(<<e, d>> \in OpToRel(<, Nat))
  BY NatLessThanWellFounded, WFMin
<1>2. \A e \in D : ~(e < d)
  BY <1>1 DEF OpToRel
<1>3. \A e \in D : e \in Nat /\ d \in Nat
  OBVIOUS
<1> QED BY <1>2, <1>3

(* The earliest of some numbers is one of them.                            *)
LEMMA EarliestIsIn ==
  ASSUME NEW D \in SUBSET Nat, D # {}
  PROVE  Earliest(D) \in D
BY LeastExists DEF Earliest

(* Numbers up to a bound have a greatest one.                              *)
LEMMA GreatestExists ==
  ASSUME NEW n \in Nat, NEW Q \in SUBSET (1..n), Q # {}
  PROVE  \E q \in Q : \A m \in Q : m <= q
<1> DEFINE D == {n - q : q \in Q}
<1>1. \A q \in Q : q \in Nat /\ n - q \in Nat
  OBVIOUS
<1>2. D \in SUBSET Nat /\ D # {}
  BY <1>1
<1>3. PICK d \in D : \A e \in D : d <= e
  <2> HIDE DEF D
  <2> QED BY <1>2, LeastExists
<1>4. PICK q \in Q : d = n - q
  BY <1>3
<1>5. \A m \in Q : n - q <= n - m
  BY <1>3, <1>4
<1> QED BY <1>1, <1>5

-----------------------------------------------------------------------------
(***************************************************************************)
(* The conversation.                                                       *)
(***************************************************************************)

Messages == (1..MaxRounds) \X {"request", "response"}

\* Nobody has answered a question that was not asked.
AnswersFollow == \A m \in thread : m[1] <= LastRound

(* The last round is the last question's, or none.                         *)
LEMMA LastRoundIs ==
  ASSUME thread \subseteq Messages
  PROVE  /\ LastRound \in 0..MaxRounds
         /\ \A n \in 1..MaxRounds : <<n, "request">> \in thread => n <= LastRound
         /\ LastRound # 0 => <<LastRound, "request">> \in thread
<1>1. Questions \in SUBSET (1..MaxRounds)
  BY DEF Messages, Questions
<1>2. \A n \in 1..MaxRounds : n \in Questions <=> <<n, "request">> \in thread
  BY DEF Messages, Questions
<1>3. CASE Questions = {}
  BY <1>2, <1>3, RoundsAssumption DEF LastRound
<1>4. CASE Questions # {}
  <2>1. \E q \in Questions : \A m \in Questions : m <= q
    BY <1>1, <1>4, RoundsAssumption, GreatestExists
  <2>2. LastRound \in Questions /\ \A m \in Questions : m <= LastRound
    BY <1>4, <2>1 DEF LastRound
  <2> QED BY <1>1, <1>2, <2>2
<1> QED BY <1>3, <1>4

(* And no more than one.                                                   *)
LEMMA GreatestIs ==
  ASSUME NEW Q \in SUBSET Nat, NEW n \in Q, \A m \in Q : m <= n
  PROVE  (CHOOSE q \in Q : \A m \in Q : m <= q) = n
<1> DEFINE g == CHOOSE q \in Q : \A m \in Q : m <= q
<1>1. g \in Q /\ \A m \in Q : m <= g
  OBVIOUS
<1> HIDE DEF g
<1>2. g = n
  BY <1>1
<1> QED BY <1>2 DEF g

(* Without a question or an answer, the conversation agrees as before.     *)
LEMMA ThreadStands ==
  ASSUME ThreadMatchesStatus, AnswersFollow, thread' = thread,
         event.status = "awaiting_clarification" <=> event'.status = "awaiting_clarification"
  PROVE  ThreadMatchesStatus' /\ AnswersFollow'
<1>1. Questions' = Questions
  BY DEF Questions
<1>2. LastRound' = LastRound
  BY <1>1 DEF LastRound
<1> QED BY <1>2 DEF ThreadMatchesStatus, AnswersFollow

(* A question opens the next round; an answer closes the last.             *)
LEMMA Asking ==
  ASSUME TypeOK, ThreadMatchesStatus, AnswersFollow, NEW c, AskClarification(c)
  PROVE  thread' \subseteq Messages /\ ThreadMatchesStatus' /\ AnswersFollow'
<1> DEFINE n == LastRound
<1>1. thread \subseteq Messages /\ LastRound \in 0..MaxRounds /\ LastRound < MaxRounds
  BY LastRoundIs DEF TypeOK, Messages, AskClarification
<1>2. thread' = thread \cup {<<n + 1, "request">>} /\ thread' \subseteq Messages
  BY <1>1, RoundsAssumption DEF AskClarification, Messages
<1>3. Questions' = Questions \cup {n + 1}
  <2>1. \A k : k \in Questions' <=> \E m \in thread' : m[2] = "request" /\ m[1] = k
    BY DEF Questions
  <2>2. \A k : k \in Questions <=> \E m \in thread : m[2] = "request" /\ m[1] = k
    BY DEF Questions
  <2>3. \A k : (\E m \in thread' : m[2] = "request" /\ m[1] = k)
                 <=> k = n + 1 \/ \E m \in thread : m[2] = "request" /\ m[1] = k
    <3> DEFINE x == <<n + 1, "request">>
    <3>1. x[1] = n + 1 /\ x[2] = "request" /\ thread' = thread \cup {x}
      BY <1>2
    <3> HIDE DEF x, n
    <3> QED BY <3>1
  <2> QED BY <2>1, <2>2, <2>3
<1>4. LastRound' = n + 1
  <2>1. Questions \in SUBSET Nat /\ \A m \in Questions : m <= n
    BY <1>1, LastRoundIs DEF Questions, Messages
  <2> DEFINE Q == Questions'
  <2>2. Q \in SUBSET Nat /\ n + 1 \in Q /\ \A m \in Q : m <= n + 1
    BY <1>1, <1>3, <2>1
  <2>3. LastRound' = IF Q = {} THEN 0 ELSE CHOOSE q \in Q : \A m \in Q : m <= q
    BY DEF LastRound
  <2> HIDE DEF Q, n
  <2> QED BY <2>2, <2>3, GreatestIs
<1>5. <<n + 1, "response">> \notin thread'
  BY <1>1, <1>2, RoundsAssumption DEF AnswersFollow
<1>6. n # 0 => {<<n, "request">>, <<n, "response">>} \subseteq thread
  BY <1>1, LastRoundIs DEF AskClarification, Clarifiable, ThreadMatchesStatus
<1>7. event'.status = "awaiting_clarification"
  BY DEF AskClarification, SetStatus, TypeOK
<1>8. \A m \in 1..n : {<<m, "request">>, <<m, "response">>} \subseteq thread
  <2> TAKE m \in 1..n
  <2>1. CASE m = n
    BY <1>1, <1>6, <2>1
  <2>2. CASE m # n
    BY <1>1, <2>2 DEF ThreadMatchesStatus
  <2> QED BY <2>1, <2>2
<1>9. ThreadMatchesStatus'
  <2> HIDE DEF n
  <2>1. n \in Nat
    BY <1>1 DEF n
  <2> QED BY <1>2, <1>4, <1>5, <1>7, <1>8, <2>1 DEF ThreadMatchesStatus
<1>10. AnswersFollow'
  BY <1>1, <1>2, <1>4, RoundsAssumption DEF AnswersFollow, Messages
<1> QED BY <1>2, <1>9, <1>10

(* The answer closes the round that was asked last.                        *)
LEMMA Answering ==
  ASSUME TypeOK, ThreadMatchesStatus, AnswersFollow, NEW u, Reply(u)
  PROVE  thread' \subseteq Messages /\ ThreadMatchesStatus' /\ AnswersFollow'
<1> DEFINE n == LastRound
<1>1. thread \subseteq Messages /\ n \in 1..MaxRounds /\ <<n, "request">> \in thread
  BY LastRoundIs, RoundsAssumption DEF TypeOK, Messages, Reply, ThreadMatchesStatus
<1>2. thread' = thread \cup {<<n, "response">>} /\ thread' \subseteq Messages
  BY <1>1 DEF Reply, Messages
<1>3. Questions' = Questions
  BY <1>2 DEF Questions
<1>4. LastRound' = n
  BY <1>3 DEF LastRound
<1>5. event'.status = "under_review"
  BY DEF Reply, SetStatus, TypeOK
<1> HIDE DEF n
<1>6. LastRound = n
  BY DEF n
<1>7. ThreadMatchesStatus'
  BY <1>1, <1>2, <1>4, <1>5, <1>6 DEF ThreadMatchesStatus
<1>8. AnswersFollow'
  BY <1>1, <1>2, <1>4, <1>6 DEF AnswersFollow, Messages
<1> QED BY <1>2, <1>7, <1>8

-----------------------------------------------------------------------------
(***************************************************************************)
(* Types.                                                                  *)
(***************************************************************************)

(* What each column holds.                                                 *)
LEMMA ValueTypes ==
  /\ {"start_at", "preferred_dates"} \subseteq Fields
  /\ Values("preferred_dates") = SUBSET Days
  /\ Values("start_at") = Days \cup {Nothing}
  /\ \A f \in TextFields : Values(f) = Texts /\ f \in Fields /\ f \notin {"start_at", "preferred_dates"}
BY TextsAssumption DEF Fields, Values

(* A form fits the columns it fills in.                                    *)
LEMMA FormTypes ==
  ASSUME NEW F \in SUBSET Fields, NEW day \in Days \cup {Nothing}, NEW dates \in SUBSET Days,
         NEW text \in [TextFields -> Texts]
  PROVE  /\ DOMAIN Form(F, day, dates, text) = F
         /\ \A f \in F : Form(F, day, dates, text)[f] \in Values(f)
         /\ "start_at" \in F => Form(F, day, dates, text)["start_at"] = day
BY ValueTypes DEF Form, Fields

(* Only an event that is being planned, or confirmed, has its date asked   *)
(* to change, and to one of the days.                                      *)
LEMMA ProposalTypes ==
  ASSUME NEW by, NEW new \in Proposals(by)
  PROVE  /\ DOMAIN new \subseteq Fields
         /\ \A f \in DOMAIN new : new[f] \in Values(f) /\ new[f] # detail[f]
         /\ "start_at" \in DOMAIN new => event.status \in Planned /\ new["start_at"] \in Days
<1>1. PICK F \in SUBSET AllowedFields(by), day \in Days, dates \in SUBSET Days, text \in [TextFields -> Texts] :
        new = Form(F, day, dates, text)
  BY DEF Proposals
<1>2. F \subseteq Fields
  BY ValueTypes DEF AllowedFields
<1>3. "start_at" \in F => event.status \in Planned
  BY ValueTypes DEF AllowedFields
<1>4. \A f \in DOMAIN new : new[f] # detail[f]
  BY DEF Proposals
<1> QED BY <1>1, <1>2, <1>3, <1>4, FormTypes

(* What is applied to the details leaves details.                          *)
LEMMA WithTypes ==
  ASSUME TypeOK, NEW new, DOMAIN new \subseteq Fields, \A f \in DOMAIN new : new[f] \in Values(f)
  PROVE  DOMAIN With(new) = Fields /\ \A f \in Fields : With(new)[f] \in Values(f)
BY DEF TypeOK, With

\* The parts of TypeOK that only some of the services touch.
RowTypes ==
  /\ event \in [status : Statuses, coordinator : Users \cup {Nothing}, safety : Users \cup {Nothing}]
  /\ DOMAIN detail = Fields /\ \A f \in Fields : detail[f] \in Values(f)
  /\ now \in 0..LastDay

RequestTypes ==
  /\ thread \subseteq Messages
  /\ history \in Seq([kind : {"assignment", "reassignment"}, by : Users, to : Users])

ChangeTypes ==
  /\ DOMAIN asked = ChangeIds /\ \A i \in ChangeIds : asked[i] = Nothing \/ Request(asked[i])
  /\ reached \subseteq Users \X ChangeIds
  /\ flagged \subseteq Kinds /\ current \subseteq Kinds \cup {"safety"}
  /\ arranged \in [Kinds -> Stages]

ReadinessTypes ==
  revise \in BOOLEAN /\ cancellation \in {"none", "pending", "rejected", "approved", "direct"}

(* Types are kept part by part.                                            *)
LEMMA TypeParts == TypeOK <=> RowTypes /\ RequestTypes /\ ChangeTypes /\ ReadinessTypes
BY DEF TypeOK, RowTypes, RequestTypes, ChangeTypes, ReadinessTypes, Messages

(* A draft has its types.                                                  *)
LEMMA InitTypes == Init => TypeOK
<1> SUFFICES ASSUME Init PROVE TypeOK
  OBVIOUS
<1>1. RowTypes
  <2>1. PICK D \in SUBSET Days, text \in [TextFields -> Texts] : detail = Form(Fields, Nothing, D, text)
    BY DEF Init, RowInit
  <2>2. DOMAIN detail = Fields /\ \A f \in Fields : detail[f] \in Values(f)
    BY <2>1, FormTypes
  <2> QED BY <2>2, DaysAssumption DEF Init, RowInit, RowTypes, Statuses
<1>2. RequestTypes
  BY DEF Init, RequestInit, RequestTypes
<1>3. ChangeTypes
  BY DEF Init, ChangesInit, ChangeTypes, Stages
<1>4. ReadinessTypes
  BY DEF Init, ReadinessInit, ReadinessTypes
<1> QED BY <1>1, <1>2, <1>3, <1>4, TypeParts

(* The earliest preferred date that is still ahead is one of the days.     *)
LEMMA ApprovedDate ==
  ASSUME RowTypes, Ahead # {}
  PROVE  Earliest(Ahead) \in Days
<1>1. detail["preferred_dates"] \in SUBSET Days
  BY ValueTypes DEF RowTypes
<1>2. Ahead \in SUBSET Nat /\ Ahead \subseteq Days
  BY <1>1, DaysAssumption DEF Ahead
<1> QED BY <1>2, EarliestIsIn

(* Operations on the request keep the types.                               *)
LEMMA RequestsKeepTypes ==
  ASSUME TypeOK, ThreadMatchesStatus, AnswersFollow, RequestsNext
  PROVE  RowTypes' /\ RequestTypes'
<1>1. RowTypes /\ RequestTypes
  BY TypeParts
<1>2. PICK u \in Users :
        \/ UpdateDraft(u) \/ Submit(u) \/ AskClarification(u) \/ Reply(u) \/ Approve(u) \/ Reject(u)
        \/ \E c \in Users : Assign(u, c) \/ Reassign(u, c)
  BY DEF RequestsNext
<1>3. CASE UpdateDraft(u)
  <2>1. PICK f \in Fields : \E v \in Values(f) : detail' = [detail EXCEPT ![f] = v]
    BY <1>3 DEF UpdateDraft
  <2> QED BY <1>1, <1>3, <2>1 DEF UpdateDraft, requestVars, RowTypes, RequestTypes
<1>4. CASE Submit(u)
  BY <1>1, <1>4 DEF Submit, SetStatus, requestVars, RowTypes, RequestTypes, Statuses
<1>5. CASE AskClarification(u)
  <2>1. thread' \subseteq Messages
    BY <1>5, Asking
  <2> QED BY <1>1, <1>5, <2>1 DEF AskClarification, SetStatus, RowTypes, RequestTypes, Statuses
<1>6. CASE Reply(u)
  <2>1. thread' \subseteq Messages
    BY <1>6, Answering
  <2> QED BY <1>1, <1>6, <2>1 DEF Reply, SetStatus, RowTypes, RequestTypes, Statuses
<1>7. CASE Approve(u)
  <2>1. PICK day \in Days \cup {Nothing} : detail' = [detail EXCEPT !["start_at"] = day]
    <3>1. detail["start_at"] \in Days \cup {Nothing}
      BY <1>1, ValueTypes DEF RowTypes
    <3> QED BY <1>1, <1>7, <3>1, ApprovedDate DEF Approve
  <2>2. DOMAIN detail' = Fields /\ \A f \in Fields : detail'[f] \in Values(f)
    BY <1>1, <2>1, ValueTypes DEF RowTypes
  <2> QED BY <1>1, <1>7, <2>2 DEF Approve, SetStatus, requestVars, RowTypes, RequestTypes, Statuses
<1>8. CASE Reject(u)
  BY <1>1, <1>8 DEF Reject, SetStatus, requestVars, RowTypes, RequestTypes, Statuses
<1>9. ASSUME NEW c \in Users, NEW kind \in {"assignment", "reassignment"}, NEW s \in Statuses,
             GiveTo(u, c, kind, s), UNCHANGED <<detail, now, thread>>
      PROVE  RowTypes' /\ RequestTypes'
  <2>1. event' \in [status : Statuses, coordinator : Users \cup {Nothing}, safety : Users \cup {Nothing}]
    BY <1>1, <1>9 DEF GiveTo, RowTypes
  <2>2. history' \in Seq([kind : {"assignment", "reassignment"}, by : Users, to : Users])
    BY <1>1, <1>9 DEF GiveTo, RequestTypes
  <2> QED BY <1>1, <1>9, <2>1, <2>2 DEF RowTypes, RequestTypes
<1>10. ASSUME NEW c \in Users, Assign(u, c)
       PROVE  RowTypes' /\ RequestTypes'
  BY <1>9, <1>10 DEF Assign, Statuses
<1>11. ASSUME NEW c \in Users, Reassign(u, c)
       PROVE  RowTypes' /\ RequestTypes'
  BY <1>9, <1>11 DEF Reassign, Statuses, Reassignable
<1> QED BY <1>2, <1>3, <1>4, <1>5, <1>6, <1>7, <1>8, <1>10, <1>11

(* A change request that is held asks for something of each column.        *)
LEMMA HeldTypes ==
  ASSUME TypeOK, NEW i \in ChangeIds, NEW by \in Users, NEW new \in Proposals(by), Hold(i, by, new)
  PROVE  RowTypes' /\ ChangeTypes'
<1>1. Request([by |-> by, old |-> [f \in DOMAIN new |-> detail[f]], new |-> new])
  BY ProposalTypes DEF Request, TypeOK
<1> QED BY <1>1, TypeParts DEF Hold, rowVars, RowTypes, ChangeTypes

(* Changes and arrangements keep the types.                                *)
LEMMA ChangesKeepTypes ==
  ASSUME TypeOK, ChangesNext
  PROVE  RowTypes' /\ ChangeTypes'
<1>1. RowTypes /\ ChangeTypes
  BY TypeParts
<1>2. CASE ApproveLine
  BY <1>1, <1>2 DEF ApproveLine, rowVars, RowTypes, ChangeTypes, Stages
<1>3. ASSUME NEW k \in Kinds, Ask(k) \/ Settle(k) \/ Undo(k)
      PROVE  RowTypes' /\ ChangeTypes'
  <2>1. RowTypes'
    BY <1>1, <1>3 DEF Ask, Settle, Undo, rowVars, RowTypes
  <2>2. ChangeTypes'
    BY <1>1, <1>3 DEF Ask, Settle, Undo, ChangeTypes, Stages
  <2> QED BY <2>1, <2>2
<1>4. ASSUME NEW u \in Users, EditAtOnce(u)
      PROVE  RowTypes' /\ ChangeTypes'
  <2>1. PICK new \in Proposals(u) : detail' = With(new)
    BY <1>4 DEF EditAtOnce
  <2>2. DOMAIN detail' = Fields /\ \A f \in Fields : detail'[f] \in Values(f)
    BY <2>1, ProposalTypes, WithTypes
  <2> QED BY <1>1, <1>4, <2>2 DEF EditAtOnce, changeVars, RowTypes, ChangeTypes
<1>5. ASSUME NEW u \in Users, NEW k \in Kinds, ClearFlag(u, k)
      PROVE  RowTypes' /\ ChangeTypes'
  BY <1>1, <1>5 DEF ClearFlag, rowVars, RowTypes, ChangeTypes
<1>6. ASSUME NEW u \in Users, NEW i \in ChangeIds, RequestChange(u, i) \/ EditHeld(u, i)
      PROVE  RowTypes' /\ ChangeTypes'
  BY <1>6, HeldTypes DEF RequestChange, EditHeld
<1>7. ASSUME NEW u \in Users, NEW i \in ChangeIds, Reach(u, i) \/ GiveUp(u, i)
      PROVE  RowTypes' /\ ChangeTypes'
  BY <1>1, <1>7 DEF Reach, GiveUp, rowVars, RowTypes, ChangeTypes
<1>8. ASSUME NEW u \in Users, NEW i \in ChangeIds, ApproveChange(u, i)
      PROVE  RowTypes' /\ ChangeTypes'
  <2>1. asked[i] # Nothing /\ Request(asked[i]) /\ detail' = With(asked[i].new)
    BY <1>1, <1>8 DEF ApproveChange, Lock, ChangeTypes
  <2>2. DOMAIN detail' = Fields /\ \A f \in Fields : detail'[f] \in Values(f)
    BY <2>1, WithTypes DEF Request
  <2>3. event' \in [status : Statuses, coordinator : Users \cup {Nothing}, safety : Users \cup {Nothing}]
    BY <1>1, <1>8 DEF ApproveChange, TakeBack, RowTypes, Statuses
  <2>4. RowTypes'
    BY <1>1, <1>8, <2>2, <2>3 DEF ApproveChange, RowTypes
  <2>5. flagged' \subseteq Kinds /\ current' \subseteq Kinds \cup {"safety"}
    BY <1>1, <1>8 DEF ApproveChange, ToReview, Affects, Kinds, ChangeTypes
  <2>6. ChangeTypes'
    BY <1>1, <1>8, <2>5 DEF ApproveChange, Decided, ChangeTypes
  <2> QED BY <2>4, <2>6
<1>9. ASSUME NEW u \in Users, NEW i \in ChangeIds, RejectChange(u, i)
      PROVE  RowTypes' /\ ChangeTypes'
  BY <1>1, <1>9 DEF RejectChange, Decided, rowVars, RowTypes, ChangeTypes
<1> QED BY <1>2, <1>3, <1>4, <1>5, <1>6, <1>7, <1>8, <1>9 DEF ChangesNext

(* So do safety, confirmation, completion and cancellation.                *)
LEMMA ReadinessKeepsTypes ==
  ASSUME TypeOK, ReadinessNext
  PROVE  RowTypes' /\ ChangeTypes' /\ ReadinessTypes'
<1>1. RowTypes /\ ChangeTypes /\ ReadinessTypes
  BY TypeParts
<1>2. ASSUME NEW s \in Statuses, SetStatus(s), UNCHANGED <<detail, now, changeVars, readinessVars>>
      PROVE  RowTypes' /\ ChangeTypes' /\ ReadinessTypes'
  BY <1>1, <1>2 DEF SetStatus, changeVars, readinessVars, RowTypes, ChangeTypes, ReadinessTypes
<1>3. CASE VenueLost
  BY <1>2, <1>3 DEF VenueLost, Statuses
<1>4. ASSUME NEW u \in Users, Confirm(u) \/ StartPreparation(u) \/ Complete(u)
      PROVE  RowTypes' /\ ChangeTypes' /\ ReadinessTypes'
  BY <1>2, <1>4 DEF Confirm, StartPreparation, Complete, Statuses
<1>5. ASSUME NEW u \in Users, Review(u) \/ RequestReview(u)
      PROVE  RowTypes' /\ ChangeTypes' /\ ReadinessTypes'
  BY <1>1, <1>5 DEF Review, RequestReview, rowVars, changeVars, RowTypes, ChangeTypes, ReadinessTypes
<1>6. ASSUME NEW u \in Users, RequestCancel(u) \/ RejectCancellation(u)
      PROVE  RowTypes' /\ ChangeTypes' /\ ReadinessTypes'
  BY <1>1, <1>6 DEF RequestCancel, RejectCancellation, rowVars, changeVars, RowTypes, ChangeTypes, ReadinessTypes
<1>7. ASSUME NEW outcome \in {"approved", "direct"}, Cancelled(outcome)
      PROVE  RowTypes' /\ ChangeTypes' /\ ReadinessTypes'
  <2>1. RowTypes' /\ ReadinessTypes'
    BY <1>1, <1>7 DEF Cancelled, SetStatus, RowTypes, ReadinessTypes, Statuses
  <2>2. ChangeTypes'
    BY <1>1, <1>7 DEF Cancelled, ChangeTypes, Stages
  <2> QED BY <2>1, <2>2
<1>8. ASSUME NEW u \in Users, CancelDirect(u) \/ ApproveCancellation(u)
      PROVE  RowTypes' /\ ChangeTypes' /\ ReadinessTypes'
  BY <1>7, <1>8 DEF CancelDirect, ApproveCancellation
<1> QED BY <1>3, <1>4, <1>5, <1>6, <1>8 DEF ReadinessNext

-----------------------------------------------------------------------------
(***************************************************************************)
(* The inductive invariant.                                                *)
(***************************************************************************)

\* A planned event is on a day, and so is what it is asked to move to.
Dated ==
  /\ event.status \in {"planning", "confirmed", "preparation", "completed", "cancelled"}
       => detail["start_at"] \in Days
  /\ \A i \in ChangeIds :
       asked[i] # Nothing /\ "start_at" \in DOMAIN asked[i].new => asked[i].new["start_at"] \in Days

AfterConfirmation == {"confirmed", "preparation", "completed"}

\* Whatever is live was made or seen since the last change of date, or is flagged.
SeenOrFlagged ==
  event.status # "cancelled" => \A k \in Kinds : Live(k) => k \in current \/ k \in flagged

\* What is confirmed is approved, and all its live arrangements were seen.
ConfirmedIsSafe ==
  event.status \in AfterConfirmation =>
    event.safety # Nothing /\ \A k \in Kinds : Live(k) => k \in current

IInv ==
  /\ TypeOK /\ ThreadMatchesStatus /\ AnswersFollow
  /\ Dated /\ SafetyIsForThisDate /\ SeenOrFlagged /\ ConfirmedIsSafe

(* Everything but the types and the conversation.                          *)
Arranged == Dated /\ SafetyIsForThisDate /\ SeenOrFlagged /\ ConfirmedIsSafe

(* Operations on the request leave the arrangements as they were seen.     *)
LEMMA RequestsKeepArranged ==
  ASSUME TypeOK, Arranged, RequestsNext, UNCHANGED changeVars
  PROVE  Arranged'
<1>1. RowTypes
  BY TypeParts
<1>2. \A k \in Kinds : Live(k)' <=> Live(k)
  BY DEF Live, changeVars
<1>3. PICK u \in Users :
        \/ UpdateDraft(u) \/ Submit(u) \/ AskClarification(u) \/ Reply(u) \/ Approve(u) \/ Reject(u)
        \/ \E c \in Users : Assign(u, c) \/ Reassign(u, c)
  BY DEF RequestsNext
<1>4. ASSUME event'.safety = event.safety, event.status # "cancelled",
             event'.status = event.status \/ event'.status \notin AfterConfirmation,
             event'.status \in {"planning", "confirmed", "preparation", "completed", "cancelled"}
               => detail'["start_at"] \in Days
      PROVE  Arranged'
  BY <1>2, <1>4 DEF Arranged, Dated, SafetyIsForThisDate, SeenOrFlagged, ConfirmedIsSafe, changeVars
<1>5. CASE UpdateDraft(u)
  BY <1>1, <1>4, <1>5 DEF UpdateDraft, AfterConfirmation
<1>6. CASE Submit(u)
  BY <1>1, <1>4, <1>6 DEF Submit, SetStatus, RowTypes, AfterConfirmation
<1>7. CASE AskClarification(u)
  BY <1>1, <1>4, <1>7 DEF AskClarification, SetStatus, RowTypes, AfterConfirmation, Clarifiable
<1>8. CASE Reply(u)
  BY <1>1, <1>4, <1>8 DEF Reply, SetStatus, RowTypes, AfterConfirmation
<1>9. CASE Approve(u)
  <2>1. detail["start_at"] \in Days \cup {Nothing} /\ "start_at" \in DOMAIN detail
    BY <1>1, ValueTypes DEF RowTypes
  <2>2. detail'["start_at"] \in Days
    BY <1>1, <1>9, <2>1, ApprovedDate DEF Approve
  <2> QED BY <1>1, <1>4, <1>9, <2>2 DEF Approve, MayDecideRequest, SetStatus, RowTypes, AfterConfirmation
<1>10. CASE Reject(u)
  BY <1>1, <1>4, <1>10 DEF Reject, MayDecideRequest, SetStatus, RowTypes, AfterConfirmation
<1>11. ASSUME NEW c \in Users, Assign(u, c)
       PROVE  Arranged'
  BY <1>1, <1>4, <1>11 DEF Assign, GiveTo, RowTypes, AfterConfirmation
<1>12. ASSUME NEW c \in Users, Reassign(u, c)
       PROVE  Arranged'
  BY <1>1, <1>4, <1>12 DEF Reassign, Reassignable, GiveTo, RowTypes, Arranged, Dated
<1> QED BY <1>3, <1>5, <1>6, <1>7, <1>8, <1>9, <1>10, <1>11, <1>12

(* A change that is approved is of the date only while the event is        *)
(* planned, and a significant one takes approval and confirmation away.    *)
LEMMA ApprovedChange ==
  ASSUME TypeOK, Dated, NEW u, NEW i \in ChangeIds, ApproveChange(u, i)
  PROVE  LET F == DOMAIN asked[i].new IN
         /\ "start_at" \in F =>
              /\ event.status \in Planned /\ detail'["start_at"] \in Days /\ current' = {}
              /\ event' = [event EXCEPT !.status = "planning", !.safety = Nothing]
              /\ \A k \in Kinds : Live(k) => k \in flagged'
         /\ "start_at" \notin F => detail'["start_at"] = detail["start_at"] /\ current' = current
         /\ event' = event \/ /\ event.status \in Planned
                              /\ event' = [event EXCEPT !.status = "planning", !.safety = Nothing]
         /\ event.status \notin {"preparation", "completed", "cancelled"}
         /\ flagged \subseteq flagged' /\ arranged' = arranged
<1> DEFINE r == asked[i]
           F == DOMAIN r.new
<1>1. /\ r # Nothing /\ Request(r) /\ ~Stale(r) /\ event.status \notin NotApprovable
      /\ detail' = With(r.new) /\ TakeBack(F) /\ arranged' = arranged
      /\ flagged' = IF event.status \in Planned THEN flagged \cup ToReview(F) ELSE flagged
      /\ current' = IF "start_at" \in F THEN {} ELSE current
  BY TypeParts DEF ApproveChange, Lock, ChangeTypes
<1>2. \A f \in F : f \in AllowedFields(r.by)
  BY <1>1 DEF Stale
<1>3. "start_at" \in F => event.status \in Planned
  BY <1>2, ValueTypes DEF AllowedFields
<1>4. detail'["start_at"] = IF "start_at" \in F THEN r.new["start_at"] ELSE detail["start_at"]
  BY <1>1, ValueTypes DEF With
<1>5. "start_at" \in F => r.new["start_at"] \in Days
  BY <1>1 DEF Dated
<1>6. Affects("start_at") = Kinds /\ Kinds # {}
  BY DEF Affects, Kinds
<1>7. "start_at" \in F => \A k \in Kinds : Live(k) => k \in ToReview(F)
  BY <1>6 DEF ToReview
<1> HIDE DEF F
<1>8. "start_at" \in F => event' = [event EXCEPT !.status = "planning", !.safety = Nothing]
  BY <1>1, <1>3, <1>6 DEF TakeBack
<1>9. event' = event \/ /\ event.status \in Planned
                        /\ event' = [event EXCEPT !.status = "planning", !.safety = Nothing]
  BY <1>1 DEF TakeBack
<1>10. flagged \subseteq flagged'
  BY <1>1
<1>11. event.status \notin {"preparation", "completed", "cancelled"}
  BY <1>1 DEF NotApprovable
<1>12. "start_at" \in F => \A k \in Kinds : Live(k) => k \in flagged'
  BY <1>1, <1>3, <1>7
<1> QED BY <1>1, <1>3, <1>4, <1>5, <1>8, <1>9, <1>10, <1>11, <1>12 DEF F

(* A change of date leaves every live arrangement flagged, and whatever is *)
(* made or looked at later counts for the new date.                        *)
LEMMA ChangesKeepArranged ==
  ASSUME TypeOK, Arranged, ChangesNext
  PROVE  Arranged'
<1>1. RowTypes /\ ChangeTypes
  BY TypeParts
<1>2. CASE ApproveLine
  <2>1. \A k \in Kinds : Live(k)' => Live(k)
    BY <1>1, <1>2 DEF ApproveLine, Live, ChangeTypes
  <2> QED BY <1>2, <2>1 DEF ApproveLine, rowVars, Arranged, Dated, SafetyIsForThisDate, SeenOrFlagged, ConfirmedIsSafe
<1>3. ASSUME NEW k \in Kinds, Ask(k) \/ Settle(k)
      PROVE  Arranged'
  <2>1. current \subseteq current' /\ \A j \in Kinds : Live(j)' => Live(j) \/ j \in current'
    BY <1>1, <1>3 DEF Ask, Settle, Live, ChangeTypes
  <2> QED BY <1>3, <2>1 DEF Ask, Settle, rowVars, Arranged, Dated, SafetyIsForThisDate, SeenOrFlagged, ConfirmedIsSafe
<1>4. ASSUME NEW k \in Kinds, Undo(k)
      PROVE  Arranged'
  <2>1. ~Live(k)' /\ \A j \in Kinds \ {k} : Live(j)' <=> Live(j)
    BY <1>1, <1>4 DEF Undo, Live, ChangeTypes
  <2>2. k # "safety"
    BY <1>4 DEF Kinds
  <2>3. current' = current \ {k} /\ flagged \ {k} \subseteq flagged'
    BY <1>4 DEF Undo
  <2> QED BY <1>4, <2>1, <2>2, <2>3
          DEF Undo, rowVars, Arranged, Dated, SafetyIsForThisDate, SeenOrFlagged, ConfirmedIsSafe
<1>5. ASSUME NEW u \in Users, EditAtOnce(u)
      PROVE  Arranged'
  <2>1. detail'["start_at"] = detail["start_at"]
    BY <1>5, ValueTypes DEF EditAtOnce, With
  <2> QED BY <1>5, <2>1
          DEF EditAtOnce, changeVars, Arranged, Dated, SafetyIsForThisDate, SeenOrFlagged, ConfirmedIsSafe, Live
<1>6. ASSUME NEW u \in Users, NEW k \in Kinds, ClearFlag(u, k)
      PROVE  Arranged'
  <2>1. current \subseteq current' /\ flagged' = flagged \ {k} /\ (Live(k) => k \in current')
    BY <1>6 DEF ClearFlag
  <2>2. \A j \in Kinds : Live(j)' <=> Live(j)
    BY <1>6 DEF ClearFlag, Live
  <2> QED BY <1>6, <2>1, <2>2
          DEF ClearFlag, rowVars, Arranged, Dated, SafetyIsForThisDate, SeenOrFlagged, ConfirmedIsSafe
<1>7. ASSUME NEW u \in Users, NEW i \in ChangeIds, RequestChange(u, i) \/ EditHeld(u, i)
      PROVE  Arranged'
  <2>1. PICK by \in Users : \E new \in Proposals(by) : Hold(i, by, new)
    BY <1>7 DEF RequestChange, EditHeld
  <2>2. PICK new \in Proposals(by) : Hold(i, by, new)
    BY <2>1
  <2>3. Dated'
    BY <1>1, <2>2, ProposalTypes DEF Hold, rowVars, ChangeTypes, Arranged, Dated
  <2> QED BY <2>2, <2>3 DEF Hold, rowVars, Arranged, SafetyIsForThisDate, SeenOrFlagged, ConfirmedIsSafe, Live
<1>8. ASSUME NEW u \in Users, NEW i \in ChangeIds, Reach(u, i) \/ GiveUp(u, i)
      PROVE  Arranged'
  BY <1>8 DEF Reach, GiveUp, rowVars, Arranged, Dated, SafetyIsForThisDate, SeenOrFlagged, ConfirmedIsSafe, Live
<1>9. ASSUME NEW u \in Users, NEW i \in ChangeIds, ApproveChange(u, i)
      PROVE  Arranged'
  <2> DEFINE F == DOMAIN asked[i].new
  <2>1. /\ "start_at" \in F =>
              /\ event.status \in Planned /\ detail'["start_at"] \in Days /\ current' = {}
              /\ event' = [event EXCEPT !.status = "planning", !.safety = Nothing]
              /\ \A k \in Kinds : Live(k) => k \in flagged'
        /\ "start_at" \notin F => detail'["start_at"] = detail["start_at"] /\ current' = current
        /\ event' = event \/ /\ event.status \in Planned
                             /\ event' = [event EXCEPT !.status = "planning", !.safety = Nothing]
        /\ event.status \notin {"preparation", "completed", "cancelled"}
        /\ flagged \subseteq flagged'
    BY <1>9, ApprovedChange DEF Arranged
  <2>2. \A k \in Kinds : Live(k)' <=> Live(k)
    BY <1>9 DEF ApproveChange, Live
  <2>3. asked' = [asked EXCEPT ![i] = Nothing]
    BY <1>9 DEF ApproveChange, Decided
  <2> HIDE DEF F
  <2>4. \/ event'.status = "planning" /\ event'.safety = Nothing
        \/ event' = event
    BY <1>1, <2>1 DEF RowTypes
  <2>5. Dated'
    BY <1>1, <2>1, <2>3, <2>4 DEF Arranged, Dated, ChangeTypes, Planned
  <2>6. SafetyIsForThisDate'
    BY <1>1, <2>1, <2>4 DEF Arranged, SafetyIsForThisDate, RowTypes
  <2>7. SeenOrFlagged'
    BY <2>1, <2>2 DEF Arranged, SeenOrFlagged
  <2>8. ConfirmedIsSafe'
    BY <1>1, <2>1, <2>2, <2>4 DEF Arranged, ConfirmedIsSafe, AfterConfirmation, RowTypes
  <2> QED BY <2>5, <2>6, <2>7, <2>8 DEF Arranged
<1>10. ASSUME NEW u \in Users, NEW i \in ChangeIds, RejectChange(u, i)
       PROVE  Arranged'
  BY <1>1, <1>10 DEF RejectChange, Decided, rowVars, ChangeTypes,
                     Arranged, Dated, SafetyIsForThisDate, SeenOrFlagged, ConfirmedIsSafe, Live
<1> QED BY <1>2, <1>3, <1>4, <1>5, <1>6, <1>7, <1>8, <1>9, <1>10 DEF ChangesNext

(* Confirmation asks for what keeps a confirmed event safe.                *)
LEMMA ReadinessKeepsArranged ==
  ASSUME TypeOK, Arranged, ReadinessNext
  PROVE  Arranged'
<1>1. RowTypes /\ ChangeTypes
  BY TypeParts
<1>2. CASE VenueLost
  BY <1>1, <1>2 DEF VenueLost, SetStatus, changeVars, RowTypes, AfterConfirmation,
                    Arranged, Dated, SafetyIsForThisDate, SeenOrFlagged, ConfirmedIsSafe, Live
<1>3. ASSUME NEW u \in Users, Review(u)
      PROVE  Arranged'
  BY <1>1, <1>3 DEF Review, Reviewable, SafetyState, RowTypes, AfterConfirmation,
                    Arranged, Dated, SafetyIsForThisDate, SeenOrFlagged, ConfirmedIsSafe, Live
<1>4. ASSUME NEW u \in Users, Confirm(u)
      PROVE  Arranged'
  <2>1. event.safety # Nothing /\ event.status = "planning" /\ event' = [event EXCEPT !.status = "confirmed"]
    BY <1>4 DEF Confirm, Ready, SetStatus
  <2>2. \A k \in Kinds : Live(k) => k \in current
    BY <1>4, <2>1 DEF Confirm, Ready, NoFlagOpen, Open, Arranged, SeenOrFlagged
  <2> QED BY <1>1, <1>4, <2>1, <2>2 DEF Confirm, changeVars, RowTypes,
             Arranged, Dated, SafetyIsForThisDate, SeenOrFlagged, ConfirmedIsSafe, Live
<1>5. ASSUME NEW u \in Users, StartPreparation(u) \/ Complete(u)
      PROVE  Arranged'
  BY <1>1, <1>5 DEF StartPreparation, Complete, SetStatus, changeVars, RowTypes, AfterConfirmation,
                    Arranged, Dated, SafetyIsForThisDate, SeenOrFlagged, ConfirmedIsSafe, Live
<1>6. ASSUME NEW u \in Users, RequestReview(u) \/ RequestCancel(u) \/ RejectCancellation(u)
      PROVE  Arranged'
  BY <1>6 DEF RequestReview, RequestCancel, RejectCancellation, rowVars, changeVars,
              Arranged, Dated, SafetyIsForThisDate, SeenOrFlagged, ConfirmedIsSafe, Live
<1>7. ASSUME NEW outcome, Cancelled(outcome), Cancellable
      PROVE  Arranged'
  BY <1>1, <1>7 DEF Cancelled, Cancellable, SetStatus, RowTypes, AfterConfirmation,
                    Arranged, Dated, SafetyIsForThisDate, SeenOrFlagged, ConfirmedIsSafe
<1>8. ASSUME NEW u \in Users, CancelDirect(u) \/ ApproveCancellation(u)
      PROVE  Arranged'
  BY <1>7, <1>8 DEF CancelDirect, ApproveCancellation
<1> QED BY <1>2, <1>3, <1>4, <1>5, <1>6, <1>8 DEF ReadinessNext

(* The conversation agrees with the status after every operation on the    *)
(* request, and nothing later touches either.                              *)
LEMMA RequestsKeepThread ==
  ASSUME TypeOK, ThreadMatchesStatus, AnswersFollow, RequestsNext
  PROVE  ThreadMatchesStatus' /\ AnswersFollow'
<1>1. RowTypes
  BY TypeParts
<1>2. PICK u \in Users :
        \/ UpdateDraft(u) \/ Submit(u) \/ AskClarification(u) \/ Reply(u) \/ Approve(u) \/ Reject(u)
        \/ \E c \in Users : Assign(u, c) \/ Reassign(u, c)
  BY DEF RequestsNext
<1>3. CASE UpdateDraft(u)
  BY <1>3, ThreadStands DEF UpdateDraft, requestVars
<1>4. CASE Submit(u)
  BY <1>1, <1>4, ThreadStands DEF Submit, SetStatus, requestVars, RowTypes
<1>5. CASE AskClarification(u)
  BY <1>5, Asking
<1>6. CASE Reply(u)
  BY <1>6, Answering
<1>7. CASE Approve(u) \/ Reject(u)
  BY <1>1, <1>7, ThreadStands DEF Approve, Reject, MayDecideRequest, SetStatus, requestVars, RowTypes
<1>8. ASSUME NEW c \in Users, Assign(u, c) \/ Reassign(u, c)
      PROVE  ThreadMatchesStatus' /\ AnswersFollow'
  BY <1>1, <1>8, ThreadStands DEF Assign, Reassign, GiveTo, RowTypes
<1> QED BY <1>2, <1>3, <1>4, <1>5, <1>6, <1>7, <1>8

(* What changes and the way to the end do to the status.                   *)
LEMMA LaterStatus ==
  ASSUME TypeOK, Dated, ChangesNext \/ ReadinessNext
  PROVE  \/ event'.status = event.status
         \/ /\ event.status \in {"planning", "confirmed", "preparation"}
            /\ event'.status \in {"planning", "confirmed", "preparation", "completed", "cancelled"}
<1>1. RowTypes
  BY TypeParts
<1>2. CASE ChangesNext
  <2>1. ASSUME NEW u \in Users, NEW i \in ChangeIds, ApproveChange(u, i)
        PROVE  event'.status = event.status \/ (event.status \in Planned /\ event'.status = "planning")
    BY <1>1, <2>1, ApprovedChange DEF RowTypes
  <2>2. ASSUME NEW u \in Users, NEW i \in ChangeIds,
               RequestChange(u, i) \/ EditHeld(u, i) \/ Reach(u, i) \/ GiveUp(u, i) \/ RejectChange(u, i)
        PROVE  event'.status = event.status
    BY <2>2 DEF RequestChange, EditHeld, Hold, Reach, GiveUp, RejectChange, rowVars
  <2>3. ASSUME NEW u \in Users, NEW k \in Kinds, EditAtOnce(u) \/ ClearFlag(u, k)
        PROVE  event'.status = event.status
    BY <2>3 DEF EditAtOnce, ClearFlag, rowVars
  <2>4. ASSUME NEW k \in Kinds, ApproveLine \/ Ask(k) \/ Settle(k) \/ Undo(k)
        PROVE  event'.status = event.status
    BY <2>4 DEF ApproveLine, Ask, Settle, Undo, rowVars
  <2>5. CASE \E u \in Users : EditAtOnce(u)
    BY <2>5 DEF EditAtOnce
  <2>6. CASE ApproveLine
    BY <2>6 DEF ApproveLine, rowVars
  <2> QED BY <1>2, <2>1, <2>2, <2>3, <2>4, <2>5, <2>6 DEF ChangesNext, Planned
<1>3. CASE ReadinessNext
  <2>1. CASE VenueLost
    BY <1>1, <2>1 DEF VenueLost, SetStatus, RowTypes
  <2>2. ASSUME NEW u \in Users, Confirm(u) \/ StartPreparation(u) \/ Complete(u)
        PROVE  /\ event.status \in {"planning", "confirmed", "preparation"}
               /\ event'.status \in {"confirmed", "preparation", "completed"}
    BY <1>1, <2>2 DEF Confirm, StartPreparation, Complete, SetStatus, RowTypes
  <2>3. ASSUME NEW u \in Users, Review(u) \/ RequestReview(u) \/ RequestCancel(u) \/ RejectCancellation(u)
        PROVE  event'.status = event.status
    BY <1>1, <2>3 DEF Review, RequestReview, RequestCancel, RejectCancellation, rowVars, RowTypes
  <2>4. ASSUME NEW u \in Users, CancelDirect(u) \/ ApproveCancellation(u)
        PROVE  event.status \in {"planning", "confirmed", "preparation"} /\ event'.status = "cancelled"
    BY <1>1, <2>4 DEF CancelDirect, ApproveCancellation, Cancellable, Cancelled, SetStatus, RowTypes
  <2> QED BY <1>3, <2>1, <2>2, <2>3, <2>4 DEF ReadinessNext
<1> QED BY <1>2, <1>3

(* The invariant in the parts the lemmas keep.                             *)
LEMMA IInvParts == IInv <=> TypeOK /\ ThreadMatchesStatus /\ AnswersFollow /\ Arranged
BY DEF IInv, Arranged

(* It holds of a draft.                                                    *)
LEMMA InitIInv == Init => IInv
<1> SUFFICES ASSUME Init PROVE IInv
  OBVIOUS
<1>1. TypeOK
  BY InitTypes
<1>2. ThreadMatchesStatus /\ AnswersFollow
  <2>1. Questions = {}
    BY DEF Init, RequestInit, Questions
  <2> QED BY <2>1 DEF Init, RowInit, RequestInit, ThreadMatchesStatus, AnswersFollow, LastRound
<1>3. Arranged
  BY DEF Init, RowInit, ChangesInit, Arranged, Dated, SafetyIsForThisDate, SeenOrFlagged, ConfirmedIsSafe,
         AfterConfirmation, Live, Kinds
<1> QED BY <1>1, <1>2, <1>3, IInvParts

(* The invariant holds at every step, whoever takes it: the arrangements   *)
(* stay seen or flagged, the approval stays as young as the date, through  *)
(* every service of backend/app/event.                                     *)
THEOREM Inductive == Spec => []IInv
<1>1. IInv /\ [Next]_vars => IInv'
  <2> SUFFICES ASSUME IInv, [Next]_vars PROVE IInv'
    OBVIOUS
  <2>1. TypeOK /\ ThreadMatchesStatus /\ AnswersFollow /\ Arranged /\ Dated
    BY IInvParts DEF Arranged
  <2>2. RowTypes /\ RequestTypes /\ ChangeTypes /\ ReadinessTypes
    BY <2>1, TypeParts
  <2>3. CASE RequestsNext /\ UNCHANGED <<changeVars, readinessVars>>
    <3>1. RowTypes' /\ RequestTypes'
      BY <2>1, <2>3, RequestsKeepTypes
    <3>2. ChangeTypes' /\ ReadinessTypes'
      BY <2>2, <2>3 DEF changeVars, readinessVars, ChangeTypes, ReadinessTypes
    <3>3. TypeOK'
      BY <3>1, <3>2, TypeParts, PTL
    <3>4. ThreadMatchesStatus' /\ AnswersFollow' /\ Arranged'
      BY <2>1, <2>3, RequestsKeepThread, RequestsKeepArranged
    <3> QED BY <3>3, <3>4 DEF IInv, Arranged
  <2>4. CASE ChangesNext /\ UNCHANGED <<requestVars, readinessVars>>
    <3>1. RowTypes' /\ ChangeTypes'
      BY <2>1, <2>4, ChangesKeepTypes
    <3>2. RequestTypes' /\ ReadinessTypes'
      BY <2>2, <2>4 DEF requestVars, readinessVars, RequestTypes, ReadinessTypes
    <3>3. TypeOK'
      BY <3>1, <3>2, TypeParts, PTL
    <3>4. ThreadMatchesStatus' /\ AnswersFollow' /\ Arranged'
      BY <2>1, <2>4, LaterStatus, ThreadStands, ChangesKeepArranged DEF requestVars
    <3> QED BY <3>3, <3>4 DEF IInv, Arranged
  <2>5. CASE ReadinessNext /\ UNCHANGED requestVars
    <3>1. RowTypes' /\ ChangeTypes' /\ ReadinessTypes'
      BY <2>1, <2>5, ReadinessKeepsTypes
    <3>2. RequestTypes'
      BY <2>2, <2>5 DEF requestVars, RequestTypes
    <3>3. TypeOK'
      BY <3>1, <3>2, TypeParts, PTL
    <3>4. ThreadMatchesStatus' /\ AnswersFollow' /\ Arranged'
      BY <2>1, <2>5, LaterStatus, ThreadStands, ReadinessKeepsArranged DEF requestVars
    <3> QED BY <3>3, <3>4 DEF IInv, Arranged
  <2>6. CASE NextDay /\ UNCHANGED <<requestVars, changeVars, readinessVars>>
    <3>1. RowTypes'
      BY <2>2, <2>6, DaysAssumption DEF NextDay, RowTypes
    <3>2. RequestTypes' /\ ChangeTypes' /\ ReadinessTypes'
      BY <2>2, <2>6 DEF requestVars, changeVars, readinessVars, RequestTypes, ChangeTypes, ReadinessTypes
    <3>3. TypeOK'
      BY <3>1, <3>2, TypeParts, PTL
    <3>4. ThreadMatchesStatus' /\ AnswersFollow'
      BY <2>1, <2>6, ThreadStands DEF NextDay, requestVars
    <3>5. Arranged'
      BY <2>1, <2>6 DEF NextDay, changeVars, Arranged, Dated, SafetyIsForThisDate, SeenOrFlagged, ConfirmedIsSafe, Live
    <3> QED BY <3>3, <3>4, <3>5 DEF IInv, Arranged
  <2>7. CASE UNCHANGED vars
    <3>1. RowTypes' /\ RequestTypes' /\ ChangeTypes' /\ ReadinessTypes'
      BY <2>2, <2>7 DEF vars, rowVars, requestVars, changeVars, readinessVars, RowTypes, RequestTypes,
                        ChangeTypes, ReadinessTypes
    <3>2. TypeOK'
      BY <3>1, TypeParts, PTL
    <3>3. ThreadMatchesStatus' /\ AnswersFollow'
      BY <2>1, <2>7, ThreadStands DEF vars, rowVars, requestVars
    <3>4. Arranged'
      BY <2>1, <2>7 DEF vars, rowVars, changeVars, Arranged, Dated, SafetyIsForThisDate, SeenOrFlagged,
                        ConfirmedIsSafe, Live
    <3> QED BY <3>2, <3>3, <3>4 DEF IInv, Arranged
  <2> QED BY <2>3, <2>4, <2>5, <2>6, <2>7 DEF Next
<1> QED BY InitIInv, <1>1, PTL DEF Spec

-----------------------------------------------------------------------------
(***************************************************************************)
(* What the invariant gives.                                               *)
(***************************************************************************)

(* Every variable keeps its type: the events row, its thread, history,     *)
(* change requests, flags and cancellation.                                *)
THEOREM TypeCorrect == Spec => []TypeOK
BY Inductive, PTL DEF IInv

(* The Organiser is waited for exactly when the last question is open      *)
(* (ClarificationService).                                                 *)
THEOREM ThreadAgrees == Spec => []ThreadMatchesStatus
BY Inductive, PTL DEF IInv

(* No safety approval outlives the date it was given for (safety review,   *)
(* and what approving a change clears).                                    *)
THEOREM SafeForThisDate == Spec => []SafetyIsForThisDate
BY Inductive, PTL DEF IInv

(* Nothing confirmed rests on an arrangement from before the last change   *)
(* of date that nobody looked at.                                          *)
THEOREM ConfirmedStands == Spec => []ConfirmedForThisDate
<1>1. IInv => ConfirmedForThisDate
  BY DEF IInv, SafetyIsForThisDate, ConfirmedIsSafe, AfterConfirmation, ConfirmedForThisDate
<1> QED BY <1>1, Inductive, PTL

-----------------------------------------------------------------------------
(***************************************************************************)
(* Cancellation.                                                           *)
(***************************************************************************)

(* A cancelled event leaves nothing open, and nothing opens on it again    *)
(* (CancellationService._cancel).                                          *)
THEOREM CancelledForGood == Spec => []NothingLeftOpen
<1>1. Init => NothingLeftOpen
  BY DEF Init, RowInit, ReadinessInit, NothingLeftOpen
<1>2. IInv /\ NothingLeftOpen /\ [Next]_vars => NothingLeftOpen'
  <2> SUFFICES ASSUME IInv, NothingLeftOpen, [Next]_vars PROVE NothingLeftOpen'
    OBVIOUS
  <2>1. TypeOK /\ Dated /\ RowTypes /\ ChangeTypes
    BY TypeParts DEF IInv
  <2>2. ASSUME event.status = "cancelled" <=> event'.status = "cancelled", cancellation' = cancellation,
               asked' = asked, arranged' = arranged
        PROVE  NothingLeftOpen'
    BY <2>2 DEF NothingLeftOpen, Live
  <2>3. CASE RequestsNext /\ UNCHANGED <<changeVars, readinessVars>>
    <3>1. event.status = "cancelled" <=> event'.status = "cancelled"
      BY <2>1, <2>3
         DEF RequestsNext, UpdateDraft, Submit, AskClarification, Reply, Approve, Reject, MayDecideRequest,
             Assign, Reassign, GiveTo, SetStatus, RowTypes, Clarifiable
    <3> QED BY <2>2, <2>3, <3>1 DEF changeVars, readinessVars
  <2>4. CASE ChangesNext /\ UNCHANGED <<requestVars, readinessVars>>
    <3>1. ASSUME NEW u \in Users, NEW i \in ChangeIds,
                 RequestChange(u, i) \/ EditHeld(u, i) \/ ApproveChange(u, i)
          PROVE  event.status # "cancelled" /\ event'.status # "cancelled"
      BY <2>1, <3>1, ApprovedChange DEF RequestChange, EditHeld, Hold, Requestable, rowVars, RowTypes
    <3>2. ASSUME NEW u \in Users, NEW i \in ChangeIds,
                 Reach(u, i) \/ GiveUp(u, i) \/ RejectChange(u, i)
          PROVE  NothingLeftOpen'
      <4>1. CASE RejectChange(u, i)
        BY <2>4, <4>1 DEF RejectChange, Lock, Decided, rowVars, readinessVars, NothingLeftOpen, Live
      <4>2. CASE Reach(u, i) \/ GiveUp(u, i)
        BY <2>2, <2>4, <4>2 DEF Reach, GiveUp, rowVars, readinessVars
      <4> QED BY <3>2, <4>1, <4>2
    <3>3. ASSUME NEW k \in Kinds, ApproveLine \/ Ask(k) \/ Settle(k) \/ Undo(k)
          PROVE  NothingLeftOpen'
      <4>1. event' = event /\ asked' = asked /\ cancellation' = cancellation
        BY <2>4, <3>3 DEF ApproveLine, Ask, Settle, Undo, rowVars, readinessVars
      <4>2. event.status = "cancelled" =>
              \A j \in {"bookings", "reservations"} : Live(j)' => Live(j)
        BY <2>1, <3>3 DEF ApproveLine, Ask, Settle, Undo, Live, Kinds, ChangeTypes
      <4> QED BY <4>1, <4>2 DEF NothingLeftOpen
    <3>4. ASSUME NEW u \in Users, NEW k \in Kinds, EditAtOnce(u) \/ ClearFlag(u, k)
          PROVE  NothingLeftOpen'
      BY <2>2, <2>4, <3>4 DEF EditAtOnce, ClearFlag, rowVars, changeVars, readinessVars
    <3>5. CASE ApproveLine \/ \E u \in Users : EditAtOnce(u)
      <4>1. "bookings" \in Kinds
        BY DEF Kinds
      <4> QED BY <3>3, <3>4, <3>5, <4>1
    <3>6. ASSUME event.status # "cancelled", event'.status # "cancelled" PROVE NothingLeftOpen'
      BY <2>4, <3>6 DEF readinessVars, NothingLeftOpen
    <3> QED BY <2>4, <3>1, <3>2, <3>3, <3>4, <3>5, <3>6 DEF ChangesNext
  <2>5. CASE ReadinessNext /\ UNCHANGED requestVars
    <3>1. CASE VenueLost
      BY <2>1, <2>2, <3>1 DEF VenueLost, SetStatus, changeVars, readinessVars, RowTypes
    <3>2. ASSUME NEW u \in Users, Confirm(u) \/ StartPreparation(u) \/ Complete(u)
          PROVE  NothingLeftOpen'
      BY <2>1, <2>2, <3>2 DEF Confirm, StartPreparation, Complete, SetStatus, changeVars, readinessVars, RowTypes
    <3>3. ASSUME NEW u \in Users, Review(u) \/ RequestReview(u)
          PROVE  NothingLeftOpen'
      BY <2>1, <2>2, <3>3 DEF Review, RequestReview, rowVars, changeVars, RowTypes
    <3>4. ASSUME NEW u \in Users, RequestCancel(u) \/ RejectCancellation(u)
          PROVE  NothingLeftOpen'
      BY <2>1, <3>4 DEF RequestCancel, RejectCancellation, MayDecideCancellation, Cancellable, rowVars,
                         changeVars, NothingLeftOpen
    <3>5. ASSUME NEW outcome \in {"approved", "direct"}, Cancelled(outcome)
          PROVE  NothingLeftOpen'
      BY <2>1, <3>5 DEF Cancelled, SetStatus, RowTypes, ChangeTypes, Kinds, NothingLeftOpen, Live
    <3>6. ASSUME NEW u \in Users, CancelDirect(u) \/ ApproveCancellation(u)
          PROVE  NothingLeftOpen'
      BY <3>5, <3>6 DEF CancelDirect, ApproveCancellation
    <3> QED BY <2>5, <3>1, <3>2, <3>3, <3>4, <3>6 DEF ReadinessNext
  <2>6. CASE NextDay /\ UNCHANGED <<requestVars, changeVars, readinessVars>>
    BY <2>2, <2>6 DEF NextDay, changeVars, readinessVars
  <2>7. CASE UNCHANGED vars
    BY <2>2, <2>7 DEF vars, rowVars, changeVars, readinessVars
  <2> QED BY <2>3, <2>4, <2>5, <2>6, <2>7 DEF Next
<1> QED BY <1>1, <1>2, Inductive, PTL DEF Spec

-----------------------------------------------------------------------------
(***************************************************************************)
(* Who has the event, and who decides.                                     *)
(***************************************************************************)

(* The event goes to somebody who does not have it, is not its creator and *)
(* is not the Lead who gives it.                                           *)
LEMMA Handover ==
  ASSUME TypeOK, HistoryNamesCoordinator, NEW lead \in Users, NEW c \in Users, NEW kind, NEW s,
         GiveTo(lead, c, kind, s), c # event.coordinator, Eligible(lead, c)
  PROVE  HistoryNamesCoordinator'
<1>1. /\ history \in Seq([kind : {"assignment", "reassignment"}, by : Users, to : Users])
      /\ event'.coordinator = c
      /\ history' = Append(history, [kind |-> kind, by |-> lead, to |-> c])
  BY TypeParts DEF GiveTo, RowTypes, RequestTypes
<1>2. c \notin {Creator, lead} /\ Nothing # c
  BY NothingAssumption DEF Eligible
<1> DEFINE n == Len(history)
<1>3. n \in Nat /\ Len(history') = n + 1 /\ DOMAIN history = 1..n /\ DOMAIN history' = 1..n + 1
  BY <1>1
<1>4. history'[n + 1] = [kind |-> kind, by |-> lead, to |-> c]
  BY <1>1
<1>5. \A m \in 1..n : history'[m] = history[m]
  BY <1>1
<1>6. n # 0 => history[n].to = event.coordinator
  BY <1>1 DEF HistoryNamesCoordinator
<1> HIDE DEF n
<1>7. event'.coordinator = IF history' = <<>> THEN Nothing ELSE history'[Len(history')].to
  BY <1>1, <1>3, <1>4
<1>8. \A m \in DOMAIN history' : history'[m].to \notin {Creator, history'[m].by}
  BY <1>2, <1>3, <1>4, <1>5 DEF HistoryNamesCoordinator
<1>9. \A m \in DOMAIN history' \ {1} : history'[m].to # history'[m - 1].to
  <2> SUFFICES ASSUME NEW m \in 1..n + 1, m # 1 PROVE history'[m].to # history'[m - 1].to
    BY <1>3
  <2>1. m - 1 \in 1..n /\ history'[m - 1] = history[m - 1]
    BY <1>3, <1>5
  <2>2. CASE m = n + 1
    BY <1>3, <1>4, <1>6, <2>1, <2>2
  <2>3. CASE m # n + 1
    BY <1>3, <1>5, <2>1, <2>3 DEF HistoryNamesCoordinator
  <2> QED BY <2>2, <2>3
<1> QED BY <1>7, <1>8, <1>9 DEF HistoryNamesCoordinator

(* Only the Leads move the event.                                          *)
LEMMA CoordinatorStays ==
  ASSUME TypeOK, Dated, [Next]_vars
  PROVE  \/ event'.coordinator = event.coordinator /\ history' = history
         \/ \E u, c \in Users : Assign(u, c) \/ Reassign(u, c)
<1>1. RowTypes
  BY TypeParts
<1>2. CASE RequestsNext
  BY <1>1, <1>2 DEF RequestsNext, UpdateDraft, Submit, AskClarification, Reply, Approve, Reject, SetStatus,
                    requestVars, RowTypes
<1>3. CASE ChangesNext /\ UNCHANGED requestVars
  <2>1. ASSUME NEW u \in Users, NEW i \in ChangeIds, ApproveChange(u, i)
        PROVE  event'.coordinator = event.coordinator
    BY <1>1, <2>1, ApprovedChange DEF RowTypes
  <2>2. (\E u \in Users, i \in ChangeIds : ApproveChange(u, i)) \/ event' = event
    BY <1>3 DEF ChangesNext, ApproveLine, Ask, Settle, Undo, EditAtOnce, ClearFlag, RequestChange, EditHeld, Hold,
                Reach, GiveUp, RejectChange, rowVars
  <2> QED BY <1>3, <2>1, <2>2 DEF requestVars
<1>4. CASE ReadinessNext /\ UNCHANGED requestVars
  BY <1>1, <1>4 DEF ReadinessNext, VenueLost, Review, RequestReview, Confirm, StartPreparation, Complete,
                    RequestCancel, CancelDirect, ApproveCancellation, RejectCancellation, Cancelled, SetStatus,
                    rowVars, requestVars, RowTypes
<1>5. CASE NextDay /\ UNCHANGED requestVars
  BY <1>5 DEF NextDay, requestVars
<1>6. CASE UNCHANGED vars
  BY <1>6 DEF vars, rowVars, requestVars
<1> QED BY <1>2, <1>3, <1>4, <1>5, <1>6 DEF Next

(* The history of coordinators ends with the coordinator, and nobody is    *)
(* given their own event, or gives it to themselves.                       *)
THEOREM HistoryIsTrue == Spec => []HistoryNamesCoordinator
<1>1. Init => HistoryNamesCoordinator
  BY DEF Init, RowInit, RequestInit, HistoryNamesCoordinator
<1>2. IInv /\ HistoryNamesCoordinator /\ [Next]_vars => HistoryNamesCoordinator'
  <2> SUFFICES ASSUME IInv, HistoryNamesCoordinator, [Next]_vars PROVE HistoryNamesCoordinator'
    OBVIOUS
  <2>1. TypeOK /\ Dated
    BY DEF IInv
  <2>2. ASSUME NEW u \in Users, NEW c \in Users, Assign(u, c) \/ Reassign(u, c)
        PROVE  HistoryNamesCoordinator'
    BY <2>1, <2>2, Handover, NothingAssumption DEF Assign, Reassign
  <2>3. CASE event'.coordinator = event.coordinator /\ history' = history
    BY <2>3 DEF HistoryNamesCoordinator
  <2> QED BY <2>1, <2>2, <2>3, CoordinatorStays
<1> QED BY <1>1, <1>2, Inductive, PTL DEF Spec

(* The steps that end a decision in flight.                                *)
LEMMA DecisionsEnd ==
  ASSUME [Next]_vars, NEW p \in reached \ reached'
  PROVE  \E u \in Users, i \in ChangeIds :
           p = <<u, i>> /\ (GiveUp(u, i) \/ ApproveChange(u, i) \/ RejectChange(u, i))
<1>1. ASSUME UNCHANGED reached PROVE FALSE
  BY <1>1
<1>2. CASE RequestsNext /\ UNCHANGED <<changeVars, readinessVars>>
  BY <1>1, <1>2 DEF changeVars
<1>3. CASE ReadinessNext
  BY <1>1, <1>3 DEF ReadinessNext, VenueLost, Review, RequestReview, Confirm, StartPreparation, Complete,
                    RequestCancel, CancelDirect, ApproveCancellation, RejectCancellation, Cancelled, changeVars
<1>4. CASE NextDay /\ UNCHANGED <<requestVars, changeVars, readinessVars>>
  BY <1>1, <1>4 DEF changeVars
<1>5. CASE UNCHANGED vars
  BY <1>1, <1>5 DEF vars, changeVars
<1>6. CASE ChangesNext
  <2>1. ASSUME NEW k \in Kinds, ApproveLine \/ Ask(k) \/ Settle(k) \/ Undo(k)
        PROVE  FALSE
    BY <1>1, <2>1 DEF ApproveLine, Ask, Settle, Undo
  <2>2. CASE ApproveLine
    BY <1>1, <2>2 DEF ApproveLine
  <2>3. ASSUME NEW u \in Users, NEW k \in Kinds, ClearFlag(u, k)
        PROVE  FALSE
    BY <1>1, <2>3 DEF ClearFlag
  <2>4. ASSUME NEW u \in Users, EditAtOnce(u)
        PROVE  FALSE
    BY <1>1, <2>4 DEF EditAtOnce, changeVars
  <2>5. ASSUME NEW u \in Users, NEW i \in ChangeIds, RequestChange(u, i) \/ EditHeld(u, i) \/ Reach(u, i)
        PROVE  FALSE
    BY <1>1, <2>5 DEF RequestChange, EditHeld, Hold, Reach
  <2>6. ASSUME NEW u \in Users, NEW i \in ChangeIds,
               GiveUp(u, i) \/ ApproveChange(u, i) \/ RejectChange(u, i)
        PROVE  p = <<u, i>>
    BY <2>6 DEF GiveUp, ApproveChange, RejectChange, Decided
  <2> QED BY <1>6, <2>1, <2>2, <2>3, <2>4, <2>5, <2>6 DEF ChangesNext
<1> QED BY <1>2, <1>3, <1>4, <1>5, <1>6 DEF Next

(* A change is decided by whoever may decide it when it is decided         *)
(* (ChangeDecisionService._lock).                                          *)
THEOREM DecidersMay == Spec => DecidedByWhoMay
<1>1. [Next]_vars =>
        [\A p \in reached \ reached' :
           LET r == asked[p[2]] IN
             r # Nothing /\ asked'[p[2]] = Nothing =>
               /\ p[1] # r.by
               /\ p[1] = event.coordinator \/ (r.by = event.coordinator /\ r.by # Creator)]_vars
  <2> SUFFICES ASSUME [Next]_vars, NEW p \in reached \ reached',
                      asked[p[2]] # Nothing, asked'[p[2]] = Nothing
               PROVE  LET r == asked[p[2]] IN
                        /\ p[1] # r.by
                        /\ p[1] = event.coordinator \/ (r.by = event.coordinator /\ r.by # Creator)
    OBVIOUS
  <2>1. PICK u \in Users, i \in ChangeIds :
          p = <<u, i>> /\ (GiveUp(u, i) \/ ApproveChange(u, i) \/ RejectChange(u, i))
    BY DecisionsEnd
  <2>2. CASE GiveUp(u, i)
    BY <2>1, <2>2 DEF GiveUp
  <2>3. CASE ApproveChange(u, i) \/ RejectChange(u, i)
    BY <2>1, <2>3 DEF ApproveChange, RejectChange, Lock, Decides, Assigned
  <2> QED BY <2>1, <2>2, <2>3
<1> QED BY <1>1, PTL DEF Spec, DecidedByWhoMay

(* A change is applied to what its requester saw (_stale, D107).           *)
THEOREM ChangesFit == Spec => ChangesApplyToWhatWasSeen
<1>1. IInv /\ [Next]_vars =>
        [\A p \in reached \ reached' :
           LET r == asked[p[2]] IN
             r # Nothing /\ asked'[p[2]] = Nothing /\ detail' # detail =>
               /\ \A f \in Fields : detail'[f] = IF f \in DOMAIN r.new THEN r.new[f] ELSE detail[f]
               /\ \A f \in DOMAIN r.new : detail[f] = r.old[f]]_vars
  <2> SUFFICES ASSUME IInv, [Next]_vars, NEW p \in reached \ reached',
                      asked[p[2]] # Nothing, asked'[p[2]] = Nothing, detail' # detail
               PROVE  LET r == asked[p[2]] IN
                        /\ \A f \in Fields : detail'[f] = IF f \in DOMAIN r.new THEN r.new[f] ELSE detail[f]
                        /\ \A f \in DOMAIN r.new : detail[f] = r.old[f]
    OBVIOUS
  <2>1. PICK u \in Users, i \in ChangeIds :
          p = <<u, i>> /\ (GiveUp(u, i) \/ ApproveChange(u, i) \/ RejectChange(u, i))
    BY DecisionsEnd
  <2>2. ~GiveUp(u, i) /\ ~RejectChange(u, i)
    BY DEF GiveUp, RejectChange, rowVars
  <2> QED BY <2>1, <2>2 DEF ApproveChange, Stale, With
<1> QED BY <1>1, Inductive, PTL DEF Spec, ChangesApplyToWhatWasSeen

-----------------------------------------------------------------------------
(***************************************************************************)
(* The lifecycle.                                                          *)
(***************************************************************************)

\* Nobody has the event before it is taken up.
Unclaimed == event.status \in {"draft", "submitted"} => event.coordinator = Nothing

(* Only an assignment gives an event a coordinator.                        *)
LEMMA ClaimedByAssignment == Spec => []Unclaimed
<1>1. Init => Unclaimed
  BY DEF Init, RowInit, Unclaimed
<1>2. IInv /\ Unclaimed /\ [Next]_vars => Unclaimed'
  <2> SUFFICES ASSUME IInv, Unclaimed, [Next]_vars PROVE Unclaimed'
    OBVIOUS
  <2>1. TypeOK /\ Dated /\ RowTypes
    BY TypeParts DEF IInv
  <2>2. ASSUME NEW u \in Users, NEW c \in Users, Assign(u, c) \/ Reassign(u, c)
        PROVE  Unclaimed'
    BY <2>1, <2>2 DEF Assign, Reassign, Reassignable, GiveTo, RowTypes, Unclaimed
  <2>3. CASE event'.coordinator = event.coordinator
    <3>1. CASE RequestsNext
      BY <2>1, <2>2, <2>3, <3>1
         DEF RequestsNext, UpdateDraft, Submit, AskClarification, Reply, Approve, Reject, MayDecideRequest,
             SetStatus, RowTypes, Unclaimed
    <3>2. CASE ChangesNext \/ ReadinessNext
      BY <2>1, <2>3, <3>2, LaterStatus DEF Unclaimed
    <3>3. CASE event' = event
      BY <3>3 DEF Unclaimed
    <3> QED BY <3>1, <3>2, <3>3 DEF Next, NextDay, vars, rowVars
  <2> QED BY <2>1, <2>2, <2>3, CoordinatorStays
<1> QED BY <1>1, <1>2, Inductive, PTL DEF Spec

\* A step the lifecycle does not see.
Same ==
  /\ event'.status = event.status /\ event'.coordinator = event.coordinator
  /\ (event'.safety # Nothing) = (event.safety # Nothing)
  /\ detail'["start_at"] = detail["start_at"]

(* Operations on the request are steps of the lifecycle.                   *)
LEMMA RequestsFollow ==
  ASSUME IInv, Unclaimed, RequestsNext
  PROVE  Abstract!Next \/ Same
<1>1. RowTypes /\ "start_at" \in DOMAIN detail
  BY TypeParts, ValueTypes DEF IInv, RowTypes
<1>2. PICK u \in Users :
        \/ UpdateDraft(u) \/ Submit(u) \/ AskClarification(u) \/ Reply(u) \/ Approve(u) \/ Reject(u)
        \/ \E c \in Users : Assign(u, c) \/ Reassign(u, c)
  BY DEF RequestsNext
<1>3. CASE UpdateDraft(u)
  BY <1>1, <1>3 DEF UpdateDraft, Same
<1>4. CASE Submit(u)
  <2>1. Abstract!Submit
    BY <1>1, <1>4 DEF Submit, SetStatus, RowTypes, Abstract!Submit, Abstract!Go
  <2> QED BY <2>1 DEF Abstract!Next
<1>5. CASE AskClarification(u) \/ Reply(u) \/ Reject(u)
  <2>1. AskClarification(u) => event.status # "submitted"
    BY NothingAssumption DEF AskClarification, Assigned, Unclaimed
  <2>2. Abstract!Discuss
    BY <1>1, <1>5, <2>1 DEF AskClarification, Reply, Reject, MayDecideRequest, Clarifiable, SetStatus, RowTypes,
                            Abstract!Discuss, Abstract!Go
  <2> QED BY <2>2 DEF Abstract!Next
<1>6. CASE Approve(u)
  <2>1. detail["start_at"] \in Days \cup {Nothing}
    BY <1>1, ValueTypes DEF RowTypes
  <2>2. detail'["start_at"] \in Days
    BY <1>1, <1>6, <2>1, ApprovedDate DEF Approve
  <2>3. Abstract!Plan
    BY <1>1, <1>6, <2>2 DEF Approve, MayDecideRequest, SetStatus, RowTypes, Abstract!Plan, Abstract!Go
  <2> QED BY <2>3 DEF Abstract!Next
<1>7. ASSUME NEW c \in Users, Assign(u, c)
      PROVE  Abstract!Next
  <2>1. Abstract!TakeUp
    BY <1>1, <1>7 DEF Assign, Eligible, GiveTo, RowTypes, Abstract!TakeUp, Abstract!Go
  <2> QED BY <2>1 DEF Abstract!Next
<1>8. ASSUME NEW c \in Users, Reassign(u, c)
      PROVE  Abstract!Next
  <2>1. Abstract!HandOver
    BY <1>1, <1>8 DEF Reassign, Reassignable, Eligible, GiveTo, RowTypes, Abstract!HandOver
  <2> QED BY <2>1 DEF Abstract!Next
<1> QED BY <1>2, <1>3, <1>4, <1>5, <1>6, <1>7, <1>8

(* An approved change rearranges the event, and no other is seen.          *)
LEMMA ChangesFollow ==
  ASSUME IInv, ChangesNext
  PROVE  Abstract!Next \/ Same
<1>1. TypeOK /\ Dated /\ RowTypes
  BY TypeParts DEF IInv
<1>2. ASSUME NEW u \in Users, NEW i \in ChangeIds, ApproveChange(u, i)
      PROVE  Abstract!Next \/ Same
  <2> DEFINE F == DOMAIN asked[i].new
  <2>1. /\ "start_at" \in F =>
              /\ event.status \in Planned /\ detail'["start_at"] \in Days
              /\ event' = [event EXCEPT !.status = "planning", !.safety = Nothing]
        /\ "start_at" \notin F => detail'["start_at"] = detail["start_at"]
        /\ event' = event \/ /\ event.status \in Planned
                             /\ event' = [event EXCEPT !.status = "planning", !.safety = Nothing]
    BY <1>1, <1>2, ApprovedChange
  <2> HIDE DEF F
  <2>2. CASE "start_at" \notin F /\ event' = event
    BY <2>1, <2>2 DEF Same
  <2>3. CASE event.status \in Planned /\ event' = [event EXCEPT !.status = "planning", !.safety = Nothing]
    <3>1. detail'["start_at"] \in Days
      BY <1>1, <2>1, <2>3 DEF Dated, Planned
    <3>2. Abstract!Rearrange
      BY <1>1, <2>3, <3>1 DEF RowTypes, Planned, Abstract!Rearrange, Abstract!Go
    <3> QED BY <3>2 DEF Abstract!Next
  <2> QED BY <2>1, <2>2, <2>3
<1>3. ASSUME NEW u \in Users, EditAtOnce(u)
      PROVE  Same
  BY <1>3, ValueTypes DEF EditAtOnce, With, Same
<1>4. CASE event' = event /\ detail' = detail
  BY <1>4 DEF Same
<1>5. \/ \E u \in Users : EditAtOnce(u) \/ \E i \in ChangeIds : ApproveChange(u, i)
      \/ event' = event /\ detail' = detail
  BY DEF ChangesNext, ApproveLine, Ask, Settle, Undo, ClearFlag, RequestChange, EditHeld, Hold,
         Reach, GiveUp, RejectChange, rowVars
<1> QED BY <1>2, <1>3, <1>4, <1>5

(* Safety, confirmation, preparation and the end are its other steps.      *)
LEMMA ReadinessFollows ==
  ASSUME IInv, ReadinessNext
  PROVE  Abstract!Next \/ Same
<1>1. RowTypes
  BY TypeParts DEF IInv
<1>2. CASE VenueLost
  <2>1. Abstract!VenueLost
    BY <1>1, <1>2 DEF VenueLost, SetStatus, RowTypes, Abstract!VenueLost, Abstract!Go
  <2> QED BY <2>1 DEF Abstract!Next
<1>3. ASSUME NEW u \in Users, Review(u)
      PROVE  Abstract!Next \/ Same
  <2>1. CASE event' = event
    BY <1>3, <2>1 DEF Review, Same
  <2>2. CASE event' = [event EXCEPT !.safety = u]
    <3>1. Abstract!FoundSafe
      BY <1>1, <1>3, <2>2, NothingAssumption DEF Review, Reviewable, SafetyState, RowTypes, Abstract!FoundSafe
    <3> QED BY <3>1 DEF Abstract!Next
  <2> QED BY <1>3, <2>1, <2>2 DEF Review
<1>4. ASSUME NEW u \in Users, Confirm(u)
      PROVE  Abstract!Next
  <2>1. Abstract!Confirm
    BY <1>1, <1>4 DEF Confirm, Ready, SetStatus, RowTypes, Abstract!Confirm, Abstract!Go
  <2> QED BY <2>1 DEF Abstract!Next
<1>5. ASSUME NEW u \in Users, StartPreparation(u)
      PROVE  Abstract!Next
  <2>1. Abstract!Prepare
    BY <1>1, <1>5 DEF StartPreparation, SetStatus, RowTypes, Abstract!Prepare, Abstract!Go
  <2> QED BY <2>1 DEF Abstract!Next
<1>6. ASSUME NEW u \in Users, Complete(u)
      PROVE  Abstract!Next
  <2>1. event.safety # Nothing
    BY <1>6 DEF Complete, IInv, ConfirmedIsSafe, AfterConfirmation
  <2>2. Abstract!End
    BY <1>1, <1>6, <2>1 DEF Complete, SetStatus, RowTypes, Abstract!End, Abstract!Go
  <2> QED BY <2>2 DEF Abstract!Next
<1>7. ASSUME NEW u \in Users, RequestReview(u) \/ RequestCancel(u) \/ RejectCancellation(u)
      PROVE  Same
  BY <1>7 DEF RequestReview, RequestCancel, RejectCancellation, rowVars, Same
<1>8. ASSUME NEW u \in Users, CancelDirect(u) \/ ApproveCancellation(u)
      PROVE  Abstract!Next
  <2>1. Abstract!End
    BY <1>1, <1>8 DEF CancelDirect, ApproveCancellation, Cancellable, Cancelled, SetStatus, RowTypes,
                      Abstract!End, Abstract!Go
  <2> QED BY <2>1 DEF Abstract!Next
<1> QED BY <1>2, <1>3, <1>4, <1>5, <1>6, <1>7, <1>8 DEF ReadinessNext

(* Whatever order the people work in, the event keeps to the lifecycle.    *)
THEOREM Implementation == Spec => ImplementsLifecycle
<1>1. Init => Abstract!Init
  <2> SUFFICES ASSUME Init PROVE Abstract!Init
    OBVIOUS
  <2>1. PICK D \in SUBSET Days, text \in [TextFields -> Texts] : detail = Form(Fields, Nothing, D, text)
    BY DEF Init, RowInit
  <2>2. detail["start_at"] = Nothing
    BY <2>1, FormTypes, ValueTypes
  <2> QED BY <2>2 DEF Init, RowInit, Abstract!Init
<1>2. IInv /\ Unclaimed /\ [Next]_vars => [Abstract!Next]_(Abstract!vars)
  <2> SUFFICES ASSUME IInv, Unclaimed, [Next]_vars
               PROVE  Abstract!Next \/ Same
    BY DEF Same, Abstract!vars
  <2>1. CASE event' = event /\ detail' = detail
    BY <2>1 DEF Same
  <2> QED BY <2>1, RequestsFollow, ChangesFollow, ReadinessFollows DEF Next, NextDay, vars, rowVars
<1> QED BY <1>1, <1>2, Inductive, ClaimedByAssignment, PTL DEF Spec, ImplementsLifecycle, Abstract!Spec
=============================================================================
