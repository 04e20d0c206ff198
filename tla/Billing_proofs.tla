---------------------------- MODULE Billing_proofs ----------------------------
(***************************************************************************)
(* Proofs about Billing, for every number of orders and of requests.       *)
(***************************************************************************)
EXTENDS Billing, TLAPS

USE BillingAssumption

LEMMA BillingTypeInit == BillingInit => BillingTypeOK
  BY DEF BillingInit, BillingTypeOK, Payment, PayStatuses, TossStates

LEMMA InHand ==
  ASSUME BillingTypeOK, NEW s \in Slots, req[s].at # "idle"
  PROVE  req[s] \in Request /\ req[s].order \in Orders
  BY DEF BillingTypeOK, Request, Idle

\* A request that moves on keeps its kind and its order.
LEMMA GoesType ==
  ASSUME BillingTypeOK, NEW s \in Slots, req[s] \in Request, NEW place \in Places,
         Goes(s, place)
  PROVE  req' \in [Slots -> Request \cup {Idle}]
<1>1. [req[s] EXCEPT !.at = place] \in Request
  BY DEF Request
<1>2. req' = [req EXCEPT ![s] = [req[s] EXCEPT !.at = place]]
  BY DEF Goes
<1> QED BY <1>1, <1>2 DEF BillingTypeOK

LEMMA BeginType ==
  ASSUME BillingTypeOK, NEW s \in Slots, NEW o \in Orders,
         NEW kind \in {"confirm", "webhook", "other"}, Begin(s, o, kind)
  PROVE  req' \in [Slots -> Request \cup {Idle}]
<1>1. [at |-> "select", kind |-> kind, order |-> o, until |-> 0] \in Request
  BY DEF Request, Places
<1> QED BY <1>1 DEF BillingTypeOK, Begin

LEMMA FreeType ==
  ASSUME BillingTypeOK, NEW s \in Slots, Free(s)
  PROVE  lock' \in [Orders -> SUBSET Slots]
  BY DEF BillingTypeOK, Free

LEMMA BillingTypeStep == BillingTypeOK /\ [BillingNext]_billingVars => BillingTypeOK'
<1> SUFFICES ASSUME BillingTypeOK, [BillingNext]_billingVars PROVE BillingTypeOK'
  OBVIOUS
<1> USE DEF BillingTypeOK
<1>1. CASE UNCHANGED billingVars
  BY <1>1 DEF billingVars
<1>2. ASSUME NEW o \in Orders, Checkout(o) PROVE BillingTypeOK'
  BY <1>2 DEF Checkout, Payment, PayStatuses
<1>3. ASSUME NEW o \in Orders, Deposit(o) PROVE BillingTypeOK'
  BY <1>3 DEF Deposit, TossStates
<1>4. ASSUME NEW s \in Slots, NEW o \in Orders, BeginConfirm(s, o) PROVE BillingTypeOK'
  BY <1>4, BeginType DEF BeginConfirm
<1>5. ASSUME NEW s \in Slots, NEW o \in Orders, BeginWebhook(s, o) PROVE BillingTypeOK'
  BY <1>5, BeginType DEF BeginWebhook
<1>b. ASSUME NEW s \in Slots, NEW o \in Orders, BeginOther(s, o) PROVE BillingTypeOK'
  BY <1>b, BeginType DEF BeginOther
<1>6. CASE NewMonth
  BY <1>6 DEF NewMonth
<1>7. CASE Crash
  BY <1>7 DEF Crash
<1>8. ASSUME NEW s \in Slots, Select(s) PROVE BillingTypeOK'
  <2>1. req[s] \in Request /\ req[s].order \in Orders
    BY <1>8, InHand DEF Select
  <2>2. PICK place \in Places : Follow(s, place)
    BY <1>8, <2>1 DEF Select, Decide, Notice, Places, Request
  <2>3. Goes(s, place) /\ loop' \subseteq Slots
    BY <2>2 DEF Follow, Returns
  <2> QED BY <1>8, <2>1, <2>3, GoesType DEF Select
<1>9. ASSUME NEW s \in Slots, Accepted(s) PROVE BillingTypeOK'
  <2>1. req[s] \in Request /\ req[s].order \in Orders
    BY <1>9, InHand DEF Accepted
  <2>2. toss' \in [Orders -> TossStates]
    BY <1>9 DEF Accepted, Accepts, TossStates
  <2>3. PICK place \in Places : Goes(s, place)
    BY <1>9 DEF Accepted, Places
  <2> QED BY <1>9, <2>1, <2>2, <2>3, GoesType DEF Accepted
<1>m. ASSUME NEW s \in Slots, Mismatched(s) PROVE BillingTypeOK'
  <2>1. req[s] \in Request /\ req[s].order \in Orders
    BY <1>m, InHand DEF Mismatched
  <2>2. toss' \in [Orders -> TossStates] /\ hurt' \subseteq Orders
    BY <1>m, <2>1 DEF Mismatched, Accepts, TossStates
  <2> QED BY <1>m, <2>1, <2>2, GoesType DEF Mismatched, Places
<1>10. ASSUME NEW s \in Slots, Refused(s) PROVE BillingTypeOK'
  <2>1. req[s] \in Request /\ req[s].order \in Orders
    BY <1>10, InHand DEF Refused
  <2> QED BY <1>10, <2>1, GoesType DEF Refused, Places
<1>12. ASSUME NEW s \in Slots, NoAnswer(s) PROVE BillingTypeOK'
  <2>1. req[s] \in Request /\ req[s].order \in Orders
    BY <1>12, InHand DEF NoAnswer
  <2>2. toss' \in [Orders -> TossStates] /\ hurt' \subseteq Orders
    BY <1>12, <2>1 DEF NoAnswer, Accepts, TossStates
  <2> QED BY <1>12, <2>1, <2>2, GoesType DEF NoAnswer, Returns, Places
<1>13. ASSUME NEW s \in Slots, CommitFailure(s) PROVE BillingTypeOK'
  <2>1. req[s] \in Request /\ req[s].order \in Orders
    BY <1>13, InHand DEF CommitFailure
  <2>2. pay' \in [Orders -> Payment]
    BY <1>13, <2>1 DEF CommitFailure, Payment, PayStatuses
  <2> QED BY <1>13, <2>1, <2>2, GoesType, FreeType DEF CommitFailure, Returns, Places
<1>14. ASSUME NEW s \in Slots, CommitAccount(s) PROVE BillingTypeOK'
  <2>1. req[s] \in Request /\ req[s].order \in Orders
    BY <1>14, InHand DEF CommitAccount
  <2>2. pay' \in [Orders -> Payment] /\ hurt' \subseteq Orders
    BY <1>14, <2>1 DEF CommitAccount, Payment
  <2> QED BY <1>14, <2>1, <2>2, GoesType, FreeType DEF CommitAccount, Returns, Places
<1>15. ASSUME NEW s \in Slots, ReadSubscription(s) PROVE BillingTypeOK'
  <2>1. req[s] \in Request /\ req[s].order \in Orders
    BY <1>15, InHand DEF ReadSubscription
  <2>2. Later(until, today) + 1 \in Nat
    BY DEF Later
  <2>3. [req[s] EXCEPT !.at = "commit", !.until = Later(until, today) + 1] \in Request
    BY <2>1, <2>2 DEF Request, Places
  <2>4. raced' \subseteq Orders
    <3>1. \A t \in Slots : req[t].at = "commit" => req[t].order \in Orders
      BY InHand
    <3>2. \A t \in Between(s) \cup {s} : req[t].order \in Orders
      BY <2>1, <3>1 DEF Between
    <3> QED BY <1>15, <3>2 DEF ReadSubscription, NoteRace
  <2> QED BY <1>15, <2>3, <2>4 DEF ReadSubscription
<1>16. ASSUME NEW s \in Slots, CommitApproval(s) PROVE BillingTypeOK'
  <2>1. req[s] \in Request /\ req[s].order \in Orders /\ req[s].until \in Nat
    BY <1>16, InHand DEF CommitApproval, Request
  <2>2. pay' \in [Orders -> Payment]
    BY <1>16, <2>1 DEF CommitApproval, Payment, PayStatuses
  <2> QED BY <1>16, <2>1, <2>2, GoesType, FreeType DEF CommitApproval, Returns, Places
<1>17. ASSUME NEW s \in Slots, Close(s) PROVE BillingTypeOK'
  BY <1>17, FreeType DEF Close
<1> QED
  BY <1>1, <1>2, <1>3, <1>4, <1>5, <1>b, <1>6, <1>7, <1>8, <1>9, <1>m, <1>10, <1>12,
     <1>13, <1>14, <1>15, <1>16, <1>17
  DEF BillingNext, Handle, Ask, Write

\* The rows, the locks and the requests keep their shapes.
THEOREM BillingTypeCorrect == BillingSpec => []BillingTypeOK
  BY BillingTypeInit, BillingTypeStep, PTL DEF BillingSpec

LEMMA BillingInvInit == BillingInit => BillingInv
  BY DEF BillingInit, BillingInv, LockInv, MoneyInv, ApprovedIsPaid, Working, Idle

\* What a request knows of its order while it works on it.
LEMMA HasRow ==
  ASSUME BillingTypeOK, BillingInv, NEW s \in Slots, Working(s)
  PROVE  /\ req[s] \in Request /\ req[s].order \in Orders
         /\ lock[req[s].order] = {s}
         /\ pay[req[s].order].status = "pending"
<1>1. req[s] \in Request /\ req[s].order \in Orders
  BY InHand DEF Working
<1> QED BY <1>1 DEF BillingInv, LockInv

LEMMA BillingInvStep ==
  BillingTypeOK /\ BillingInv /\ [BillingNext]_billingVars => BillingInv'
<1> SUFFICES ASSUME BillingTypeOK, BillingInv, [BillingNext]_billingVars
             PROVE  BillingInv'
  OBVIOUS
<1> USE DEF BillingTypeOK, BillingInv, LockInv, MoneyInv, ApprovedIsPaid, Working
<1>1. CASE UNCHANGED billingVars
  BY <1>1 DEF billingVars
<1>2. ASSUME NEW o \in Orders, Checkout(o) PROVE BillingInv'
  BY <1>2 DEF Checkout
<1>3. ASSUME NEW o \in Orders, Deposit(o) PROVE BillingInv'
  BY <1>3 DEF Deposit, Paid
<1>4. ASSUME NEW s \in Slots, NEW o \in Orders, BeginConfirm(s, o) PROVE BillingInv'
  BY <1>4 DEF BeginConfirm, Begin, Idle
<1>5. ASSUME NEW s \in Slots, NEW o \in Orders, BeginWebhook(s, o) PROVE BillingInv'
  BY <1>5 DEF BeginWebhook, Begin, Idle
<1>b. ASSUME NEW s \in Slots, NEW o \in Orders, BeginOther(s, o) PROVE BillingInv'
  BY <1>b DEF BeginOther, Begin, Idle
<1>6. CASE NewMonth
  BY <1>6 DEF NewMonth
<1>7. CASE Crash
  BY <1>7 DEF Crash, Idle
<1>8. ASSUME NEW s \in Slots, Select(s) PROVE BillingInv'
  <2>1. req[s] \in Request /\ req[s].order \in Orders
    BY <1>8, InHand DEF Select
  <2> DEFINE o == req[s].order
  <2>2. lock[o] = {} /\ lock' = [lock EXCEPT ![o] = {s}] /\ UNCHANGED <<pay, toss>>
    BY <1>8 DEF Select
  <2>3. PICK place \in {"close", "ask", "fail", "approve"} :
          /\ Goes(s, place)
          /\ place # "close" => pay[o].status = "pending"
          /\ place = "approve" => toss[o] \in Paid
    BY <1>8, <2>1 DEF Select, Decide, Follow, Returns, Notice, Asks, Paid, Payment, Request
  <2>4. /\ req'[s].at = place /\ req'[s].order = o /\ req'[s] # Idle
        /\ \A t \in Slots : t # s => req'[t] = req[t]
    BY <2>1, <2>3 DEF Goes, Request, Idle
  <2>5. LockInv'
    BY <2>1, <2>2, <2>3, <2>4
  <2>6. MoneyInv'
    BY <2>1, <2>2, <2>3, <2>4
  <2> QED BY <2>5, <2>6
<1>9. ASSUME NEW s \in Slots, Accepted(s) PROVE BillingInv'
  BY <1>9, HasRow DEF Accepted, Accepts, Goes, Paid, Idle
<1>m. ASSUME NEW s \in Slots, Mismatched(s) PROVE BillingInv'
  BY <1>m, HasRow DEF Mismatched, Accepts, Goes, Paid, Idle
<1>10. ASSUME NEW s \in Slots, Refused(s) PROVE BillingInv'
  BY <1>10, HasRow DEF Refused, Goes, Idle
<1>12. ASSUME NEW s \in Slots, NoAnswer(s) PROVE BillingInv'
  BY <1>12, HasRow DEF NoAnswer, Accepts, Returns, Goes, Paid, Idle
<1>13. ASSUME NEW s \in Slots, CommitFailure(s) PROVE BillingInv'
  BY <1>13, HasRow DEF CommitFailure, Free, Returns, Goes, Payment, Idle
<1>14. ASSUME NEW s \in Slots, CommitAccount(s) PROVE BillingInv'
  BY <1>14, HasRow DEF CommitAccount, Free, Returns, Goes, Payment, Idle
<1>15. ASSUME NEW s \in Slots, ReadSubscription(s) PROVE BillingInv'
  <2>1. /\ req[s] \in Request /\ req[s].order \in Orders
        /\ lock[req[s].order] = {s} /\ pay[req[s].order].status = "pending"
    BY <1>15, HasRow DEF ReadSubscription
  <2> DEFINE q == [req[s] EXCEPT !.at = "commit", !.until = Later(until, today) + 1]
  <2>2. q.at = "commit" /\ q.order = req[s].order /\ q # Idle
    BY <2>1 DEF Request, Idle
  <2>3. req' = [req EXCEPT ![s] = q]
    BY <1>15 DEF ReadSubscription
  <2> HIDE DEF q
  <2>4. /\ req'[s].at = "commit" /\ req'[s].order = req[s].order /\ req'[s] # Idle
        /\ \A t \in Slots : t # s => req'[t] = req[t]
    BY <2>2, <2>3
  <2>5. UNCHANGED <<pay, toss, lock>>
    BY <1>15 DEF ReadSubscription
  <2>6. req[s].at = "approve"
    BY <1>15 DEF ReadSubscription
  <2> QED BY <2>1, <2>4, <2>5, <2>6
<1>16. ASSUME NEW s \in Slots, CommitApproval(s) PROVE BillingInv'
  BY <1>16, HasRow DEF CommitApproval, Free, Returns, Goes, Payment, Idle
<1>17. ASSUME NEW s \in Slots, Close(s) PROVE BillingInv'
  BY <1>17, InHand DEF Close, Free, Idle
<1> QED
  BY <1>1, <1>2, <1>3, <1>4, <1>5, <1>b, <1>6, <1>7, <1>8, <1>9, <1>m, <1>10, <1>12,
     <1>13, <1>14, <1>15, <1>16, <1>17
  DEF BillingNext, Handle, Ask, Write

THEOREM BillingInvariant == BillingSpec => []BillingInv
  BY BillingTypeInit, BillingTypeStep, BillingInvInit, BillingInvStep, PTL DEF BillingSpec

\* Pro is given only for money that has arrived, however confirmations and
\* notices overlap, are repeated, get lost or are cut off by a crash.
THEOREM ApprovedIsPaidHolds == BillingSpec => []ApprovedIsPaid
<1>1. BillingInv => ApprovedIsPaid
  BY DEF BillingInv, MoneyInv
<1> QED BY <1>1, BillingInvariant, PTL

LEMMA SettledStays ==
  ASSUME BillingTypeOK, BillingInv, [BillingNext]_billingVars,
         NEW o \in Orders, pay[o].status \in {"approved", "failed"}
  PROVE  pay'[o] = pay[o]
<1> USE DEF BillingTypeOK
<1>1. CASE UNCHANGED billingVars \/ NewMonth \/ Crash
  BY <1>1 DEF billingVars, NewMonth, Crash
<1>2. CASE \E q \in Orders : Checkout(q) \/ Deposit(q)
  BY <1>2 DEF Checkout, Deposit
<1>3. CASE \E s \in Slots, q \in Orders : BeginConfirm(s, q) \/ BeginWebhook(s, q) \/ BeginOther(s, q)
  BY <1>3 DEF BeginConfirm, BeginWebhook, BeginOther
<1>4. ASSUME NEW s \in Slots, Handle(s) PROVE pay'[o] = pay[o]
  <2>1. CASE Select(s) \/ Ask(s) \/ ReadSubscription(s) \/ Close(s)
    BY <2>1 DEF Select, Ask, Accepted, Mismatched, Refused, NoAnswer, ReadSubscription, Close
  <2>2. CASE CommitFailure(s) \/ CommitAccount(s) \/ CommitApproval(s)
    <3>1. Working(s)
      BY <2>2 DEF Working, CommitFailure, CommitAccount, CommitApproval
    <3>2. req[s].order # o
      BY <3>1, HasRow
    <3> QED BY <2>2, <3>2 DEF CommitFailure, CommitAccount, CommitApproval
  <2> QED BY <1>4, <2>1, <2>2 DEF Handle, Write
<1> QED BY <1>1, <1>2, <1>3, <1>4 DEF BillingNext

\* An order is settled once: no repeated confirmation or notice changes an
\* approved or failed order.
THEOREM OutcomeFinalHolds == BillingSpec => OutcomeFinal
<1>1. BillingTypeOK /\ BillingInv /\ [BillingNext]_billingVars =>
        [\A o \in Orders :
           pay[o].status \in {"approved", "failed"} => pay'[o] = pay[o]]_billingVars
  BY SettledStays
<1> QED BY <1>1, BillingTypeCorrect, BillingInvariant, PTL DEF BillingSpec, OutcomeFinal
-----------------------------------------------------------------------------
(***************************************************************************)
(* Orders of which the server knows what Toss did.                         *)
(***************************************************************************)

LEMMA CauseInit == BillingInit => CauseInv
  BY DEF BillingInit, CauseInv, Working, Idle

LEMMA CauseStep ==
  ASSUME BillingTypeOK, BillingInv, CauseInv, [BillingNext]_billingVars
  PROVE  CauseInv'
<1> USE DEF BillingTypeOK, CauseInv, Working
<1>1. CASE UNCHANGED billingVars \/ NewMonth
  BY <1>1 DEF billingVars, NewMonth
<1>2. ASSUME NEW o \in Orders, Checkout(o) PROVE CauseInv'
  BY <1>2 DEF Checkout, Payment
<1>3. ASSUME NEW o \in Orders, Deposit(o) PROVE CauseInv'
  BY <1>3 DEF Deposit
<1>4. ASSUME NEW s \in Slots, NEW o \in Orders,
             BeginConfirm(s, o) \/ BeginWebhook(s, o) \/ BeginOther(s, o)
      PROVE  CauseInv'
  BY <1>4 DEF BeginConfirm, BeginWebhook, BeginOther, Begin, Idle
<1>5. CASE Crash
  BY <1>5 DEF Crash, Idle
<1>6. ASSUME NEW s \in Slots, Select(s) PROVE CauseInv'
  <2>1. req[s] \in Request /\ req[s].order \in Orders
    BY <1>6, InHand DEF Select
  <2>2. PICK place \in {"close", "ask", "fail", "approve"} :
          /\ Goes(s, place)
          /\ place = "ask" => req[s].kind = "confirm"
          /\ place # "close" => req[s].kind # "other"
    BY <1>6, <2>1 DEF Select, Decide, Follow, Returns, Notice, Request
  <2> QED BY <1>6, <2>1, <2>2 DEF Select, Goes, Request, Idle
<1>7. ASSUME NEW s \in Slots, Accepted(s) \/ Mismatched(s) \/ NoAnswer(s)
      PROVE  CauseInv'
  <2>1. /\ req[s] \in Request /\ req[s].order \in Orders /\ req[s].kind = "confirm"
        /\ pay[req[s].order].status = "pending" /\ toss[req[s].order] \in TossStates
    BY <1>7, HasRow DEF Accepted, Mismatched, NoAnswer, Working
  <2>2. \A o \in Orders : o # req[s].order => toss'[o] = toss[o]
    BY <1>7 DEF Accepted, Mismatched, NoAnswer, Accepts
  <2>3. PICK place \in {"approve", "store", "fail", "close"} : Goes(s, place)
    BY <1>7 DEF Accepted, Mismatched, NoAnswer, Returns
  <2>4. toss'[req[s].order] = toss[req[s].order] \/ toss[req[s].order] = "open"
    BY <1>7 DEF Accepted, Mismatched, NoAnswer
  <2>5. UNCHANGED pay
    BY <1>7 DEF Accepted, Mismatched, NoAnswer
  <2>6. /\ req'[s].kind = "confirm" /\ \A t \in Slots : t # s => req'[t] = req[t]
    BY <2>1, <2>3 DEF Goes, Request
  <2>7. \A t \in Slots : req[t] # Idle /\ req[t].kind = "webhook" =>
          req[t].order \in Orders /\ toss'[req[t].order] = toss[req[t].order]
    BY <2>1, <2>2, <2>4 DEF Request
  <2>8. \A o \in Orders : pay'[o].status = "absent" => toss'[o] = "open"
    BY <2>1, <2>2, <2>5
  <2>9. \A t \in Slots : req'[t] # Idle /\ req'[t].kind = "webhook" =>
          toss'[req'[t].order] \in {"deposited", "cancelled"}
    BY <2>6, <2>7
  <2> QED BY <2>1, <2>6, <2>8, <2>9
<1>8. ASSUME NEW s \in Slots, Refused(s) PROVE CauseInv'
  BY <1>8, InHand DEF Refused, Goes, Request, Idle
<1>9. ASSUME NEW s \in Slots, CommitFailure(s) \/ CommitAccount(s) \/ CommitApproval(s)
      PROVE  CauseInv'
  <2>1. req[s] \in Request /\ req[s].order \in Orders /\ pay[req[s].order].status = "pending"
    BY <1>9, HasRow DEF CommitFailure, CommitAccount, CommitApproval, Working
  <2>2. Goes(s, "close") /\ UNCHANGED toss
    BY <1>9 DEF CommitFailure, CommitAccount, CommitApproval, Returns
  <2>3. \A o \in Orders : pay'[o].status = "absent" => pay[o].status = "absent"
    <3>1. CASE CommitFailure(s)
      BY <2>1, <3>1 DEF CommitFailure, Payment
    <3>2. CASE CommitAccount(s)
      BY <2>1, <3>2 DEF CommitAccount, Payment
    <3>3. CASE CommitApproval(s)
      BY <2>1, <3>3 DEF CommitApproval, Payment
    <3> QED BY <1>9, <3>1, <3>2, <3>3
  <2> QED BY <2>1, <2>2, <2>3 DEF Goes, Request, Idle
<1>10. ASSUME NEW s \in Slots, ReadSubscription(s) PROVE CauseInv'
  BY <1>10, InHand DEF ReadSubscription, Request, Idle
<1>11. ASSUME NEW s \in Slots, Close(s) PROVE CauseInv'
  BY <1>11 DEF Close, Idle
<1> QED BY <1>1, <1>2, <1>3, <1>4, <1>5, <1>6, <1>7, <1>8, <1>9, <1>10, <1>11
        DEF BillingNext, Handle, Ask, Write

\* AccountHasSecret and NoticeCounts, one order at a time.
SecretInv(o) == toss[o] \in {"account", "deposited", "cancelled"} =>
  pay[o].secret \/ \E s \in lock[o] : req[s].at = "store"

NoticesInv(o) == \A s \in Slots :
  req[s].at = "close" /\ req[s].kind = "webhook" /\ req[s].order = o =>
    pay[o].status # "pending"

OrderInv(o) == KnownInv(o) /\ SecretInv(o) /\ NoticesInv(o)

LEMMA TossParts ==
  ASSUME BillingTypeOK
  PROVE  TossInv <=> CauseInv /\ \A o \in Orders \ hurt : OrderInv(o)
<1>1. \A s \in Slots : req[s].at = "close" => req[s].order \in Orders
  BY InHand
<1> QED BY <1>1 DEF TossInv, OrderInv, AccountHasSecret, NoticeCounts, SecretInv, NoticesInv

LEMMA HurtGrows ==
  ASSUME [BillingNext]_billingVars PROVE hurt \subseteq hurt'
  BY DEF BillingNext, billingVars, Checkout, Deposit, BeginConfirm, BeginWebhook, BeginOther, Handle,
         Select, Ask, Accepted, Mismatched, Refused, NoAnswer, Write, CommitFailure, CommitAccount,
         ReadSubscription, CommitApproval, Close, NewMonth, Crash

\* An order is not disturbed by the requests on the others: they change
\* neither its row nor its lock, and are not about it.
LEMMA Elsewhere ==
  ASSUME BillingTypeOK, LockInv, NEW x \in Orders, NEW s \in Slots, OrderInv(x),
         pay'[x] = pay[x], toss'[x] = toss[x], lock'[x] = lock[x],
         \A t \in Slots : t # s => req'[t] = req[t],
         req[s] # Idle => req[s].order # x,
         req'[s] # Idle => req'[s].order # x
  PROVE  OrderInv(x)'
<1>1. \A t \in lock[x] : t \in Slots /\ t # s /\ req'[t] = req[t]
  BY DEF LockInv, BillingTypeOK
<1>2. \A t \in Slots, place \in Places : req'[t].at = place /\ req'[t].order = x =>
        req[t].at = place /\ req[t].order = x /\ req'[t] = req[t]
  BY DEF Idle, Places
<1>3. KnownInv(x)'
  <2>1. \A t \in Slots : req'[t].at \in {"ask", "fail"} /\ req'[t].order = x =>
          req[t].at = req'[t].at /\ req[t].order = x
    BY <1>2 DEF Places
  <2> QED BY <1>1, <2>1 DEF OrderInv, KnownInv
<1>4. SecretInv(x)'
  BY <1>1 DEF OrderInv, SecretInv
<1>5. NoticesInv(x)'
  BY <1>2 DEF OrderInv, NoticesInv, Places
<1> QED BY <1>3, <1>4, <1>5 DEF OrderInv

\* A step of request s on order x, which s has to itself: what remains to be
\* shown of x after it.
LEMMA Here ==
  ASSUME BillingTypeOK, BillingInv, NEW x \in Orders, NEW s \in Slots, OrderInv(x),
         Working(s), req[s].order = x,
         \A t \in Slots : t # s => req'[t] = req[t],
         NEW place \in Places, req'[s].at = place, req'[s].order = x,
         req'[s].kind = req[s].kind,
         pay'[x].status = "failed" \/ place = "fail" => toss'[x] \in {"open", "cancelled"},
         place = "ask" => toss'[x] = "open",
         toss'[x] = "charged" =>
           pay'[x].status = "approved" \/ (s \in lock'[x] /\ place \in {"approve", "commit"}),
         toss'[x] \in {"account", "deposited", "cancelled"} =>
           pay'[x].secret \/ (s \in lock'[x] /\ place = "store"),
         place = "close" /\ req[s].kind = "webhook" => pay'[x].status # "pending",
         pay'[x].status = pay[x].status \/ pay'[x].status # "pending"
  PROVE  OrderInv(x)'
<1>1. \A t \in Slots : t # s /\ req[t].order = x => ~Working(t)
  BY HasRow
<1>2. KnownInv(x)'
  <2>1. \A t \in Slots : t # s /\ req[t].order = x => req[t].at \notin {"ask", "fail"}
    BY <1>1 DEF Working
  <2> QED BY <2>1 DEF KnownInv
<1>3. SecretInv(x)'
  BY DEF SecretInv
<1>4. NoticesInv(x)'
  BY DEF OrderInv, NoticesInv
<1> QED BY <1>2, <1>3, <1>4 DEF OrderInv

LEMMA OrderStep ==
  ASSUME BillingTypeOK, BillingInv, CauseInv, [BillingNext]_billingVars,
         NEW x \in Orders, x \notin hurt', OrderInv(x)
  PROVE  OrderInv(x)'
<1>0. x \notin hurt /\ LockInv /\ CauseInv'
  BY HurtGrows, CauseStep DEF BillingInv
<1>k. KnownInv(x) /\ SecretInv(x) /\ NoticesInv(x)
  BY DEF OrderInv
<1> USE DEF BillingTypeOK
<1>1. CASE UNCHANGED billingVars \/ NewMonth
  BY <1>1 DEF billingVars, NewMonth, OrderInv, KnownInv, SecretInv, NoticesInv
<1>2. ASSUME NEW o \in Orders, Checkout(o) PROVE OrderInv(x)'
  <2>1. /\ pay[o].status = "absent" /\ pay'[o].status = "pending"
        /\ \A q \in Orders : q # o => pay'[q] = pay[q]
        /\ UNCHANGED <<toss, lock, req>>
    BY <1>2 DEF Checkout, Payment
  <2>2. CASE x # o
    BY <1>k, <2>1, <2>2 DEF OrderInv, KnownInv, SecretInv, NoticesInv
  <2>3. CASE x = o
    <3>1. toss[x] = "open"
      BY <2>1, <2>3 DEF CauseInv
    <3>2. \A s \in Slots : req[s] # Idle /\ req[s].kind = "webhook" => req[s].order # x
      BY <3>1 DEF CauseInv
    <3>3. KnownInv(x)' /\ SecretInv(x)'
      BY <1>k, <2>1, <2>3, <3>1 DEF KnownInv, SecretInv
    <3>4. NoticesInv(x)'
      BY <2>1, <3>2 DEF NoticesInv, Idle
    <3> QED BY <3>3, <3>4 DEF OrderInv
  <2> QED BY <2>2, <2>3
<1>3. ASSUME NEW o \in Orders, Deposit(o) PROVE OrderInv(x)'
  <2>1. /\ UNCHANGED <<pay, lock, req>>
        /\ \/ toss'[x] = toss[x]
           \/ toss[x] = "account" /\ toss'[x] \in {"deposited", "cancelled"}
    <3>1. PICK new \in {"deposited", "cancelled"} :
            toss[o] = "account" /\ toss' = [toss EXCEPT ![o] = new]
      BY <1>3 DEF Deposit
    <3>2. UNCHANGED <<pay, lock, req>>
      BY <1>3 DEF Deposit
    <3>3. CASE x = o
      BY <3>1, <3>2, <3>3
    <3>4. CASE x # o
      <4>1. toss'[x] = toss[x]
        BY <3>1, <3>4
      <4> QED BY <3>2, <4>1
    <3> QED BY <3>3, <3>4
  <2>2. KnownInv(x)'
    BY <1>k, <2>1 DEF KnownInv
  <2>3. SecretInv(x)'
    BY <1>k, <2>1 DEF SecretInv
  <2>4. NoticesInv(x)'
    BY <1>k, <2>1 DEF NoticesInv
  <2> QED BY <2>2, <2>3, <2>4 DEF OrderInv
<1>4. ASSUME NEW s \in Slots, NEW o \in Orders,
             BeginConfirm(s, o) \/ BeginWebhook(s, o) \/ BeginOther(s, o)
      PROVE  OrderInv(x)'
  <2>1. /\ UNCHANGED <<pay, toss, lock>> /\ req[s] = Idle
        /\ req'[s].at = "select" /\ \A t \in Slots : t # s => req'[t] = req[t]
    BY <1>4 DEF BeginConfirm, BeginWebhook, BeginOther, Begin
  <2>2. s \notin lock[x]
    BY <1>0, <2>1 DEF LockInv
  <2>3. \A t \in lock[x] : t \in Slots /\ req'[t] = req[t]
    BY <2>1, <2>2
  <2>4. \A t \in Slots : req'[t].at # "select" => req'[t] = req[t]
    BY <2>1
  <2>5. KnownInv(x)'
    BY <1>k, <2>1, <2>3, <2>4 DEF KnownInv
  <2>6. SecretInv(x)'
    BY <1>k, <2>1, <2>3 DEF SecretInv
  <2>7. NoticesInv(x)'
    BY <1>k, <2>1, <2>4 DEF NoticesInv
  <2> QED BY <2>5, <2>6, <2>7 DEF OrderInv
<1>5. CASE Crash
  <2>1. /\ UNCHANGED <<pay, toss>> /\ \A s \in Slots : req'[s] = Idle
        /\ \A s \in Slots : Unstored(s) => req[s].order # x
    BY <1>5 DEF Crash
  <2>2. \A s \in Slots : s \in lock[x] => req[s].order = x
    BY <1>0 DEF LockInv
  <2>3. ASSUME NEW s \in lock[x], req[s].at \in {"approve", "commit", "store"}
        PROVE  toss[x] \in {"deposited", "cancelled"}
    <3>1. s \in Slots /\ req[s].order = x /\ req[s] # Idle /\ req[s] \in Request
      BY <2>2, <2>3, InHand DEF Idle
    <3>2. req[s].kind = "webhook"
      BY <2>1, <2>3, <3>1 DEF Unstored, Request, CauseInv, Working
    <3> QED BY <3>1, <3>2 DEF CauseInv
  <2>4. KnownInv(x)'
    BY <1>k, <2>1, <2>3 DEF KnownInv, Idle
  <2>5. \A s \in lock[x] : s \in Slots /\ req[s].at # "store"
    <3>1. ASSUME NEW s \in lock[x], req[s].at = "store" PROVE FALSE
      BY <2>1, <2>2, <3>1 DEF Unstored, CauseInv
    <3> QED BY <3>1
  <2>6. SecretInv(x)'
    BY <1>k, <2>1, <2>5 DEF SecretInv
  <2>7. NoticesInv(x)'
    BY <2>1 DEF NoticesInv, Idle
  <2> QED BY <2>4, <2>6, <2>7 DEF OrderInv
<1>6. ASSUME NEW s \in Slots, Select(s) PROVE OrderInv(x)'
  <2>1. req[s] \in Request /\ req[s].order \in Orders
    BY <1>6, InHand DEF Select
  <2>2. /\ lock[req[s].order] = {} /\ lock' = [lock EXCEPT ![req[s].order] = {s}]
        /\ UNCHANGED <<pay, toss>>
    BY <1>6 DEF Select
  <2>3. PICK place \in {"close", "ask", "fail", "approve"} :
          /\ Goes(s, place)
          /\ place = "ask" => Asks(req[s].order)
          /\ req[s].kind # "webhook" => place \in {"close", "ask"}
          /\ req[s].kind = "webhook" => place = Notice(req[s].order)
    BY <1>6, <2>1 DEF Select, Decide, Follow, Returns, Notice, Request
  <2>4. /\ req'[s].at = place /\ req'[s].order = req[s].order
        /\ req'[s].kind = req[s].kind
        /\ \A t \in Slots : t # s => req'[t] = req[t]
    BY <2>1, <2>3 DEF Goes, Request
  <2>5. CASE req[s].order # x
    BY <1>0, <2>1, <2>2, <2>4, <2>5, Elsewhere
  <2>6. CASE req[s].order = x
    <3>1. /\ toss[x] \in {"account", "deposited", "cancelled"} => pay[x].secret
          /\ toss[x] = "charged" => pay[x].status = "approved"
      BY <1>k, <2>2, <2>6 DEF SecretInv, KnownInv
    <3>2. place = "ask" => toss[x] = "open"
      BY <2>3, <2>6, <3>1 DEF Asks, TossStates
    <3>3. req[s].kind = "webhook" => toss[x] \in {"deposited", "cancelled"}
      BY <1>6, <2>6 DEF Select, CauseInv, Idle
    <3>4. /\ place = "fail" => toss[x] = "cancelled"
          /\ place = "close" /\ req[s].kind = "webhook" => pay[x].status # "pending"
      BY <2>1, <2>3, <2>6, <3>1, <3>3 DEF Notice, Request
    <3>5. KnownInv(x)'
      BY <1>k, <2>2, <2>4, <3>1, <3>2, <3>4 DEF KnownInv
    <3>6. SecretInv(x)'
      BY <2>2, <3>1 DEF SecretInv
    <3>7. NoticesInv(x)'
      BY <1>k, <2>2, <2>4, <3>4 DEF NoticesInv
    <3> QED BY <3>5, <3>6, <3>7 DEF OrderInv
  <2> QED BY <2>5, <2>6
<1>7. ASSUME NEW s \in Slots, Working(s),
             Ask(s) \/ Write(s)
      PROVE  OrderInv(x)'
  <2>1. /\ req[s] \in Request /\ req[s].order \in Orders
        /\ lock[req[s].order] = {s} /\ pay[req[s].order].status = "pending"
    BY <1>7, HasRow
  <2>2. \A t \in Slots : t # s => req'[t] = req[t]
    BY <1>7 DEF Ask, Accepted, Mismatched, Refused, NoAnswer, Write, CommitFailure,
       CommitAccount, ReadSubscription, CommitApproval, Goes, Returns
  <2>o. \A o \in Orders : o # req[s].order =>
          pay'[o] = pay[o] /\ toss'[o] = toss[o] /\ lock'[o] = lock[o]
    BY <1>7, <2>1 DEF Ask, Accepted, Mismatched, Accepts, Refused, NoAnswer, Write, CommitFailure,
       CommitAccount, ReadSubscription, CommitApproval, Free
  <2>3. PICK place \in Places, n \in Nat : req' = [req EXCEPT ![s] = [@ EXCEPT !.at = place, !.until = n]]
    <3>1. req[s].until \in Nat /\ Later(until, today) + 1 \in Nat
      BY <2>1 DEF Request, Later
    <3>2. CASE ReadSubscription(s)
      BY <3>1, <3>2 DEF ReadSubscription, Places
    <3>3. ASSUME NEW p \in Places, Goes(s, p)
          PROVE  req' = [req EXCEPT ![s] = [@ EXCEPT !.at = p, !.until = req[s].until]]
      <4>1. [req[s] EXCEPT !.at = p] = [req[s] EXCEPT !.at = p, !.until = req[s].until]
        BY <2>1 DEF Request
      <4> QED BY <3>3, <4>1 DEF Goes
    <3>4. CASE ~ReadSubscription(s)
      <4>1. \E p \in Places : Goes(s, p)
        BY <1>7, <3>4 DEF Ask, Accepted, Mismatched, Refused, NoAnswer, Write, CommitFailure,
           CommitAccount, CommitApproval, Returns, Places
      <4> QED BY <3>1, <3>3, <4>1
    <3> QED BY <3>2, <3>4
  <2>4. /\ req'[s].at = place /\ req'[s].order = req[s].order /\ req'[s].kind = req[s].kind
    BY <2>1, <2>3 DEF Request
  <2>5. CASE req[s].order # x
    BY <1>0, <2>2, <2>4, <2>5, <2>o, Elsewhere
  <2>6. CASE req[s].order = x
    <3>1. lock[x] = {s} /\ pay[x].status = "pending" /\ toss[x] \in TossStates
      BY <2>1, <2>6
    <3>2. /\ req[s].at = "ask" => toss[x] = "open" /\ req[s].kind = "confirm"
          /\ req[s].at = "fail" => toss[x] \in {"open", "cancelled"}
          /\ toss[x] = "charged" => req[s].at \in {"approve", "commit"}
          /\ toss[x] \in {"account", "deposited", "cancelled"} =>
               pay[x].secret \/ req[s].at = "store"
          /\ req[s].at = "store" => req[s].kind = "confirm"
      BY <1>k, <2>6, <3>1 DEF KnownInv, SecretInv, CauseInv
    <3>3. CASE Accepted(s)
      <4>1. \/ place = "approve" /\ toss'[x] = "charged"
            \/ place = "store" /\ toss'[x] = "account"
        BY <2>1, <2>4, <2>6, <3>1, <3>3 DEF Accepted, Accepts, Goes
      <4>2. UNCHANGED <<pay, lock>>
        BY <3>3 DEF Accepted
      <4> QED BY <1>7, <2>2, <2>4, <2>6, <3>1, <4>1, <4>2, Here
    <3>m. CASE Mismatched(s)
      BY <2>6, <3>m DEF Mismatched
    <3>4. CASE Refused(s)
      <4>1. place = "fail" /\ req[s].at = "ask" /\ UNCHANGED <<pay, toss, lock>>
        BY <2>1, <2>4, <3>4 DEF Refused, Goes
      <4> QED BY <1>7, <2>2, <2>4, <2>6, <3>1, <3>2, <4>1, Here
    <3>5. CASE NoAnswer(s)
      <4>1. place = "close" /\ req[s].at = "ask" /\ UNCHANGED <<pay, lock>>
        BY <2>1, <2>4, <3>5 DEF NoAnswer, Returns, Goes
      <4>2. UNCHANGED toss
        BY <2>6, <3>5 DEF NoAnswer
      <4> QED BY <1>7, <2>2, <2>4, <2>6, <3>1, <3>2, <4>1, <4>2, Here
    <3>6. CASE CommitFailure(s)
      <4>1. place = "close" /\ req[s].at = "fail" /\ UNCHANGED toss
        BY <2>1, <2>4, <3>6 DEF CommitFailure, Returns, Goes
      <4>2. pay'[x].status = "failed" /\ pay'[x].secret = pay[x].secret
        BY <2>6, <3>6 DEF CommitFailure, Payment
      <4>3. toss'[x] \in {"open", "cancelled"}
        BY <3>2, <4>1
      <4>4. toss'[x] \in {"account", "deposited", "cancelled"} => pay'[x].secret
        BY <3>2, <4>1, <4>2
      <4> QED BY <1>7, <2>2, <2>4, <2>6, <3>1, <3>2, <4>1, <4>2, <4>3, <4>4, Here
    <3>7. CASE CommitAccount(s)
      <4>1. place = "close" /\ req[s].at = "store" /\ UNCHANGED toss
        BY <2>1, <2>4, <3>7 DEF CommitAccount, Returns, Goes
      <4>2. pay'[x].status = pay[x].status /\ pay'[x].secret
        BY <2>6, <3>7 DEF CommitAccount, Payment
      <4>3. toss'[x] # "charged"
        BY <3>2, <4>1
      <4>4. toss'[x] \in {"account", "deposited", "cancelled"} => pay'[x].secret
        BY <3>2, <4>1, <4>2
      <4> QED BY <1>7, <2>2, <2>4, <2>6, <3>1, <3>2, <4>1, <4>2, <4>3, <4>4, Here
    <3>8. CASE ReadSubscription(s)
      <4>1. place = "commit" /\ req[s].at = "approve" /\ UNCHANGED <<pay, toss, lock>>
        <5>1. req'[s] = [req[s] EXCEPT !.at = "commit", !.until = Later(until, today) + 1]
          BY <3>8 DEF ReadSubscription
        <5>2. req'[s].at = "commit"
          BY <2>1, <5>1 DEF Request
        <5> QED BY <2>4, <3>8, <5>2 DEF ReadSubscription
      <4>3. toss'[x] = "charged" => s \in lock'[x]
        BY <3>1, <4>1
      <4>4. toss'[x] \in {"account", "deposited", "cancelled"} => pay'[x].secret
        BY <3>2, <4>1
      <4> QED BY <1>7, <2>2, <2>4, <2>6, <3>1, <3>2, <4>1, <4>3, <4>4, Here
    <3>9. CASE CommitApproval(s)
      <4>1. place = "close" /\ req[s].at = "commit" /\ UNCHANGED toss
        BY <2>1, <2>4, <3>9 DEF CommitApproval, Returns, Goes
      <4>2. pay'[x].status = "approved" /\ pay'[x].secret = pay[x].secret
        BY <2>6, <3>9 DEF CommitApproval, Payment
      <4>3. toss'[x] = "charged" => pay'[x].status = "approved"
        BY <4>2
      <4>4. toss'[x] \in {"account", "deposited", "cancelled"} => pay'[x].secret
        BY <3>2, <4>1, <4>2
      <4> QED BY <1>7, <2>2, <2>4, <2>6, <3>1, <3>2, <4>1, <4>2, <4>3, <4>4, Here
    <3> QED BY <1>7, <3>3, <3>m, <3>4, <3>5, <3>6, <3>7, <3>8, <3>9 DEF Ask, Write
  <2> QED BY <2>5, <2>6
<1>8. ASSUME NEW s \in Slots, Close(s) PROVE OrderInv(x)'
  <2>1. /\ UNCHANGED <<pay, toss>> /\ req'[s] = Idle /\ req[s].at = "close"
        /\ \A t \in Slots : t # s => req'[t] = req[t]
        /\ lock'[x] = lock[x] \/ lock'[x] = lock[x] \ {s}
    BY <1>8 DEF Close, Free
  <2>2. KnownInv(x)'
    BY <1>k, <2>1 DEF KnownInv, Idle
  <2>3. SecretInv(x)'
    BY <1>k, <2>1 DEF SecretInv
  <2>4. NoticesInv(x)'
    BY <1>k, <2>1 DEF NoticesInv, Idle
  <2> QED BY <2>2, <2>3, <2>4 DEF OrderInv
<1>9. \A s \in Slots : Ask(s) \/ Write(s) => Working(s)
  BY DEF Ask, Accepted, Mismatched, Refused, NoAnswer, Write, CommitFailure, CommitAccount,
         ReadSubscription, CommitApproval, Working
<1> QED BY <1>1, <1>2, <1>3, <1>4, <1>5, <1>6, <1>7, <1>8, <1>9 DEF BillingNext, Handle

\* What the server knows of an order, and what Toss knows, stay together for
\* every order on which no answer was lost.
THEOREM TossInvariant == BillingSpec => []TossInv
<1>1. BillingInit => TossInv
  BY CauseInit DEF BillingInit, TossInv, KnownInv, AccountHasSecret, NoticeCounts, Idle
<1>2. BillingTypeOK /\ BillingInv /\ TossInv /\ [BillingNext]_billingVars => TossInv'
  <2> SUFFICES ASSUME BillingTypeOK, BillingInv, TossInv, [BillingNext]_billingVars
               PROVE  TossInv'
    OBVIOUS
  <2>1. CauseInv /\ \A o \in Orders \ hurt : OrderInv(o)
    BY TossParts
  <2>2. CauseInv'
    BY <2>1, CauseStep
  <2>3. \A o \in Orders \ hurt' : OrderInv(o)'
    BY <2>1, HurtGrows, OrderStep
  <2>4. BillingTypeOK'
    BY BillingTypeStep
  <2>5. \A s \in Slots : req'[s].at = "close" => req'[s].order \in Orders
    BY <2>4 DEF BillingTypeOK, Request, Idle
  <2> QED BY <2>2, <2>3, <2>5
          DEF TossInv, OrderInv, AccountHasSecret, NoticeCounts, SecretInv, NoticesInv
<1> QED BY <1>1, <1>2, BillingTypeCorrect, BillingInvariant, PTL DEF BillingSpec

\* No retry and no notice kills an order that has been paid for, unless an
\* answer of Toss about it was lost or contradicted the order.
THEOREM PaidIsHonouredHolds == BillingSpec => []PaidIsHonoured
<1>1. TossInv => PaidIsHonoured
  BY DEF TossInv, KnownInv, PaidIsHonoured, Paid
<1> QED BY <1>1, TossInvariant, PTL

\* A notice that overtakes the confirmation waits for it instead of being
\* dropped.
THEOREM NoticeCountsHolds == BillingSpec => []NoticeCounts
<1>1. TossInv => NoticeCounts
  BY DEF TossInv
<1> QED BY <1>1, TossInvariant, PTL

\* Every issued account can be matched with its order, unless the answer that
\* issued it was lost.
THEOREM AccountHasSecretHolds == BillingSpec => []AccountHasSecret
<1>1. TossInv => AccountHasSecret
  BY DEF TossInv
<1> QED BY <1>1, TossInvariant, PTL

-----------------------------------------------------------------------------
(***************************************************************************)
(* The end of the subscription, which no row lock protects: what a request *)
(* has read of it stays good until its commit, unless it is in a race.     *)
(***************************************************************************)
RacesNoted ==
  \A s, t \in Slots : s # t /\ req[s].at = "commit" /\ req[t].at = "commit" =>
    req[s].order \in raced

\* The end that a request has computed still adds a month when it commits.
EndAdds ==
  \A s \in Slots : req[s].at = "commit" /\ req[s].order \notin raced =>
    req[s].until \in (until + 1) .. (Later(until, today) + 1)

MonthInv == RacesNoted /\ EndAdds

LEMMA MonthStep ==
  ASSUME BillingTypeOK, BillingInv, MonthInv, [BillingNext]_billingVars
  PROVE  MonthInv'
<1>n. until \in Nat /\ today \in Nat /\ today' \in Nat /\ today <= today'
  <2>1. BillingTypeOK'
    BY BillingTypeStep
  <2>2. today' = today \/ today' = today + 1
    <3>1. ASSUME NEW s \in Slots, Handle(s) PROVE today' = today
      BY <3>1 DEF Handle, Select, Ask, Accepted, Mismatched, Refused, NoAnswer, Write, CommitFailure,
                  CommitAccount, ReadSubscription, CommitApproval, Close
    <3>2. ASSUME NEW o \in Orders, Checkout(o) \/ Deposit(o) PROVE today' = today
      BY <3>2 DEF Checkout, Deposit
    <3>3. ASSUME NEW s \in Slots, NEW o \in Orders,
             BeginConfirm(s, o) \/ BeginWebhook(s, o) \/ BeginOther(s, o)
          PROVE  today' = today
      BY <3>3 DEF BeginConfirm, BeginWebhook, BeginOther
    <3> QED BY <3>1, <3>2, <3>3 DEF BillingNext, NewMonth, Crash, billingVars
  <2> QED BY <2>1, <2>2 DEF BillingTypeOK
<1>k. \A n : n \in (until + 1) .. (Later(until, today) + 1) =>
               n \in (until + 1) .. (Later(until, today') + 1)
  <2>1. Later(until, today) \in Nat /\ Later(until, today') \in Nat
        /\ Later(until, today) <= Later(until, today')
    BY <1>n DEF Later
  <2> QED BY <1>n, <2>1
<1>r. raced \subseteq raced'
  BY DEF BillingNext, billingVars, Checkout, Deposit, BeginConfirm, BeginWebhook, BeginOther,
         Handle, Select, Ask, Accepted, Mismatched, Refused, NoAnswer, Write, CommitFailure,
         CommitAccount, ReadSubscription, NoteRace, CommitApproval, Close, NewMonth, Crash
<1>1. ASSUME until' = until,
             \A s \in Slots : req'[s].at = "commit" => req'[s] = req[s]
      PROVE  MonthInv'
  <2>1. RacesNoted'
    BY <1>1, <1>r DEF MonthInv, RacesNoted
  <2>2. EndAdds'
    BY <1>1, <1>k, <1>r DEF MonthInv, EndAdds
  <2> QED BY <2>1, <2>2 DEF MonthInv
<1>2. ASSUME NEW s \in Slots, ReadSubscription(s) PROVE MonthInv'
  <2>1. req[s] \in Request
    BY <1>2, InHand DEF ReadSubscription
  <2> DEFINE q == [req[s] EXCEPT !.at = "commit", !.until = Later(until, today) + 1]
  <2>2. q.until = Later(until, today) + 1 /\ q.order = req[s].order
    BY <2>1 DEF Request
  <2>3. req' = [req EXCEPT ![s] = q] /\ until' = until /\ today' = today /\ NoteRace(s)
    BY <1>2 DEF ReadSubscription
  <2> HIDE DEF q
  <2>4. Later(until, today) + 1 \in (until + 1) .. (Later(until, today) + 1)
    BY <1>n DEF Later
  <2>5. /\ req'[s].until = Later(until, today) + 1 /\ req'[s].order = req[s].order
        /\ \A t \in Slots : t # s => req'[t] = req[t]
    BY <2>2, <2>3 DEF BillingTypeOK
  <2>6. \A t \in Slots : t # s /\ req[t].at = "commit" =>
          req[t].order \in raced' /\ req[s].order \in raced'
    BY <2>3 DEF NoteRace, Between
  <2>7. RacesNoted'
    BY <1>r, <2>5, <2>6 DEF MonthInv, RacesNoted
  <2>8. EndAdds'
    BY <1>r, <2>3, <2>4, <2>5 DEF MonthInv, EndAdds
  <2> QED BY <2>7, <2>8 DEF MonthInv
<1>3. ASSUME NEW s \in Slots, CommitApproval(s) PROVE MonthInv'
  <2>1. \A t \in Slots : t # s /\ req[t].at = "commit" => req[t].order \in raced
    BY <1>3 DEF CommitApproval, MonthInv, RacesNoted
  <2>2. /\ \A t \in Slots : t # s => req'[t] = req[t]
        /\ req'[s].at = "close"
    <3>1. req[s] \in Request
      BY <1>3, InHand DEF CommitApproval
    <3> QED BY <1>3, <3>1 DEF CommitApproval, Returns, Goes, BillingTypeOK, Request
  <2>3. RacesNoted'
    BY <1>r, <2>1, <2>2 DEF RacesNoted
  <2>4. EndAdds'
    BY <1>r, <2>1, <2>2 DEF EndAdds
  <2> QED BY <2>3, <2>4 DEF MonthInv
<1>4. ASSUME NEW s \in Slots,
             Select(s) \/ Ask(s) \/ CommitFailure(s) \/ CommitAccount(s) \/ Close(s)
      PROVE  MonthInv'
  <2>1. until' = until
    BY <1>4 DEF Select, Ask, Accepted, Mismatched, Refused, NoAnswer, CommitFailure, CommitAccount, Close
  <2>2. req[s] \in Request
    BY <1>4, InHand DEF Select, Ask, Accepted, Mismatched, Refused, NoAnswer, CommitFailure,
                        CommitAccount, Close
  <2>3. \/ \E place \in Places \ {"commit"} : Goes(s, place)
        \/ req' = [req EXCEPT ![s] = Idle]
    <3>1. CASE Select(s)
      BY <2>2, <3>1 DEF Select, Decide, Follow, Returns, Notice, Places, Request
    <3> QED BY <1>4, <3>1 DEF Ask, Accepted, Mismatched, Refused, NoAnswer, CommitFailure,
                              CommitAccount, Close, Returns, Places
  <2>4. /\ \A t \in Slots : t # s => req'[t] = req[t]
        /\ req'[s].at # "commit"
    BY <2>2, <2>3 DEF Goes, BillingTypeOK, Request, Idle
  <2> QED BY <1>1, <2>1, <2>4
<1>5. ASSUME NEW s \in Slots, NEW o \in Orders,
             BeginConfirm(s, o) \/ BeginWebhook(s, o) \/ BeginOther(s, o)
      PROVE  MonthInv'
  BY <1>1, <1>5 DEF BeginConfirm, BeginWebhook, BeginOther, Begin, BillingTypeOK
<1>6. CASE Crash
  BY <1>1, <1>6 DEF Crash, Idle
<1>7. CASE UNCHANGED <<until, req>>
  BY <1>1, <1>7
<1> QED BY <1>2, <1>3, <1>4, <1>5, <1>6, <1>7
        DEF BillingNext, Handle, Write, Checkout, Deposit, NewMonth, billingVars

\* The order that a commit of an approval settles was pending.
LEMMA PaymentStep ==
  ASSUME BillingTypeOK, BillingInv, MonthInv, [BillingNext]_billingVars
  PROVE  LET new == {o \in Orders : pay[o].status # "approved" /\ pay'[o].status = "approved"}
         IN IF new = {} THEN until' = until
                        ELSE \/ new \subseteq raced
                             \/ until' \in (until + 1) .. (Later(until, today) + 1)
<1> DEFINE new == {o \in Orders : pay[o].status # "approved" /\ pay'[o].status = "approved"}
<1>1. ASSUME NEW s \in Slots, CommitApproval(s)
      PROVE  /\ new # {}
             /\ new \subseteq raced \/ until' \in (until + 1) .. (Later(until, today) + 1)
  <2>1. req[s].order \in Orders /\ pay[req[s].order].status = "pending"
    BY <1>1, HasRow DEF CommitApproval, Working
  <2>2. pay'[req[s].order].status = "approved"
    BY <1>1, <2>1 DEF CommitApproval, BillingTypeOK, Payment
  <2>3. new = {req[s].order}
    BY <1>1, <2>1, <2>2 DEF CommitApproval, BillingTypeOK
  <2>4. until' = req[s].until /\ req[s].at = "commit"
    BY <1>1 DEF CommitApproval
  <2> QED BY <2>3, <2>4 DEF MonthInv, EndAdds
<1>2. ASSUME until' = until,
             \A o \in Orders : pay'[o] = pay[o] \/ pay'[o].status # "approved"
                               \/ pay'[o].status = pay[o].status
      PROVE  new = {} /\ until' = until
  BY <1>2
<1>3. ASSUME NEW s \in Slots, CommitFailure(s) \/ CommitAccount(s)
      PROVE  new = {} /\ until' = until
  <2>1. req[s].order \in Orders
    BY <1>3, HasRow DEF CommitFailure, CommitAccount, Working
  <2>2. until' = until
    BY <1>3 DEF CommitFailure, CommitAccount
  <2>3. \A o \in Orders : pay'[o] = pay[o] \/ pay'[o].status # "approved"
                          \/ pay'[o].status = pay[o].status
    <3>1. pay \in [Orders -> Payment]
      BY DEF BillingTypeOK
    <3>2. CASE CommitFailure(s)
      <4>1. pay' = [pay EXCEPT ![req[s].order].status = "failed"]
        BY <3>2 DEF CommitFailure
      <4> QED BY <2>1, <3>1, <4>1 DEF Payment
    <3>3. CASE CommitAccount(s)
      <4>1. \E found \in BOOLEAN : pay' = [pay EXCEPT ![req[s].order].secret = found]
        BY <3>3 DEF CommitAccount
      <4> QED BY <2>1, <3>1, <4>1 DEF Payment
    <3> QED BY <1>3, <3>2, <3>3
  <2> QED BY <1>2, <2>2, <2>3
<1>4. ASSUME NEW o \in Orders, Checkout(o) PROVE new = {} /\ until' = until
  BY <1>2, <1>4 DEF Checkout, BillingTypeOK, Payment
<1>5. CASE UNCHANGED <<until, pay>>
  BY <1>2, <1>5
<1> QED BY <1>1, <1>3, <1>4, <1>5
        DEF BillingNext, Handle, Ask, Write, Deposit, BeginConfirm, BeginWebhook, BeginOther,
            NewMonth, Crash, Select, Accepted, Mismatched, Refused, NoAnswer, ReadSubscription, Close, billingVars

\* Every approved payment moves the end of the subscription by a month and
\* nothing else moves it; only an approval that stood between another's reading
\* and its commit may lose or repeat one (_approve_payment takes no lock).
THEOREM EachPaymentAddsAMonthHolds == BillingSpec => EachPaymentAddsAMonth
<1>1. BillingInit => MonthInv
  BY DEF BillingInit, MonthInv, RacesNoted, EndAdds, Idle
<1>2. BillingTypeOK /\ BillingInv /\ MonthInv /\ [BillingNext]_billingVars => MonthInv'
  BY MonthStep
<1>3. BillingTypeOK /\ BillingInv /\ MonthInv /\ [BillingNext]_billingVars =>
        [LET new == {o \in Orders : pay[o].status # "approved" /\ pay'[o].status = "approved"}
         IN IF new = {} THEN until' = until
                        ELSE \/ new \subseteq raced
                             \/ until' \in (until + 1) .. (Later(until, today) + 1)]_billingVars
  BY PaymentStep
<1> QED BY <1>1, <1>2, <1>3, BillingTypeCorrect, BillingInvariant, PTL
        DEF BillingSpec, EachPaymentAddsAMonth
=============================================================================
