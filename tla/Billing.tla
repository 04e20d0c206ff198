------------------------------- MODULE Billing --------------------------------
(***************************************************************************)
(* The payments of one owner: checkout, the confirmation that asks Toss,   *)
(* the deposit notices Toss sends to the webhook, and the end of the Pro   *)
(* subscription, counted in months.                                        *)
(*                                                                         *)
(* Two resources order the requests.  The payments row is locked           *)
(* (with_for_update) from the SELECT to the commit or, where a path does   *)
(* not commit, until the session is closed.  The event loop of the one     *)
(* server process starts every request and closes every session; confirm   *)
(* runs in a thread beside it, the webhook is a coroutine whose database   *)
(* calls keep the loop to themselves.  The subscriptions row is not locked.*)
(***************************************************************************)
EXTENDS Integers

CONSTANTS
  Orders,
  Slots,         \* requests handled at the same time
  Methods,       \* "card": charged at once, "account": waits for a deposit
  Disturbances,  \* see below
  Months         \* bound: months that pass

\* "lost"     Toss acts on a confirmation but its answer does not arrive
\* "crash"    the process dies
\* "nosecret" the answer has no secret where the code looks for it
\* "mismatch" the answer is a 200 with another amount or another status,
\*            although Toss has charged the card or issued the account
ASSUME BillingAssumption ==
  /\ Methods \subseteq {"card", "account"}
  /\ Disturbances \subseteq {"lost", "crash", "nosecret", "mismatch"}
  /\ Months \in Nat

VARIABLES
  pay,    \* per order: its payments row
  until,  \* the month in which the subscription ends, 0 before the first
  today,  \* the current month
  toss,   \* per order: what Toss knows of it
  lock,   \* per order: the request that holds the row, as a set
  req,    \* per slot: the request being handled
  loop,   \* the webhook request that keeps the event loop, as a set
  hurt,   \* history: orders on which Toss acted while the server did not get
          \* to know of it, could not store it or did not believe it
  raced   \* history: orders approved while another approval stood between its
          \* reading of the subscription and its commit

billingVars == <<pay, until, today, toss, lock, req, loop, hurt, raced>>

PayStatuses == {"absent", "pending", "approved", "failed"}
Payment == [status : PayStatuses, secret : BOOLEAN]

TossStates == {"open", "charged", "account", "deposited", "cancelled"}
Paid == {"charged", "deposited"}

Places == {"select", "ask", "store", "fail", "approve", "commit", "close"}
Idle == [at |-> "idle"]
Request == [at : Places, kind : {"confirm", "webhook", "other"}, order : Orders,
            until : Nat]

BillingInit ==
  /\ pay = [o \in Orders |-> [status |-> "absent", secret |-> FALSE]]
  /\ until = 0 /\ today = 0
  /\ toss = [o \in Orders |-> "open"]
  /\ lock = [o \in Orders |-> {}]
  /\ req = [s \in Slots |-> Idle]
  /\ loop = {} /\ hurt = {} /\ raced = {}

Later(a, b) == IF a > b THEN a ELSE b

Begin(s, o, kind) ==
  /\ loop = {} /\ req[s] = Idle
  /\ req' = [req EXCEPT ![s] = [at |-> "select", kind |-> kind, order |-> o,
                                until |-> 0]]

Goes(s, place) == req' = [req EXCEPT ![s].at = place]

\* The handler has returned: a coroutine gives the loop back.
Returns(s) == Goes(s, "close") /\ loop' = loop \ {s}

Free(s) == lock' = [lock EXCEPT ![req[s].order] = @ \ {s}]

-----------------------------------------------------------------------------
\* Toss and the owner's bank.

Deposit(o) ==
  /\ toss[o] = "account"
  /\ \E new \in {"deposited", "cancelled"} : toss' = [toss EXCEPT ![o] = new]
  /\ UNCHANGED <<pay, until, today, lock, req, loop, hurt, raced>>

NewMonth ==
  /\ today < Months
  /\ today' = today + 1
  /\ UNCHANGED <<pay, until, toss, lock, req, loop, hurt, raced>>

\* What Toss makes of a confirmation of an order it has not seen.
Accepts(o) ==
  \/ "card" \in Methods /\ toss' = [toss EXCEPT ![o] = "charged"]
  \/ "account" \in Methods /\ toss' = [toss EXCEPT ![o] = "account"]

-----------------------------------------------------------------------------
\* Requests begin.

Checkout(o) ==
  /\ loop = {}
  /\ pay[o].status = "absent"
  /\ pay' = [pay EXCEPT ![o].status = "pending"]
  /\ UNCHANGED <<until, today, toss, lock, req, loop, hurt, raced>>

BeginConfirm(s, o) ==
  /\ pay[o].status # "absent"
  /\ Begin(s, o, "confirm")
  /\ UNCHANGED <<pay, until, today, toss, lock, loop, hurt, raced>>

\* A notice of a deposit or of its cancellation, which may come again.
BeginWebhook(s, o) ==
  /\ toss[o] \in {"deposited", "cancelled"}
  /\ Begin(s, o, "webhook")
  /\ loop' = {s}
  /\ UNCHANGED <<pay, until, today, toss, lock, hurt, raced>>

\* A notice that takes the row and has no effect: its secret is not the
\* order's, or its status is neither a deposit nor a cancellation.
BeginOther(s, o) ==
  /\ pay[o].status # "absent"
  /\ Begin(s, o, "other")
  /\ loop' = {s}
  /\ UNCHANGED <<pay, until, today, toss, lock, hurt, raced>>

-----------------------------------------------------------------------------
\* SELECT ... FOR UPDATE, and what the handler makes of the row.

\* Mutants: an account that was issued does not stop a second confirmation;
\* the two lists of deposit statuses are mixed up.
AsksAgain(o) == pay[o].status = "pending"
NoticeMixedUp(o) ==
  IF pay[o].status # "pending" \/ ~pay[o].secret THEN "close" ELSE "approve"

\* Toss is asked about a pending order for which no account was issued.
Asks(o) == pay[o].status = "pending" /\ ~pay[o].secret

\* A notice counts for a pending order whose secret it carries.
Notice(o) ==
  IF pay[o].status # "pending" \/ ~pay[o].secret THEN "close"
  ELSE IF toss[o] = "deposited" THEN "approve" ELSE "fail"

Follow(s, place) == IF place = "close" THEN Returns(s)
                    ELSE Goes(s, place) /\ UNCHANGED loop

\* (A wrong amount is answered with 400 whatever the order's state.)
Decide(s) ==
  LET o == req[s].order IN
  CASE req[s].kind = "confirm" -> Follow(s, "close") \/ (Asks(o) /\ Follow(s, "ask"))
    [] req[s].kind = "webhook" -> Follow(s, Notice(o))
    [] req[s].kind = "other"   -> Follow(s, "close")

\* Mutant: the SELECT takes no lock.
SelectUnlocked(s) ==
  /\ req[s].at = "select"
  /\ Decide(s)
  /\ UNCHANGED <<pay, until, today, toss, lock, hurt, raced>>

Select(s) ==
  /\ req[s].at = "select"
  /\ lock[req[s].order] = {}
  /\ lock' = [lock EXCEPT ![req[s].order] = {s}]
  /\ Decide(s)
  /\ UNCHANGED <<pay, until, today, toss, hurt, raced>>

-----------------------------------------------------------------------------
\* confirm_payment.

\* 200: DONE or WAITING_FOR_DEPOSIT.
Accepted(s) ==
  /\ req[s].at = "ask"
  /\ toss[req[s].order] = "open"
  /\ Accepts(req[s].order)
  /\ Goes(s, IF toss'[req[s].order] = "charged" THEN "approve" ELSE "store")
  /\ UNCHANGED <<pay, until, today, lock, loop, hurt, raced>>

\* 200 with an amount or a status that is not the order's: it is failed.
Mismatched(s) ==
  /\ "mismatch" \in Disturbances
  /\ req[s].at = "ask"
  /\ toss[req[s].order] = "open"
  /\ Accepts(req[s].order)
  /\ Goes(s, "fail")
  /\ hurt' = hurt \cup {req[s].order}
  /\ UNCHANGED <<pay, until, today, lock, loop, raced>>

\* Toss declines, knows the order already (it accepts an order once), or
\* answers with a 5xx: every answer that is not a 200 is a TossConfirmError.
Refused(s) ==
  /\ req[s].at = "ask"
  /\ Goes(s, "fail")
  /\ UNCHANGED <<pay, until, today, toss, lock, loop, hurt, raced>>

\* TossTransportError: 503, the row stays pending and locked.
NoAnswer(s) ==
  /\ req[s].at = "ask"
  /\ \/ UNCHANGED <<toss, hurt>>
     \/ /\ "lost" \in Disturbances
        /\ toss[req[s].order] = "open"
        /\ Accepts(req[s].order)
        /\ hurt' = hurt \cup {req[s].order}
  /\ Returns(s)
  /\ UNCHANGED <<pay, until, today, lock, raced>>

-----------------------------------------------------------------------------
\* What the handlers commit.

CommitFailure(s) ==
  /\ req[s].at = "fail"
  /\ pay' = [pay EXCEPT ![req[s].order].status = "failed"]
  /\ Free(s) /\ Returns(s)
  /\ UNCHANGED <<until, today, toss, hurt, raced>>

\* The secret of the account; without one the order can only be logged.
CommitAccount(s) ==
  /\ req[s].at = "store"
  /\ \E found \in BOOLEAN :
       /\ found \/ "nosecret" \in Disturbances
       /\ pay' = [pay EXCEPT ![req[s].order].secret = found]
       /\ hurt' = IF found THEN hurt ELSE hurt \cup {req[s].order}
  /\ Free(s) /\ Returns(s)
  /\ UNCHANGED <<until, today, toss, raced>>

\* The other approvals that have read the subscription and not yet written it.
Between(s) == {t \in Slots \ {s} : req[t].at = "commit"}

NoteRace(s) ==
  raced' = IF Between(s) = {} THEN raced
           ELSE raced \cup {req[t].order : t \in Between(s) \cup {s}}

\* Mutant: the month starts today, also while a subscription runs.
ReadSubscriptionResets(s) ==
  /\ req[s].at = "approve"
  /\ req' = [req EXCEPT ![s].at = "commit", ![s].until = today + 1]
  /\ NoteRace(s)
  /\ UNCHANGED <<pay, until, today, toss, lock, loop, hurt>>

\* _approve_payment: one month after the end of a running subscription, or
\* after today.
ReadSubscription(s) ==
  /\ req[s].at = "approve"
  /\ req' = [req EXCEPT ![s].at = "commit", ![s].until = Later(until, today) + 1]
  /\ NoteRace(s)
  /\ UNCHANGED <<pay, until, today, toss, lock, loop, hurt>>

CommitApproval(s) ==
  /\ req[s].at = "commit"
  /\ pay' = [pay EXCEPT ![req[s].order].status = "approved"]
  /\ until' = req[s].until
  /\ Free(s) /\ Returns(s)
  /\ UNCHANGED <<today, toss, hurt, raced>>

\* get_db's finally, which the event loop has to call: the session is closed
\* and gives back the row it still holds.
Close(s) ==
  /\ loop = {} /\ req[s].at = "close"
  /\ Free(s)
  /\ req' = [req EXCEPT ![s] = Idle]
  /\ UNCHANGED <<pay, until, today, toss, loop, hurt, raced>>

\* Toss has accepted the order; the row does not say so yet.
Unstored(s) == req[s].at \in {"store", "approve", "commit"} /\ req[s].kind = "confirm"

Crash ==
  /\ "crash" \in Disturbances
  /\ req' = [s \in Slots |-> Idle]
  /\ lock' = [o \in Orders |-> {}]
  /\ loop' = {}
  /\ hurt' = hurt \cup {o \in Orders : \E s \in Slots : Unstored(s) /\ req[s].order = o}
  /\ UNCHANGED <<pay, until, today, toss, raced>>

-----------------------------------------------------------------------------
Ask(s) == Accepted(s) \/ Mismatched(s) \/ Refused(s) \/ NoAnswer(s)

Write(s) ==
  CommitFailure(s) \/ CommitAccount(s) \/ ReadSubscription(s) \/ CommitApproval(s)

Handle(s) == Select(s) \/ Ask(s) \/ Write(s) \/ Close(s)

BillingNext ==
  \/ \E o \in Orders : Checkout(o) \/ Deposit(o)
  \/ \E s \in Slots, o \in Orders : BeginConfirm(s, o) \/ BeginWebhook(s, o) \/ BeginOther(s, o)
  \/ \E s \in Slots : Handle(s)
  \/ NewMonth \/ Crash

BillingSpec == BillingInit /\ [][BillingNext]_billingVars

\* A request that can go on does; the database wakes the waiting one of
\* several in turn, and the loop comes round to every session.
BillingFairSpec ==
  BillingSpec /\ \A s \in Slots : WF_billingVars(Ask(s) \/ Write(s)) /\ SF_billingVars(Select(s))
                                  /\ SF_billingVars(Close(s))

-----------------------------------------------------------------------------
BillingTypeOK ==
  /\ pay \in [Orders -> Payment]
  /\ until \in Nat /\ today \in 0 .. Months
  /\ toss \in [Orders -> TossStates]
  /\ lock \in [Orders -> SUBSET Slots]
  /\ req \in [Slots -> Request \cup {Idle}]
  /\ loop \subseteq Slots /\ hurt \subseteq Orders /\ raced \subseteq Orders

\* Pro is given only for money that has arrived, by card or as a deposit.
ApprovedIsPaid == \A o \in Orders : pay[o].status = "approved" => toss[o] \in Paid

\* An order is settled once: repeated confirmations and notices, however they
\* overlap, change nothing any more (the row lock against double approval).
OutcomeFinal ==
  [][\A o \in Orders :
       pay[o].status \in {"approved", "failed"} => pay'[o] = pay[o]]_billingVars

\* The subscription moves only with the approval of an order, and then by a
\* month after its end, or after today when that is later (a renewal adds to
\* the time that is left and never cuts it), although the row is not locked:
\* only an approval that stood between another's reading of the subscription
\* and its commit may lose or repeat a month.
EachPaymentAddsAMonth ==
  [][LET new == {o \in Orders : pay[o].status # "approved" /\ pay'[o].status = "approved"}
     IN IF new = {} THEN until' = until
                    ELSE \/ new \subseteq raced
                         \/ until' \in (until + 1) .. (Later(until, today) + 1)]_billingVars

\* "Extends the existing Pro period instead of resetting it": every approval
\* ends the subscription later than before (test_billing.py).  Two orders
\* approved at once refute it.
PaymentExtends ==
  [][(\E o \in Orders : pay[o].status # "approved" /\ pay'[o].status = "approved") =>
       until' > until]_billingVars

\* After a TossTransportError the order "stays pending so that it can be
\* retried" (confirm): an order that was paid is never failed by the retry.  A
\* lost answer refutes it.
PaidCanBeRetried == \A o \in Orders : toss[o] \in Paid => pay[o].status # "failed"

\* An order that Toss has been paid for is not marked as failed: no retry and
\* no notice kills it, unless the answer of Toss was lost or contradicted the order.
PaidIsHonoured == \A o \in Orders \ hurt : toss[o] \in Paid => pay[o].status # "failed"

\* Once an account is issued its secret is stored, or is about to be while
\* the row is locked, so that the deposit can be matched with the order.
AccountHasSecret ==
  \A o \in Orders \ hurt : toss[o] \in {"account", "deposited", "cancelled"} =>
    pay[o].secret \/ \E s \in lock[o] : req[s].at = "store"

\* A deposit notice is not answered with 200 and dropped while its order
\* still waits for it, even when it overtakes the confirmation.
NoticeCounts ==
  \A s \in Slots :
    req[s].at = "close" /\ req[s].kind = "webhook" /\ req[s].order \notin hurt =>
      pay[req[s].order].status # "pending"

\* The inductive invariant behind ApprovedIsPaid and OutcomeFinal: a request
\* that works on an order has its row to itself, and the row is pending.
Working(s) == req[s].at \in {"ask", "store", "fail", "approve", "commit"}

LockInv ==
  /\ \A o \in Orders : \A s \in lock[o] : req[s] # Idle /\ req[s].order = o
  /\ \A o \in Orders : \A s, t \in lock[o] : s = t
  /\ \A s \in Slots : Working(s) =>
       s \in lock[req[s].order] /\ pay[req[s].order].status = "pending"

MoneyInv ==
  /\ ApprovedIsPaid
  /\ \A s \in Slots : req[s].at \in {"approve", "commit"} => toss[req[s].order] \in Paid

BillingInv == LockInv /\ MoneyInv

\* And for an order that is not hurt: Toss has not seen it when it is about to
\* be asked about, nor taken its money when it is about to fail.
KnownInv(o) ==
  /\ pay[o].status = "failed" => toss[o] \in {"open", "cancelled"}
  /\ toss[o] = "charged" =>
       \/ pay[o].status = "approved"
       \/ \E s \in lock[o] : req[s].at \in {"approve", "commit"}
  /\ \A s \in Slots : req[s].at = "ask" /\ req[s].order = o => toss[o] = "open"
  /\ \A s \in Slots : req[s].at = "fail" /\ req[s].order = o =>
       toss[o] \in {"open", "cancelled"}

\* An order unknown to the server is unknown to Toss, a notice has its cause,
\* only a confirmation asks, and a notice without effect has none.
CauseInv ==
  /\ \A o \in Orders : pay[o].status = "absent" => toss[o] = "open"
  /\ \A s \in Slots : req[s].at \in {"ask", "store"} => req[s].kind = "confirm"
  /\ \A s \in Slots : Working(s) => req[s].kind # "other"
  /\ \A s \in Slots : req[s] # Idle /\ req[s].kind = "webhook" =>
       toss[req[s].order] \in {"deposited", "cancelled"}

\* What the server knows of an order agrees with what Toss has done about it,
\* whatever order confirmations, notices and deposits come in: an issued
\* account can be matched, a notice that overtakes the confirmation counts,
\* and as long as no answer about the order was lost, a failed order was not
\* charged and a charged one is approved or about to be.
TossInv == CauseInv /\ AccountHasSecret /\ NoticeCounts /\ \A o \in Orders \ hurt : KnownInv(o)

\* Every request is answered and its session closed.
\* A notice that waits inside the event loop refutes it.
EveryRequestEnds == \A s \in Slots : []<>(req[s] = Idle)
=============================================================================
