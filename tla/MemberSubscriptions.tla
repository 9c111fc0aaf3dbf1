-------------------------- MODULE MemberSubscriptions --------------------------
(***************************************************************************)
(* The subscriptions of one member: plans bought at the desk, as a counter *)
(* order or online, the rules for changing plan, the queued period and its *)
(* activation, expiry, cancellation with its refund, and changes of status *)
(* by staff.                                                               *)
(*                                                                         *)
(* Every writer but two holds the member's advisory lock for its whole     *)
(* transaction, so what it does under the lock is one step; what it read   *)
(* before, its `now` above all, is kept in the request.  The two are the   *)
(* expiry job and the status update by id.  A transaction into which one   *)
(* of them writes finds a compare-and-set of its own failing, or a unique  *)
(* index in its way: Refuse.                                               *)
(*                                                                         *)
(* A subscription has the number of the order that paid for it; Free is    *)
(* the row a member gets at registration.  Of the partial unique indexes   *)
(* (one ACTIVE, one SCHEDULED) the model gives the status update its       *)
(* refusal (Unique); the writers under the lock are not helped by them.    *)
(* Time counts in ticks; ends lie beyond the bound of the clock, which     *)
(* bounds the runs only.                                                   *)
(***************************************************************************)
EXTENDS Naturals

CONSTANTS
  Request,      \* requests that may be in progress at the same time
  MaxOrders,    \* bound on the orders of the member
  MaxTime,      \* bound on the clock
  Day,          \* ticks of a day
  Duration,     \* ticks of a period (plan.durationDays)
  FreeEnd,      \* when the free plan ends, ten years after the registration
  Threshold,    \* ticks of REFUND_THRESHOLD_DAYS
  Lag,          \* ticks a request may take (a transaction times out after 30 s)
  Offers,       \* what may be bought: a tier, as which order, how, from which start date
  FullHouse     \* whether checkFacilityMemberLimit may refuse, a subset of BOOLEAN

Grants == {"purchase", "confirm", "settle", "retry"}
Kind == Grants \cup {"idle", "wake", "redo", "cancel", "return", "mark"}

Order == 1 .. MaxOrders
Free == 0
Row == {Free} \cup Order

Tier == {0, 1, 2}      \* FREE, MEMBERSHIP, PREMIUM

\* What the next order may be; ask is the start date asked for, 0 if none.
Offer ==
  [order : Order, tier : Tier \ {0}, channel : {"desk", "counter", "online"}, ask : Nat]

ASSUME SubscriptionConstants ==
  /\ MaxOrders \in Nat /\ MaxTime \in Nat /\ Lag \in Nat /\ Threshold \in Nat
  /\ Day \in Nat \ {0} /\ Duration \in Nat \ {0} /\ FreeEnd \in Nat
  /\ Offers \subseteq Offer
  /\ FullHouse \subseteq BOOLEAN

\* A plan lasts whole days.
ASSUME WholeDays == \E days \in 1 .. Duration : Duration = days * Day

Status == {"NONE", "SCHEDULED", "ACTIVE", "SUSPENDED", "EXPIRED", "CANCELLED"}
Refund == {"no", "part", "full"}

Subscription == [status : Status, tier : Tier, start : Nat, end : Nat]
NoRow == [status |-> "NONE", tier |-> 0, start |-> 0, end |-> 0]

\* Payment; online is its gateway, ask the start date of its QR order, refund what
\* refundRequestedAmount promises.  The terms are kept while a handler may read them.
Payment ==
  [ status : {"NONE", "PENDING", "SUCCESS", "FAILED", "REFUNDED"}, tier : Tier,
    online : BOOLEAN, ask : Nat, refund : Refund ]
NoPayment ==
  [status |-> "NONE", tier |-> 0, online |-> FALSE, ask |-> 0, refund |-> "no"]

\* A request and what it has read: now, the row, its status, the refund due; to is the
\* status a status update will write.
InProgress ==
  [ kind : Kind, row : Row, now : Nat, tier : Tier, ask : Nat,
    by : {"staff", "self"}, read : Status, to : Status, amount : Refund ]
Idle ==
  [ kind |-> "idle", row |-> Free, now |-> 0, tier |-> 0, ask |-> 0, by |-> "staff",
    read |-> "NONE", to |-> "NONE", amount |-> "no" ]

VARIABLES
  clock,
  sub,       \* sub[s] is a row of MembershipSubscription
  pay,       \* pay[o] is a row of Payment
  req        \* req[r] is what request r is doing

subscriptionVars == <<clock, sub, pay, req>>

SubscriptionsInit ==
  /\ clock = 1
  /\ sub = [s \in Row |->
        IF s = Free
        THEN [status |-> "ACTIVE", tier |-> 0, start |-> 1, end |-> FreeEnd]
        ELSE NoRow]
  /\ pay = [o \in Order |-> NoPayment]
  /\ req = [r \in Request |-> Idle]

--------------------------------------------------------------------------------
(* The rules, over rows `rows` and the time `now` that a request works with. *)

In(rows, status) == {s \in Row : rows[s].status = status}

Paid(s) == s \in Order /\ pay[s].status = "SUCCESS"

\* An ACTIVE row gives way to another: it has ended, or it is replaced.
GivesWay(row, now) ==
  IF row.status # "ACTIVE" THEN row
  ELSE [row EXCEPT !.status = IF row.end <= now THEN "EXPIRED" ELSE "SUSPENDED"]

\* activateDueSubscription
Activated(rows, due, now) ==
  IF rows[due].end > now /\ Paid(due)
  THEN [s \in Row |->
          IF s = due THEN [rows[s] EXCEPT !.status = "ACTIVE"]
          ELSE IF rows[s].status = "ACTIVE" THEN [rows[s] EXCEPT !.status = "SUSPENDED"]
          ELSE rows[s]]
  ELSE IF rows[due].end <= now
       THEN [rows EXCEPT ![due].status = "EXPIRED"]
       ELSE rows

Due(rows, now) == {s \in In(rows, "SCHEDULED") : rows[s].start <= now}

\* activateMemberDue: what the rows may be after it.
Synced(rows, now) ==
  IF Due(rows, now) = {} THEN {rows}
  ELSE {Activated(rows, s, now) :
          s \in {d \in Due(rows, now) :
                   \A e \in Due(rows, now) : rows[d].start <= rows[e].start}}

\* inspectPlanPurchase: the start it computes, if it accepts the purchase.
Later(a, b) == IF a > b THEN a ELSE b

\* Mutants: a lower plan may start on any date; the next period is queued for tomorrow.
StartsAfterAnyDate(current, tier, ask, now) ==
  IF tier # current.tier THEN {Later(ask, now)} ELSE {Later(current.end, now)}
StartsAfterTomorrow(current, tier, ask, now) ==
  IF tier > current.tier THEN {Later(ask, now)} ELSE {now + Day}

StartsAfter(current, tier, ask, now) ==
  LET turn == Later(current.end, now)
  IN  IF tier > current.tier THEN {Later(ask, now)}
      ELSE IF tier = current.tier THEN {turn} \cap (IF ask = 0 THEN {turn} ELSE {ask})
      ELSE IF current.end <= now THEN {now}
      ELSE {Later(ask, turn)} \cap (IF ask = 0 THEN {turn} ELSE {ask})

Starts(rows, tier, ask, now) ==
  IF In(rows, "SCHEDULED") # {} THEN {}
  ELSE IF In(rows, "ACTIVE") = {} THEN {Later(ask, now)}
  ELSE UNION {StartsAfter(rows[c], tier, ask, now) : c \in In(rows, "ACTIVE")}

\* Mutant: only a period that has ended gives way.
SwitchedIfEnded(rows, start, now) ==
  IF start > now THEN rows
  ELSE [s \in Row |-> IF rows[s].end <= now THEN GivesWay(rows[s], now) ELSE rows[s]]

\* applyPlanSwitchRules: the rows once the current one has given way to a period that
\* starts now; a later one leaves it alone.
Switched(rows, start, now) ==
  IF start > now THEN rows ELSE [s \in Row |-> GivesWay(rows[s], now)]

\* Mutant: the end is computed backwards.
NewRowBackwards(tier, start, now) ==
  [ status |-> IF start > now THEN "SCHEDULED" ELSE "ACTIVE",
    tier |-> tier, start |-> start, end |-> start - 2 * Duration ]

NewRow(tier, start, now) ==
  [ status |-> IF start > now THEN "SCHEDULED" ELSE "ACTIVE",
    tier |-> tier, start |-> start, end |-> start + Duration ]

--------------------------------------------------------------------------------
(* Orders and the reads that come before the lock.                            *)

NextOrder(o) == pay[o].status = "NONE" /\ \A p \in Order : p < o => pay[p].status # "NONE"

\* POST /counter-orders, or a QR order.
CreateOrder(o, tier, online, ask) ==
  /\ NextOrder(o)
  /\ ask # 0 => online
  /\ pay' = [pay EXCEPT ![o] =
        [NoPayment EXCEPT !.status = "PENDING", !.tier = tier, !.online = online, !.ask = ask]]
  /\ UNCHANGED <<clock, sub, req>>

\* updatePaymentStatus or the closing of an expired QR order.
FailOrder(o) ==
  /\ pay[o].status = "PENDING"
  /\ pay' = [pay EXCEPT ![o] = [NoPayment EXCEPT !.status = "FAILED"]]
  /\ UNCHANGED <<clock, sub, req>>

Start(r, asked) ==
  /\ req[r].kind \in {"idle", "redo"}
  /\ req' = [req EXCEPT ![r] = [asked EXCEPT !.now = clock]]
  /\ UNCHANGED <<clock, sub, pay>>

\* createSubscription, renewSubscription: now is taken before the transaction.
StartPurchase(r, tier, ask) ==
  /\ req[r].kind = "idle"
  /\ Start(r, [Idle EXCEPT !.kind = "purchase", !.tier = tier, !.ask = ask])

\* Holders of the lock of a payment.
Busy(o) == \E r \in Request : req[r].kind \in {"confirm", "settle", "retry"} /\ req[r].row = o

\* The confirmation of a counter order, the settlement of a QR order: the order is read
\* under the lock of the payment, then the request waits for the member's.
StartOrder(r, o) ==
  /\ req[r].kind = "idle" /\ ~Busy(o) /\ pay[o].status = "PENDING"
  /\ Start(r, [Idle EXCEPT !.kind = IF pay[o].online THEN "settle" ELSE "confirm",
                           !.row = o, !.tier = pay[o].tier, !.ask = pay[o].ask])

\* retrySepayActivation, which no longer finds the start date of the order.
StartRetry(r, o) ==
  /\ req[r].kind = "idle" /\ ~Busy(o)
  /\ pay[o].status = "SUCCESS" /\ sub[o].status = "NONE"
  /\ Start(r, [Idle EXCEPT !.kind = "retry", !.row = o, !.tier = pay[o].tier])

\* Mutant: the cancellation of a queued row does not look whether it is due.
StartCancelNotDue(r, s, by) ==
  LET asked == [Idle EXCEPT !.kind = "cancel", !.row = s, !.read = sub[s].status]
  IN  /\ sub[s].status = "SCHEDULED"
      /\ Start(r, [asked EXCEPT !.amount = IF Paid(s) THEN "full" ELSE "no"])

\* Mutant: the price is divided by one day less than was sold.
RefundDueDayLess(row, by) ==
  IF by = "self" THEN IF row.end > clock + Threshold THEN "part" ELSE "no"
  ELSE IF clock >= row.end THEN "no"
  ELSE IF row.end + 2 * Day > clock + Duration THEN "full" ELSE "part"

\* The refund of the cancellation of an ACTIVE row: a share before the threshold when the
\* member cancels; when staff do, the days left, rounded up, of the days sold and at most
\* the price, which is all of it as long as no whole day of the period has been used.
RefundDue(row, by) ==
  IF by = "self" THEN IF row.end > clock + Threshold THEN "part" ELSE "no"
  ELSE IF clock >= row.end THEN "no"
  ELSE IF row.end + Day > clock + Duration THEN "full" ELSE "part"

\* updateSubscriptionStatus(CANCELLED) and cancelSubscriptionBySelf read the row; one
\* that is SCHEDULED and due is activated first and then read again.
StartCancel(r, s, by) ==
  /\ req[r].kind = "redo" => s = req[r].row /\ by = req[r].by
  /\ LET asked == [Idle EXCEPT !.kind = "cancel", !.row = s, !.read = sub[s].status]
     IN  \/ /\ sub[s].status = "SCHEDULED" /\ sub[s].start <= clock
            /\ Start(r, [Idle EXCEPT !.kind = "wake", !.row = s, !.by = by])
         \/ /\ sub[s].status = "SCHEDULED" /\ sub[s].start > clock
            /\ Start(r, [asked EXCEPT !.amount = IF Paid(s) THEN "full" ELSE "no"])
         \/ /\ sub[s].status = "ACTIVE"
            /\ Start(r, [asked EXCEPT !.amount = IF Paid(s) THEN RefundDue(sub[s], by) ELSE "no"])
         \/ /\ by = "staff" /\ sub[s].status \in {"SUSPENDED", "EXPIRED", "CANCELLED"}
            /\ Start(r, asked)

\* updatePaymentStatus(REFUNDED)
StartReturn(r, o) ==
  /\ req[r].kind = "idle" /\ pay[o].status = "SUCCESS" /\ pay[o].refund # "no"
  /\ Start(r, [Idle EXCEPT !.kind = "return", !.row = o])

\* updateSubscriptionStatus to ACTIVE, EXPIRED or SCHEDULED: a row that is read as
\* SCHEDULED is refused, and ACTIVE to a row that is read as ended; SCHEDULED is not.
StartMark(r, s, to) ==
  /\ req[r].kind = "idle"
  /\ sub[s].status \notin {"NONE", "SCHEDULED"}
  /\ to \in {"ACTIVE", "EXPIRED", "SCHEDULED"}
  /\ to = "ACTIVE" => sub[s].status = "ACTIVE"
  /\ Start(r, [Idle EXCEPT !.kind = "mark", !.row = s, !.to = to])

--------------------------------------------------------------------------------
(* The transactions under the member's lock.                                  *)

Finish(r) == req' = [req EXCEPT ![r] = Idle] /\ UNCHANGED clock

\* activateSubscriptionForPayment or renewSubscription.  The order of a desk purchase is
\* created in the same transaction.
Grant(r) ==
  /\ req[r].kind \in Grants
  /\ \E rows \in Synced(sub, req[r].now), o \in Order :
       \E start \in Starts(rows, req[r].tier, req[r].ask, req[r].now) :
         /\ IF req[r].kind = "purchase" THEN NextOrder(o) ELSE o = req[r].row
         /\ sub' = [Switched(rows, start, req[r].now) EXCEPT ![o] =
                      NewRow(req[r].tier, start, req[r].now)]
         /\ pay' = [pay EXCEPT ![o] = [NoPayment EXCEPT !.status = "SUCCESS"]]
  /\ Finish(r)

\* The settlement catches a refusal inside its transaction and commits the rest: the
\* money, the due activation and, when the house is full, what gave way before.
SettleReview(r) ==
  /\ req[r].kind = "settle"
  /\ \E rows \in Synced(sub, req[r].now) :
       \/ sub' = rows
       \/ /\ TRUE \in FullHouse
          /\ \E start \in Starts(rows, req[r].tier, req[r].ask, req[r].now) :
               sub' = Switched(rows, start, req[r].now)
  /\ pay' = [pay EXCEPT ![req[r].row] =
        [NoPayment EXCEPT !.status = "SUCCESS", !.tier = req[r].tier]]
  /\ Finish(r)

\* A refusal or an error that rolls the transaction back.
Refuse(r) ==
  /\ req[r].kind # "idle"
  /\ Finish(r) /\ UNCHANGED <<sub, pay>>

\* Mutant: the row is activated as it was read.
WakeAsRead(r) ==
  /\ req[r].kind = "wake"
  /\ sub' = Activated(sub, req[r].row, req[r].now)
  /\ req' = [req EXCEPT ![r].kind = "redo"]
  /\ UNCHANGED <<clock, pay>>

\* cancelScheduledSubscription of a row that is due.
Wake(r) ==
  /\ req[r].kind = "wake"
  /\ sub' = IF sub[req[r].row].status = "SCHEDULED" /\ sub[req[r].row].start <= req[r].now
            THEN Activated(sub, req[r].row, req[r].now) ELSE sub
  /\ req' = [req EXCEPT ![r].kind = "redo"]
  /\ UNCHANGED <<clock, pay>>

\* Mutant: nobody looks at the count of the compare-and-set.
CancelUncounted(r) ==
  LET s == req[r].row IN
  /\ req[r].kind = "cancel"
  /\ sub' = IF sub[s].status = req[r].read THEN [sub EXCEPT ![s].status = "CANCELLED"] ELSE sub
  /\ IF req[r].amount = "no" THEN UNCHANGED pay
     ELSE /\ Paid(s) /\ pay[s].refund = "no"
          /\ pay' = [pay EXCEPT ![s].refund = req[r].amount]
  /\ Finish(r)

\* The cancellation, by compare-and-set on the status that was read.  Taking back the
\* seats activates what is due; the refund must not have been asked for already.
Cancel(r) ==
  LET s == req[r].row IN
  /\ req[r].kind = "cancel" /\ sub[s].status = req[r].read
  /\ sub' \in Synced([sub EXCEPT ![s].status = "CANCELLED"], clock)
  /\ IF req[r].amount = "no" THEN UNCHANGED pay
     ELSE /\ Paid(s) /\ pay[s].refund = "no"
          /\ pay' = [pay EXCEPT ![s].refund = req[r].amount]
  /\ Finish(r)

\* The confirmation that the money went back, by compare-and-set on SUCCESS.
Return(r) ==
  LET o == req[r].row IN
  /\ req[r].kind = "return" /\ pay[o].status = "SUCCESS"
  /\ pay' = [pay EXCEPT ![o].status = "REFUNDED"]
  /\ IF sub[o].status \in {"ACTIVE", "SCHEDULED", "SUSPENDED", "EXPIRED"}
     THEN sub' \in Synced([sub EXCEPT ![o].status = "CANCELLED"], clock)
     ELSE UNCHANGED sub
  /\ Finish(r)

--------------------------------------------------------------------------------
(* The writers without the lock, the jobs and the clock.                      *)

\* subscription_one_active_member and subscription_one_scheduled_member
Unique(s, status) ==
  status \in {"ACTIVE", "SCHEDULED"} => \A t \in Row \ {s} : sub[t].status # status

\* The write by id, whatever the row has become since it was read; only the unique
\* indexes may stop it (Refuse).
Mark(r) ==
  /\ req[r].kind = "mark"
  /\ Unique(req[r].row, req[r].to)
  /\ sub' = [sub EXCEPT ![req[r].row].status = req[r].to]
  /\ Finish(r) /\ UNCHANGED pay

\* expireStaleSubscriptions
Expire(s) ==
  /\ sub[s].status \in {"ACTIVE", "SUSPENDED"} /\ sub[s].end < clock
  /\ sub' = [sub EXCEPT ![s].status = "EXPIRED"]
  /\ UNCHANGED <<clock, pay, req>>

\* activateScheduledSubscriptions; also whatever takes the lock of the member's quota.
ActivateDue(s) ==
  /\ s \in Due(sub, clock)
  /\ sub' = Activated(sub, s, clock)
  /\ UNCHANGED <<clock, pay, req>>

Tick ==
  /\ clock < MaxTime
  /\ \A r \in Request : req[r].kind # "idle" => clock < req[r].now + Lag
  /\ clock' = clock + 1
  /\ UNCHANGED <<sub, pay, req>>

SubscriptionsNext ==
  \/ \E f \in Offers :
       /\ NextOrder(f.order)
       /\ IF f.channel = "desk" THEN \E r \in Request : StartPurchase(r, f.tier, f.ask)
          ELSE CreateOrder(f.order, f.tier, f.channel = "online", f.ask)
  \/ \E o \in Order : FailOrder(o)
  \/ \E r \in Request, o \in Order : StartOrder(r, o) \/ StartRetry(r, o) \/ StartReturn(r, o)
  \/ \E r \in Request, s \in Row, by \in {"staff", "self"} : StartCancel(r, s, by)
  \/ \E r \in Request, s \in Row, to \in Status : StartMark(r, s, to)
  \/ \E r \in Request : \/ Grant(r) \/ SettleReview(r) \/ Refuse(r) \/ Wake(r)
                        \/ Cancel(r) \/ Return(r) \/ Mark(r)
  \/ \E s \in Row : Expire(s) \/ ActivateDue(s)
  \/ Tick

SubscriptionsSpec == SubscriptionsInit /\ [][SubscriptionsNext]_subscriptionVars

--------------------------------------------------------------------------------
(* Properties.                                                                 *)

\* Every variable has its type.
SubscriptionsTypeOK ==
  /\ clock \in Nat
  /\ sub \in [Row -> Subscription]
  /\ pay \in [Order -> Payment]
  /\ req \in [Request -> InProgress]

\* At most one subscription is ACTIVE and one SCHEDULED.  The database's indexes hold
\* back a status update only: no purchase, retry or activation that finds the rows as an
\* update left them needs their help (migration 20261029000000, applyPlanSwitchRules).
OnePlan ==
  \A s, t \in Row : sub[s].status = sub[t].status /\ sub[s].status \in {"ACTIVE", "SCHEDULED"}
                      => s = t

\* The status update of row s that may give rights back: PATCH status to ACTIVE after a
\* stale read, or to SCHEDULED (subscriptions.service.ts:546).
Restores(r, s) == req[r].row = s /\ req[r].to # "EXPIRED" /\ Mark(r)

\* A queued period starts when the current one ends, or is an upgrade: nobody loses days
\* of a better plan to one bought later (inspectPlanPurchase).  The one exception is a
\* row that a status update puts into the queue or makes current beside the queue.
Misqueued(a, q) ==
  /\ sub[a].status = "ACTIVE" /\ sub[q].status = "SCHEDULED"
  /\ sub[q].start < sub[a].end /\ sub[q].tier <= sub[a].tier
OnlyStatusWritesMisqueue ==
  [][\A a, q \in Row :
       Misqueued(a, q)' =>
         Misqueued(a, q) \/ \E r \in Request : Restores(r, a) \/ Restores(r, q)]_subscriptionVars

\* A plan that gives rights is paid, and nobody was promised its money back
\* (requestRefund within each cancellation), but for a row that a status update revives.
Unbacked(o) ==
  /\ sub[o].status \in {"ACTIVE", "SCHEDULED"}
  /\ pay[o].status # "SUCCESS" \/ pay[o].refund # "no"
OnlyStatusWritesUnback ==
  [][\A o \in Order :
       Unbacked(o)' => Unbacked(o) \/ \E r \in Request : Restores(r, o)]_subscriptionVars

\* SUSPENDED is written only where a subscription takes the place of the suspended one,
\* of a better plan unless that had ended (subscriptions.service.ts:369, 394).
GivenUp(s) == sub[s].status = "ACTIVE" /\ sub'[s].status = "SUSPENDED"
Superseded(s) ==
  \E t \in Row : /\ sub[t].status # "ACTIVE" /\ sub'[t].status = "ACTIVE"
                 /\ sub[s].end <= clock \/ sub'[t].tier > sub[s].tier
SuspendedIsReplaced == [][\A s \in Row : GivenUp(s) => Superseded(s)]_subscriptionVars

\* The two exceptions: a settlement whose own plan is better, or finds the other one
\* ended, may be refused by the facility's member limit after the switch, and the catch
\* block commits the switch with the money (subscription-purchase.service.ts:357); and a
\* row that a status update put into the queue leaves it, before its time or below the
\* current plan.
Refused(s) ==
  \E r \in Request : SettleReview(r) /\ (sub[s].end <= clock \/ req[r].tier > sub[s].tier)
Overtaken(s) == \E q \in Row : Misqueued(s, q) /\ sub'[q].status # "SCHEDULED"
SuspensionsExplained ==
  [][\A s \in Row :
       GivenUp(s) => Superseded(s) \/ Refused(s) \/ Overtaken(s)]_subscriptionVars

\* An ended subscription gives rights again only by a status update, and its row is never
\* sold twice.
OnlyStatusWritesRevive ==
  [][\A s \in Row : sub[s].status \in {"SUSPENDED", "EXPIRED", "CANCELLED"} =>
       /\ sub'[s].status \in {"ACTIVE", "SCHEDULED"} => \E r \in Request : Restores(r, s)
       /\ sub'[s].status # "NONE" /\ sub'[s].start = sub[s].start]_subscriptionVars

\* All the money goes back only for a period of which no whole day had been used when the
\* request came in: a due one is activated first, whatever revived it, and staff round up
\* the days left (cancelScheduledSubscription, subscriptions.service.ts:448).
FullRefundWithinADay ==
  [][\A o \in Order : pay[o].refund = "no" /\ pay'[o].refund = "full"
       => sub[o].start + Day + Lag > clock]_subscriptionVars

\* What an order promises, without clocks, queues and stale reads: the promise that the
\* settlement of online orders keeps as well.
Phase(o) ==
  IF pay[o].status = "REFUNDED" THEN "returned"
  ELSE IF pay[o].status # "SUCCESS" THEN "unpaid"
  ELSE IF sub[o].status = "NONE" THEN "held" ELSE "granted"
Promise == INSTANCE PaidRights WITH
  Payment <- Order,
  phase <- [o \in Order |-> Phase(o)],
  promised <- [o \in Order |-> pay[o].refund # "no"]

\* Whether a plan is bought at the desk, by counter order or online, renewed, queued or
\* cancelled, its order gives one row for its money, none once a refund is promised, and
\* the money goes back once and only on such a promise.
OrdersKeepPromise == Promise!Spec

\* An order that was given up is not sold any more (payments.service.ts:97).
FailedIsFinal ==
  [][\A o \in Order : pay[o].status = "FAILED" => pay'[o].status = "FAILED"]_subscriptionVars

\* payments.service.ts:97 otherwise: paid money stays or goes back, what went back stays
\* back, and a FAILED order is sold only by the confirmation or settlement that had read
\* it PENDING, not by a retry or a later request.
LateSale(o) ==
  \E r \in Request : /\ Grant(r) \/ SettleReview(r)
                     /\ req[r].kind \in {"confirm", "settle"} /\ req[r].row = o
OnlyLateSalesRevive ==
  [][\A o \in Order :
       /\ pay[o].status = "SUCCESS" => pay'[o].status \in {"SUCCESS", "REFUNDED"}
       /\ pay[o].status = "REFUNDED" => pay'[o].status = "REFUNDED"
       /\ pay[o].status = "FAILED" =>
            pay'[o].status = "FAILED" \/ (pay'[o].status = "SUCCESS" /\ LateSale(o))]_subscriptionVars

================================================================================
