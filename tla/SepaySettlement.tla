---------------------------- MODULE SepaySettlement ----------------------------
(***************************************************************************)
(* Online payment of a membership plan: the member opens a SePay order     *)
(* (a Payment row), transfers money to the centre's account, and the       *)
(* order is settled by the SePay webhook or by polling the SePay API.      *)
(*                                                                         *)
(* Granularity.  A Prisma transaction publishes its writes when it         *)
(* commits, at READ COMMITTED.  A transaction that holds the advisory      *)
(* lock lockPaymentWebhook is two steps, the read after the lock and the   *)
(* commit, because writers that do not take that lock (createSepayCheckout *)
(* and the lifecycle job) may run between them.  A handler that reads      *)
(* before its transaction is split at that read.                           *)
(*                                                                         *)
(* A payment is identified with its transactionCode (unique) and a bank    *)
(* credit with its sepayId (unique).  "granted" and "right" stand for the  *)
(* MembershipSubscription row that Payment.subscriptionId points to:       *)
(* "LIVE" is ACTIVE or SCHEDULED, "ENDED" is SUSPENDED or EXPIRED.         *)
(***************************************************************************)
EXTENDS Naturals, FiniteSets

CONSTANTS
  Payment,    \* Payment rows that may be created
  Purpose,    \* (member, plan) pairs a member may open an order for
  Client,     \* concurrent POST /payments/sepay/checkout requests
  Staff,      \* concurrent staff requests: retry-activation, refund confirmation
  Credit,     \* bank credits, each with its own sepayId
  Ref,        \* bank reference codes
  Transfer,   \* the contents a credit may have, a subset of TransferType
  NoPayment, NoPurpose, NoCredit, NoRef

TransferType ==
  [ code  : Payment \cup {NoPayment},  \* order code SePay extracted
    names : SUBSET Payment,            \* order codes found in the content
    exact : BOOLEAN,                   \* the amount equals the order's amount
    ours  : BOOLEAN,                   \* credited account (or VA) is configured
    ref   : Ref \cup {NoRef} ]         \* bank reference, may be reused

ASSUME SepayConstants ==
  /\ NoPayment \notin Payment
  /\ NoPurpose \notin Purpose
  /\ NoCredit \notin Credit
  /\ NoRef \notin Ref
  /\ Transfer \subseteq TransferType

Right == {"NONE", "LIVE", "ENDED", "CANCELLED"}
Status == {"NONE", "PENDING", "SUCCESS", "FAILED", "REFUNDED"}
Activation == {"NULL", "ACTIVATED", "REQUIRES_REVIEW"}

\* The columns of a Payment row the flow reads or writes; "NONE" is no row yet.
PaymentRow ==
  [ status : Status, purpose : Purpose \cup {NoPurpose}, aged : BOOLEAN,
    activation : Activation, reviewReason : BOOLEAN, refundRequested : BOOLEAN,
    returned : Nat ]                   \* confirmed refunds (refundedAt)
NoRow ==
  [ status |-> "NONE", purpose |-> NoPurpose, aged |-> FALSE,
    activation |-> "NULL", reviewReason |-> FALSE, refundRequested |-> FALSE,
    returned |-> 0 ]

\* SepayBankTransaction.externalId: bank reference, else the id of the channel.
ExternalId == ({"ref"} \X Ref) \cup ({"sepay", "api"} \X Credit)
LedgerRow ==
  [ recorded : BOOLEAN, code : Payment \cup {NoPayment}, exact : BOOLEAN,
    payment : Payment \cup {NoPayment} ]
EmptyRow ==
  [ recorded |-> FALSE, code |-> NoPayment, exact |-> FALSE, payment |-> NoPayment ]

\* A transaction inside lockPaymentWebhook, with the status it read.
NoTx == [ kind |-> "NONE", credit |-> NoCredit, seen |-> "NONE" ]
SettleTx == [ kind : {"WEBHOOK", "RECONCILE"}, credit : Credit, seen : Status \ {"NONE"} ]
RetryTx == [ kind |-> "RETRY", credit |-> NoCredit, seen |-> "SUCCESS" ]
Tx == SettleTx \cup {NoTx, RetryTx}

\* Requests in progress, with what they have read so far.
CheckoutRequest ==
  [ pc : {"idle", "close", "create"}, purpose : Purpose \cup {NoPurpose},
    pending : Payment \cup {NoPayment} ]
StaffRequest ==
  [ pc : {"idle", "checked", "locked", "rejected", "withRight", "withoutRight"},
    payment : Payment \cup {NoPayment} ]

VARIABLES
  pay,        \* Payment rows
  granted,    \* number of MembershipSubscription rows created for the payment
  right,      \* state of the payment's subscription, "NONE" is no subscription
  arrived,    \* credits on the centre's account
  transfer,   \* what each arrived credit carries
  event,      \* SepayWebhookEvent.status per sepayId, "NONE" is no row
  ledger,     \* SepayBankTransaction rows
  tx,         \* the transaction holding lockPaymentWebhook(payment)
  fetched,    \* credit found by an API poll that has not settled yet
  checkout,   \* checkout requests in progress
  staff,      \* staff requests in progress
  patch       \* subscriptions a PATCH status = ACTIVE or SCHEDULED has read

rows == <<pay, granted, right>>
bank == <<arrived, transfer, event, ledger>>
requests == <<fetched, checkout, staff, patch>>
vars == <<rows, bank, tx, requests>>

RowsTyped ==
  /\ pay \in [Payment -> PaymentRow]
  /\ granted \in [Payment -> Nat]
  /\ right \in [Payment -> Right]
BankTyped ==
  /\ arrived \subseteq Credit
  /\ transfer \in [Credit -> TransferType]
  /\ event \in [Credit -> {"NONE", "IGNORED", "MISMATCH", "DUPLICATE", "LATE", "PROCESSED"}]
  /\ ledger \in [ExternalId -> LedgerRow]
LocksTyped ==
  /\ tx \in [Payment -> Tx]
  /\ fetched \in [Payment -> Credit \cup {NoCredit}]
CheckoutTyped == checkout \in [Client -> CheckoutRequest]
StaffTyped ==
  /\ staff \in [Staff -> StaffRequest]
  /\ patch \subseteq Payment
TypeOK == RowsTyped /\ BankTyped /\ LocksTyped /\ CheckoutTyped /\ StaffTyped

IdleCheckout == [pc |-> "idle", purpose |-> NoPurpose, pending |-> NoPayment]
IdleStaff == [pc |-> "idle", payment |-> NoPayment]
NoTransfer ==
  [code |-> NoPayment, names |-> {}, exact |-> FALSE, ours |-> FALSE, ref |-> NoRef]

Init ==
  /\ pay = [p \in Payment |-> NoRow]
  /\ granted = [p \in Payment |-> 0]
  /\ right = [p \in Payment |-> "NONE"]
  /\ arrived = {}
  /\ transfer = [c \in Credit |-> NoTransfer]
  /\ event = [c \in Credit |-> "NONE"]
  /\ ledger = [x \in ExternalId |-> EmptyRow]
  /\ tx = [p \in Payment |-> NoTx]
  /\ fetched = [p \in Payment |-> NoCredit]
  /\ checkout = [k \in Client |-> IdleCheckout]
  /\ staff = [m \in Staff |-> IdleStaff]
  /\ patch = {}

--------------------------------------------------------------------------------
(* createSepayCheckout: three awaits, no transaction, no lock.             *)

\* The PENDING orders of a purpose (payment.findFirst; which of several
\* PENDING rows is the newest is not kept, any may be returned).
PendingOrders(u) == {p \in Payment : pay[p].status = "PENDING" /\ pay[p].purpose = u}

\* Reading: no PENDING order, go on to create one; an expired one, go on to
\* close it.  A PENDING order within its TTL answers 409 and changes nothing.
CheckoutRead(k, u) ==
  /\ checkout[k].pc = "idle"
  /\ \/ /\ PendingOrders(u) = {}
        /\ checkout' = [checkout EXCEPT ![k] =
                          [pc |-> "create", purpose |-> u, pending |-> NoPayment]]
     \/ \E p \in PendingOrders(u) :
          /\ pay[p].aged
          /\ checkout' = [checkout EXCEPT ![k] =
                            [pc |-> "close", purpose |-> u, pending |-> p]]
  /\ UNCHANGED <<rows, bank, tx, fetched, staff, patch>>

\* payment.update by id only: the status read earlier is not part of the WHERE.
CheckoutClose(k) ==
  /\ checkout[k].pc = "close"
  /\ pay' = [pay EXCEPT ![checkout[k].pending].status = "FAILED"]
  /\ checkout' = [checkout EXCEPT ![k] =
                    [@ EXCEPT !.pc = "create", !.pending = NoPayment]]
  /\ UNCHANGED <<granted, right, bank, tx, fetched, staff, patch>>

NewOrder(u) == [NoRow EXCEPT !.status = "PENDING", !.purpose = u]

CheckoutCreate(k) ==
  /\ checkout[k].pc = "create"
  /\ \E p \in Payment :
       /\ pay[p].status = "NONE"
       /\ pay' = [pay EXCEPT ![p] = NewOrder(checkout[k].purpose)]
  /\ checkout' = [checkout EXCEPT ![k] = IdleCheckout]
  /\ UNCHANGED <<granted, right, bank, tx, fetched, staff, patch>>

\* The order's TTL (ttlMinutes after createdAt) passes.
Age(p) ==
  /\ pay[p].status = "PENDING"
  /\ ~pay[p].aged
  /\ pay' = [pay EXCEPT ![p].aged = TRUE]
  /\ UNCHANGED <<granted, right, bank, tx, requests>>

\* Mutant: the cutoff is compared the wrong way round.
CloseStaleWrongWay(p) ==
  /\ pay[p].status = "PENDING" /\ ~pay[p].aged
  /\ pay' = [pay EXCEPT ![p].status = "FAILED"]
  /\ UNCHANGED <<granted, right, bank, tx, requests>>

\* Mutant: the updateMany of the job forgets WHERE status = PENDING.
CloseStaleAnyStatus(p) ==
  /\ pay[p].status \notin {"NONE", "FAILED"} /\ pay[p].aged
  /\ pay' = [pay EXCEPT ![p].status = "FAILED"]
  /\ UNCHANGED <<granted, right, bank, tx, requests>>

\* closeStaleSepayPendingPayments: updateMany WHERE status = PENDING.
CloseStale(p) ==
  /\ pay[p].status = "PENDING"
  /\ pay[p].aged
  /\ pay' = [pay EXCEPT ![p].status = "FAILED"]
  /\ UNCHANGED <<granted, right, bank, tx, requests>>

--------------------------------------------------------------------------------
(* The bank and SePay's two channels.                                      *)

\* A member transfers money; the content can only name orders that exist.
BankCredit(c, t) ==
  /\ c \notin arrived
  /\ \A p \in t.names : pay[p].status # "NONE"
  /\ t.code \in t.names \cup {NoPayment}
  /\ arrived' = arrived \cup {c}
  /\ transfer' = [transfer EXCEPT ![c] = t]
  /\ UNCHANGED <<rows, event, ledger, tx, requests>>

\* bankTransactionIdentity: the reference when there is one, else per channel.
Identity(kind, c) ==
  IF transfer[c].ref # NoRef THEN <<"ref", transfer[c].ref>>
  ELSE IF kind = "RECONCILE" THEN <<"api", c>> ELSE <<"sepay", c>>

\* A webhook whose code is no order of ours (or an outgoing transfer).
WebhookIgnored(c) ==
  /\ c \in arrived
  /\ event[c] = "NONE"
  /\ transfer[c].code = NoPayment
  /\ event' = [event EXCEPT ![c] = "IGNORED"]
  /\ UNCHANGED <<rows, arrived, transfer, ledger, tx, requests>>

\* settleSepayTransfer up to the read under the lock.  The INSERT of the sepayId
\* claims it; a second delivery waits for this transaction and then finds the row.
WebhookBegin(c) ==
  LET p == transfer[c].code IN
  /\ c \in arrived
  /\ event[c] = "NONE"
  /\ p \in Payment
  /\ tx[p] = NoTx
  /\ tx' = [tx EXCEPT ![p] = [kind |-> "WEBHOOK", credit |-> c, seen |-> pay[p].status]]
  /\ UNCHANGED <<rows, bank, requests>>

\* runSepayReconcile before settling: the order was PENDING and the API returned a
\* credit that matches it; inflightReconcile keeps one such poll per payment.
ReconcileFetch(p, c) ==
  /\ pay[p].status = "PENDING"
  /\ fetched[p] = NoCredit
  /\ tx[p].kind # "RECONCILE"
  /\ c \in arrived
  /\ transfer[c].code = p /\ transfer[c].exact /\ transfer[c].ours
  /\ fetched' = [fetched EXCEPT ![p] = c]
  /\ UNCHANGED <<rows, bank, tx, checkout, staff, patch>>

ReconcileBegin(p) ==
  /\ fetched[p] # NoCredit
  /\ tx[p] = NoTx
  /\ tx' = [tx EXCEPT ![p] =
              [kind |-> "RECONCILE", credit |-> fetched[p], seen |-> pay[p].status]]
  /\ fetched' = [fetched EXCEPT ![p] = NoCredit]
  /\ UNCHANGED <<rows, bank, checkout, staff, patch>>

--------------------------------------------------------------------------------
(* settleSepayTransfer from the account check to the commit.               *)

Settling(p) == tx[p].kind \in {"WEBHOOK", "RECONCILE"}
SettledBy(p) == transfer[tx[p].credit]
ExtOf(p) == Identity(tx[p].kind, tx[p].credit)

\* recordBankTransaction: INSERT .. ON CONFLICT (externalId) DO NOTHING.
Recorded(p) ==
  IF ledger[ExtOf(p)].recorded THEN ledger
  ELSE [ledger EXCEPT ![ExtOf(p)] =
          [recorded |-> TRUE, code |-> p, exact |-> SettledBy(p).exact, payment |-> NoPayment]]

\* Mutant: a movement is given to the order that asks for it last.
CanAllocateAlways(p) == TRUE

\* allocateBankTransaction succeeds: the row is free or already this order's, and
\* no other row with this code and amount belongs to another order.
CanAllocate(p) ==
  /\ Recorded(p)[ExtOf(p)].payment \in {NoPayment, p}
  /\ \A x \in ExternalId \ {ExtOf(p)} :
       (ledger[x].code = p /\ ledger[x].exact) => ledger[x].payment \in {NoPayment, p}

\* The transfer names one known order, with its exact amount, on our account.
Ambiguous(p) == Cardinality(SettledBy(p).names) > 1
Matches(p) == SettledBy(p).ours /\ ~Ambiguous(p) /\ SettledBy(p).exact

\* finish(): the event row of a webhook takes its final status.
Finish(p, outcome) ==
  /\ event' = IF tx[p].kind = "WEBHOOK" THEN [event EXCEPT ![tx[p].credit] = outcome]
              ELSE event
  /\ tx' = [tx EXCEPT ![p] = NoTx]
  /\ UNCHANGED <<arrived, transfer, requests>>

SettleMismatch(p) ==
  /\ Settling(p)
  /\ ~Matches(p)
  /\ ledger' = IF SettledBy(p).ours THEN Recorded(p) ELSE ledger
  /\ Finish(p, "MISMATCH")
  /\ UNCHANGED rows

SettleDuplicate(p) ==
  /\ Settling(p)
  /\ Matches(p)
  /\ tx[p].seen = "SUCCESS"
  /\ ledger' = Recorded(p)
  /\ Finish(p, "DUPLICATE")
  /\ UNCHANGED rows

\* Mutant: late money is answered but not flagged.
SettleLateUnflagged(p) ==
  /\ Settling(p) /\ Matches(p) /\ tx[p].seen \notin {"SUCCESS", "PENDING"}
  /\ ledger' = Recorded(p)
  /\ Finish(p, "LATE")
  /\ UNCHANGED rows

\* Money for an order that was FAILED or REFUNDED when read.
SettleLate(p) ==
  /\ Settling(p)
  /\ Matches(p)
  /\ tx[p].seen \notin {"SUCCESS", "PENDING"}
  /\ pay' = [pay EXCEPT ![p] =
              [@ EXCEPT !.activation = "REQUIRES_REVIEW", !.reviewReason = TRUE]]
  /\ ledger' = Recorded(p)
  /\ Finish(p, "LATE")
  /\ UNCHANGED <<granted, right>>

SettleAlreadyAllocated(p) ==
  /\ Settling(p)
  /\ Matches(p)
  /\ tx[p].seen = "PENDING"
  /\ ~CanAllocate(p)
  /\ ledger' = Recorded(p)
  /\ Finish(p, "MISMATCH")
  /\ UNCHANGED rows

\* activateSubscriptionForPayment refuses a payment whose refund was approved.
Grantable(p) == ~pay[p].refundRequested /\ pay[p].status # "REFUNDED"

\* A new subscription row for the payment; the money is collected and used.
GrantRow(p) ==
  /\ granted' = [granted EXCEPT ![p] = @ + 1]
  /\ right' = [right EXCEPT ![p] = "LIVE"]

SettleGrant(p) ==
  /\ Settling(p)
  /\ Matches(p)
  /\ tx[p].seen = "PENDING"
  /\ CanAllocate(p)
  /\ Grantable(p)
  /\ GrantRow(p)
  /\ pay' = [pay EXCEPT ![p] = [@ EXCEPT !.status = "SUCCESS", !.activation = "ACTIVATED"]]
  /\ ledger' = [Recorded(p) EXCEPT ![ExtOf(p)].payment = p]
  /\ Finish(p, "PROCESSED")

\* The plan is gone, or the purchase rules refuse (an upgrade, a downgrade, a full queue):
\* the money is kept and the order waits for a person.
SettleReview(p) ==
  /\ Settling(p)
  /\ Matches(p)
  /\ tx[p].seen = "PENDING"
  /\ CanAllocate(p)
  /\ pay' = [pay EXCEPT ![p] =
              [@ EXCEPT !.status = "SUCCESS", !.activation = "REQUIRES_REVIEW",
                        !.reviewReason = TRUE]]
  /\ ledger' = [Recorded(p) EXCEPT ![ExtOf(p)].payment = p]
  /\ Finish(p, "PROCESSED")
  /\ UNCHANGED <<granted, right>>

\* A crash or a database error rolls the transaction back: nothing it wrote stays,
\* the sepayId is free again and SePay may deliver the webhook once more.
SettleRollback(p) ==
  /\ Settling(p)
  /\ tx' = [tx EXCEPT ![p] = NoTx]
  /\ UNCHANGED <<rows, bank, requests>>

--------------------------------------------------------------------------------
(* retrySepayActivation.                                                   *)

\* The checks before the transaction, on a row that may change afterwards.
RetryCheck(m, p) ==
  /\ staff[m].pc = "idle"
  /\ pay[p].status = "SUCCESS"
  /\ right[p] = "NONE"
  /\ pay[p].activation = "REQUIRES_REVIEW"
  /\ staff' = [staff EXCEPT ![m] = [pc |-> "checked", payment |-> p]]
  /\ UNCHANGED <<rows, bank, tx, fetched, checkout, patch>>

\* Mutants: the subscription, or the status, is the one read before the lock.
RetryAllowedStaleRight(p) == pay[p].status = "SUCCESS" /\ ~pay[p].refundRequested
RetryAllowedStaleStatus(p) == right[p] = "NONE" /\ ~pay[p].refundRequested

\* The checks on the row read again under the lock.
RetryAllowed(p) ==
  /\ right[p] = "NONE"
  /\ pay[p].status = "SUCCESS"
  /\ ~pay[p].refundRequested

RetryBegin(m) ==
  LET p == staff[m].payment IN
  /\ staff[m].pc = "checked"
  /\ tx[p] = NoTx
  /\ IF RetryAllowed(p)
     THEN /\ tx' = [tx EXCEPT ![p] =
                      [RetryTx EXCEPT !.seen = pay[p].status]]
          /\ staff' = [staff EXCEPT ![m].pc = "locked"]
     ELSE /\ staff' = [staff EXCEPT ![m].pc = "rejected"]
          /\ UNCHANGED tx
  /\ UNCHANGED <<rows, bank, fetched, checkout, patch>>

RetryGrant(m) ==
  LET p == staff[m].payment IN
  /\ staff[m].pc = "locked"
  /\ Grantable(p)
  /\ GrantRow(p)
  /\ pay' = [pay EXCEPT ![p] =
              [@ EXCEPT !.status = "SUCCESS", !.activation = "ACTIVATED",
                        !.reviewReason = FALSE]]
  /\ tx' = [tx EXCEPT ![p] = NoTx]
  /\ staff' = [staff EXCEPT ![m] = IdleStaff]
  /\ UNCHANGED <<bank, fetched, checkout, patch>>

\* The transaction rolls back: the purchase rules refuse again, or it crashes.
RetryRefused(m) ==
  LET p == staff[m].payment IN
  /\ staff[m].pc = "locked"
  /\ tx' = [tx EXCEPT ![p] = NoTx]
  /\ \/ staff' = [staff EXCEPT ![m].pc = "rejected"]
     \/ staff' = [staff EXCEPT ![m] = IdleStaff]
  /\ UNCHANGED <<rows, bank, fetched, checkout, patch>>

\* The catch block writes reviewReason by id, outside any transaction.
RetryRejected(m) ==
  /\ staff[m].pc = "rejected"
  /\ pay' = [pay EXCEPT ![staff[m].payment].reviewReason = TRUE]
  /\ staff' = [staff EXCEPT ![m] = IdleStaff]
  /\ UNCHANGED <<granted, right, bank, tx, fetched, checkout, patch>>

--------------------------------------------------------------------------------
(* Refunds and cancellation.                                               *)

\* Mutant: the request does not ask whether the payment is SUCCESS.
RefundableUnpaid(p) == ~pay[p].refundRequested

\* requestRefund: CAS on SUCCESS without an earlier request.
Refundable(p) == pay[p].status = "SUCCESS" /\ ~pay[p].refundRequested

\* requestUnactivatedRefund: everything read and written under the lock.
RequestUnactivatedRefund(p) ==
  /\ tx[p] = NoTx
  /\ right[p] = "NONE"
  /\ pay[p].activation = "REQUIRES_REVIEW"
  /\ Refundable(p)
  /\ pay' = [pay EXCEPT ![p].refundRequested = TRUE]
  /\ UNCHANGED <<granted, right, bank, tx, requests>>

\* A member or a manager cancels the subscription; with a refund the request is
\* part of the same transaction and its failure undoes the cancellation.  A row
\* that has ended is cancelled (by a manager) without a refund.
CancelSubscription(p, withRefund) ==
  /\ right[p] \in (IF withRefund THEN {"LIVE"} ELSE {"LIVE", "ENDED"})
  /\ withRefund => Refundable(p)
  /\ right' = [right EXCEPT ![p] = "CANCELLED"]
  /\ pay' = [pay EXCEPT ![p].refundRequested = @ \/ withRefund]
  /\ UNCHANGED <<granted, bank, tx, requests>>

\* Mutant: a refund can be confirmed without an approved request.
ConfirmReadUnapproved(m, p) ==
  /\ staff[m].pc = "idle" /\ pay[p].status = "SUCCESS"
  /\ staff' = [staff EXCEPT ![m] =
                 [pc |-> IF right[p] = "NONE" THEN "withoutRight" ELSE "withRight",
                  payment |-> p]]
  /\ UNCHANGED <<rows, bank, tx, fetched, checkout, patch>>

\* updatePaymentStatus(REFUNDED): the checks and subscriptionId come from a read
\* before the transaction.
ConfirmRead(m, p) ==
  /\ staff[m].pc = "idle"
  /\ pay[p].status = "SUCCESS"
  /\ pay[p].refundRequested
  /\ staff' = [staff EXCEPT ![m] =
                 [pc |-> IF right[p] = "NONE" THEN "withoutRight" ELSE "withRight",
                  payment |-> p]]
  /\ UNCHANGED <<rows, bank, tx, fetched, checkout, patch>>

\* Mutant: the confirmation trusts the status it read before its transaction.
StillCollectedStale(p) == TRUE

\* The WHERE of the confirming update: the payment is still SUCCESS.
StillCollected(p) == pay[p].status = "SUCCESS"

\* CAS SUCCESS -> REFUNDED; the subscription read earlier is revoked with it.
ConfirmCommit(m) ==
  LET p == staff[m].payment IN
  /\ staff[m].pc \in {"withRight", "withoutRight"}
  /\ staff' = [staff EXCEPT ![m] = IdleStaff]
  /\ IF StillCollected(p)
     THEN /\ pay' = [pay EXCEPT ![p] =
                        [@ EXCEPT !.status = "REFUNDED", !.returned = pay[p].returned + 1]]
          /\ right' = IF staff[m].pc = "withRight" /\ right[p] # "NONE"
                      THEN [right EXCEPT ![p] = "CANCELLED"] ELSE right
     ELSE UNCHANGED <<pay, right>>
  /\ UNCHANGED <<granted, bank, tx, fetched, checkout, patch>>

--------------------------------------------------------------------------------
(* The subscription's own life, as far as it matters to its payment.       *)

\* Expiry job, replacement by another subscription, or PATCH status = EXPIRED,
\* which accepts any row read as not SCHEDULED, a cancelled one too.
EndRight(p) ==
  /\ right[p] \in {"LIVE", "CANCELLED"}
  /\ right' = [right EXCEPT ![p] = "ENDED"]
  /\ UNCHANGED <<pay, granted, bank, tx, requests>>

\* updateSubscriptionStatus(ACTIVE or SCHEDULED).  The row is read first: ACTIVE is
\* accepted of a row read as ACTIVE, SCHEDULED of any row not read as SCHEDULED, an
\* ended or a cancelled one too (the schema offers SCHEDULED, no guard refuses it).
PatchRead(p) ==
  /\ right[p] # "NONE"
  /\ patch' = patch \cup {p}
  /\ UNCHANGED <<rows, bank, tx, fetched, checkout, staff>>

\* The write is by id only; the index of one ACTIVE and one SCHEDULED row per member
\* may refuse it, for the sake of a subscription that is not this payment's.
PatchWrite(p) ==
  /\ p \in patch
  /\ patch' = patch \ {p}
  /\ right' \in {right, [right EXCEPT ![p] = "LIVE"]}
  /\ UNCHANGED <<pay, granted, bank, tx, fetched, checkout, staff>>

--------------------------------------------------------------------------------

CheckoutStep(k) == (\E u \in Purpose : CheckoutRead(k, u)) \/ CheckoutClose(k) \/ CheckoutCreate(k)
SettleStep(p) ==
  \/ SettleMismatch(p) \/ SettleDuplicate(p) \/ SettleLate(p)
  \/ SettleAlreadyAllocated(p) \/ SettleGrant(p) \/ SettleReview(p)
ReconcileStep(p) == (\E c \in Credit : ReconcileFetch(p, c)) \/ ReconcileBegin(p)
WebhookStep(c) == WebhookIgnored(c) \/ WebhookBegin(c)
StaffStep(m) ==
  \/ \E p \in Payment : RetryCheck(m, p) \/ ConfirmRead(m, p)
  \/ RetryBegin(m) \/ RetryGrant(m) \/ RetryRefused(m) \/ RetryRejected(m)
  \/ ConfirmCommit(m)
RefundStep(p) ==
  \/ RequestUnactivatedRefund(p)
  \/ \E withRefund \in BOOLEAN : CancelSubscription(p, withRefund)
RightStep(p) == EndRight(p) \/ PatchRead(p) \/ PatchWrite(p)

Next ==
  \/ \E k \in Client : CheckoutStep(k)
  \/ \E c \in Credit : WebhookStep(c) \/ \E t \in Transfer : BankCredit(c, t)
  \/ \E m \in Staff : StaffStep(m)
  \/ \E p \in Payment :
       \/ Age(p) \/ CloseStale(p) \/ ReconcileStep(p)
       \/ SettleStep(p) \/ SettleRollback(p) \/ RefundStep(p) \/ RightStep(p)

Spec == Init /\ [][Next]_vars

\* Time passes for every open order, and the lifecycle job (setInterval of 15
\* minutes in server.ts) closes what has expired.
JobFairness == \A p \in Payment : WF_vars(Age(p)) /\ WF_vars(CloseStale(p))
FairSpec == Spec /\ JobFairness

--------------------------------------------------------------------------------
(* Properties.                                                             *)

Funds(x, p) == ledger[x].payment = p
Funded(p) == \E x \in ExternalId : Funds(x, p)

\* One order creates at most one subscription, whichever of two webhooks, an API
\* poll and two staff retries get to it (settleSepayTransfer (6), retry's re-read).
GrantedOnce ==
  \A p \in Payment : granted[p] <= 1 /\ (granted[p] = 0 <=> right[p] = "NONE")

\* No membership without money: an order that created a subscription has a bank
\* movement allocated to it, never two, and no movement pays for two orders (A14).
MoneyBehindRight ==
  /\ \A p \in Payment : granted[p] > 0 => Funded(p)
  /\ \A p \in Payment : \A x, y \in ExternalId : Funds(x, p) /\ Funds(y, p) => x = y

\* Money taken is never forgotten: the order of a PROCESSED webhook carries an
\* activation status, and money that came late waits for a person (A06).
MoneyInView ==
  \A c \in Credit :
    LET p == transfer[c].code IN
    /\ event[c] = "PROCESSED" => Funded(p) /\ pay[p].activation # "NULL"
    /\ event[c] = "LATE" => pay[p].activation = "REQUIRES_REVIEW"

\* Money is returned only on an approved request, and only once, even when two
\* staff members confirm the same refund.
ReturnedOnce ==
  \A p \in Payment :
    /\ pay[p].returned <= 1
    /\ pay[p].returned = 1 => pay[p].refundRequested /\ Funded(p)

\* No subscription is created for a payment whose refund has been approved, in
\* whatever order the retry, the webhook and the approval interleave.
NoGrantAfterRefund ==
  [][\A p \in Payment : granted'[p] # granted[p] => ~pay[p].refundRequested]_vars

\* The step that confirms a refund leaves no usable subscription, although it
\* learned from a stale read whether the payment has one.
RefundRevokes ==
  [][\A p \in Payment : pay'[p].returned # pay[p].returned => right'[p] \notin {"LIVE", "ENDED"}]_vars

\* An order lives PENDING, SUCCESS, REFUNDED or PENDING, FAILED, with one exception:
\* a checkout that read it as PENDING writes FAILED over whatever it has become
\* (sepay-payments.service.ts:260), and the transaction that had read the order
\* before that writes SUCCESS over the FAILED.
Lifecycle ==
  {<<"NONE", "PENDING">>, <<"PENDING", "SUCCESS">>, <<"PENDING", "FAILED">>,
   <<"SUCCESS", "REFUNDED">>}
ClosedByCheckout(p) ==
  /\ pay'[p].status = "FAILED"
  /\ \E k \in Client : checkout[k].pending = p /\ CheckoutClose(k)
ReadBeforeClosed(p) ==
  /\ pay[p].status = "FAILED" /\ pay'[p].status = "SUCCESS"
  /\ tx[p].seen \in {"PENDING", "SUCCESS"}
OnlyCheckoutsOverwrite ==
  [][\A p \in Payment :
       pay'[p].status # pay[p].status =>
         \/ <<pay[p].status, pay'[p].status>> \in Lifecycle
         \/ ClosedByCheckout(p) \/ ReadBeforeClosed(p)]_vars

\* A subscription whose money went back stays cancelled until a status update
\* rewrites it, with ACTIVE (from a read older than the cancellation), SCHEDULED or
\* EXPIRED (without asking what the row was); neither a confirmation that learned
\* from a stale read whether there is a subscription, nor a settlement or a retry,
\* leaves one.
Restored(p) == pay[p].returned > 0 /\ right[p] \in {"LIVE", "ENDED"}
OnlyStatusWritesRestore ==
  [][\A p \in Payment : Restored(p)' => Restored(p) \/ PatchWrite(p) \/ EndRight(p)]_vars

\* The reason of a handled review comes back only by a rejected retry, whose catch
\* block writes it by id after another staff member's retry was accepted.
StaleReason(p) == pay[p].reviewReason /\ pay[p].activation # "REQUIRES_REVIEW"
OnlyRejectedRetriesLeaveReason ==
  [][\A p \in Payment :
       StaleReason(p)' =>
         StaleReason(p) \/ \E m \in Staff : staff[m].payment = p /\ RetryRejected(m)]_vars

\* An order does not stay PENDING for ever: it is paid or the job closes it (B07).
OrderSettles ==
  \A p \in Payment : pay[p].status = "PENDING" ~> pay[p].status # "PENDING"

\* What the order promises, without channels, locks and stale reads.
Phase(p) ==
  IF pay[p].returned > 0 THEN "returned"
  ELSE IF granted[p] > 0 THEN "granted"
  ELSE IF Funded(p) THEN "held" ELSE "unpaid"
Promise == INSTANCE PaidRights WITH
  phase <- [p \in Payment |-> Phase(p)],
  promised <- [p \in Payment |-> pay[p].refundRequested]

\* Every behaviour of the settlement is one of the promise: rights only for money,
\* one right per order, no right once a refund is promised, one return per promise.
KeepsPromise == Promise!Spec

--------------------------------------------------------------------------------
(* Statements of the repository that the code does not keep.               *)

\* payments.service.ts:97 "A successful payment can only be refunded" (BR-14).
SuccessOnlyRefunded ==
  [][\A p \in Payment :
       pay[p].status = "SUCCESS" => pay'[p].status \in {"SUCCESS", "REFUNDED"}]_vars

\* sepay-payments.service.ts:235: one SePay order waiting per (member, plan).
OnePendingPerPurpose == \A u \in Purpose : Cardinality(PendingOrders(u)) <= 1

\* schema.prisma:603: reviewReason is null once the review is handled.
ReviewReasonCleared ==
  \A p \in Payment : pay[p].reviewReason => pay[p].activation = "REQUIRES_REVIEW"

\* POLICY_A_MEMBERSHIP_LIFECYCLE.md:23: a cancelled subscription does not become
\* ACTIVE again, in particular not one whose money was returned.
ReturnedStaysRevoked ==
  \A p \in Payment : pay[p].returned > 0 => right[p] # "LIVE"

================================================================================
