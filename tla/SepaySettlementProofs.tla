------------------------- MODULE SepaySettlementProofs -------------------------
(***************************************************************************)
(* Proofs about SepaySettlement, for any number of orders, requests and    *)
(* bank credits.                                                           *)
(*                                                                         *)
(* The invariant has three layers.  Typed adds to TypeOK that whatever     *)
(* points to an order points to one that exists; Money relates orders,     *)
(* ledger, locks and refund confirmations, and needs Typed; InView relates *)
(* orders and webhooks, and needs both.                                    *)
(***************************************************************************)
EXTENDS SepaySettlement, FiniteSetTheorems, TLAPS

Opened(p) == pay[p].status # "NONE"

\* Every reference held by a request, a lock or the bank is to an existing order.
BankRefs == \A c \in Credit : transfer[c].code \in Payment => Opened(transfer[c].code)
LockRefs == \A p \in Payment : tx[p] # NoTx \/ fetched[p] # NoCredit => Opened(p)
CheckoutRefs ==
  \A k \in Client : checkout[k].pc = "close" =>
    checkout[k].pending \in Payment /\ Opened(checkout[k].pending)
StaffRefs ==
  \A m \in Staff : staff[m].pc # "idle" =>
    staff[m].payment \in Payment /\ Opened(staff[m].payment)

BankInv == BankTyped /\ BankRefs
LocksInv == LocksTyped /\ LockRefs
CheckoutInv == CheckoutTyped /\ CheckoutRefs
StaffInv == StaffTyped /\ StaffRefs
Typed == RowsTyped /\ BankInv /\ LocksInv /\ CheckoutInv /\ StaffInv

USE SepayConstants

LEMMA InitTyped == Init => Typed
<1> SUFFICES ASSUME Init PROVE Typed
  OBVIOUS
<1>1. RowsTyped
  BY DEF Init, RowsTyped, PaymentRow, NoRow, Status, Activation, Right
<1>2. BankInv
  BY DEF Init, BankInv, BankTyped, TransferType, NoTransfer, LedgerRow, EmptyRow, BankRefs
<1>3. LocksInv
  BY DEF Init, LocksInv, LocksTyped, Tx, LockRefs
<1>4. CheckoutInv
  BY DEF Init, CheckoutInv, CheckoutTyped, CheckoutRequest, IdleCheckout, CheckoutRefs
<1>5. StaffInv
  BY DEF Init, StaffInv, StaffTyped, StaffRequest, IdleStaff, StaffRefs
<1>6. QED  BY <1>1, <1>2, <1>3, <1>4, <1>5 DEF Typed

\* Orders are never deleted, so a part of the state that a step leaves alone keeps
\* its half of the invariant.
Kept == \A p \in Payment : Opened(p) => Opened(p)'

LEMMA KeepRows == ASSUME RowsTyped, UNCHANGED rows PROVE RowsTyped' /\ Kept
  BY DEF RowsTyped, rows, Kept, Opened
\* A step that writes one order's row keeps the rows typed and the orders there.
LEMMA RowWritten ==
  ASSUME pay \in [Payment -> PaymentRow], NEW p, NEW row \in PaymentRow,
         pay' = [pay EXCEPT ![p] = row], row.status # "NONE" \/ row.status = pay[p].status
  PROVE  pay' \in [Payment -> PaymentRow] /\ Kept
  BY DEF Kept, Opened
LEMMA KeepBank == ASSUME BankInv, Kept, UNCHANGED bank PROVE BankInv'
  BY DEF BankInv, BankTyped, BankRefs, bank, Kept
LEMMA KeepTransfers ==
  ASSUME BankInv, Kept, UNCHANGED <<arrived, transfer>>,
         (event \in [Credit -> {"NONE", "IGNORED", "MISMATCH", "DUPLICATE", "LATE", "PROCESSED"}])',
         (ledger \in [ExternalId -> LedgerRow])'
  PROVE  BankInv'
  BY DEF BankInv, BankTyped, BankRefs, Kept
LEMMA KeepLocks == ASSUME LocksInv, Kept, UNCHANGED <<tx, fetched>> PROVE LocksInv'
  BY DEF LocksInv, LocksTyped, LockRefs, Kept
LEMMA KeepCheckout == ASSUME CheckoutInv, Kept, UNCHANGED checkout PROVE CheckoutInv'
  BY DEF CheckoutInv, CheckoutTyped, CheckoutRefs, Kept
LEMMA KeepStaff == ASSUME StaffInv, Kept, UNCHANGED <<staff, patch>> PROVE StaffInv'
  BY DEF StaffInv, StaffTyped, StaffRefs, Kept

LEMMA TypedCheckout ==
  ASSUME Typed, NEW k \in Client, CheckoutStep(k)
  PROVE  Typed'
<1>1. ASSUME NEW u \in Purpose, CheckoutRead(k, u) PROVE Typed'
  <2>1. RowsTyped' /\ Kept
    BY <1>1, KeepRows DEF CheckoutRead, Typed
  <2>2. CheckoutTyped'
    BY <1>1 DEF CheckoutRead, PendingOrders, Typed, CheckoutInv, CheckoutTyped, CheckoutRequest
  <2>3. checkout'[k].pc = "close" => checkout'[k].pending \in Payment /\ Opened(checkout'[k].pending)
    BY <1>1 DEF CheckoutRead, PendingOrders, Typed, CheckoutInv, CheckoutTyped, Opened
  <2>4. \A j \in Client \ {k} : checkout'[j] = checkout[j]
    BY <1>1 DEF CheckoutRead, Typed, CheckoutInv, CheckoutTyped
  <2>5. CheckoutRefs'
    BY <2>1, <2>3, <2>4 DEF Typed, CheckoutInv, CheckoutRefs, Kept
  <2>6. QED
    BY <1>1, <2>1, <2>2, <2>5, KeepBank, KeepLocks, KeepStaff
    DEF Typed, CheckoutRead, CheckoutInv
<1>2. CASE CheckoutClose(k)
  <2>1. checkout[k].pending \in Payment
    BY <1>2 DEF CheckoutClose, Typed, CheckoutInv, CheckoutRefs
  <2> DEFINE row == [pay[checkout[k].pending] EXCEPT !.status = "FAILED"]
  <2>2. row \in PaymentRow /\ row.status # "NONE"
    BY <2>1 DEF Typed, RowsTyped, PaymentRow, Status
  <2>3. RowsTyped' /\ Kept
    <3>1. pay' = [pay EXCEPT ![checkout[k].pending] = row]
      BY <1>2 DEF CheckoutClose
    <3> HIDE DEF row
    <3>2. pay' \in [Payment -> PaymentRow] /\ Kept
      BY <2>2, <3>1, RowWritten DEF Typed, RowsTyped
    <3>3. QED BY <1>2, <3>2 DEF CheckoutClose, Typed, RowsTyped
  <2>4. CheckoutTyped'
    BY <1>2 DEF CheckoutClose, Typed, CheckoutInv, CheckoutTyped, CheckoutRequest
  <2>5. CheckoutRefs'
    BY <1>2, <2>3 DEF CheckoutClose, Typed, CheckoutInv, CheckoutTyped, CheckoutRequest,
       CheckoutRefs, Kept
  <2>6. QED
    BY <1>2, <2>3, <2>4, <2>5, KeepBank, KeepLocks, KeepStaff
    DEF Typed, CheckoutClose, CheckoutInv
<1>3. CASE CheckoutCreate(k)
  <2>1. checkout[k].purpose \in Purpose \cup {NoPurpose}
    BY DEF Typed, CheckoutInv, CheckoutTyped, CheckoutRequest
  <2>2. NewOrder(checkout[k].purpose) \in PaymentRow
    BY <2>1 DEF NewOrder, NoRow, PaymentRow, Status, Activation
  <2>3. RowsTyped'
    BY <1>3, <2>2 DEF CheckoutCreate, Typed, RowsTyped
  <2>4. Kept
    BY <1>3 DEF CheckoutCreate, Typed, RowsTyped, NewOrder, NoRow, Opened, Kept
  <2>5. CheckoutInv'
    BY <1>3, <2>4 DEF CheckoutCreate, Typed, CheckoutInv, CheckoutTyped, CheckoutRequest,
       IdleCheckout, CheckoutRefs, Kept
  <2>6. QED
    BY <1>3, <2>3, <2>4, <2>5, KeepBank, KeepLocks, KeepStaff DEF Typed, CheckoutCreate
<1>4. QED  BY <1>1, <1>2, <1>3 DEF CheckoutStep

--------------------------------------------------------------------------------
(* The ledger: what a settling transaction reads and writes.               *)

LEMMA LedgerStep ==
  ASSUME Typed, NEW p \in Payment, Settling(p)
  PROVE  /\ tx[p].credit \in Credit
         /\ ExtOf(p) \in ExternalId
         /\ Recorded(p) \in [ExternalId -> LedgerRow]
         /\ \A x \in ExternalId \ {ExtOf(p)} : Recorded(p)[x] = ledger[x]
         /\ Recorded(p)[ExtOf(p)].recorded
         /\ Recorded(p)[ExtOf(p)].payment =
              IF ledger[ExtOf(p)].recorded THEN ledger[ExtOf(p)].payment ELSE NoPayment
<1>1. tx[p].credit \in Credit
  BY DEF Typed, LocksInv, LocksTyped, Tx, SettleTx, RetryTx, NoTx, Settling
<1>2. transfer[tx[p].credit] \in TransferType /\ ledger \in [ExternalId -> LedgerRow]
  BY <1>1 DEF Typed, BankInv, BankTyped
<1>3. SettledBy(p).ref \in Ref \cup {NoRef} /\ SettledBy(p).exact \in BOOLEAN
  BY <1>2 DEF TransferType, SettledBy
<1>4. ExtOf(p) \in ExternalId
  BY <1>1, <1>3 DEF ExtOf, Identity, ExternalId, SettledBy
<1>5. /\ Recorded(p) \in [ExternalId -> LedgerRow]
      /\ \A x \in ExternalId \ {ExtOf(p)} : Recorded(p)[x] = ledger[x]
      /\ Recorded(p)[ExtOf(p)].recorded
      /\ Recorded(p)[ExtOf(p)].payment =
           IF ledger[ExtOf(p)].recorded THEN ledger[ExtOf(p)].payment ELSE NoPayment
  BY <1>2, <1>3, <1>4 DEF Recorded, LedgerRow
<1>6. QED  BY <1>1, <1>4, <1>5

LEMMA TypedTime ==
  ASSUME Typed, NEW p \in Payment, Age(p) \/ CloseStale(p)
  PROVE  Typed'
<1>1. RowsTyped'
  <2>1. CASE Age(p)
    BY <2>1 DEF Age, Typed, RowsTyped, PaymentRow
  <2>2. CASE CloseStale(p)
    BY <2>2 DEF CloseStale, Typed, RowsTyped, PaymentRow, Status
  <2>3. QED  BY <2>1, <2>2
<1>2. Kept
  BY DEF Age, CloseStale, Typed, RowsTyped, PaymentRow, Kept, Opened
<1>3. UNCHANGED <<bank, tx, fetched, checkout, staff, patch>>
  BY DEF Age, CloseStale, requests
<1>4. QED  BY <1>1, <1>2, <1>3, KeepBank, KeepLocks, KeepCheckout, KeepStaff DEF Typed

--------------------------------------------------------------------------------
(* The channels.                                                           *)

Outcome == {"NONE", "IGNORED", "MISMATCH", "DUPLICATE", "LATE", "PROCESSED"}

LEMMA TypedBankCredit ==
  ASSUME Typed, NEW c \in Credit, NEW t \in Transfer, BankCredit(c, t)
  PROVE  Typed'
<1>1. RowsTyped' /\ Kept
  BY KeepRows DEF BankCredit, Typed
<1>2. t \in TransferType
  OBVIOUS
<1>3. BankTyped'
  BY <1>2 DEF BankCredit, Typed, BankInv, BankTyped
<1>4. t.code \in Payment => Opened(t.code)
  BY DEF BankCredit, Opened
<1>5. transfer'[c] = t /\ \A d \in Credit \ {c} : transfer'[d] = transfer[d]
  BY DEF BankCredit, Typed, BankInv, BankTyped
<1>6. BankRefs'
  BY <1>1, <1>4, <1>5 DEF Typed, BankInv, BankRefs, Kept
<1>7. UNCHANGED <<tx, fetched, checkout, staff, patch>>
  BY DEF BankCredit, requests
<1>8. QED  BY <1>1, <1>3, <1>6, <1>7, KeepLocks, KeepCheckout, KeepStaff DEF Typed, BankInv

LEMMA TypedWebhook ==
  ASSUME Typed, NEW c \in Credit, WebhookStep(c)
  PROVE  Typed'
<1>1. CASE WebhookIgnored(c)
  <2>1. RowsTyped' /\ Kept
    BY <1>1, KeepRows DEF WebhookIgnored, Typed
  <2>2. BankInv'
    BY <1>1, <2>1 DEF WebhookIgnored, Typed, BankInv, BankTyped, BankRefs, Kept
  <2>3. UNCHANGED <<tx, fetched, checkout, staff, patch>>
    BY <1>1 DEF WebhookIgnored, requests
  <2>4. QED  BY <2>1, <2>2, <2>3, KeepLocks, KeepCheckout, KeepStaff DEF Typed
<1>2. CASE WebhookBegin(c)
  <2>1. RowsTyped' /\ Kept
    BY <1>2, KeepRows DEF WebhookBegin, Typed
  <2> DEFINE p == transfer[c].code
             t == [kind |-> "WEBHOOK", credit |-> c, seen |-> pay[p].status]
  <2>2. p \in Payment /\ Opened(p) /\ tx' = [tx EXCEPT ![p] = t]
    BY <1>2 DEF WebhookBegin, Typed, BankInv, BankRefs
  <2>3. t \in Tx
    BY <2>2 DEF Typed, RowsTyped, PaymentRow, Opened, Tx, SettleTx
  <2>4. UNCHANGED <<bank, fetched, checkout, staff, patch>>
    BY <1>2 DEF WebhookBegin, requests
  <2> HIDE DEF p, t
  <2>5. LocksInv'
    BY <2>1, <2>2, <2>3, <2>4 DEF Typed, LocksInv, LocksTyped, LockRefs, Kept
  <2>6. QED  BY <2>1, <2>4, <2>5, KeepBank, KeepCheckout, KeepStaff DEF Typed
<1>3. QED  BY <1>1, <1>2 DEF WebhookStep

LEMMA TypedReconcile ==
  ASSUME Typed, NEW p \in Payment, ReconcileStep(p)
  PROVE  Typed'
<1>1. RowsTyped' /\ Kept
  BY KeepRows DEF ReconcileStep, ReconcileFetch, ReconcileBegin, Typed
<1>2. UNCHANGED <<bank, checkout, staff, patch>>
  BY DEF ReconcileStep, ReconcileFetch, ReconcileBegin
<1>3. ASSUME NEW c \in Credit, ReconcileFetch(p, c) PROVE LocksInv'
  BY <1>1, <1>3 DEF ReconcileFetch, Typed, LocksInv, LocksTyped, LockRefs, Kept, Opened
<1>4. ASSUME ReconcileBegin(p) PROVE LocksInv'
  <2> DEFINE t == [kind |-> "RECONCILE", credit |-> fetched[p], seen |-> pay[p].status]
  <2>1. t \in Tx
    BY <1>4 DEF ReconcileBegin, Typed, RowsTyped, LocksInv, LocksTyped, LockRefs, Opened,
       PaymentRow, Tx, SettleTx
  <2>2. Opened(p)
    BY <1>4 DEF ReconcileBegin, Typed, LocksInv, LockRefs
  <2>3. tx' = [tx EXCEPT ![p] = t] /\ fetched' = [fetched EXCEPT ![p] = NoCredit]
    BY <1>4 DEF ReconcileBegin
  <2> HIDE DEF t
  <2>4. QED
    BY <1>1, <2>1, <2>2, <2>3 DEF Typed, LocksInv, LocksTyped, LockRefs, Kept
<1>5. LocksInv'
  BY <1>3, <1>4 DEF ReconcileStep
<1>6. QED  BY <1>1, <1>2, <1>5, KeepBank, KeepCheckout, KeepStaff DEF Typed

--------------------------------------------------------------------------------
(* Settling.  Every outcome ends in Finish; what differs is rows and ledger. *)

LEMMA TypedFinish ==
  ASSUME Typed, RowsTyped', Kept, NEW p \in Payment, Settling(p), NEW o \in Outcome,
         Finish(p, o), ledger' \in [ExternalId -> LedgerRow]
  PROVE  Typed'
<1>1. event' \in [Credit -> Outcome]
  BY LedgerStep DEF Finish, Typed, BankInv, BankTyped, Outcome
<1>2. BankInv'
  BY <1>1, KeepTransfers DEF Finish, Typed, Outcome
<1>3. LocksInv'
  BY DEF Finish, requests, Typed, LocksInv, LocksTyped, LockRefs, Tx, Kept
<1>4. QED  BY <1>2, <1>3, KeepCheckout, KeepStaff DEF Finish, requests, Typed

\* The ledger rows after Recorded and after an allocation to p.
LEMMA AllocatedTyped ==
  ASSUME Typed, NEW p \in Payment, Settling(p)
  PROVE  [Recorded(p) EXCEPT ![ExtOf(p)].payment = p] \in [ExternalId -> LedgerRow]
  BY LedgerStep DEF LedgerRow

LEMMA TypedSettle ==
  ASSUME Typed, NEW p \in Payment, SettleStep(p) \/ SettleRollback(p)
  PROVE  Typed'
<1> USE DEF Outcome
<1>1. ASSUME UNCHANGED rows, Settling(p), NEW o \in Outcome, Finish(p, o),
             ledger' = Recorded(p) \/ ledger' = ledger
      PROVE  Typed'
  BY <1>1, KeepRows, LedgerStep, TypedFinish DEF Typed, BankInv, BankTyped
<1>2. CASE SettleMismatch(p)
  BY <1>1, <1>2 DEF SettleMismatch
<1>3. CASE SettleDuplicate(p)
  BY <1>1, <1>3 DEF SettleDuplicate
<1>4. CASE SettleAlreadyAllocated(p)
  BY <1>1, <1>4 DEF SettleAlreadyAllocated
<1>5. CASE SettleLate(p)
  <2>1. Opened(p)
    BY <1>5 DEF SettleLate, Typed, LocksInv, LockRefs, Settling, NoTx
  <2> DEFINE row == [pay[p] EXCEPT !.activation = "REQUIRES_REVIEW", !.reviewReason = TRUE]
  <2>2. RowsTyped' /\ Kept
    <3>1. pay' = [pay EXCEPT ![p] = row]
      BY <1>5 DEF SettleLate
    <3>2. row \in PaymentRow /\ row.status = pay[p].status
      BY DEF Typed, RowsTyped, PaymentRow, Activation
    <3> HIDE DEF row
    <3>3. pay' \in [Payment -> PaymentRow] /\ Kept
      BY <3>1, <3>2, RowWritten DEF Typed, RowsTyped
    <3>4. QED BY <1>5, <3>3 DEF SettleLate, Typed, RowsTyped
  <2>3. QED
    BY <1>5, <2>2, LedgerStep, TypedFinish DEF SettleLate
<1>6. CASE SettleGrant(p)
  <2> DEFINE row == [pay[p] EXCEPT !.status = "SUCCESS", !.activation = "ACTIVATED"]
  <2>1. pay' \in [Payment -> PaymentRow] /\ Kept
    <3>1. pay' = [pay EXCEPT ![p] = row]
      BY <1>6 DEF SettleGrant
    <3>2. row \in PaymentRow /\ row.status # "NONE"
      BY DEF Typed, RowsTyped, PaymentRow, Status, Activation
    <3> HIDE DEF row
    <3>3. QED BY <3>1, <3>2, RowWritten DEF Typed, RowsTyped
  <2>2. granted' \in [Payment -> Nat] /\ right' \in [Payment -> Right]
    BY <1>6 DEF SettleGrant, GrantRow, Typed, RowsTyped, Right
  <2>3. QED
    BY <1>6, <2>1, <2>2, AllocatedTyped, TypedFinish DEF SettleGrant, RowsTyped
<1>7. CASE SettleReview(p)
  <2> DEFINE row == [pay[p] EXCEPT !.status = "SUCCESS", !.activation = "REQUIRES_REVIEW",
                                 !.reviewReason = TRUE]
  <2>1. RowsTyped' /\ Kept
    <3>1. pay' = [pay EXCEPT ![p] = row]
      BY <1>7 DEF SettleReview
    <3>2. row \in PaymentRow /\ row.status # "NONE"
      BY DEF Typed, RowsTyped, PaymentRow, Status, Activation
    <3> HIDE DEF row
    <3>3. pay' \in [Payment -> PaymentRow] /\ Kept
      BY <3>1, <3>2, RowWritten DEF Typed, RowsTyped
    <3>4. QED BY <1>7, <3>3 DEF SettleReview, Typed, RowsTyped
  <2>2. QED
    BY <1>7, <2>1, AllocatedTyped, TypedFinish DEF SettleReview
<1>8. CASE SettleRollback(p)
  <2>1. RowsTyped' /\ Kept
    BY <1>8, KeepRows DEF SettleRollback, Typed
  <2>2. LocksInv'
    BY <1>8, <2>1 DEF SettleRollback, requests, Typed, LocksInv, LocksTyped, LockRefs, Tx, Kept
  <2>3. QED
    BY <1>8, <2>1, <2>2, KeepBank, KeepCheckout, KeepStaff DEF SettleRollback, requests, Typed
<1>9. QED  BY <1>2, <1>3, <1>4, <1>5, <1>6, <1>7, <1>8 DEF SettleStep

--------------------------------------------------------------------------------
(* Staff.                                                                  *)

\* A staff request takes a step: only its own record and rows or locks change.
LEMMA TypedStaffStep ==
  ASSUME Typed, RowsTyped', Kept, LocksInv', UNCHANGED <<bank, checkout, patch>>,
         NEW m \in Staff, NEW s \in StaffRequest, staff' = [staff EXCEPT ![m] = s],
         s.pc # "idle" => s.payment \in Payment /\ Opened(s.payment)
  PROVE  Typed'
<1>1. StaffTyped'
  BY DEF Typed, StaffInv, StaffTyped
<1>2. staff'[m] = s /\ \A n \in Staff \ {m} : staff'[n] = staff[n]
  BY DEF Typed, StaffInv, StaffTyped
<1>3. StaffRefs'
  BY <1>2 DEF Typed, StaffInv, StaffRefs, Kept
<1>4. QED  BY <1>1, <1>3, KeepBank, KeepCheckout DEF Typed, StaffInv

LEMMA TypedStaff ==
  ASSUME Typed, NEW m \in Staff, StaffStep(m)
  PROVE  Typed'
<1> DEFINE q == staff[m].payment
<1> USE DEF StaffRequest
<1>1. staff[m] \in StaffRequest /\ (staff[m].pc # "idle" => q \in Payment /\ Opened(q))
  BY DEF Typed, StaffInv, StaffTyped, StaffRefs
<1>2. IdleStaff \in StaffRequest /\ IdleStaff.pc = "idle"
  BY DEF IdleStaff
<1>3. ASSUME NEW p \in Payment, RetryCheck(m, p) \/ ConfirmRead(m, p) PROVE Typed'
  <2>1. RowsTyped' /\ Kept
    BY <1>3, KeepRows DEF RetryCheck, ConfirmRead, Typed
  <2>2. UNCHANGED <<bank, tx, fetched, checkout, patch>>
    BY <1>3 DEF RetryCheck, ConfirmRead
  <2>3. \E pc \in {"checked", "withRight", "withoutRight"} :
           staff' = [staff EXCEPT ![m] = [pc |-> pc, payment |-> p]]
    BY <1>3 DEF RetryCheck, ConfirmRead
  <2>4. Opened(p)
    BY <1>3 DEF RetryCheck, ConfirmRead, Opened
  <2>5. QED  BY <2>1, <2>2, <2>3, <2>4, KeepLocks, TypedStaffStep DEF Typed
<1>4. CASE RetryBegin(m)
  <2>1. RowsTyped' /\ Kept
    BY <1>4, KeepRows DEF RetryBegin, Typed
  <2>2. q \in Payment /\ Opened(q)
    BY <1>1, <1>4 DEF RetryBegin
  <2>3. tx' = tx \/ tx' = [tx EXCEPT ![q] = RetryTx]
    BY <1>4, <2>2 DEF RetryBegin, RetryAllowed, RetryTx
  <2>4. LocksInv'
    BY <1>4, <2>1, <2>2, <2>3
    DEF RetryBegin, Typed, LocksInv, LocksTyped, LockRefs, Tx, Kept
  <2>5. \E s \in StaffRequest : s.payment = q /\ staff' = [staff EXCEPT ![m] = s]
    <3>1. [staff[m] EXCEPT !.pc = "locked"] \in StaffRequest
          /\ [staff[m] EXCEPT !.pc = "rejected"] \in StaffRequest
      BY <1>1
    <3>2. /\ [staff[m] EXCEPT !.pc = "locked"].payment = q
          /\ [staff[m] EXCEPT !.pc = "rejected"].payment = q
      BY <1>1
    <3>3. \/ staff' = [staff EXCEPT ![m] = [staff[m] EXCEPT !.pc = "locked"]]
          \/ staff' = [staff EXCEPT ![m] = [staff[m] EXCEPT !.pc = "rejected"]]
      BY <1>4 DEF RetryBegin
    <3>4. QED  BY <3>1, <3>2, <3>3
  <2>6. QED
    BY <1>4, <2>1, <2>2, <2>4, <2>5, TypedStaffStep DEF RetryBegin
<1>5. CASE RetryGrant(m)
  <2>1. q \in Payment /\ Opened(q)
    BY <1>1, <1>5 DEF RetryGrant
  <2>2. pay' \in [Payment -> PaymentRow] /\ Kept
    <3> DEFINE row == [pay[q] EXCEPT !.status = "SUCCESS", !.activation = "ACTIVATED",
                                   !.reviewReason = FALSE]
    <3>1. pay' = [pay EXCEPT ![q] = row]
      BY <1>5 DEF RetryGrant
    <3>2. pay[q] \in PaymentRow
      BY <2>1 DEF Typed, RowsTyped
    <3>3. row \in PaymentRow /\ row.status # "NONE"
      BY <3>2 DEF PaymentRow, Status, Activation
    <3> HIDE DEF row
    <3>4. QED BY <3>1, <3>3, RowWritten DEF Typed, RowsTyped
  <2>3. granted' \in [Payment -> Nat] /\ right' \in [Payment -> Right]
    BY <1>5, <2>1 DEF RetryGrant, GrantRow, Typed, RowsTyped, Right
  <2>4. LocksInv'
    BY <1>5, <2>1, <2>2 DEF RetryGrant, Typed, LocksInv, LocksTyped, LockRefs, Tx, Kept
  <2>5. QED
    BY <1>2, <1>5, <2>2, <2>3, <2>4, TypedStaffStep DEF RetryGrant, RowsTyped
<1>6. CASE RetryRefused(m)
  <2>1. RowsTyped' /\ Kept
    BY <1>6, KeepRows DEF RetryRefused, Typed
  <2>2. q \in Payment /\ Opened(q)
    BY <1>1, <1>6 DEF RetryRefused
  <2>3. LocksInv'
    BY <1>6, <2>1, <2>2 DEF RetryRefused, Typed, LocksInv, LocksTyped, LockRefs, Tx, Kept
  <2>4. /\ [staff[m] EXCEPT !.pc = "rejected"] \in StaffRequest
        /\ [staff[m] EXCEPT !.pc = "rejected"].payment = q
    BY <1>1
  <2>5. \/ staff' = [staff EXCEPT ![m] = [staff[m] EXCEPT !.pc = "rejected"]]
        \/ staff' = [staff EXCEPT ![m] = IdleStaff]
    BY <1>6 DEF RetryRefused
  <2>6. QED
    BY <1>2, <1>6, <2>1, <2>2, <2>3, <2>4, <2>5, TypedStaffStep DEF RetryRefused
<1>7. CASE RetryRejected(m)
  <2>1. q \in Payment
    BY <1>1, <1>7 DEF RetryRejected
  <2> DEFINE row == [pay[q] EXCEPT !.reviewReason = TRUE]
  <2>2. RowsTyped' /\ Kept
    <3>1. pay' = [pay EXCEPT ![q] = row]
      BY <1>7 DEF RetryRejected
    <3>2. pay[q] \in PaymentRow
      BY <2>1 DEF Typed, RowsTyped
    <3>3. row \in PaymentRow /\ row.status = pay[q].status
      BY <3>2 DEF PaymentRow
    <3> HIDE DEF row
    <3>4. pay' \in [Payment -> PaymentRow] /\ Kept
      BY <3>1, <3>3, RowWritten DEF Typed, RowsTyped
    <3>5. QED BY <1>7, <3>4 DEF RetryRejected, Typed, RowsTyped
  <2>3. QED
    BY <1>2, <1>7, <2>2, KeepLocks, TypedStaffStep DEF RetryRejected, Typed
<1>8. CASE ConfirmCommit(m)
  <2>1. q \in Payment
    BY <1>1, <1>8 DEF ConfirmCommit
  <2>2. pay' \in [Payment -> PaymentRow] /\ Kept
    <3>1. pay \in [Payment -> PaymentRow]
      BY DEF Typed, RowsTyped
    <3>2. \/ pay' = pay
          \/ pay' = [pay EXCEPT ![q] = [@ EXCEPT !.status = "REFUNDED",
                                                 !.returned = pay[q].returned + 1]]
      BY <1>8 DEF ConfirmCommit
    <3> DEFINE r == [pay[q] EXCEPT !.status = "REFUNDED", !.returned = pay[q].returned + 1]
    <3>3. r \in PaymentRow /\ r.status # "NONE"
      <4>1. pay[q] \in PaymentRow
        BY <2>1, <3>1
      <4>2. pay[q].returned + 1 \in Nat
        BY <4>1 DEF PaymentRow
      <4>3. QED  BY <4>1, <4>2 DEF PaymentRow, Status
    <3>4. pay' = pay \/ pay' = [pay EXCEPT ![q] = r]
      BY <3>2
    <3> HIDE DEF r
    <3>5. pay' \in [Payment -> PaymentRow]
      BY <2>1, <3>1, <3>3, <3>4
    <3>6. Kept
      BY <2>1, <3>1, <3>3, <3>4 DEF Kept, Opened
    <3>7. QED  BY <3>5, <3>6
  <2>3. RowsTyped'
    BY <1>8, <2>1, <2>2 DEF ConfirmCommit, Typed, RowsTyped, Right
  <2>4. /\ staff' = [staff EXCEPT ![m] = IdleStaff]
        /\ UNCHANGED <<bank, tx, fetched, checkout, patch>>
    BY <1>8 DEF ConfirmCommit
  <2>5. QED
    BY <1>2, <2>2, <2>3, <2>4, KeepLocks, TypedStaffStep DEF Typed
<1>9. QED  BY <1>3, <1>4, <1>5, <1>6, <1>7, <1>8 DEF StaffStep

--------------------------------------------------------------------------------

LEMMA TypedRefund ==
  ASSUME Typed, NEW p \in Payment, RefundStep(p)
  PROVE  Typed'
<1>1. CASE RequestUnactivatedRefund(p)
  <2> DEFINE row == [pay[p] EXCEPT !.refundRequested = TRUE]
  <2>1. RowsTyped' /\ Kept
    <3>1. pay' = [pay EXCEPT ![p] = row]
      BY <1>1 DEF RequestUnactivatedRefund
    <3>2. row \in PaymentRow /\ row.status = pay[p].status
      BY DEF Typed, RowsTyped, PaymentRow
    <3> HIDE DEF row
    <3>3. pay' \in [Payment -> PaymentRow] /\ Kept
      BY <3>1, <3>2, RowWritten DEF Typed, RowsTyped
    <3>4. QED BY <1>1, <3>3 DEF RequestUnactivatedRefund, Typed, RowsTyped
  <2>2. QED
    BY <1>1, <2>1, KeepBank, KeepLocks, KeepCheckout, KeepStaff
    DEF RequestUnactivatedRefund, requests, Typed
<1>2. ASSUME NEW withRefund \in BOOLEAN, CancelSubscription(p, withRefund) PROVE Typed'
  <2> DEFINE row == [pay[p] EXCEPT !.refundRequested = @ \/ withRefund]
  <2>1. RowsTyped' /\ Kept
    <3>1. pay' = [pay EXCEPT ![p] = row]
      BY <1>2 DEF CancelSubscription
    <3>2. row \in PaymentRow /\ row.status = pay[p].status
      BY DEF Typed, RowsTyped, PaymentRow
    <3> HIDE DEF row
    <3>3. pay' \in [Payment -> PaymentRow] /\ Kept
      BY <3>1, <3>2, RowWritten DEF Typed, RowsTyped
    <3>4. right' \in [Payment -> Right] /\ granted' = granted
      BY <1>2 DEF CancelSubscription, Typed, RowsTyped, Right
    <3>5. QED BY <3>3, <3>4 DEF Typed, RowsTyped
  <2>2. QED
    BY <1>2, <2>1, KeepBank, KeepLocks, KeepCheckout, KeepStaff
    DEF CancelSubscription, requests, Typed
<1>3. QED  BY <1>1, <1>2 DEF RefundStep

LEMMA TypedRight ==
  ASSUME Typed, NEW p \in Payment, RightStep(p)
  PROVE  Typed'
<1>1. RowsTyped' /\ Kept
  BY DEF RightStep, EndRight, PatchRead, PatchWrite, rows, Typed, RowsTyped, Right, Kept, Opened
<1>2. StaffInv'
  BY <1>1 DEF RightStep, EndRight, PatchRead, PatchWrite, requests, Typed, StaffInv, StaffTyped,
     StaffRefs, Kept
<1>3. UNCHANGED <<bank, tx, fetched, checkout>>
  BY DEF RightStep, EndRight, PatchRead, PatchWrite, requests
<1>4. QED  BY <1>1, <1>2, <1>3, KeepBank, KeepLocks, KeepCheckout DEF Typed

LEMMA NextTyped == Typed /\ [Next]_vars => Typed'
<1> SUFFICES ASSUME Typed, [Next]_vars PROVE Typed'
  OBVIOUS
<1>1. CASE UNCHANGED vars
  BY <1>1, KeepRows, KeepBank, KeepLocks, KeepCheckout, KeepStaff DEF vars, requests, Typed
<1>2. CASE Next
  BY <1>2, TypedCheckout, TypedTime, TypedBankCredit, TypedWebhook, TypedReconcile, TypedSettle,
     TypedStaff, TypedRefund, TypedRight
  DEF Next
<1>3. QED  BY <1>1, <1>2

LEMMA AlwaysTyped == Spec => []Typed
  BY InitTyped, NextTyped, PTL DEF Spec

\* Every reachable state is well typed, for any number of orders and requests.
THEOREM TypeCorrect == Spec => []TypeOK
<1>1. Typed => TypeOK
  BY DEF Typed, BankInv, LocksInv, CheckoutInv, StaffInv, TypeOK
<1>2. QED  BY <1>1, AlwaysTyped, PTL

--------------------------------------------------------------------------------
(* Money.  Nothing has happened to an order that is PENDING, or that a     *)
(* settling transaction read as PENDING: this is what makes the stale      *)
(* "seen" good enough, although writers outside the lock may have closed   *)
(* the order in between.                                                   *)

Clean(p) ==
  granted[p] = 0 /\ ~Funded(p) /\ ~pay[p].refundRequested /\ pay[p].returned = 0

OrderInv(p) ==
  /\ pay[p].status \in {"NONE", "PENDING"} => Clean(p)
  /\ pay[p].status \in {"SUCCESS", "REFUNDED"} => Funded(p)
  /\ granted[p] > 0 \/ pay[p].refundRequested => Funded(p)
  /\ granted[p] <= 1
  /\ granted[p] = 0 <=> right[p] = "NONE"
  /\ pay[p].returned <= 1
  /\ pay[p].returned > 0 => pay[p].refundRequested /\ pay[p].status # "SUCCESS"

Orders == \A p \in Payment : OrderInv(p)

\* A movement is allocated only once recorded, and an order has one at most.
Allocations ==
  /\ \A x \in ExternalId : ledger[x].payment # NoPayment => ledger[x].recorded
  /\ \A p \in Payment : \A x, y \in ExternalId : Funds(x, p) /\ Funds(y, p) => x = y

SettlesClean == \A p \in Payment : Settling(p) /\ tx[p].seen = "PENDING" => Clean(p)

\* What a staff request knows of its payment, and nobody can change any more: the
\* retry because it holds the lock, the confirmation because the refund is approved.
Retrying(m) == staff[m].pc = "locked"
RetryKnows(m) ==
  LET p == staff[m].payment IN
  tx[p] = RetryTx /\ granted[p] = 0 /\ Funded(p) /\ ~pay[p].refundRequested
ConfirmKnows(m) ==
  LET p == staff[m].payment IN
  pay[p].refundRequested /\ (staff[m].pc = "withoutRight" <=> right[p] = "NONE")
StaffKnows ==
  /\ \A m \in Staff : Retrying(m) => RetryKnows(m)
  /\ \A m, n \in Staff :
       Retrying(m) /\ Retrying(n) /\ staff[m].payment = staff[n].payment => m = n
  /\ \A m \in Staff : staff[m].pc \in {"withRight", "withoutRight"} => ConfirmKnows(m)

Patches == \A p \in patch : right[p] # "NONE"

Money == Orders /\ Allocations /\ SettlesClean /\ StaffKnows /\ Patches

LEMMA InitMoney == Init => Money
<1> SUFFICES ASSUME Init PROVE Money
  OBVIOUS
<1>1. \A x \in ExternalId, p \in Payment : ~Funds(x, p)
  BY DEF Init, Funds, EmptyRow
<1>2. Orders
  BY <1>1 DEF Init, Orders, OrderInv, Clean, Funded, NoRow
<1>3. Allocations
  BY <1>1 DEF Init, Allocations, EmptyRow
<1>4. SettlesClean /\ StaffKnows /\ Patches
  BY DEF Init, SettlesClean, Settling, NoTx, StaffKnows, Retrying, IdleStaff, Patches
<1>5. QED  BY <1>2, <1>3, <1>4 DEF Money

\* Only order p's rows change in this step; the others are what they were.
Only(p) ==
  \A q \in Payment \ {p} :
    pay'[q] = pay[q] /\ granted'[q] = granted[q] /\ right'[q] = right[q]
SameFunds == \A x \in ExternalId, q \in Payment : Funds(x, q)' <=> Funds(x, q)

LEMMA SameFunded == ASSUME SameFunds, NEW q \in Payment PROVE Funded(q)' <=> Funded(q)
  BY DEF SameFunds, Funded

LEMMA LedgerKept == ASSUME UNCHANGED ledger PROVE SameFunds /\ (Allocations => Allocations')
  BY DEF SameFunds, Funds, Allocations

LEMMA LedgerRecorded ==
  ASSUME Typed, Allocations, NEW p \in Payment, Settling(p), ledger' = Recorded(p)
  PROVE  SameFunds /\ Allocations'
<1>1. \A x \in ExternalId :
        ledger'[x].payment = ledger[x].payment /\ (ledger[x].recorded => ledger'[x].recorded)
  BY LedgerStep DEF Allocations
<1>2. \A x \in ExternalId : ledger'[x].payment # NoPayment => ledger'[x].recorded
  BY <1>1 DEF Allocations
<1>3. SameFunds
  BY <1>1 DEF SameFunds, Funds
<1>4. QED  BY <1>2, <1>3 DEF Allocations, SameFunds

\* Steps that change no order, but for activation and the text beside it: what an
\* order satisfied it still satisfies.
SameOrders ==
  /\ UNCHANGED <<granted, right>>
  /\ \A p \in Payment : /\ pay'[p].status = pay[p].status
                         /\ pay'[p].refundRequested = pay[p].refundRequested
                         /\ pay'[p].returned = pay[p].returned

LEMMA RowsSame == ASSUME UNCHANGED rows PROVE SameOrders
  BY DEF SameOrders, rows

LEMMA OrdersKept ==
  ASSUME Orders, SameOrders, SameFunds
  PROVE  Orders' /\ \A p \in Payment : Clean(p)' <=> Clean(p)
  BY SameFunded DEF Orders, OrderInv, Clean, SameOrders

\* Steps of requests that touch neither orders, allocations nor locks.
LEMMA MoneyFrame ==
  ASSUME Money, UNCHANGED <<rows, ledger, tx, staff, patch>>
  PROVE  Money'
  BY DEF Money, Orders, OrderInv, Clean, Funded, Funds, Allocations, SettlesClean, Settling,
     StaffKnows, Retrying, RetryKnows, ConfirmKnows, Patches, rows

\* Steps of a settling transaction that change no order: it begins with what it
\* reads, or it ends.
LEMMA MoneyLock ==
  ASSUME Typed, Money, NEW p \in Payment, SameOrders, UNCHANGED <<staff, patch>>,
         SameFunds, Allocations', tx[p] = NoTx \/ Settling(p),
         NEW t, tx' = [tx EXCEPT ![p] = t],
         t = NoTx \/ t.seen = pay[p].status
  PROVE  Money'
<1>1. Orders' /\ \A q \in Payment : Clean(q)' <=> Clean(q)
  BY OrdersKept DEF Money
<1>2. tx'[p] = t /\ \A q \in Payment \ {p} : tx'[q] = tx[q]
  BY DEF Typed, LocksInv, LocksTyped
<1>3. SettlesClean'
  <2>1. t.seen = "PENDING" => Clean(p)
    BY DEF NoTx, Money, Orders, OrderInv
  <2>2. QED  BY <1>1, <1>2, <2>1 DEF SettlesClean, Settling, Money
<1>4. tx[p] # RetryTx
  BY DEF Settling, NoTx, RetryTx
<1>5. StaffKnows'
  <2>1. \A m \in Staff : Retrying(m) => RetryKnows(m)'
    BY <1>2, <1>4, SameFunded
    DEF Money, StaffKnows, Retrying, RetryKnows, SameOrders, Typed, StaffInv, StaffRefs
  <2>2. \A m \in Staff : staff[m].pc \in {"withRight", "withoutRight"} => ConfirmKnows(m)'
    BY DEF Money, StaffKnows, ConfirmKnows, SameOrders, Typed, StaffInv, StaffRefs
  <2>3. QED  BY <2>1, <2>2 DEF Money, StaffKnows, Retrying
<1>6. Patches'
  BY DEF Money, Patches, SameOrders
<1>7. QED  BY <1>1, <1>3, <1>5, <1>6 DEF Money

\* Steps that change one order outside its lock, and at most end a staff request.
LEMMA MoneyRow ==
  ASSUME Typed, Money, NEW p \in Payment, Only(p), UNCHANGED <<ledger, tx>>, OrderInv(p)',
         \A m \in Staff : staff'[m] = staff[m]
                          \/ staff'[m].pc \in {"idle", "checked", "rejected"},
         patch' \subseteq patch,
         granted'[p] = granted[p], right[p] = "NONE" <=> right'[p] = "NONE",
         pay[p].refundRequested => pay'[p].refundRequested,
         tx[p] # NoTx /\ granted[p] = 0 /\ ~pay[p].refundRequested =>
           ~pay'[p].refundRequested /\ pay'[p].returned = pay[p].returned
  PROVE  Money'
<1>1. \A q \in Payment : Funded(q)' <=> Funded(q)
  BY LedgerKept, SameFunded
<1>2. Orders'
  BY <1>1 DEF Money, Orders, OrderInv, Clean, Only
<1>3. Allocations'
  BY LedgerKept DEF Money
<1>4. SettlesClean'
  BY <1>1 DEF Money, SettlesClean, Settling, Clean, Only, NoTx
<1>5. \A m \in Staff : staff'[m].pc \in {"locked", "withRight", "withoutRight"} =>
        staff'[m] = staff[m] /\ staff[m].payment \in Payment
  BY DEF Typed, StaffInv, StaffRefs
<1>6. StaffKnows'
  <2>1. \A m \in Staff : Retrying(m)' => RetryKnows(m)'
    BY <1>1, <1>5 DEF Money, StaffKnows, Retrying, RetryKnows, Only, RetryTx, NoTx
  <2>2. \A m \in Staff : staff'[m].pc \in {"withRight", "withoutRight"} => ConfirmKnows(m)'
    BY <1>5 DEF Money, StaffKnows, ConfirmKnows, Only
  <2>3. QED  BY <1>5, <2>1, <2>2 DEF Money, StaffKnows, Retrying
<1>7. Patches'
  BY DEF Money, Patches, Only, Typed, StaffInv, StaffTyped
<1>8. QED  BY <1>2, <1>3, <1>4, <1>6, <1>7 DEF Money

LEMMA MoneyCheckout ==
  ASSUME Typed, Money, NEW k \in Client, CheckoutStep(k)
  PROVE  Money'
<1>1. ASSUME NEW u \in Purpose, CheckoutRead(k, u) PROVE Money'
  BY <1>1, MoneyFrame DEF CheckoutRead, bank
<1>2. CASE CheckoutClose(k)
  <2>1. PICK p \in Payment : p = checkout[k].pending /\ Opened(p)
    BY <1>2 DEF CheckoutClose, Typed, CheckoutInv, CheckoutRefs
  <2>2. pay' = [pay EXCEPT ![p].status = "FAILED"]
    BY <1>2, <2>1 DEF CheckoutClose
  <2>3. UNCHANGED <<granted, right, ledger, tx, staff, patch>>
    BY <1>2 DEF CheckoutClose, bank
  <2>4. Only(p) /\ pay'[p] = [pay[p] EXCEPT !.status = "FAILED"]
    BY <2>1, <2>2, <2>3 DEF Typed, RowsTyped, Only
  <2>5. /\ pay'[p].status = "FAILED"
        /\ pay'[p].refundRequested = pay[p].refundRequested
        /\ pay'[p].returned = pay[p].returned
    BY <2>1, <2>4 DEF Typed, RowsTyped, PaymentRow
  <2>6. OrderInv(p)'
    BY <2>1, <2>3, <2>5, LedgerKept, SameFunded DEF Money, Orders, OrderInv, Clean, Opened
  <2>7. QED  BY <2>3, <2>4, <2>5, <2>6, MoneyRow
<1>3. CASE CheckoutCreate(k)
  <2>1. PICK p \in Payment : /\ pay[p].status = "NONE"
                             /\ pay' = [pay EXCEPT ![p] = NewOrder(checkout[k].purpose)]
    BY <1>3 DEF CheckoutCreate
  <2>2. UNCHANGED <<granted, right, ledger, tx, staff, patch>>
    BY <1>3 DEF CheckoutCreate, bank
  <2>3. Only(p) /\ pay'[p] = NewOrder(checkout[k].purpose)
    BY <2>1, <2>2 DEF Typed, RowsTyped, Only
  <2>4. /\ pay'[p].status = "PENDING"
        /\ pay'[p].refundRequested = FALSE
        /\ pay'[p].returned = 0
    BY <2>3 DEF NewOrder, NoRow
  <2>5. Clean(p)
    BY <2>1 DEF Money, Orders, OrderInv
  <2>6. OrderInv(p)'
    BY <2>2, <2>4, <2>5, LedgerKept, SameFunded DEF Money, Orders, OrderInv, Clean
  <2>7. QED  BY <2>2, <2>3, <2>4, <2>5, <2>6, MoneyRow DEF Clean
<1>4. QED  BY <1>1, <1>2, <1>3 DEF CheckoutStep

LEMMA MoneyTime ==
  ASSUME Typed, Money, NEW p \in Payment, Age(p) \/ CloseStale(p)
  PROVE  Money'
<1>1. UNCHANGED <<granted, right, ledger, tx, staff, patch>>
  BY DEF Age, CloseStale, bank, requests
<1>2. Only(p)
  BY DEF Age, CloseStale, Only, Typed, RowsTyped
<1>3. /\ pay'[p].status \in {"PENDING", "FAILED"}
      /\ pay'[p].refundRequested = pay[p].refundRequested
      /\ pay'[p].returned = pay[p].returned
  BY DEF Age, CloseStale, Typed, RowsTyped, PaymentRow
<1>4. Clean(p)
  BY DEF Age, CloseStale, Money, Orders, OrderInv
<1>5. OrderInv(p)'
  BY <1>1, <1>3, <1>4, LedgerKept, SameFunded DEF Money, Orders, OrderInv, Clean
<1>6. QED  BY <1>1, <1>2, <1>3, <1>5, MoneyRow

LEMMA MoneyBankCredit ==
  ASSUME Money, NEW c \in Credit, NEW t \in Transfer, BankCredit(c, t)
  PROVE  Money'
  BY MoneyFrame DEF BankCredit, requests

LEMMA MoneyWebhook ==
  ASSUME Typed, Money, NEW c \in Credit, WebhookStep(c)
  PROVE  Money'
<1>1. CASE WebhookIgnored(c)
  BY <1>1, MoneyFrame DEF WebhookIgnored, requests
<1>2. CASE WebhookBegin(c)
  BY <1>2, MoneyLock, LedgerKept, RowsSame DEF WebhookBegin, Money, bank, requests
<1>3. QED  BY <1>1, <1>2 DEF WebhookStep

LEMMA MoneyReconcile ==
  ASSUME Typed, Money, NEW p \in Payment, ReconcileStep(p)
  PROVE  Money'
<1>1. ASSUME NEW c \in Credit, ReconcileFetch(p, c) PROVE Money'
  BY <1>1, MoneyFrame DEF ReconcileFetch, bank
<1>2. CASE ReconcileBegin(p)
  BY <1>2, MoneyLock, LedgerKept, RowsSame DEF ReconcileBegin, Money, bank
<1>3. QED  BY <1>1, <1>2 DEF ReconcileStep

LEMMA MoneyRefund ==
  ASSUME Typed, Money, NEW p \in Payment, RefundStep(p)
  PROVE  Money'
<1>1. CASE RequestUnactivatedRefund(p)
  <2>1. UNCHANGED <<granted, right, ledger, tx, staff, patch>> /\ tx[p] = NoTx
    BY <1>1 DEF RequestUnactivatedRefund, bank, requests
  <2>2. Only(p)
    BY <1>1 DEF RequestUnactivatedRefund, Only, Typed, RowsTyped
  <2>3. /\ pay[p].status = "SUCCESS" /\ pay'[p].status = "SUCCESS"
        /\ pay'[p].refundRequested = TRUE
        /\ pay'[p].returned = pay[p].returned
    BY <1>1 DEF RequestUnactivatedRefund, Refundable, Typed, RowsTyped, PaymentRow
  <2>4. OrderInv(p)'
    BY <2>1, <2>3, LedgerKept, SameFunded DEF Money, Orders, OrderInv, Clean
  <2>5. QED  BY <2>1, <2>2, <2>3, <2>4, MoneyRow
<1>2. ASSUME NEW withRefund \in BOOLEAN, CancelSubscription(p, withRefund) PROVE Money'
  <2>1. UNCHANGED <<granted, ledger, tx, staff, patch>>
    BY <1>2 DEF CancelSubscription, bank, requests
  <2>2. Only(p)
    BY <1>2 DEF CancelSubscription, Only, Typed, RowsTyped
  <2>3. right[p] # "NONE" /\ right'[p] = "CANCELLED"
    BY <1>2 DEF CancelSubscription, Typed, RowsTyped
  <2>4. granted[p] # 0 /\ Funded(p)
    BY <2>3 DEF Money, Orders, OrderInv, Typed, RowsTyped
  <2>5. /\ pay'[p].status = pay[p].status
        /\ pay[p].refundRequested => pay'[p].refundRequested
        /\ pay'[p].returned = pay[p].returned
    BY <1>2 DEF CancelSubscription, Typed, RowsTyped, PaymentRow
  <2>6. OrderInv(p)'
    BY <2>1, <2>3, <2>4, <2>5, LedgerKept, SameFunded DEF Money, Orders, OrderInv, Clean
  <2>7. QED  BY <2>1, <2>2, <2>3, <2>4, <2>5, <2>6, MoneyRow
<1>3. QED  BY <1>1, <1>2 DEF RefundStep

LEMMA MoneyRight ==
  ASSUME Typed, Money, NEW p \in Payment, RightStep(p)
  PROVE  Money'
<1>1. CASE EndRight(p) \/ PatchWrite(p)
  <2>1. UNCHANGED <<pay, granted, ledger, tx, staff>> /\ patch' \subseteq patch
    BY <1>1 DEF EndRight, PatchWrite, bank, requests
  <2>2. right[p] # "NONE" /\ right'[p] # "NONE" /\ Only(p)
    BY <1>1 DEF EndRight, PatchWrite, Money, Patches, Typed, RowsTyped, Only
  <2>3. OrderInv(p)'
    BY <2>1, <2>2, LedgerKept, SameFunded DEF Money, Orders, OrderInv, Clean
  <2>4. QED  BY <2>1, <2>2, <2>3, MoneyRow
<1>2. CASE PatchRead(p)
  <2>1. Patches'
    BY <1>2 DEF PatchRead, Money, Patches, rows
  <2>2. QED
    BY <1>2, <2>1
    DEF PatchRead, Money, Orders, OrderInv, Clean, Funded, Funds, Allocations, SettlesClean,
        Settling, StaffKnows, Retrying, RetryKnows, ConfirmKnows, rows, bank
<1>3. QED  BY <1>1, <1>2 DEF RightStep

--------------------------------------------------------------------------------
(* Settling.                                                               *)

\* The commit that allocates the movement: the order was clean, so no movement paid
\* for it, and this one paid for nobody.
LEMMA Allocate ==
  ASSUME Typed, Money, NEW p \in Payment, Settling(p), Clean(p), CanAllocate(p),
         ledger' = [Recorded(p) EXCEPT ![ExtOf(p)].payment = p]
  PROVE  /\ Allocations' /\ Funded(p)'
         /\ \A q \in Payment \ {p} : Funded(q)' <=> Funded(q)
<1> PICK e \in ExternalId : e = ExtOf(p)
  BY LedgerStep
<1>1. ledger[e].payment = NoPayment
  BY LedgerStep DEF CanAllocate, Clean, Funded, Funds, Money, Allocations
<1>2. /\ ledger'[e].payment = p /\ ledger'[e].recorded
      /\ \A x \in ExternalId \ {e} : ledger'[x] = ledger[x]
  BY LedgerStep DEF LedgerRow
<1>3. \A q \in Payment : ~Funds(e, q)
  BY <1>1 DEF Funds
<1>4. \A q \in Payment : Funds(e, q)' <=> q = p
  BY <1>2 DEF Funds
<1>5. \A x \in ExternalId \ {e}, q \in Payment : Funds(x, q)' <=> Funds(x, q)
  BY <1>2 DEF Funds
<1>6. \A x \in ExternalId \ {e} : ~Funds(x, p)
  BY DEF Clean, Funded
<1>7. \A x \in ExternalId : ledger'[x].payment # NoPayment => ledger'[x].recorded
  BY <1>2 DEF Money, Allocations
<1>8. \A q \in Payment : \A x, y \in ExternalId : Funds(x, q)' /\ Funds(y, q)' => x = y
  BY <1>3, <1>4, <1>5, <1>6 DEF Money, Allocations
<1>9. QED  BY <1>3, <1>4, <1>5, <1>7, <1>8 DEF Allocations, Funded

LEMMA MoneyCollect ==
  ASSUME Typed, Money, NEW p \in Payment, Settling(p), tx[p].seen = "PENDING", CanAllocate(p),
         ledger' = [Recorded(p) EXCEPT ![ExtOf(p)].payment = p],
         tx' = [tx EXCEPT ![p] = NoTx], UNCHANGED <<staff, patch>>, Only(p),
         pay'[p].status = "SUCCESS",
         pay'[p].refundRequested = pay[p].refundRequested,
         pay'[p].returned = pay[p].returned,
         \/ granted'[p] = granted[p] /\ right'[p] = right[p]
         \/ granted'[p] = granted[p] + 1 /\ right'[p] = "LIVE"
  PROVE  Money'
<1>1. Clean(p)
  BY DEF Money, SettlesClean
<1>2. /\ Allocations' /\ Funded(p)'
      /\ \A q \in Payment \ {p} : Funded(q)' <=> Funded(q)
  BY <1>1, Allocate
<1>3. Orders'
  <2>1. OrderInv(p)'
    BY <1>1, <1>2 DEF OrderInv, Clean, Money, Orders
  <2>2. QED  BY <1>2, <2>1 DEF Orders, OrderInv, Clean, Only, Money
<1>4. tx'[p] = NoTx /\ \A q \in Payment \ {p} : tx'[q] = tx[q]
  BY DEF Typed, LocksInv, LocksTyped
<1>5. SettlesClean'
  BY <1>2, <1>4 DEF SettlesClean, Settling, NoTx, Clean, Only, Money
<1>6. \A m \in Staff : staff[m].pc \in {"locked", "withRight", "withoutRight"} =>
        staff[m].payment \in Payment \ {p}
  <2>1. \A m \in Staff : staff[m].pc # "idle" => staff[m].payment \in Payment
    BY DEF Typed, StaffInv, StaffRefs
  <2>2. \A m \in Staff : Retrying(m) => staff[m].payment # p
    BY DEF Money, StaffKnows, RetryKnows, Settling, RetryTx
  <2>3. \A m \in Staff : staff[m].pc \in {"withRight", "withoutRight"} => staff[m].payment # p
    BY <1>1 DEF Money, StaffKnows, ConfirmKnows, Clean
  <2>4. QED  BY <2>1, <2>2, <2>3 DEF Retrying
<1>7. StaffKnows'
  <2>1. \A m \in Staff : Retrying(m) => RetryKnows(m)'
    BY <1>2, <1>4, <1>6 DEF Money, StaffKnows, Retrying, RetryKnows, Only
  <2>2. \A m \in Staff : staff[m].pc \in {"withRight", "withoutRight"} => ConfirmKnows(m)'
    BY <1>6 DEF Money, StaffKnows, ConfirmKnows, Only
  <2>3. QED  BY <2>1, <2>2 DEF Money, StaffKnows, Retrying
<1>8. Patches'
  BY <1>1 DEF Money, Patches, Only, Typed, StaffInv, StaffTyped
<1>9. QED  BY <1>2, <1>3, <1>5, <1>7, <1>8 DEF Money

LEMMA MoneySettle ==
  ASSUME Typed, Money, NEW p \in Payment, SettleStep(p) \/ SettleRollback(p)
  PROVE  Money'
<1>1. ASSUME Settling(p), SameOrders, NEW o \in Outcome, Finish(p, o),
             ledger' = Recorded(p) \/ ledger' = ledger
      PROVE  Money'
  BY <1>1, LedgerRecorded, LedgerKept, MoneyLock DEF Finish, requests, Money
<1> USE DEF Outcome
<1>2. CASE SettleMismatch(p)
  BY <1>1, <1>2, RowsSame DEF SettleMismatch
<1>3. CASE SettleDuplicate(p)
  BY <1>1, <1>3, RowsSame DEF SettleDuplicate
<1>4. CASE SettleAlreadyAllocated(p)
  BY <1>1, <1>4, RowsSame DEF SettleAlreadyAllocated
<1>5. CASE SettleLate(p)
  <2>1. SameOrders
    BY <1>5 DEF SettleLate, SameOrders, Typed, RowsTyped, PaymentRow
  <2>2. QED  BY <1>1, <1>5, <2>1 DEF SettleLate
<1>6. CASE SettleGrant(p)
  <2>1. Only(p)
    BY <1>6 DEF SettleGrant, GrantRow, Only, Typed, RowsTyped
  <2>2. /\ pay'[p].status = "SUCCESS"
        /\ pay'[p].refundRequested = pay[p].refundRequested
        /\ pay'[p].returned = pay[p].returned
    BY <1>6 DEF SettleGrant, Typed, RowsTyped, PaymentRow
  <2>3. granted'[p] = granted[p] + 1 /\ right'[p] = "LIVE"
    BY <1>6 DEF SettleGrant, GrantRow, Typed, RowsTyped
  <2>4. QED
    BY <1>6, <2>1, <2>2, <2>3, MoneyCollect DEF SettleGrant, Finish, requests
<1>7. CASE SettleReview(p)
  <2>1. Only(p)
    BY <1>7 DEF SettleReview, Only, Typed, RowsTyped
  <2>2. /\ pay'[p].status = "SUCCESS"
        /\ pay'[p].refundRequested = pay[p].refundRequested
        /\ pay'[p].returned = pay[p].returned
    BY <1>7 DEF SettleReview, Typed, RowsTyped, PaymentRow
  <2>3. QED
    BY <1>7, <2>1, <2>2, MoneyCollect DEF SettleReview, Finish, requests
<1>8. CASE SettleRollback(p)
  BY <1>8, MoneyLock, LedgerKept, RowsSame DEF SettleRollback, Money, bank, requests
<1>9. QED  BY <1>2, <1>3, <1>4, <1>5, <1>6, <1>7, <1>8 DEF SettleStep

--------------------------------------------------------------------------------
(* Staff.                                                                  *)

\* A staff request leaves orders and allocations alone and moves itself and its
\* order's lock.
LEMMA MoneyStaffMove ==
  ASSUME Typed, Money, NEW m \in Staff, NEW p \in Payment, SameOrders,
         UNCHANGED <<ledger, patch>>,
         \A n \in Staff \ {m} : staff'[n] = staff[n],
         \A q \in Payment \ {p} : tx'[q] = tx[q],
         tx'[p] = tx[p] \/ tx'[p] \in {NoTx, RetryTx},
         \A n \in Staff \ {m} : Retrying(n) => staff[n].payment # p \/ tx'[p] = tx[p],
         staff'[m].pc = "locked" =>
           /\ staff'[m].payment = p /\ tx'[p] = RetryTx /\ tx[p] # RetryTx
           /\ granted[p] = 0 /\ Funded(p) /\ ~pay[p].refundRequested,
         staff'[m].pc \in {"withRight", "withoutRight"} =>
           /\ staff'[m].payment = p /\ pay[p].refundRequested
           /\ staff'[m].pc = "withoutRight" <=> right[p] = "NONE"
  PROVE  Money'
<1>1. Orders' /\ \A q \in Payment : Clean(q)' <=> Clean(q)
  BY LedgerKept, OrdersKept DEF Money
<1>2. \A n \in Staff : staff[n].pc # "idle" => staff[n].payment \in Payment
  BY DEF Typed, StaffInv, StaffRefs
<1>3. \A q \in Payment : Funded(q)' <=> Funded(q)
  BY LedgerKept, SameFunded
<1>4. SettlesClean'
  BY <1>1 DEF Money, SettlesClean, Settling, NoTx, RetryTx
<1>5. StaffKnows'
  <2>1. \A n \in Staff \ {m} : Retrying(n) => RetryKnows(n)'
    BY <1>2, <1>3 DEF Money, StaffKnows, Retrying, RetryKnows, SameOrders
  <2>2. Retrying(m)' => RetryKnows(m)'
    BY <1>3 DEF Retrying, RetryKnows, SameOrders
  <2>3. \A n \in Staff \ {m} : Retrying(n) /\ staff'[m].pc = "locked" => staff[n].payment # p
    BY DEF Money, StaffKnows, RetryKnows
  <2>4. \A n \in Staff : staff'[n].pc \in {"withRight", "withoutRight"} => ConfirmKnows(n)'
    BY <1>2 DEF Money, StaffKnows, ConfirmKnows, SameOrders
  <2>5. \A n, l \in Staff :
          Retrying(n)' /\ Retrying(l)' /\ staff'[n].payment = staff'[l].payment => n = l
    BY <2>3 DEF Money, StaffKnows, Retrying
  <2>6. \A n \in Staff : Retrying(n)' => RetryKnows(n)'
    BY <2>1, <2>2 DEF Retrying
  <2>7. QED  BY <2>4, <2>5, <2>6 DEF StaffKnows
<1>6. Patches'
  BY DEF Money, Patches, SameOrders
<1>7. QED  BY <1>1, <1>4, <1>5, <1>6, LedgerKept DEF Money

LEMMA MoneyRetryGrant ==
  ASSUME Typed, Money, NEW m \in Staff, RetryGrant(m)
  PROVE  Money'
<1>1. PICK p \in Payment : p = staff[m].payment
  BY DEF RetryGrant, Typed, StaffInv, StaffRefs
<1>2. RetryKnows(m)
  BY DEF RetryGrant, Money, StaffKnows, Retrying
<1>3. tx[p] = RetryTx /\ granted[p] = 0 /\ Funded(p) /\ ~pay[p].refundRequested
  BY <1>1, <1>2 DEF RetryKnows
<1>4. UNCHANGED <<ledger, patch>>
  BY DEF RetryGrant, bank
<1>5. pay' = [pay EXCEPT ![p] = [@ EXCEPT !.status = "SUCCESS", !.activation = "ACTIVATED",
                                          !.reviewReason = FALSE]]
  BY <1>1 DEF RetryGrant
<1>6. /\ pay'[p].status = "SUCCESS"
      /\ pay'[p].refundRequested = pay[p].refundRequested
      /\ pay'[p].returned = pay[p].returned
  BY <1>1, <1>5 DEF Typed, RowsTyped, PaymentRow
<1>7. granted'[p] = 1 /\ right'[p] = "LIVE" /\ Only(p)
  BY <1>1, <1>3, <1>5 DEF RetryGrant, GrantRow, Typed, RowsTyped, Only
<1>8. tx'[p] = NoTx /\ \A q \in Payment \ {p} : tx'[q] = tx[q]
  BY <1>1 DEF RetryGrant, Typed, LocksInv, LocksTyped
<1>9. \A n \in Staff \ {m} : staff'[n] = staff[n]
  BY DEF RetryGrant, Typed, StaffInv, StaffTyped
<1>10. staff'[m].pc = "idle"
  BY DEF RetryGrant, Typed, StaffInv, StaffTyped, IdleStaff
<1>11. \A q \in Payment : Funded(q)' <=> Funded(q)
  BY <1>4, LedgerKept, SameFunded
<1>12. Orders'
  <2>1. OrderInv(p)'
    BY <1>1, <1>3, <1>6, <1>7, <1>11 DEF OrderInv, Clean, Money, Orders
  <2>2. QED  BY <1>11, <2>1, <1>7 DEF Orders, OrderInv, Clean, Only, Money
<1>13. SettlesClean'
  BY <1>7, <1>8, <1>11 DEF SettlesClean, Settling, NoTx, Clean, Only, Money
<1>14. \A n \in Staff : staff'[n].pc \in {"locked", "withRight", "withoutRight"} =>
         n # m /\ staff[n].payment \in Payment \ {p}
  <2>1. \A n \in Staff : staff[n].pc # "idle" => staff[n].payment \in Payment
    BY DEF Typed, StaffInv, StaffRefs
  <2>2. \A n \in Staff \ {m} : Retrying(n) => staff[n].payment # p
    BY <1>1 DEF RetryGrant, Money, StaffKnows, Retrying
  <2>3. \A n \in Staff : staff[n].pc \in {"withRight", "withoutRight"} => staff[n].payment # p
    BY <1>3 DEF Money, StaffKnows, ConfirmKnows
  <2>4. QED  BY <1>9, <1>10, <2>1, <2>2, <2>3 DEF Retrying
<1>15. StaffKnows'
  <2>1. \A n \in Staff : Retrying(n)' => RetryKnows(n)'
    BY <1>7, <1>8, <1>9, <1>11, <1>14 DEF Money, StaffKnows, Retrying, RetryKnows, Only
  <2>2. \A n \in Staff : staff'[n].pc \in {"withRight", "withoutRight"} => ConfirmKnows(n)'
    BY <1>7, <1>9, <1>14 DEF Money, StaffKnows, ConfirmKnows, Only
  <2>3. QED  BY <1>9, <1>14, <2>1, <2>2 DEF Money, StaffKnows, Retrying
<1>16. Patches'
  BY <1>4, <1>7 DEF Money, Patches, Only, Typed, StaffInv, StaffTyped
<1>17. QED  BY <1>4, <1>12, <1>13, <1>15, <1>16, LedgerKept DEF Money

LEMMA MoneyConfirmCommit ==
  ASSUME Typed, Money, NEW m \in Staff, ConfirmCommit(m)
  PROVE  Money'
<1>1. PICK p \in Payment : p = staff[m].payment
  BY DEF ConfirmCommit, Typed, StaffInv, StaffRefs
<1>2. pay[p].refundRequested /\ (staff[m].pc = "withoutRight" <=> right[p] = "NONE")
  BY <1>1 DEF ConfirmCommit, Money, StaffKnows, ConfirmKnows
<1>3. UNCHANGED <<granted, ledger, tx, patch>> /\ staff' = [staff EXCEPT ![m] = IdleStaff]
  BY DEF ConfirmCommit, bank
<1>4. \A n \in Staff : staff'[n] = staff[n] \/ staff'[n].pc = "idle"
  BY <1>3 DEF Typed, StaffInv, StaffTyped, IdleStaff
<1>5. CASE StillCollected(p)
  <2>1. pay' = [pay EXCEPT ![p] = [@ EXCEPT !.status = "REFUNDED",
                                            !.returned = pay[p].returned + 1]]
    BY <1>1, <1>5 DEF ConfirmCommit
  <2>2. /\ pay'[p].status = "REFUNDED"
        /\ pay'[p].refundRequested = pay[p].refundRequested
        /\ pay'[p].returned = pay[p].returned + 1
    BY <1>1, <2>1 DEF Typed, RowsTyped, PaymentRow
  <2>3. right' = IF staff[m].pc = "withRight" /\ right[p] # "NONE"
                 THEN [right EXCEPT ![p] = "CANCELLED"] ELSE right
    BY <1>1, <1>5 DEF ConfirmCommit
  <2>4. Only(p) /\ (right[p] = "NONE" <=> right'[p] = "NONE")
    BY <1>3, <2>1, <2>3 DEF Typed, RowsTyped, Only
  <2>5. pay[p].status = "SUCCESS" /\ pay[p].returned = 0
    BY <1>5 DEF StillCollected, Money, Orders, OrderInv, Typed, RowsTyped, PaymentRow
  <2>6. OrderInv(p)'
    BY <1>2, <1>3, <2>2, <2>4, <2>5, LedgerKept, SameFunded DEF Money, Orders, OrderInv
  <2>7. QED  BY <1>2, <1>3, <1>4, <2>2, <2>4, <2>6, MoneyRow
<1>6. CASE ~StillCollected(p)
  <2>1. UNCHANGED <<pay, right>>
    BY <1>1, <1>6 DEF ConfirmCommit
  <2>2. OrderInv(p)' /\ Only(p)
    BY <1>3, <2>1, LedgerKept, SameFunded DEF Money, Orders, OrderInv, Clean, Only
  <2>3. QED  BY <1>3, <1>4, <2>1, <2>2, MoneyRow
<1>7. QED  BY <1>5, <1>6

LEMMA MoneyStaff ==
  ASSUME Typed, Money, NEW m \in Staff, StaffStep(m)
  PROVE  Money'
<1>1. ASSUME NEW p \in Payment, RetryCheck(m, p) PROVE Money'
  <2>1. SameOrders /\ UNCHANGED <<ledger, patch, tx>>
    BY <1>1, RowsSame DEF RetryCheck, bank
  <2>2. staff'[m].pc = "checked" /\ \A n \in Staff \ {m} : staff'[n] = staff[n]
    BY <1>1 DEF RetryCheck, Typed, StaffInv, StaffTyped
  <2>3. QED  BY <2>1, <2>2, MoneyStaffMove
<1>2. ASSUME NEW p \in Payment, ConfirmRead(m, p) PROVE Money'
  <2>1. SameOrders /\ UNCHANGED <<ledger, patch, tx>> /\ pay[p].refundRequested
    BY <1>2, RowsSame DEF ConfirmRead, bank
  <2>2. /\ staff'[m].pc = (IF right[p] = "NONE" THEN "withoutRight" ELSE "withRight")
        /\ staff'[m].payment = p /\ \A n \in Staff \ {m} : staff'[n] = staff[n]
    BY <1>2 DEF ConfirmRead, Typed, StaffInv, StaffTyped
  <2>3. QED  BY <2>1, <2>2, MoneyStaffMove
<1>3. CASE RetryBegin(m)
  <2>1. PICK p \in Payment : p = staff[m].payment
    BY <1>3 DEF RetryBegin, Typed, StaffInv, StaffRefs
  <2>2. SameOrders /\ UNCHANGED <<ledger, patch>> /\ tx[p] = NoTx
    BY <1>3, <2>1, RowsSame DEF RetryBegin, bank
  <2>3. staff[m] \in StaffRequest
    BY DEF Typed, StaffInv, StaffTyped
  <2>4. tx[p] # RetryTx /\ \A n \in Staff : Retrying(n) => staff[n].payment # p
    BY <2>2 DEF Money, StaffKnows, RetryKnows, NoTx, RetryTx
  <2>5. CASE RetryAllowed(p)
    <3>1. tx'[p] = RetryTx /\ \A q \in Payment \ {p} : tx'[q] = tx[q]
      BY <1>3, <2>1, <2>5 DEF RetryBegin, RetryAllowed, RetryTx, Typed, LocksInv, LocksTyped
    <3>2. granted[p] = 0 /\ Funded(p) /\ ~pay[p].refundRequested
      BY <2>5 DEF RetryAllowed, Money, Orders, OrderInv
    <3>3. staff' = [staff EXCEPT ![m].pc = "locked"]
      BY <1>3, <2>1, <2>5 DEF RetryBegin
    <3>4. /\ staff'[m].pc = "locked" /\ staff'[m].payment = p
          /\ \A n \in Staff \ {m} : staff'[n] = staff[n]
      BY <2>1, <2>3, <3>3 DEF StaffRequest, Typed, StaffInv, StaffTyped
    <3>5. QED  BY <2>2, <2>4, <3>1, <3>2, <3>4, MoneyStaffMove
  <2>6. CASE ~RetryAllowed(p)
    <3>1. staff' = [staff EXCEPT ![m].pc = "rejected"] /\ UNCHANGED tx
      BY <1>3, <2>1, <2>6 DEF RetryBegin
    <3>2. staff'[m].pc = "rejected" /\ \A n \in Staff \ {m} : staff'[n] = staff[n]
      BY <2>3, <3>1 DEF StaffRequest, Typed, StaffInv, StaffTyped
    <3>3. QED  BY <2>2, <2>4, <3>1, <3>2, MoneyStaffMove
  <2>7. QED  BY <2>5, <2>6
<1>4. CASE RetryGrant(m)
  BY <1>4, MoneyRetryGrant
<1>5. CASE RetryRefused(m)
  <2>1. PICK p \in Payment : p = staff[m].payment
    BY <1>5 DEF RetryRefused, Typed, StaffInv, StaffRefs
  <2>2. /\ SameOrders /\ UNCHANGED <<ledger, patch>>
        /\ tx'[p] = NoTx /\ \A q \in Payment \ {p} : tx'[q] = tx[q]
    BY <1>5, <2>1, RowsSame DEF RetryRefused, bank, Typed, LocksInv, LocksTyped
  <2>3. \A n \in Staff \ {m} : Retrying(n) => staff[n].payment # p
    BY <1>5, <2>1 DEF RetryRefused, Money, StaffKnows, Retrying
  <2>4. /\ staff'[m].pc \in {"idle", "rejected"}
        /\ \A n \in Staff \ {m} : staff'[n] = staff[n]
    BY <1>5 DEF RetryRefused, Typed, StaffInv, StaffTyped, StaffRequest, IdleStaff
  <2>5. QED  BY <2>2, <2>3, <2>4, MoneyStaffMove
<1>6. CASE RetryRejected(m)
  <2>1. PICK p \in Payment : p = staff[m].payment
    BY <1>6 DEF RetryRejected, Typed, StaffInv, StaffRefs
  <2>2. SameOrders /\ UNCHANGED <<ledger, patch, tx>>
    BY <1>6, <2>1 DEF RetryRejected, SameOrders, Typed, RowsTyped, PaymentRow, bank
  <2>3. staff'[m].pc = "idle" /\ \A n \in Staff \ {m} : staff'[n] = staff[n]
    BY <1>6 DEF RetryRejected, IdleStaff, Typed, StaffInv, StaffTyped
  <2>4. QED  BY <2>2, <2>3, MoneyStaffMove
<1>7. CASE ConfirmCommit(m)
  BY <1>7, MoneyConfirmCommit
<1>8. QED  BY <1>1, <1>2, <1>3, <1>4, <1>5, <1>6, <1>7 DEF StaffStep

--------------------------------------------------------------------------------

LEMMA NextMoney == Typed /\ Money /\ [Next]_vars => Money'
<1> SUFFICES ASSUME Typed, Money, [Next]_vars PROVE Money'
  OBVIOUS
<1>1. CASE UNCHANGED vars
  BY <1>1, MoneyFrame DEF vars, bank, requests
<1>2. CASE Next
  BY <1>2, MoneyCheckout, MoneyTime, MoneyBankCredit, MoneyWebhook, MoneyReconcile, MoneySettle,
     MoneyStaff, MoneyRefund, MoneyRight
  DEF Next
<1>3. QED  BY <1>1, <1>2

LEMMA AlwaysMoney == Spec => [](Typed /\ Money)
<1>1. Init => Typed /\ Money
  BY InitTyped, InitMoney
<1>2. Typed /\ Money /\ [Next]_vars => (Typed /\ Money)'
  BY NextTyped, NextMoney
<1>3. QED  BY <1>1, <1>2, PTL DEF Spec

\* One order, one subscription: no interleaving of webhooks, polls and retries
\* creates a second one.
THEOREM OneGrant == Spec => []GrantedOnce
<1>1. Typed /\ Money => GrantedOnce
  BY DEF Money, Orders, OrderInv, GrantedOnce
<1>2. QED  BY <1>1, AlwaysMoney, PTL

\* An order with a subscription has exactly one movement of money allocated to it.
THEOREM MoneyFirst == Spec => []MoneyBehindRight
<1>1. Typed /\ Money => MoneyBehindRight
  BY DEF Money, Orders, OrderInv, Allocations, MoneyBehindRight
<1>2. QED  BY <1>1, AlwaysMoney, PTL

\* A payment is returned at most once, on an approved request and from money taken.
THEOREM OneReturn == Spec => []ReturnedOnce
<1>1. Typed /\ Money => ReturnedOnce
  BY DEF Money, Orders, OrderInv, ReturnedOnce
<1>2. QED  BY <1>1, AlwaysMoney, PTL

--------------------------------------------------------------------------------
(* What a step can do to the promise of an order: nothing, or one of four  *)
(* things to one order.                                                    *)

Unmoved(p) ==
  /\ granted'[p] = granted[p] /\ (Funded(p)' <=> Funded(p))
  /\ pay'[p].refundRequested = pay[p].refundRequested
  /\ pay'[p].returned = pay[p].returned
Collected(p) ==
  /\ Clean(p) /\ Funded(p)' /\ granted'[p] = 0
  /\ ~pay'[p].refundRequested /\ pay'[p].returned = 0
Granted(p) ==
  /\ granted[p] = 0 /\ ~pay[p].refundRequested /\ pay[p].returned = 0
  /\ granted'[p] = 1 /\ ~pay'[p].refundRequested /\ pay'[p].returned = 0
Promised(p) ==
  /\ Funded(p) /\ ~pay[p].refundRequested /\ pay[p].returned = 0
  /\ Funded(p)' /\ pay'[p].refundRequested /\ pay'[p].returned = 0
  /\ granted'[p] = granted[p]
Returned(p) ==
  /\ Funded(p) /\ pay[p].refundRequested /\ pay[p].returned = 0
  /\ Funded(p)' /\ pay'[p].refundRequested /\ pay'[p].returned = 1
  /\ granted'[p] = granted[p] /\ right'[p] \notin {"LIVE", "ENDED"}
OneMoves ==
  \E p \in Payment :
    /\ \A q \in Payment \ {p} : Unmoved(q)
    /\ Unmoved(p) \/ Collected(p) \/ Granted(p) \/ Promised(p) \/ Returned(p)
StepKind == (\A q \in Payment : Unmoved(q)) \/ OneMoves

LEMMA SameUnmoved ==
  ASSUME SameOrders, SameFunds PROVE \A q \in Payment : Unmoved(q)
  BY SameFunded DEF SameOrders, Unmoved

LEMMA CheckoutKind ==
  ASSUME Typed, Money, NEW k \in Client, CheckoutStep(k)
  PROVE  StepKind
<1>1. UNCHANGED granted /\ \A q \in Payment : Funded(q)' <=> Funded(q)
  <2>1. UNCHANGED <<granted, ledger>>
    BY DEF CheckoutStep, CheckoutRead, CheckoutClose, CheckoutCreate, rows, bank
  <2>2. QED  BY <2>1, LedgerKept, SameFunded
<1>2. ASSUME NEW u \in Purpose, CheckoutRead(k, u) PROVE StepKind
  BY <1>2, RowsSame, LedgerKept, SameUnmoved DEF CheckoutRead, bank, StepKind
<1>3. CASE CheckoutClose(k)
  BY <1>1, <1>3 DEF CheckoutClose, Typed, RowsTyped, PaymentRow, StepKind, Unmoved
<1>4. CASE CheckoutCreate(k)
  <2>1. PICK p \in Payment : /\ pay[p].status = "NONE"
                             /\ pay' = [pay EXCEPT ![p] = NewOrder(checkout[k].purpose)]
    BY <1>4 DEF CheckoutCreate
  <2>2. pay'[p].refundRequested = FALSE /\ pay'[p].returned = 0
    BY <2>1 DEF NewOrder, NoRow, Typed, RowsTyped
  <2>3. pay[p].refundRequested = FALSE /\ pay[p].returned = 0
    BY <2>1 DEF Money, Orders, OrderInv, Clean, Typed, RowsTyped, PaymentRow
  <2>4. \A q \in Payment \ {p} : pay'[q] = pay[q]
    BY <2>1 DEF Typed, RowsTyped
  <2>5. QED  BY <1>1, <2>2, <2>3, <2>4 DEF StepKind, Unmoved
<1>5. QED  BY <1>2, <1>3, <1>4 DEF CheckoutStep

LEMMA TimeKind ==
  ASSUME Typed, NEW p \in Payment, Age(p) \/ CloseStale(p) \/ RightStep(p)
  PROVE  StepKind
<1>1. UNCHANGED <<granted, ledger>>
  BY DEF Age, CloseStale, RightStep, EndRight, PatchRead, PatchWrite, rows, bank
<1>2. \A q \in Payment : /\ pay'[q].refundRequested = pay[q].refundRequested
                         /\ pay'[q].returned = pay[q].returned
  BY DEF Age, CloseStale, RightStep, EndRight, PatchRead, PatchWrite, rows, Typed, RowsTyped,
     PaymentRow
<1>3. QED  BY <1>1, <1>2, LedgerKept, SameFunded DEF StepKind, Unmoved

LEMMA ChannelKind ==
  ASSUME \/ \E c \in Credit : WebhookStep(c) \/ \E t \in Transfer : BankCredit(c, t)
         \/ \E p \in Payment : ReconcileStep(p)
  PROVE  StepKind
<1>1. UNCHANGED <<rows, ledger>>
  BY DEF WebhookStep, WebhookIgnored, WebhookBegin, BankCredit, ReconcileStep, ReconcileFetch,
     ReconcileBegin, bank
<1>2. QED  BY <1>1, RowsSame, LedgerKept, SameUnmoved DEF StepKind

LEMMA SettleKind ==
  ASSUME Typed, Money, NEW p \in Payment, SettleStep(p) \/ SettleRollback(p)
  PROVE  StepKind
<1>1. ASSUME Settling(p), SameOrders, ledger' = Recorded(p) \/ ledger' = ledger
      PROVE  StepKind
  BY <1>1, LedgerRecorded, LedgerKept, SameUnmoved DEF Money, StepKind
<1>2. CASE SettleMismatch(p) \/ SettleDuplicate(p) \/ SettleAlreadyAllocated(p)
           \/ SettleRollback(p)
  BY <1>1, <1>2, RowsSame
  DEF SettleMismatch, SettleDuplicate, SettleAlreadyAllocated, SettleRollback, bank
<1>3. CASE SettleLate(p)
  <2>1. SameOrders
    BY <1>3 DEF SettleLate, SameOrders, Typed, RowsTyped, PaymentRow
  <2>2. QED  BY <1>1, <1>3, <2>1 DEF SettleLate
<1>4. ASSUME SettleGrant(p) \/ SettleReview(p)
      PROVE  /\ Clean(p) /\ Funded(p)'
             /\ \A q \in Payment \ {p} : Funded(q)' <=> Funded(q)
             /\ \A q \in Payment : /\ pay'[q].refundRequested = pay[q].refundRequested
                                   /\ pay'[q].returned = pay[q].returned
  <2>1. Clean(p)
    BY <1>4 DEF SettleGrant, SettleReview, Money, SettlesClean
  <2>2. /\ Funded(p)' /\ \A q \in Payment \ {p} : Funded(q)' <=> Funded(q)
    BY <1>4, <2>1, Allocate DEF SettleGrant, SettleReview
  <2>3. \A q \in Payment : /\ pay'[q].refundRequested = pay[q].refundRequested
                           /\ pay'[q].returned = pay[q].returned
    <3>1. CASE SettleGrant(p)
      BY <3>1 DEF SettleGrant, Typed, RowsTyped, PaymentRow
    <3>2. CASE SettleReview(p)
      BY <3>2 DEF SettleReview, Typed, RowsTyped, PaymentRow
    <3>3. QED  BY <1>4, <3>1, <3>2
  <2>4. QED  BY <2>1, <2>2, <2>3
<1>5. CASE SettleGrant(p)
  <2>1. granted'[p] = granted[p] + 1 /\ \A q \in Payment \ {p} : granted'[q] = granted[q]
    BY <1>5 DEF SettleGrant, GrantRow, Typed, RowsTyped
  <2>2. Granted(p) /\ \A q \in Payment \ {p} : Unmoved(q)
    BY <1>4, <1>5, <2>1 DEF Granted, Unmoved, Clean
  <2>3. QED  BY <2>2 DEF StepKind, OneMoves
<1>6. CASE SettleReview(p)
  <2>1. UNCHANGED granted
    BY <1>6 DEF SettleReview
  <2>2. Collected(p) /\ \A q \in Payment \ {p} : Unmoved(q)
    BY <1>4, <1>6, <2>1 DEF Collected, Unmoved, Clean
  <2>3. QED  BY <2>2 DEF StepKind, OneMoves
<1>7. QED  BY <1>2, <1>3, <1>5, <1>6 DEF SettleStep

LEMMA RefundKind ==
  ASSUME Typed, Money, NEW p \in Payment, RefundStep(p)
  PROVE  StepKind
<1>1. UNCHANGED <<granted, ledger>>
  BY DEF RefundStep, RequestUnactivatedRefund, CancelSubscription, bank
<1>2. \A q \in Payment : Funded(q)' <=> Funded(q)
  BY <1>1, LedgerKept, SameFunded
<1>3. /\ \A q \in Payment \ {p} : pay'[q] = pay[q]
      /\ pay'[p].returned = pay[p].returned
  BY DEF RefundStep, RequestUnactivatedRefund, CancelSubscription, Typed, RowsTyped, PaymentRow
<1>4. Unmoved(p) \/ (Refundable(p) /\ pay'[p].refundRequested)
  BY <1>1, <1>2, <1>3
  DEF RefundStep, RequestUnactivatedRefund, CancelSubscription, Typed, RowsTyped, PaymentRow,
      Unmoved
<1>5. Refundable(p) => pay[p].returned = 0 /\ Funded(p)
  BY DEF Refundable, Money, Orders, OrderInv, Typed, RowsTyped, PaymentRow
<1>6. \A q \in Payment \ {p} : Unmoved(q)
  BY <1>1, <1>2, <1>3 DEF Unmoved
<1>7. Unmoved(p) \/ Promised(p)
  BY <1>1, <1>2, <1>3, <1>4, <1>5 DEF Refundable, Promised
<1>8. QED  BY <1>6, <1>7 DEF StepKind, OneMoves

LEMMA StaffKind ==
  ASSUME Typed, Money, NEW m \in Staff, StaffStep(m)
  PROVE  StepKind
<1>1. UNCHANGED ledger /\ \A q \in Payment : Funded(q)' <=> Funded(q)
  <2>1. UNCHANGED ledger
    BY DEF StaffStep, RetryCheck, ConfirmRead, RetryBegin, RetryGrant, RetryRefused,
       RetryRejected, ConfirmCommit, bank
  <2>2. QED  BY <2>1, LedgerKept, SameFunded
<1>2. CASE \/ \E p \in Payment : RetryCheck(m, p) \/ ConfirmRead(m, p)
           \/ RetryBegin(m) \/ RetryRefused(m)
  <2>1. UNCHANGED rows
    BY <1>2 DEF RetryCheck, ConfirmRead, RetryBegin, RetryRefused
  <2>2. QED  BY <1>1, <2>1 DEF StepKind, Unmoved, rows
<1>3. CASE RetryRejected(m)
  <2>1. SameOrders
    BY <1>3 DEF RetryRejected, SameOrders, Typed, RowsTyped, PaymentRow
  <2>2. QED  BY <1>1, <2>1 DEF StepKind, Unmoved, SameOrders
<1>4. CASE RetryGrant(m)
  <2>1. PICK p \in Payment : p = staff[m].payment
    BY <1>4 DEF RetryGrant, Typed, StaffInv, StaffRefs
  <2>2. granted[p] = 0 /\ Funded(p) /\ ~pay[p].refundRequested
    BY <1>4, <2>1 DEF RetryGrant, Money, StaffKnows, Retrying, RetryKnows
  <2>3. pay[p].returned = 0
    BY <2>2 DEF Money, Orders, OrderInv, Typed, RowsTyped, PaymentRow
  <2>4. \A q \in Payment : /\ pay'[q].refundRequested = pay[q].refundRequested
                           /\ pay'[q].returned = pay[q].returned
    BY <1>4 DEF RetryGrant, Typed, RowsTyped, PaymentRow
  <2>5. granted'[p] = 1 /\ \A q \in Payment \ {p} : granted'[q] = granted[q]
    BY <1>4, <2>1, <2>2 DEF RetryGrant, GrantRow, Typed, RowsTyped
  <2>6. Granted(p) /\ \A q \in Payment \ {p} : Unmoved(q)
    BY <1>1, <2>2, <2>3, <2>4, <2>5 DEF Granted, Unmoved
  <2>7. QED  BY <2>6 DEF StepKind, OneMoves
<1>5. CASE ConfirmCommit(m)
  <2>1. PICK p \in Payment : p = staff[m].payment
    BY <1>5 DEF ConfirmCommit, Typed, StaffInv, StaffRefs
  <2>2. pay[p].refundRequested /\ (staff[m].pc = "withoutRight" <=> right[p] = "NONE")
    BY <1>5, <2>1 DEF ConfirmCommit, Money, StaffKnows, ConfirmKnows
  <2>3. CASE ~StillCollected(p)
    BY <1>1, <1>5, <2>1, <2>3 DEF ConfirmCommit, StepKind, Unmoved
  <2>4. CASE StillCollected(p)
    <3>1. pay' = [pay EXCEPT ![p] = [@ EXCEPT !.status = "REFUNDED",
                                              !.returned = pay[p].returned + 1]]
      BY <1>5, <2>1, <2>4 DEF ConfirmCommit
    <3>2. right' = IF staff[m].pc = "withRight" /\ right[p] # "NONE"
                   THEN [right EXCEPT ![p] = "CANCELLED"] ELSE right
      BY <1>5, <2>1, <2>4 DEF ConfirmCommit
    <3>3. pay[p].returned = 0 /\ Funded(p)
      BY <2>2, <2>4 DEF StillCollected, Money, Orders, OrderInv, Typed, RowsTyped, PaymentRow
    <3>4. /\ pay'[p].returned = 1 /\ pay'[p].refundRequested
          /\ \A q \in Payment \ {p} : pay'[q] = pay[q]
      BY <2>2, <3>1, <3>3 DEF Typed, RowsTyped, PaymentRow
    <3>5. staff[m].pc \in {"withRight", "withoutRight"}
      BY <1>5 DEF ConfirmCommit
    <3>6. right'[p] \notin {"LIVE", "ENDED"}
      BY <2>2, <3>2, <3>5 DEF Typed, RowsTyped
    <3>7. UNCHANGED granted
      BY <1>5 DEF ConfirmCommit
    <3>8. Returned(p) /\ \A q \in Payment \ {p} : Unmoved(q)
      BY <1>1, <2>2, <3>3, <3>4, <3>6, <3>7 DEF Returned, Unmoved
    <3>9. QED  BY <3>8 DEF StepKind, OneMoves
  <2>5. QED  BY <2>3, <2>4
<1>6. QED  BY <1>2, <1>3, <1>4, <1>5 DEF StaffStep

LEMMA NextKind ==
  ASSUME Typed, Money, [Next]_vars
  PROVE  StepKind
<1>1. CASE UNCHANGED vars
  BY <1>1, RowsSame, LedgerKept, SameUnmoved DEF vars, bank, StepKind
<1>2. CASE Next
  BY <1>2, CheckoutKind, TimeKind, ChannelKind, SettleKind, RefundKind, StaffKind DEF Next
<1>3. QED  BY <1>1, <1>2

\* No subscription comes from a payment whose refund is approved.
THEOREM RefundIsFinal == Spec => NoGrantAfterRefund
<1> DEFINE A == \A p \in Payment : granted'[p] # granted[p] => ~pay[p].refundRequested
<1>1. Typed /\ Money /\ [Next]_vars => A
  BY NextKind DEF StepKind, OneMoves, Unmoved, Collected, Granted, Promised, Returned, Clean
<1>2. QED  BY <1>1, AlwaysMoney, PTL DEF Spec, NoGrantAfterRefund

\* Confirming a refund leaves no usable subscription behind, stale read or not.
THEOREM ReturnRevokes == Spec => RefundRevokes
<1> DEFINE A == \A p \in Payment :
                 pay'[p].returned # pay[p].returned => right'[p] \notin {"LIVE", "ENDED"}
<1>1. Typed /\ Money /\ [Next]_vars => A
  BY NextKind DEF StepKind, OneMoves, Unmoved, Collected, Granted, Promised, Returned, Clean
<1>2. QED  BY <1>1, AlwaysMoney, PTL DEF Spec, RefundRevokes

--------------------------------------------------------------------------------
(* The settlement implements PaidRights.                                   *)

LEMMA InitPromise == Init => Promise!Init
  BY DEF Init, Promise!Init, Phase, Funded, Funds, NoRow, EmptyRow

\* The two functions of the promise after a step that moves only order p.
LEMMA PromiseMove ==
  ASSUME NEW p \in Payment, \A q \in Payment \ {p} : Unmoved(q)
  PROVE  /\ [q \in Payment |-> Phase(q)]' =
              [[q \in Payment |-> Phase(q)] EXCEPT ![p] = Phase(p)']
         /\ [q \in Payment |-> pay[q].refundRequested]' =
              [[q \in Payment |-> pay[q].refundRequested] EXCEPT ![p] = pay'[p].refundRequested]
<1>1. \A q \in Payment \ {p} :
        Phase(q)' = Phase(q) /\ pay'[q].refundRequested = pay[q].refundRequested
  BY DEF Unmoved, Phase
<1>2. QED  BY <1>1

LEMMA StepPromise ==
  ASSUME Typed, Money, [Next]_vars
  PROVE  [Promise!Next]_(Promise!vars)
<1>1. CASE \A q \in Payment : Unmoved(q)
  BY <1>1 DEF Unmoved, Phase, Promise!vars
<1>2. ASSUME NEW p \in Payment, \A q \in Payment \ {p} : Unmoved(q),
             Unmoved(p) \/ Collected(p) \/ Granted(p) \/ Promised(p) \/ Returned(p)
      PROVE  [Promise!Next]_(Promise!vars)
  <2>1. pay[p].refundRequested \in BOOLEAN /\ pay'[p].refundRequested \in BOOLEAN
        /\ granted[p] \in Nat
    BY NextTyped DEF Typed, RowsTyped, PaymentRow
  <2>2. CASE Unmoved(p)
    BY <1>1, <1>2, <2>2
  <2>3. CASE Collected(p)
    <3>1. Phase(p) = "unpaid" /\ Phase(p)' = "held"
      BY <2>3 DEF Collected, Clean, Phase
    <3>2. pay'[p].refundRequested = pay[p].refundRequested
      BY <2>1, <2>3 DEF Collected, Clean
    <3>3. Promise!Collect(p)
      BY <1>2, <3>1, <3>2, PromiseMove DEF Promise!Collect
    <3>4. QED  BY <3>3 DEF Promise!Next
  <2>4. CASE Granted(p)
    <3>1. Phase(p) \in {"unpaid", "held"} /\ Phase(p)' = "granted"
      BY <2>4 DEF Granted, Phase
    <3>2. ~pay[p].refundRequested /\ pay'[p].refundRequested = pay[p].refundRequested
      BY <2>1, <2>4 DEF Granted
    <3>3. Promise!Grant(p)
      BY <1>2, <3>1, <3>2, PromiseMove DEF Promise!Grant
    <3>4. QED  BY <3>3 DEF Promise!Next
  <2>5. CASE Promised(p)
    <3>1. Phase(p) \in {"held", "granted"} /\ Phase(p)' = Phase(p)
      BY <2>5 DEF Promised, Phase
    <3>2. ~pay[p].refundRequested /\ pay'[p].refundRequested = TRUE
      BY <2>1, <2>5 DEF Promised
    <3>3. Promise!PromiseRefund(p)
      BY <1>2, <3>1, <3>2, PromiseMove DEF Promise!PromiseRefund
    <3>4. QED  BY <3>3 DEF Promise!Next
  <2>6. CASE Returned(p)
    <3>1. Phase(p) \in {"held", "granted"} /\ Phase(p)' = "returned"
      BY <2>6 DEF Returned, Phase
    <3>2. pay[p].refundRequested /\ pay'[p].refundRequested = pay[p].refundRequested
      BY <2>1, <2>6 DEF Returned
    <3>3. Promise!Return(p)
      BY <1>2, <3>1, <3>2, PromiseMove DEF Promise!Return
    <3>4. QED  BY <3>3 DEF Promise!Next
  <2>7. QED  BY <1>2, <2>2, <2>3, <2>4, <2>5, <2>6
<1>3. QED  BY <1>1, <1>2, NextKind DEF StepKind, OneMoves

\* Every behaviour of the settlement keeps the promise: a right only for money, one
\* right per order, none once a refund is approved, one return per approval.
THEOREM Refinement == Spec => KeepsPromise
<1>1. Typed /\ Money /\ [Next]_vars => [Promise!Next]_(Promise!vars)
  BY StepPromise
<1>2. QED  BY <1>1, InitPromise, AlwaysMoney, PTL DEF Spec, KeepsPromise, Promise!Spec

--------------------------------------------------------------------------------
(* Money stays in view.  An order that was lost when a transfer came can   *)
(* only be revived by a transaction that read it as PENDING or SUCCESS     *)
(* under the lock, and while such a one holds the lock nothing is LATE.    *)

Lost == {"FAILED", "REFUNDED"}
Reviving(p) == tx[p].seen \in {"PENDING", "SUCCESS"}

EventsArrived == \A c \in Credit : event[c] # "NONE" => c \in arrived
Delivers(p, c) == c \in arrived /\ transfer[c].code = p
WebhooksArrived == \A p \in Payment : tx[p].kind = "WEBHOOK" => Delivers(p, tx[p].credit)
LostStays == \A p \in Payment : tx[p].seen \in Lost => pay[p].status \in Lost
LateInReview ==
  \A c \in Credit : event[c] = "LATE" =>
    \E p \in Payment :
      /\ transfer[c].code = p /\ ~Reviving(p)
      /\ pay[p].status \in Lost /\ pay[p].activation = "REQUIRES_REVIEW"
PaidInView ==
  \A c \in Credit : event[c] = "PROCESSED" =>
    \E p \in Payment : transfer[c].code = p /\ Funded(p) /\ pay[p].activation # "NULL"
InView == EventsArrived /\ WebhooksArrived /\ LostStays /\ LateInReview /\ PaidInView

\* What every step does to an order, its lock and the events.
RowHolds(p) ==
  /\ Opened(p) /\ pay[p].activation # "NULL" => pay'[p].activation # "NULL"
  /\ pay[p].status \in Lost /\ ~Reviving(p) =>
       /\ pay'[p].status \in Lost
       /\ pay[p].activation = "REQUIRES_REVIEW" => pay'[p].activation = "REQUIRES_REVIEW"
LockHolds(p) ==
  \/ tx'[p] = tx[p] \/ tx'[p] = NoTx
  \/ /\ pay'[p].status = pay[p].status /\ tx'[p].seen = pay[p].status
     /\ tx'[p].kind = "WEBHOOK" => Delivers(p, tx'[p].credit)
BankHolds == \A c \in arrived : c \in arrived' /\ transfer'[c] = transfer[c]
EventHolds(c) ==
  \/ event'[c] = event[c]
  \/ /\ c \in arrived
     /\ event'[c] = "LATE" =>
          \E p \in Payment :
            /\ transfer[c].code = p /\ tx'[p] = NoTx
            /\ pay'[p].status \in Lost /\ pay'[p].activation = "REQUIRES_REVIEW"
     /\ event'[c] = "PROCESSED" =>
          \E p \in Payment :
            transfer[c].code = p /\ Funded(p)' /\ pay'[p].activation # "NULL"
ViewStep ==
  /\ \A p \in Payment : RowHolds(p) /\ LockHolds(p)
  /\ BankHolds /\ \A c \in Credit : EventHolds(c)

LEMMA InitView == Init => InView
  BY DEF Init, InView, EventsArrived, WebhooksArrived, LostStays, LateInReview, PaidInView, NoTx,
     Lost

\* Money that has been allocated to an order is never taken from it.
LEMMA FundedStays ==
  ASSUME Typed, Money, Money', StepKind, NEW p \in Payment, Funded(p)
  PROVE  Funded(p)'
<1>1. CASE Unmoved(p)
  BY <1>1 DEF Unmoved
<1>2. CASE Collected(p) \/ Promised(p) \/ Returned(p)
  BY <1>2 DEF Collected, Promised, Returned
<1>3. CASE Granted(p)
  <2>1. granted'[p] > 0
    BY <1>3 DEF Granted
  <2>2. QED  BY <2>1 DEF Money, Orders, OrderInv
<1>4. QED  BY <1>1, <1>2, <1>3 DEF StepKind, OneMoves

LEMMA ViewKept ==
  ASSUME Typed, InView, ViewStep, \A p \in Payment : Funded(p) => Funded(p)'
  PROVE  InView'
<1>1. EventsArrived'
  BY DEF InView, EventsArrived, ViewStep, BankHolds, EventHolds
<1>2. WebhooksArrived'
  BY DEF InView, WebhooksArrived, ViewStep, LockHolds, BankHolds, Delivers, NoTx
<1>3. LostStays'
  <2>1. ASSUME NEW p \in Payment, tx'[p].seen \in Lost PROVE pay'[p].status \in Lost
    <3>1. CASE tx'[p] = tx[p]
      BY <2>1, <3>1 DEF InView, LostStays, ViewStep, RowHolds, Reviving, Lost
    <3>2. CASE tx'[p] = NoTx
      BY <2>1, <3>2 DEF NoTx, Lost
    <3>3. QED  BY <2>1, <3>1, <3>2 DEF ViewStep, LockHolds
  <2>2. QED  BY <2>1 DEF LostStays
<1>4. LateInReview'
  <2>1. ASSUME NEW c \in Credit, event'[c] = "LATE", event'[c] = event[c]
        PROVE  \E p \in Payment :
                 /\ transfer'[c].code = p /\ ~Reviving(p)'
                 /\ pay'[p].status \in Lost /\ pay'[p].activation = "REQUIRES_REVIEW"
    <3>1. PICK p \in Payment :
            /\ transfer[c].code = p /\ ~Reviving(p)
            /\ pay[p].status \in Lost /\ pay[p].activation = "REQUIRES_REVIEW"
      BY <2>1 DEF InView, LateInReview
    <3>2. transfer'[c] = transfer[c]
      BY <2>1 DEF InView, EventsArrived, ViewStep, BankHolds
    <3>3. pay'[p].status \in Lost /\ pay'[p].activation = "REQUIRES_REVIEW"
      BY <3>1 DEF ViewStep, RowHolds
    <3>4. ~Reviving(p)'
      BY <3>1 DEF ViewStep, LockHolds, Reviving, NoTx, Lost
    <3>5. QED  BY <3>1, <3>2, <3>3, <3>4
  <2>2. ASSUME NEW c \in Credit, event'[c] = "LATE", event'[c] # event[c]
        PROVE  \E p \in Payment :
                 /\ transfer'[c].code = p /\ ~Reviving(p)'
                 /\ pay'[p].status \in Lost /\ pay'[p].activation = "REQUIRES_REVIEW"
    BY <2>2 DEF ViewStep, EventHolds, BankHolds, Reviving, NoTx
  <2>3. QED  BY <2>1, <2>2 DEF LateInReview
<1>5. PaidInView'
  <2>1. ASSUME NEW c \in Credit, event'[c] = "PROCESSED", event'[c] = event[c]
        PROVE  \E p \in Payment :
                 transfer'[c].code = p /\ Funded(p)' /\ pay'[p].activation # "NULL"
    <3>1. PICK p \in Payment :
            transfer[c].code = p /\ Funded(p) /\ pay[p].activation # "NULL"
      BY <2>1 DEF InView, PaidInView
    <3>2. transfer'[c] = transfer[c]
      BY <2>1 DEF InView, EventsArrived, ViewStep, BankHolds
    <3>3. Opened(p)
      BY <3>1 DEF Typed, BankInv, BankRefs
    <3>4. QED  BY <3>1, <3>2, <3>3 DEF ViewStep, RowHolds
  <2>2. ASSUME NEW c \in Credit, event'[c] = "PROCESSED", event'[c] # event[c]
        PROVE  \E p \in Payment :
                 transfer'[c].code = p /\ Funded(p)' /\ pay'[p].activation # "NULL"
    BY <2>2 DEF ViewStep, EventHolds, BankHolds
  <2>3. QED  BY <2>1, <2>2 DEF PaidInView
<1>6. QED  BY <1>1, <1>2, <1>3, <1>4, <1>5 DEF InView

\* Most steps leave bank and locks alone and close orders at most.
LEMMA QuietView ==
  ASSUME UNCHANGED <<bank, tx>>, \A p \in Payment : RowHolds(p)
  PROVE  ViewStep
  BY DEF bank, ViewStep, LockHolds, BankHolds, EventHolds

LEMMA SameRow == ASSUME NEW p \in Payment, pay'[p] = pay[p] PROVE RowHolds(p)
  BY DEF RowHolds

LEMMA CheckoutView ==
  ASSUME Typed, NEW k \in Client, CheckoutStep(k)
  PROVE  ViewStep
<1>1. UNCHANGED <<bank, tx>>
  BY DEF CheckoutStep, CheckoutRead, CheckoutClose, CheckoutCreate
<1>2. ASSUME NEW u \in Purpose, CheckoutRead(k, u) PROVE \A p \in Payment : RowHolds(p)
  BY <1>2, SameRow DEF CheckoutRead, rows
<1>3. ASSUME CheckoutClose(k) PROVE \A p \in Payment : RowHolds(p)
  BY <1>3 DEF CheckoutClose, Typed, RowsTyped, PaymentRow, RowHolds, Lost
<1>4. ASSUME CheckoutCreate(k) PROVE \A p \in Payment : RowHolds(p)
  BY <1>4 DEF CheckoutCreate, Typed, RowsTyped, PaymentRow, RowHolds, Lost, Opened
<1>5. QED  BY <1>1, <1>2, <1>3, <1>4, QuietView DEF CheckoutStep

LEMMA OwnView ==
  ASSUME Typed, NEW p \in Payment, Age(p) \/ CloseStale(p) \/ RightStep(p) \/ RefundStep(p)
  PROVE  ViewStep
<1>1. UNCHANGED <<bank, tx>>
  BY DEF Age, CloseStale, RightStep, EndRight, PatchRead, PatchWrite, RefundStep,
     RequestUnactivatedRefund, CancelSubscription
<1>2. \A q \in Payment :
        /\ pay'[q].activation = pay[q].activation
        /\ pay'[q].status = pay[q].status \/ pay'[q].status = "FAILED"
  BY DEF Age, CloseStale, RightStep, EndRight, PatchRead, PatchWrite, RefundStep,
     RequestUnactivatedRefund, CancelSubscription, rows, Typed, RowsTyped, PaymentRow
<1>3. QED  BY <1>1, <1>2, QuietView DEF RowHolds, Lost

LEMMA ChannelView ==
  ASSUME Typed, \/ \E c \in Credit : WebhookStep(c) \/ \E t \in Transfer : BankCredit(c, t)
                \/ \E p \in Payment : ReconcileStep(p)
  PROVE  ViewStep
<1>1. \A p \in Payment : RowHolds(p)
  BY SameRow DEF WebhookStep, WebhookIgnored, WebhookBegin, BankCredit, ReconcileStep,
     ReconcileFetch, ReconcileBegin, rows
<1>2. ASSUME NEW c \in Credit, NEW t \in Transfer, BankCredit(c, t) PROVE ViewStep
  <2>1. BankHolds
    BY <1>2 DEF BankCredit, BankHolds, Typed, BankInv, BankTyped
  <2>2. QED  BY <1>1, <1>2, <2>1 DEF BankCredit, ViewStep, LockHolds, EventHolds
<1>3. ASSUME NEW c \in Credit, WebhookIgnored(c) PROVE ViewStep
  <2>1. \A d \in Credit : EventHolds(d)
    BY <1>3 DEF WebhookIgnored, EventHolds, Typed, BankInv, BankTyped
  <2>2. QED  BY <1>1, <1>3, <2>1 DEF WebhookIgnored, ViewStep, LockHolds, BankHolds
<1>4. ASSUME NEW c \in Credit, WebhookBegin(c) PROVE ViewStep
  <2>1. \A p \in Payment : LockHolds(p)
    BY <1>4 DEF WebhookBegin, rows, LockHolds, Delivers, Typed, LocksInv, LocksTyped
  <2>2. QED  BY <1>1, <1>4, <2>1 DEF WebhookBegin, bank, ViewStep, BankHolds, EventHolds
<1>5. ASSUME NEW p \in Payment, ReconcileStep(p) PROVE ViewStep
  <2>1. \A q \in Payment : LockHolds(q)
    BY <1>5 DEF ReconcileStep, ReconcileFetch, ReconcileBegin, rows, LockHolds, Typed, LocksInv,
       LocksTyped
  <2>2. UNCHANGED bank
    BY <1>5 DEF ReconcileStep, ReconcileFetch, ReconcileBegin
  <2>3. QED  BY <1>1, <2>1, <2>2 DEF bank, ViewStep, BankHolds, EventHolds
<1>6. QED  BY <1>2, <1>3, <1>4, <1>5 DEF WebhookStep

\* A settlement ends: the event of its own credit alone is written, and its lock is free.
LEMMA FinishView ==
  ASSUME Typed, WebhooksArrived, NEW p \in Payment, Settling(p), NEW o \in Outcome,
         Finish(p, o), \A q \in Payment : RowHolds(q),
         o = "LATE" => pay'[p].status \in Lost /\ pay'[p].activation = "REQUIRES_REVIEW",
         o = "PROCESSED" => Funded(p)' /\ pay'[p].activation # "NULL"
  PROVE  ViewStep
<1>1. \A q \in Payment : LockHolds(q) /\ tx'[p] = NoTx
  BY DEF Finish, LockHolds, Typed, LocksInv, LocksTyped
<1>2. BankHolds
  BY DEF Finish, BankHolds
<1>3. CASE tx[p].kind = "WEBHOOK"
  <2>1. Delivers(p, tx[p].credit)
    BY <1>3 DEF WebhooksArrived
  <2>2. event' = [event EXCEPT ![tx[p].credit] = o]
    BY <1>3 DEF Finish
  <2>3. \A c \in Credit \ {tx[p].credit} : EventHolds(c)
    BY <2>2 DEF EventHolds, Typed, BankInv, BankTyped
  <2>4. tx[p].credit \in Credit /\ event'[tx[p].credit] = o
    BY <2>2, LedgerStep DEF Typed, BankInv, BankTyped
  <2>5. EventHolds(tx[p].credit)
    BY <1>1, <2>1, <2>4 DEF EventHolds, Delivers
  <2>6. QED  BY <1>1, <1>2, <2>3, <2>5 DEF ViewStep
<1>4. CASE tx[p].kind # "WEBHOOK"
  BY <1>1, <1>2, <1>4 DEF Finish, EventHolds, ViewStep
<1>5. QED  BY <1>3, <1>4

LEMMA SettleView ==
  ASSUME Typed, Money, InView, NEW p \in Payment, SettleStep(p) \/ SettleRollback(p)
  PROVE  ViewStep
<1> USE DEF Outcome
<1>1. WebhooksArrived
  BY DEF InView
<1>2. CASE SettleRollback(p)
  <2>1. \A q \in Payment : RowHolds(q)
    BY <1>2, SameRow DEF SettleRollback, rows
  <2>2. \A q \in Payment : LockHolds(q)
    BY <1>2 DEF SettleRollback, LockHolds, Typed, LocksInv, LocksTyped
  <2>3. QED  BY <1>2, <2>1, <2>2 DEF SettleRollback, bank, ViewStep, BankHolds, EventHolds
<1>3. CASE SettleMismatch(p) \/ SettleDuplicate(p) \/ SettleAlreadyAllocated(p)
  <2>1. \A q \in Payment : RowHolds(q)
    BY <1>3, SameRow DEF SettleMismatch, SettleDuplicate, SettleAlreadyAllocated, rows
  <2>2. PICK o \in {"MISMATCH", "DUPLICATE"} : Settling(p) /\ Finish(p, o)
    BY <1>3 DEF SettleMismatch, SettleDuplicate, SettleAlreadyAllocated
  <2>3. QED  BY <1>1, <2>1, <2>2, FinishView
<1>4. CASE SettleLate(p)
  <2>1. tx[p].seen \in Status \ {"NONE"}
    BY <1>4 DEF SettleLate, Settling, Typed, LocksInv, LocksTyped, Tx, SettleTx, NoTx, RetryTx
  <2>2. pay[p].status \in Lost
    BY <1>4, <2>1 DEF SettleLate, Status, Lost, InView, LostStays
  <2>3. /\ pay'[p].activation = "REQUIRES_REVIEW" /\ pay'[p].status = pay[p].status
        /\ \A q \in Payment \ {p} : pay'[q] = pay[q]
    BY <1>4 DEF SettleLate, Typed, RowsTyped, PaymentRow
  <2>4. \A q \in Payment : RowHolds(q)
    BY <2>2, <2>3 DEF RowHolds
  <2>5. QED  BY <1>1, <1>4, <2>2, <2>3, <2>4, FinishView DEF SettleLate
<1>5. CASE SettleGrant(p) \/ SettleReview(p)
  <2>1. /\ Settling(p) /\ tx[p].seen = "PENDING" /\ CanAllocate(p) /\ Finish(p, "PROCESSED")
        /\ ledger' = [Recorded(p) EXCEPT ![ExtOf(p)].payment = p]
    BY <1>5 DEF SettleGrant, SettleReview
  <2>2. Funded(p)'
    BY <2>1, Allocate DEF Money, SettlesClean
  <2>3. pay'[p].activation # "NULL" /\ \A q \in Payment \ {p} : pay'[q] = pay[q]
    BY <1>5 DEF SettleGrant, SettleReview, Typed, RowsTyped, PaymentRow
  <2>4. \A q \in Payment : RowHolds(q)
    BY <2>1, <2>3 DEF RowHolds, Reviving
  <2>5. QED  BY <1>1, <2>1, <2>2, <2>3, <2>4, FinishView
<1>6. QED  BY <1>2, <1>3, <1>4, <1>5 DEF SettleStep

LEMMA StaffView ==
  ASSUME Typed, Money, NEW m \in Staff, StaffStep(m)
  PROVE  ViewStep
<1> DEFINE p == staff[m].payment
<1>1. staff[m].pc # "idle" => p \in Payment
  BY DEF Typed, StaffInv, StaffRefs
<1>2. UNCHANGED bank
  BY DEF StaffStep, RetryCheck, ConfirmRead, RetryBegin, RetryGrant, RetryRefused,
     RetryRejected, ConfirmCommit
<1>3. BankHolds /\ \A c \in Credit : EventHolds(c)
  BY <1>2 DEF bank, BankHolds, EventHolds
<1>4. ASSUME NEW q \in Payment, RetryCheck(m, q) \/ ConfirmRead(m, q) PROVE ViewStep
  BY <1>2, <1>4, SameRow, QuietView DEF RetryCheck, ConfirmRead, rows
<1>5. CASE RetryBegin(m)
  <2>1. \A q \in Payment : RowHolds(q)
    BY <1>5, SameRow DEF RetryBegin, rows
  <2>2. \A q \in Payment : LockHolds(q)
    BY <1>5 DEF RetryBegin, RetryTx, rows, LockHolds, Typed, LocksInv, LocksTyped
  <2>3. QED  BY <1>3, <2>1, <2>2 DEF ViewStep
<1>6. CASE RetryGrant(m)
  <2>1. tx[p] = RetryTx /\ p \in Payment
    BY <1>1, <1>6 DEF RetryGrant, Money, StaffKnows, Retrying, RetryKnows
  <2>2. pay'[p].activation # "NULL" /\ \A q \in Payment \ {p} : pay'[q] = pay[q]
    BY <1>6, <2>1 DEF RetryGrant, Typed, RowsTyped, PaymentRow
  <2>3. \A q \in Payment : RowHolds(q)
    BY <2>1, <2>2 DEF RowHolds, Reviving, RetryTx
  <2>4. \A q \in Payment : LockHolds(q)
    BY <1>6 DEF RetryGrant, LockHolds, Typed, LocksInv, LocksTyped
  <2>5. QED  BY <1>3, <2>3, <2>4 DEF ViewStep
<1>7. CASE RetryRefused(m)
  <2>1. \A q \in Payment : RowHolds(q)
    BY <1>7, SameRow DEF RetryRefused, rows
  <2>2. \A q \in Payment : LockHolds(q)
    BY <1>7 DEF RetryRefused, LockHolds, Typed, LocksInv, LocksTyped
  <2>3. QED  BY <1>3, <2>1, <2>2 DEF ViewStep
<1>8. CASE RetryRejected(m) \/ ConfirmCommit(m)
  <2>1. \A q \in Payment :
          /\ pay'[q].activation = pay[q].activation
          /\ pay'[q].status = pay[q].status \/ pay'[q].status = "REFUNDED"
    <3>1. CASE RetryRejected(m)
      BY <3>1 DEF RetryRejected, Typed, RowsTyped, PaymentRow
    <3>2. CASE ConfirmCommit(m)
      <4>1. pay' = pay \/ pay' = [pay EXCEPT ![p] = [pay[p] EXCEPT !.status = "REFUNDED",
                                                     !.returned = pay[p].returned + 1]]
        BY <3>2 DEF ConfirmCommit
      <4>2. pay[p] \in PaymentRow
        BY <1>1, <3>2 DEF ConfirmCommit, Typed, RowsTyped
      <4> DEFINE row == [pay[p] EXCEPT !.status = "REFUNDED", !.returned = pay[p].returned + 1]
      <4>3. row.activation = pay[p].activation /\ row.status = "REFUNDED"
        BY <4>2 DEF PaymentRow
      <4>4. pay' = pay \/ pay' = [pay EXCEPT ![p] = row]
        BY <4>1
      <4> HIDE DEF row, p
      <4>5. QED  BY <4>3, <4>4 DEF Typed, RowsTyped
    <3>3. QED  BY <1>8, <3>1, <3>2
  <2>2. UNCHANGED tx
    BY <1>8 DEF RetryRejected, ConfirmCommit
  <2>3. QED  BY <1>2, <2>1, <2>2, QuietView DEF RowHolds, Lost
<1>9. QED  BY <1>4, <1>5, <1>6, <1>7, <1>8 DEF StaffStep

LEMMA NextFunded ==
  ASSUME Typed, Money, [Next]_vars
  PROVE  Money' /\ \A p \in Payment : Funded(p) => Funded(p)'
  BY NextKind, NextMoney, FundedStays

LEMMA StepView == ASSUME Typed, Money, InView, [Next]_vars PROVE ViewStep
<1>1. CASE UNCHANGED vars
  BY <1>1, SameRow, QuietView DEF vars, rows
<1>2. CASE Next
  BY <1>2, CheckoutView, OwnView, ChannelView, SettleView, StaffView DEF Next
<1>3. QED  BY <1>1, <1>2

LEMMA NextView == Typed /\ Money /\ InView /\ [Next]_vars => InView'
  BY NextFunded, StepView, ViewKept

LEMMA AlwaysView == Spec => []InView
  BY InitView, NextView, AlwaysMoney, PTL DEF Spec

\* Money taken for a plan, or come too late for it, never drops out of sight, however
\* many transfers, retries, closings and refunds meet at the order.
THEOREM MoneyStaysInView == Spec => []MoneyInView
<1>1. InView => MoneyInView
  BY DEF InView, LateInReview, PaidInView, MoneyInView
<1>2. QED  BY <1>1, AlwaysView, PTL

--------------------------------------------------------------------------------
(* The life of an order.  What the locked transactions know of it leaves   *)
(* two statuses to write SUCCESS over, so that the only step outside the   *)
(* lifecycle is the checkout's, and its consequence under a lock.          *)

Lives(p) ==
  pay'[p].status # pay[p].status =>
    \/ <<pay[p].status, pay'[p].status>> \in Lifecycle
    \/ ClosedByCheckout(p) \/ ReadBeforeClosed(p)

LEMMA SameLives == ASSUME NEW p \in Payment, pay'[p].status = pay[p].status PROVE Lives(p)
  BY DEF Lives

LEMMA CheckoutLives ==
  ASSUME Typed, NEW k \in Client, CheckoutStep(k), NEW p \in Payment
  PROVE  Lives(p)
<1>1. ASSUME NEW u \in Purpose, CheckoutRead(k, u) PROVE Lives(p)
  BY <1>1, SameLives DEF CheckoutRead, rows
<1>2. CASE CheckoutClose(k)
  <2>1. pay' = [pay EXCEPT ![checkout[k].pending].status = "FAILED"]
    BY <1>2 DEF CheckoutClose
  <2>2. p # checkout[k].pending => pay'[p] = pay[p]
    BY <2>1 DEF Typed, RowsTyped
  <2>3. p = checkout[k].pending => pay'[p].status = "FAILED"
    BY <2>1 DEF Typed, RowsTyped, PaymentRow
  <2>4. CASE p = checkout[k].pending
    BY <1>2, <2>3, <2>4 DEF Lives, ClosedByCheckout
  <2>5. CASE p # checkout[k].pending
    BY <2>2, <2>5, SameLives
  <2>6. QED  BY <2>4, <2>5
<1>3. CASE CheckoutCreate(k)
  <2>1. PICK q \in Payment : /\ pay[q].status = "NONE"
                             /\ pay' = [pay EXCEPT ![q] = NewOrder(checkout[k].purpose)]
    BY <1>3 DEF CheckoutCreate
  <2>2. pay'[q].status = "PENDING" /\ \A r \in Payment \ {q} : pay'[r] = pay[r]
    BY <2>1 DEF NewOrder, NoRow, Typed, RowsTyped
  <2>3. QED  BY <2>1, <2>2 DEF Lives, Lifecycle
<1>4. QED  BY <1>1, <1>2, <1>3 DEF CheckoutStep

LEMMA OwnLives ==
  ASSUME Typed, NEW q \in Payment, NEW p \in Payment,
         Age(q) \/ CloseStale(q) \/ RightStep(q) \/ RefundStep(q)
  PROVE  Lives(p)
<1>1. CASE Age(q) \/ RightStep(q) \/ RefundStep(q)
  <2>1. pay'[p].status = pay[p].status
    BY <1>1 DEF Age, RightStep, EndRight, PatchRead, PatchWrite, RefundStep,
       RequestUnactivatedRefund, CancelSubscription, rows, Typed, RowsTyped, PaymentRow
  <2>2. QED  BY <2>1, SameLives
<1>2. CASE CloseStale(q)
  BY <1>2 DEF CloseStale, Typed, RowsTyped, PaymentRow, Lives, Lifecycle
<1>3. QED  BY <1>1, <1>2

\* A transaction that settles or retries finds its order unpaid and open, collected,
\* or closed under its hands.
LEMMA SettledFrom ==
  ASSUME Typed, Money, NEW p \in Payment, Settling(p), tx[p].seen = "PENDING"
  PROVE  pay[p].status \in {"PENDING", "FAILED"}
<1>1. Clean(p)
  BY DEF Money, SettlesClean
<1>2. pay[p].status \notin {"SUCCESS", "REFUNDED"}
  BY <1>1 DEF Clean, Money, Orders, OrderInv
<1>3. pay[p].status # "NONE"
  BY DEF Typed, LocksInv, LockRefs, Opened, Settling, NoTx
<1>4. pay[p].status \in Status
  BY DEF Typed, RowsTyped, PaymentRow
<1>5. QED  BY <1>2, <1>3, <1>4 DEF Status

LEMMA SettleLives ==
  ASSUME Typed, Money, NEW q \in Payment, SettleStep(q) \/ SettleRollback(q), NEW p \in Payment
  PROVE  Lives(p)
<1>1. CASE \/ SettleMismatch(q) \/ SettleDuplicate(q) \/ SettleAlreadyAllocated(q)
           \/ SettleRollback(q)
  BY <1>1, SameLives
  DEF SettleMismatch, SettleDuplicate, SettleAlreadyAllocated, SettleRollback, rows
<1>2. CASE SettleLate(q)
  <2>1. pay'[p].status = pay[p].status
    BY <1>2 DEF SettleLate, Typed, RowsTyped, PaymentRow
  <2>2. QED  BY <2>1, SameLives
<1>3. CASE SettleGrant(q) \/ SettleReview(q)
  <2>1. tx[q].seen = "PENDING" /\ pay[q].status \in {"PENDING", "FAILED"}
    BY <1>3, SettledFrom DEF SettleGrant, SettleReview
  <2>2. pay'[q].status = "SUCCESS" /\ \A r \in Payment \ {q} : pay'[r] = pay[r]
    <3>1. CASE SettleGrant(q)
      BY <3>1 DEF SettleGrant, Typed, RowsTyped, PaymentRow
    <3>2. CASE SettleReview(q)
      BY <3>2 DEF SettleReview, Typed, RowsTyped, PaymentRow
    <3>3. QED  BY <1>3, <3>1, <3>2
  <2>3. QED  BY <2>1, <2>2 DEF Lives, Lifecycle, ReadBeforeClosed
<1>4. QED  BY <1>1, <1>2, <1>3 DEF SettleStep

LEMMA StaffLives ==
  ASSUME Typed, Money, NEW m \in Staff, StaffStep(m), NEW p \in Payment
  PROVE  Lives(p)
<1>1. CASE \/ \E q \in Payment : RetryCheck(m, q) \/ ConfirmRead(m, q)
           \/ RetryBegin(m) \/ RetryRefused(m)
  BY <1>1, SameLives DEF RetryCheck, ConfirmRead, RetryBegin, RetryRefused, rows
<1>2. CASE RetryRejected(m)
  <2>1. pay'[p].status = pay[p].status
    BY <1>2 DEF RetryRejected, Typed, RowsTyped, PaymentRow
  <2>2. QED  BY <2>1, SameLives
<1>3. CASE RetryGrant(m)
  <2>1. PICK q \in Payment : q = staff[m].payment
    BY <1>3 DEF RetryGrant, Typed, StaffInv, StaffRefs
  <2>2. tx[q] = RetryTx /\ Funded(q)
    BY <1>3, <2>1 DEF RetryGrant, Money, StaffKnows, Retrying, RetryKnows
  <2>3. pay[q].status \in {"SUCCESS", "FAILED"}
    <3>1. pay[q].status \notin {"NONE", "PENDING"}
      BY <2>2 DEF Money, Orders, OrderInv, Clean
    <3>2. pay[q].status # "REFUNDED"
      BY <1>3, <2>1 DEF RetryGrant, Grantable
    <3>3. QED  BY <3>1, <3>2 DEF Typed, RowsTyped, PaymentRow, Status
  <2>4. pay'[q].status = "SUCCESS" /\ \A r \in Payment \ {q} : pay'[r] = pay[r]
    BY <1>3, <2>1 DEF RetryGrant, Typed, RowsTyped, PaymentRow
  <2>5. QED  BY <2>2, <2>3, <2>4 DEF Lives, ReadBeforeClosed, RetryTx
<1>4. CASE ConfirmCommit(m)
  <2>1. PICK q \in Payment : q = staff[m].payment
    BY <1>4 DEF ConfirmCommit, Typed, StaffInv, StaffRefs
  <2>2. CASE ~StillCollected(q)
    BY <1>4, <2>1, <2>2, SameLives DEF ConfirmCommit
  <2>3. CASE StillCollected(q)
    <3>1. pay' = [pay EXCEPT ![q] = [@ EXCEPT !.status = "REFUNDED",
                                              !.returned = pay[q].returned + 1]]
      BY <1>4, <2>1, <2>3 DEF ConfirmCommit
    <3>2. pay'[q].status = "REFUNDED" /\ \A r \in Payment \ {q} : pay'[r] = pay[r]
      BY <3>1 DEF Typed, RowsTyped, PaymentRow
    <3>3. QED  BY <2>3, <3>2 DEF StillCollected, Lives, Lifecycle
  <2>4. QED  BY <2>2, <2>3
<1>5. QED  BY <1>1, <1>2, <1>3, <1>4 DEF StaffStep

LEMMA NextLives ==
  ASSUME Typed, Money, [Next]_vars, NEW p \in Payment
  PROVE  Lives(p)
<1>1. CASE UNCHANGED vars
  BY <1>1, SameLives DEF vars, rows
<1>2. CASE \/ \E c \in Credit : WebhookStep(c) \/ \E t \in Transfer : BankCredit(c, t)
           \/ \E q \in Payment : ReconcileStep(q)
  <2>1. UNCHANGED pay
    BY <1>2 DEF WebhookStep, WebhookIgnored, WebhookBegin, BankCredit, ReconcileStep,
       ReconcileFetch, ReconcileBegin, rows
  <2>2. QED  BY <2>1, SameLives
<1>3. CASE Next
  BY <1>2, <1>3, CheckoutLives, OwnLives, SettleLives, StaffLives DEF Next
<1>4. QED  BY <1>1, <1>3

\* Every change of an order's status is one of its lifecycle, a checkout writing
\* FAILED over it, or a transaction that read the order before such a checkout.
THEOREM StatusLife == Spec => OnlyCheckoutsOverwrite
<1> DEFINE A == \A p \in Payment :
                  pay'[p].status # pay[p].status =>
                    \/ <<pay[p].status, pay'[p].status>> \in Lifecycle
                    \/ ClosedByCheckout(p) \/ ReadBeforeClosed(p)
<1>1. Typed /\ Money /\ [Next]_vars => A
  BY NextLives DEF Lives
<1>2. QED  BY <1>1, AlwaysMoney, PTL DEF Spec, OnlyCheckoutsOverwrite

--------------------------------------------------------------------------------
(* A subscription whose money went back.                                   *)

\* A step leaves a subscription alone, cancels it, creates it, or is one of the two
\* that rewrite its status.
LEMMA RightMoves ==
  ASSUME Typed, [Next]_vars, NEW p \in Payment
  PROVE  \/ right'[p] \in {right[p], "CANCELLED"} \/ granted'[p] # granted[p]
         \/ PatchWrite(p) \/ EndRight(p)
<1>1. CASE UNCHANGED right
  BY <1>1
<1>2. ASSUME NEW q \in Payment, RefundStep(q)
      PROVE  right'[p] \in {right[p], "CANCELLED"}
  BY <1>2 DEF RefundStep, RequestUnactivatedRefund, CancelSubscription, Typed, RowsTyped
<1>3. ASSUME NEW q \in Payment, PatchWrite(q) \/ EndRight(q)
      PROVE  right'[p] = right[p] \/ PatchWrite(p) \/ EndRight(p)
  BY <1>3 DEF PatchWrite, EndRight, Typed, RowsTyped
<1>4. ASSUME NEW q, GrantRow(q)
      PROVE  right'[p] = right[p] \/ granted'[p] # granted[p]
  BY <1>4 DEF GrantRow, Typed, RowsTyped
<1>5. ASSUME NEW m \in Staff, ConfirmCommit(m)
      PROVE  right'[p] \in {right[p], "CANCELLED"}
  BY <1>5 DEF ConfirmCommit, Typed, RowsTyped
<1>6. ASSUME NEW m \in Staff, StaffStep(m)
      PROVE  right'[p] \in {right[p], "CANCELLED"} \/ granted'[p] # granted[p]
  <2>1. CASE RetryGrant(m)
    BY <1>4, <2>1 DEF RetryGrant
  <2>2. CASE ~RetryGrant(m) /\ ~ConfirmCommit(m)
    BY <1>6, <2>2 DEF StaffStep, RetryCheck, ConfirmRead, RetryBegin, RetryRefused,
       RetryRejected, rows
  <2>3. QED  BY <1>5, <2>1, <2>2
<1>7. ASSUME NEW q \in Payment, SettleStep(q) \/ SettleRollback(q)
      PROVE  right'[p] = right[p] \/ granted'[p] # granted[p]
  <2>1. CASE SettleGrant(q)
    BY <1>4, <2>1 DEF SettleGrant
  <2>2. CASE ~SettleGrant(q)
    BY <1>7, <2>2 DEF SettleStep, SettleMismatch, SettleDuplicate, SettleLate,
       SettleAlreadyAllocated, SettleReview, SettleRollback, rows
  <2>3. QED  BY <2>1, <2>2
<1>8. ASSUME NEW q \in Payment, Age(q) \/ CloseStale(q) \/ ReconcileStep(q) \/ PatchRead(q)
      PROVE  UNCHANGED right
  BY <1>8 DEF Age, CloseStale, ReconcileStep, ReconcileFetch, ReconcileBegin, PatchRead, rows
<1>9. ASSUME \/ \E k \in Client : CheckoutStep(k)
             \/ \E c \in Credit : WebhookStep(c) \/ \E t \in Transfer : BankCredit(c, t)
      PROVE  UNCHANGED right
  BY <1>9 DEF CheckoutStep, CheckoutRead, CheckoutClose, CheckoutCreate, WebhookStep,
     WebhookIgnored, WebhookBegin, BankCredit, rows
<1>10. QED
  BY <1>1, <1>2, <1>3, <1>6, <1>7, <1>8, <1>9 DEF Next, RightStep, vars, rows

\* Once the money has gone back, only a write of the subscription's status by id
\* brings the row back from CANCELLED; no settlement, retry or confirmation does.
THEOREM ReturnedStaysCancelled == Spec => OnlyStatusWritesRestore
<1> DEFINE A == \A p \in Payment : Restored(p)' => Restored(p) \/ PatchWrite(p) \/ EndRight(p)
<1>1. Typed /\ Money /\ [Next]_vars => A
  <2> SUFFICES ASSUME Typed, Money, [Next]_vars, NEW p \in Payment, Restored(p)',
                      ~PatchWrite(p), ~EndRight(p)
               PROVE  Restored(p)
    OBVIOUS
  <2>1. right'[p] = right[p] \/ granted'[p] # granted[p]
    BY RightMoves DEF Restored
  <2>2. Unmoved(p) \/ Collected(p) \/ Granted(p) \/ Promised(p) \/ Returned(p)
    BY NextKind DEF StepKind, OneMoves
  <2>3. Unmoved(p)
    BY <2>2 DEF Restored, Collected, Granted, Promised, Returned
  <2>4. QED  BY <2>1, <2>3 DEF Unmoved, Restored
<1>2. QED  BY <1>1, AlwaysMoney, PTL DEF Spec, OnlyStatusWritesRestore

--------------------------------------------------------------------------------
(* The reason of a review.  An order that is open, or that a settling      *)
(* transaction read as PENDING, has none, and whoever retries or refunds   *)
(* an order found it collected; so a reason outlives its review only if it *)
(* is written again.                                                       *)

Fresh(p) ==
  \/ pay[p].status \in {"NONE", "PENDING"}
  \/ Settling(p) /\ tx[p].seen = "PENDING"
Reasons ==
  /\ \A p \in Payment : Fresh(p) => ~pay[p].reviewReason
  /\ \A m \in Staff : staff[m].pc # "idle" => Funded(staff[m].payment)

\* What every step does to the reason of an order.
ReasonMoves(p) ==
  \/ pay'[p].reviewReason = pay[p].reviewReason /\ pay'[p].activation = pay[p].activation
  \/ ~pay'[p].reviewReason
  \/ pay'[p].activation = "REQUIRES_REVIEW" /\ ~Fresh(p)'
  \/ \E m \in Staff : staff[m].payment = p /\ RetryRejected(m)

LEMMA FreshUnfunded ==
  ASSUME Money, NEW p \in Payment, Fresh(p) PROVE ~Funded(p)
  BY DEF Fresh, Money, Orders, OrderInv, SettlesClean, Clean

LEMMA FreshStays ==
  ASSUME NEW p \in Payment, Lives(p), LockHolds(p), Fresh(p)' PROVE Fresh(p)
<1>1. pay'[p].status \in {"NONE", "PENDING"} => pay[p].status \in {"NONE", "PENDING"}
  BY DEF Lives, Lifecycle, ClosedByCheckout, ReadBeforeClosed
<1>2. QED  BY <1>1 DEF LockHolds, Fresh, Settling, NoTx

LEMMA QuietReasons ==
  ASSUME Typed, NEW q \in Payment, NEW p \in Payment,
         Age(q) \/ CloseStale(q) \/ RightStep(q) \/ RefundStep(q)
  PROVE  ReasonMoves(p)
<1>1. CASE Age(q) \/ CloseStale(q) \/ RightStep(q)
  BY <1>1 DEF Age, CloseStale, RightStep, EndRight, PatchRead, PatchWrite, rows, Typed,
     RowsTyped, PaymentRow, ReasonMoves
<1>2. CASE RefundStep(q)
  BY <1>2 DEF RefundStep, RequestUnactivatedRefund, CancelSubscription, Typed, RowsTyped,
     PaymentRow, ReasonMoves
<1>3. QED  BY <1>1, <1>2

LEMMA CheckoutReasons ==
  ASSUME Typed, NEW k \in Client, CheckoutStep(k), NEW p \in Payment
  PROVE  ReasonMoves(p)
<1>1. ASSUME NEW u \in Purpose, CheckoutRead(k, u) PROVE ReasonMoves(p)
  BY <1>1 DEF CheckoutRead, rows, ReasonMoves
<1>2. CASE CheckoutClose(k)
  BY <1>2 DEF CheckoutClose, Typed, RowsTyped, PaymentRow, ReasonMoves
<1>3. CASE CheckoutCreate(k)
  BY <1>3 DEF CheckoutCreate, NewOrder, NoRow, Typed, RowsTyped, ReasonMoves
<1>4. QED  BY <1>1, <1>2, <1>3 DEF CheckoutStep

LEMMA SettleReasons ==
  ASSUME Typed, InView, Reasons, NEW q \in Payment, SettleStep(q) \/ SettleRollback(q),
         NEW p \in Payment
  PROVE  ReasonMoves(p)
<1>1. CASE \/ SettleMismatch(q) \/ SettleDuplicate(q) \/ SettleAlreadyAllocated(q)
           \/ SettleRollback(q)
  BY <1>1 DEF SettleMismatch, SettleDuplicate, SettleAlreadyAllocated, SettleRollback, rows,
     ReasonMoves
<1>2. ASSUME Finish(q, "LATE") \/ Finish(q, "PROCESSED") PROVE tx'[q] = NoTx
  BY <1>2 DEF Finish, Typed, LocksInv, LocksTyped
<1>3. CASE SettleLate(q)
  <2>1. /\ pay'[q].status = pay[q].status /\ pay'[q].activation = "REQUIRES_REVIEW"
        /\ \A r \in Payment \ {q} : pay'[r] = pay[r]
    BY <1>3 DEF SettleLate, Typed, RowsTyped, PaymentRow
  <2>2. pay[q].status \in Lost
    <3>1. tx[q].seen \in Lost
      BY <1>3 DEF SettleLate, Settling, Typed, LocksInv, LocksTyped, Tx, SettleTx, NoTx, RetryTx,
         Status, Lost
    <3>2. QED  BY <3>1 DEF InView, LostStays
  <2>3. ~Fresh(q)'
    BY <1>2, <1>3, <2>1, <2>2 DEF SettleLate, Fresh, Settling, NoTx, Lost
  <2>4. QED  BY <2>1, <2>3 DEF ReasonMoves
<1>4. CASE SettleReview(q)
  <2>1. /\ pay'[q].status = "SUCCESS" /\ pay'[q].activation = "REQUIRES_REVIEW"
        /\ \A r \in Payment \ {q} : pay'[r] = pay[r]
    BY <1>4 DEF SettleReview, Typed, RowsTyped, PaymentRow
  <2>2. ~Fresh(q)'
    BY <1>2, <1>4, <2>1 DEF SettleReview, Fresh, Settling, NoTx
  <2>3. QED  BY <2>1, <2>2 DEF ReasonMoves
<1>5. CASE SettleGrant(q)
  <2>1. Fresh(q)
    BY <1>5 DEF SettleGrant, Fresh
  <2>2. pay'[q].reviewReason = pay[q].reviewReason /\ \A r \in Payment \ {q} : pay'[r] = pay[r]
    BY <1>5 DEF SettleGrant, Typed, RowsTyped, PaymentRow
  <2>3. ~pay'[q].reviewReason
    BY <2>1, <2>2 DEF Reasons
  <2>4. QED  BY <2>2, <2>3 DEF ReasonMoves
<1>6. QED  BY <1>1, <1>3, <1>4, <1>5 DEF SettleStep

LEMMA StaffReasons ==
  ASSUME Typed, NEW m \in Staff, StaffStep(m), NEW p \in Payment
  PROVE  ReasonMoves(p)
<1>1. CASE \/ \E q \in Payment : RetryCheck(m, q) \/ ConfirmRead(m, q)
           \/ RetryBegin(m) \/ RetryRefused(m)
  BY <1>1 DEF RetryCheck, ConfirmRead, RetryBegin, RetryRefused, rows, ReasonMoves
<1>2. CASE RetryRejected(m)
  BY <1>2 DEF RetryRejected, Typed, RowsTyped, ReasonMoves
<1>3. CASE RetryGrant(m)
  <2>1. PICK q \in Payment : q = staff[m].payment
    BY <1>3 DEF RetryGrant, Typed, StaffInv, StaffRefs
  <2>2. ~pay'[q].reviewReason /\ \A r \in Payment \ {q} : pay'[r] = pay[r]
    BY <1>3, <2>1 DEF RetryGrant, Typed, RowsTyped, PaymentRow
  <2>3. QED  BY <2>2 DEF ReasonMoves
<1>4. CASE ConfirmCommit(m)
  <2>1. PICK q \in Payment : q = staff[m].payment
    BY <1>4 DEF ConfirmCommit, Typed, StaffInv, StaffRefs
  <2>2. \/ UNCHANGED pay
        \/ pay' = [pay EXCEPT ![q] = [@ EXCEPT !.status = "REFUNDED",
                                              !.returned = pay[q].returned + 1]]
    BY <1>4, <2>1 DEF ConfirmCommit
  <2> DEFINE row == [pay[q] EXCEPT !.status = "REFUNDED", !.returned = pay[q].returned + 1]
  <2>3. pay'[p].reviewReason = pay[p].reviewReason /\ pay'[p].activation = pay[p].activation
    <3>1. row.reviewReason = pay[q].reviewReason /\ row.activation = pay[q].activation
      BY DEF Typed, RowsTyped, PaymentRow
    <3>2. UNCHANGED pay \/ pay' = [pay EXCEPT ![q] = row]
      BY <2>2
    <3> HIDE DEF row
    <3>3. QED  BY <3>1, <3>2 DEF Typed, RowsTyped
  <2>4. QED  BY <2>3 DEF ReasonMoves
<1>5. QED  BY <1>1, <1>2, <1>3, <1>4 DEF StaffStep

LEMMA NextReasonMoves ==
  ASSUME Typed, InView, Reasons, [Next]_vars, NEW p \in Payment
  PROVE  ReasonMoves(p)
<1>1. CASE UNCHANGED vars
  BY <1>1 DEF vars, rows, ReasonMoves
<1>2. CASE \/ \E c \in Credit : WebhookStep(c) \/ \E t \in Transfer : BankCredit(c, t)
           \/ \E q \in Payment : ReconcileStep(q)
  BY <1>2 DEF WebhookStep, WebhookIgnored, WebhookBegin, BankCredit, ReconcileStep,
     ReconcileFetch, ReconcileBegin, rows, ReasonMoves
<1>3. CASE Next
  BY <1>2, <1>3, QuietReasons, CheckoutReasons, SettleReasons, StaffReasons DEF Next
<1>4. QED  BY <1>1, <1>3

\* A staff request keeps its payment until it ends, and begins with a collected one.
LEMMA StaffTargets ==
  ASSUME Typed, Money, [Next]_vars, NEW m \in Staff, staff'[m].pc # "idle"
  PROVE  \/ staff[m].pc # "idle" /\ staff'[m].payment = staff[m].payment
         \/ staff'[m].payment \in Payment /\ Funded(staff'[m].payment)
<1>1. CASE UNCHANGED staff
  BY <1>1
<1>2. ASSUME NEW n \in Staff, NEW q \in Payment, RetryCheck(n, q) \/ ConfirmRead(n, q)
      PROVE  staff'[m] = staff[m] \/ (staff'[m].payment = q /\ Funded(q))
  <2>1. Funded(q)
    BY <1>2 DEF RetryCheck, ConfirmRead, Money, Orders, OrderInv
  <2>2. QED  BY <1>2, <2>1 DEF RetryCheck, ConfirmRead, Typed, StaffInv, StaffTyped
<1>3. ASSUME NEW n \in Staff,
             \/ RetryBegin(n) \/ RetryGrant(n) \/ RetryRefused(n) \/ RetryRejected(n)
             \/ ConfirmCommit(n)
      PROVE  staff'[m] = staff[m] \/ staff'[m].pc = "idle"
             \/ (staff[m].pc # "idle" /\ staff'[m].payment = staff[m].payment)
  BY <1>3 DEF RetryBegin, RetryGrant, RetryRefused, RetryRejected, ConfirmCommit, IdleStaff,
     Typed, StaffInv, StaffTyped, StaffRequest
<1>4. ASSUME NEW n \in Staff, StaffStep(n)
      PROVE  \/ staff[m].pc # "idle" /\ staff'[m].payment = staff[m].payment
             \/ staff'[m].payment \in Payment /\ Funded(staff'[m].payment)
  BY <1>2, <1>3, <1>4 DEF StaffStep
<1>5. ASSUME NEW q \in Payment,
             \/ Age(q) \/ CloseStale(q) \/ ReconcileStep(q) \/ SettleStep(q)
             \/ SettleRollback(q) \/ RefundStep(q) \/ RightStep(q)
      PROVE  UNCHANGED staff
  BY <1>5 DEF Age, CloseStale, ReconcileStep, ReconcileFetch, ReconcileBegin, SettleStep,
     SettleMismatch, SettleDuplicate, SettleLate, SettleAlreadyAllocated, SettleGrant,
     SettleReview, SettleRollback, Finish, RefundStep, RequestUnactivatedRefund,
     CancelSubscription, RightStep, EndRight, PatchRead, PatchWrite, requests
<1>6. ASSUME \/ \E k \in Client : CheckoutStep(k)
             \/ \E c \in Credit : WebhookStep(c) \/ \E t \in Transfer : BankCredit(c, t)
      PROVE  UNCHANGED staff
  BY <1>6 DEF CheckoutStep, CheckoutRead, CheckoutClose, CheckoutCreate, WebhookStep,
     WebhookIgnored, WebhookBegin, BankCredit, requests
<1>7. QED  BY <1>1, <1>4, <1>5, <1>6 DEF Next, vars, requests

LEMMA NextReasons == Typed /\ Money /\ InView /\ Reasons /\ [Next]_vars => Reasons'
<1> SUFFICES ASSUME Typed, Money, InView, Reasons, [Next]_vars PROVE Reasons'
  OBVIOUS
<1>1. Money' /\ \A p \in Payment : Funded(p) => Funded(p)'
  BY NextFunded
<1>2. ASSUME NEW p \in Payment, Fresh(p)' PROVE ~pay'[p].reviewReason
  <2>1. Fresh(p)
    BY <1>2, NextLives, StepView, FreshStays DEF ViewStep
  <2>2. ASSUME NEW m \in Staff, staff[m].payment = p, RetryRejected(m) PROVE FALSE
    <3>1. Funded(p)'
      BY <1>1, <2>2 DEF RetryRejected, Reasons
    <3>2. ~Funded(p)'
      BY <1>1, <1>2, FreshUnfunded, PTL
    <3>3. QED  BY <3>1, <3>2
  <2>3. QED  BY <1>2, <2>1, <2>2, NextReasonMoves DEF ReasonMoves, Reasons
<1>3. ASSUME NEW m \in Staff, staff'[m].pc # "idle" PROVE Funded(staff[m].payment)'
  BY <1>1, <1>3, StaffTargets DEF Reasons, Typed, StaffInv, StaffRefs
<1>4. QED  BY <1>2, <1>3 DEF Reasons

LEMMA AlwaysReasons == Spec => []Reasons
<1>1. Init => Reasons
  BY DEF Init, Reasons, NoRow, IdleStaff
<1>2. QED  BY <1>1, NextReasons, AlwaysMoney, AlwaysView, PTL DEF Spec

\* The reason of a review outlives the review only where the catch block of a
\* rejected retry writes it again.
THEOREM ReasonOnlyByRejectedRetry == Spec => OnlyRejectedRetriesLeaveReason
<1> DEFINE A == \A p \in Payment :
                  StaleReason(p)' =>
                    StaleReason(p) \/ \E m \in Staff : staff[m].payment = p /\ RetryRejected(m)
<1>1. Typed /\ InView /\ Reasons /\ [Next]_vars => A
  BY NextReasonMoves DEF ReasonMoves, StaleReason
<1>2. QED
  BY <1>1, AlwaysMoney, AlwaysView, AlwaysReasons, PTL DEF Spec, OnlyRejectedRetriesLeaveReason


--------------------------------------------------------------------------------
(* One waiting order.  A checkout that is alone with its purpose knows     *)
(* between its awaits which order is waiting, if any.                      *)

CheckingOut(u) == {k \in Client : checkout[k].pc # "idle" /\ checkout[k].purpose = u}

\* No two checkouts for one purpose are in progress.
OneChecksOut == \A u \in Purpose : \A j, k \in CheckingOut(u) : j = k

OneWaits ==
  /\ \A u \in Purpose : \A p, q \in PendingOrders(u) : p = q
  /\ \A k \in Client :
       /\ checkout[k].pc # "idle" => checkout[k].purpose \in Purpose
       /\ checkout[k].pc = "create" => PendingOrders(checkout[k].purpose) = {}
       /\ checkout[k].pc = "close" =>
            PendingOrders(checkout[k].purpose) \subseteq {checkout[k].pending}

NoNewPending == \A p \in Payment : /\ pay'[p].purpose = pay[p].purpose
                                   /\ pay'[p].status = "PENDING" => pay[p].status = "PENDING"

\* Nobody but a checkout makes an order wait.
LEMMA OthersOpenNone ==
  ASSUME Typed, [Next]_vars, ~\E k \in Client : CheckoutStep(k)
  PROVE  NoNewPending /\ UNCHANGED checkout
<1> USE DEF Typed, RowsTyped, PaymentRow, NoNewPending
<1>1. CASE UNCHANGED vars
  BY <1>1 DEF vars, rows, requests
<1>2. ASSUME NEW c \in Credit, WebhookStep(c) \/ \E t \in Transfer : BankCredit(c, t)
      PROVE  NoNewPending /\ UNCHANGED checkout
  BY <1>2 DEF WebhookStep, WebhookIgnored, WebhookBegin, BankCredit, rows, requests
<1>3. ASSUME NEW q \in Payment, Age(q) \/ CloseStale(q) \/ ReconcileStep(q)
      PROVE  NoNewPending /\ UNCHANGED checkout
  BY <1>3 DEF Age, CloseStale, ReconcileStep, ReconcileFetch, ReconcileBegin, rows, requests
<1>4. ASSUME NEW q \in Payment, SettleStep(q) \/ SettleRollback(q)
      PROVE  NoNewPending /\ UNCHANGED checkout
  <2>1. CASE \/ SettleMismatch(q) \/ SettleDuplicate(q) \/ SettleAlreadyAllocated(q)
             \/ SettleRollback(q)
    BY <2>1 DEF SettleMismatch, SettleDuplicate, SettleAlreadyAllocated, SettleRollback, Finish,
                rows, requests
  <2>2. CASE SettleLate(q)
    BY <2>2 DEF SettleLate, Finish, requests
  <2>3. CASE SettleGrant(q)
    BY <2>3 DEF SettleGrant, Finish, requests
  <2>4. CASE SettleReview(q)
    BY <2>4 DEF SettleReview, Finish, requests
  <2>5. QED  BY <1>4, <2>1, <2>2, <2>3, <2>4 DEF SettleStep
<1>5. ASSUME NEW q \in Payment, RefundStep(q) \/ RightStep(q)
      PROVE  NoNewPending /\ UNCHANGED checkout
  BY <1>5
  DEF RefundStep, RequestUnactivatedRefund, CancelSubscription, RightStep, EndRight, PatchRead,
      PatchWrite, rows, requests
<1>6. ASSUME NEW m \in Staff, StaffStep(m)
      PROVE  NoNewPending /\ UNCHANGED checkout
  <2>1. CASE \/ \E q \in Payment : RetryCheck(m, q) \/ ConfirmRead(m, q)
             \/ RetryBegin(m) \/ RetryRefused(m)
    BY <2>1 DEF RetryCheck, ConfirmRead, RetryBegin, RetryRefused, rows
  <2>2. CASE RetryRejected(m)
    BY <2>2 DEF RetryRejected
  <2>3. CASE RetryGrant(m)
    <3>1. PICK q \in Payment : q = staff[m].payment
      BY <2>3 DEF RetryGrant, StaffInv, StaffRefs
    <3>2. /\ pay' = [pay EXCEPT ![q] = [@ EXCEPT !.status = "SUCCESS",
                                                !.activation = "ACTIVATED",
                                                !.reviewReason = FALSE]]
          /\ UNCHANGED checkout
      BY <2>3, <3>1 DEF RetryGrant
    <3>3. QED  BY <3>2
  <2>4. CASE ConfirmCommit(m)
    <3>1. PICK q \in Payment : q = staff[m].payment
      BY <2>4 DEF ConfirmCommit, StaffInv, StaffRefs
    <3>2. UNCHANGED checkout
      BY <2>4 DEF ConfirmCommit
    <3>3. CASE ~StillCollected(q)
      BY <2>4, <3>1, <3>2, <3>3 DEF ConfirmCommit
    <3>4. CASE StillCollected(q)
      <4>1. pay' = [pay EXCEPT ![q] = [@ EXCEPT !.status = "REFUNDED",
                                                !.returned = pay[q].returned + 1]]
        BY <2>4, <3>1, <3>4 DEF ConfirmCommit
      <4>2. QED  BY <3>2, <4>1
    <3>5. QED  BY <3>3, <3>4
  <2>5. QED  BY <1>6, <2>1, <2>2, <2>3, <2>4 DEF StaffStep
<1>7. QED  BY <1>1, <1>2, <1>3, <1>4, <1>5, <1>6 DEF Next

\* A checkout that is alone with its purpose leaves one waiting order, if any.
LEMMA CheckoutWaits ==
  ASSUME Typed, OneWaits, OneChecksOut, NEW k \in Client, CheckoutStep(k)
  PROVE  OneWaits'
<1>1. /\ checkout \in [Client -> CheckoutRequest] /\ pay \in [Payment -> PaymentRow]
      /\ checkout[k].pc = "close" => checkout[k].pending \in Payment
  BY DEF Typed, RowsTyped, CheckoutInv, CheckoutTyped, CheckoutRefs
<1>2. ASSUME NEW j \in Client \ {k}
      PROVE  checkout[j].pc # "idle" /\ checkout[k].pc # "idle" =>
               checkout[j].purpose # checkout[k].purpose
  BY DEF OneChecksOut, CheckingOut, OneWaits
<1>3. ASSUME NEW u \in Purpose, CheckoutRead(k, u) PROVE OneWaits'
  <2>1. pay' = pay /\ \A j \in Client \ {k} : checkout'[j] = checkout[j]
    BY <1>1, <1>3 DEF CheckoutRead, rows
  <2>2. \A v : PendingOrders(v)' = PendingOrders(v)
    BY <2>1 DEF PendingOrders
  <2>3. \/ /\ PendingOrders(u) = {}
           /\ checkout'[k] = [pc |-> "create", purpose |-> u, pending |-> NoPayment]
        \/ \E p \in PendingOrders(u) : checkout'[k] = [pc |-> "close", purpose |-> u, pending |-> p]
    BY <1>1, <1>3 DEF CheckoutRead
  <2>4. /\ checkout'[k].purpose = u
        /\ checkout'[k].pc = "create" => PendingOrders(u) = {}
        /\ checkout'[k].pc = "close" => PendingOrders(u) \subseteq {checkout'[k].pending}
    <3>1. CASE /\ PendingOrders(u) = {}
               /\ checkout'[k] = [pc |-> "create", purpose |-> u, pending |-> NoPayment]
      BY <3>1
    <3>2. ASSUME NEW p \in PendingOrders(u),
                 checkout'[k] = [pc |-> "close", purpose |-> u, pending |-> p]
          PROVE  /\ checkout'[k].purpose = u /\ checkout'[k].pc = "close"
                 /\ PendingOrders(u) \subseteq {checkout'[k].pending}
      <4>1. \A q \in PendingOrders(u) : q = p
        BY DEF OneWaits
      <4>2. QED  BY <3>2, <4>1
    <3>3. QED  BY <2>3, <3>1, <3>2
  <2>5. QED  BY <2>1, <2>2, <2>4 DEF OneWaits
<1>4. CASE CheckoutClose(k)
  <2>1. /\ checkout[k].pending \in Payment /\ checkout[k].pc = "close"
        /\ pay' = [pay EXCEPT ![checkout[k].pending].status = "FAILED"]
        /\ checkout' = [checkout EXCEPT ![k] = [@ EXCEPT !.pc = "create", !.pending = NoPayment]]
    BY <1>1, <1>4 DEF CheckoutClose
  <2>2. /\ checkout'[k].pc = "create" /\ checkout'[k].purpose = checkout[k].purpose
        /\ \A j \in Client \ {k} : checkout'[j] = checkout[j]
    BY <1>1, <2>1 DEF CheckoutRequest
  <2>3. /\ pay'[checkout[k].pending].status = "FAILED"
        /\ \A p \in Payment \ {checkout[k].pending} : pay'[p] = pay[p]
    BY <1>1, <2>1 DEF PaymentRow
  <2>4. \A v : PendingOrders(v)' \subseteq PendingOrders(v) \ {checkout[k].pending}
    BY <2>3 DEF PendingOrders
  <2>5. PendingOrders(checkout[k].purpose) \subseteq {checkout[k].pending}
    BY <2>1 DEF OneWaits
  <2>6. QED  BY <2>1, <2>2, <2>4, <2>5 DEF OneWaits
<1>5. CASE CheckoutCreate(k)
  <2>1. PICK p \in Payment : pay' = [pay EXCEPT ![p] = NewOrder(checkout[k].purpose)]
    BY <1>5 DEF CheckoutCreate
  <2>2. checkout'[k].pc = "idle" /\ \A j \in Client \ {k} : checkout'[j] = checkout[j]
    BY <1>1, <1>5 DEF CheckoutCreate, IdleCheckout
  <2>3. /\ pay'[p].purpose = checkout[k].purpose
        /\ \A q \in Payment \ {p} : pay'[q] = pay[q]
    BY <1>1, <2>1 DEF NewOrder, NoRow
  <2>4. PendingOrders(checkout[k].purpose) = {} /\ checkout[k].pc # "idle"
    BY <1>5 DEF CheckoutCreate, OneWaits
  <2>5. \A v : v # checkout[k].purpose => PendingOrders(v)' \subseteq PendingOrders(v)
    BY <2>3 DEF PendingOrders
  <2>6. \A q \in Payment :
          pay'[q].status = "PENDING" /\ pay'[q].purpose = checkout[k].purpose => q = p
    BY <2>3, <2>4 DEF PendingOrders
  <2>7. \A v \in Purpose : \A q, r \in PendingOrders(v)' : q = r
    <3> SUFFICES ASSUME NEW v \in Purpose, NEW q \in PendingOrders(v)', NEW r \in PendingOrders(v)'
                 PROVE  q = r
      OBVIOUS
    <3>1. CASE v = checkout[k].purpose
      BY <2>6, <3>1 DEF PendingOrders
    <3>2. CASE v # checkout[k].purpose
      BY <2>5, <3>2 DEF OneWaits
    <3>3. QED  BY <3>1, <3>2
  <2>8. ASSUME NEW j \in Client, checkout'[j].pc # "idle"
        PROVE  /\ j # k /\ checkout'[j] = checkout[j]
               /\ checkout[j].purpose # checkout[k].purpose
    BY <1>2, <2>2, <2>4, <2>8
  <2>9. QED  BY <2>5, <2>7, <2>8 DEF OneWaits
<1>6. QED  BY <1>3, <1>4, <1>5 DEF CheckoutStep

LEMMA NextWaits == Typed /\ OneWaits /\ OneChecksOut /\ [Next]_vars => OneWaits'
<1> SUFFICES ASSUME Typed, OneWaits, OneChecksOut, [Next]_vars PROVE OneWaits'
  OBVIOUS
<1>1. CASE \E k \in Client : CheckoutStep(k)
  BY <1>1, CheckoutWaits
<1>2. CASE ~\E k \in Client : CheckoutStep(k)
  <2>1. NoNewPending /\ UNCHANGED checkout
    BY <1>2, OthersOpenNone
  <2>2. \A v : PendingOrders(v)' \subseteq PendingOrders(v)
    BY <2>1 DEF NoNewPending, PendingOrders
  <2>3. QED  BY <2>1, <2>2 DEF OneWaits
<1>3. QED  BY <1>1, <1>2

\* A member has one SePay order waiting for a plan, as sepay-payments.service.ts:235 wants
\* it, as long as checkouts for it come one after the other, however many there are.
THEOREM OnePendingIfOneChecksOut == Spec /\ []OneChecksOut => []OnePendingPerPurpose
<1>1. Init => OneWaits
  BY DEF Init, OneWaits, PendingOrders, NoRow, IdleCheckout
<1>2. OneWaits => OnePendingPerPurpose
  <2> SUFFICES ASSUME OneWaits, NEW u \in Purpose PROVE Cardinality(PendingOrders(u)) <= 1
    BY DEF OnePendingPerPurpose
  <2>1. CASE PendingOrders(u) = {}
    BY <2>1, FS_EmptySet
  <2>2. ASSUME NEW p \in PendingOrders(u) PROVE Cardinality(PendingOrders(u)) = 1
    <3>1. PendingOrders(u) = {p}
      BY <2>2 DEF OneWaits
    <3>2. QED  BY <3>1, FS_Singleton
  <2>3. QED  BY <2>1, <2>2
<1>3. QED  BY <1>1, <1>2, NextWaits, AlwaysTyped, PTL DEF Spec
================================================================================
