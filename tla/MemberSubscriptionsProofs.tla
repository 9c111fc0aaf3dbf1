----------------------- MODULE MemberSubscriptionsProofs -----------------------
(***************************************************************************)
(* Proofs about MemberSubscriptions, for any number of orders and requests *)
(* in progress.  What the two writers of new rights, an activation and a   *)
(* grant, do to the rows is stated in two lemmas about rows; the rest is   *)
(* that a request still knows what it read before it had the lock.         *)
(***************************************************************************)
EXTENDS MemberSubscriptions, TLAPS

\* The properties of the rows, of any rows.
One(rows) ==
  \A s, t \in Row : rows[s].status = rows[t].status /\ rows[s].status \in {"ACTIVE", "SCHEDULED"}
                      => s = t
Behind(rows, a, q) ==
  /\ rows[a].status = "ACTIVE" /\ rows[q].status = "SCHEDULED"
  /\ rows[q].start < rows[a].end /\ rows[q].tier <= rows[a].tier

\* No plan is queued behind a better one that was not.
NoWorse(old, new) == \A a, q \in Row : Behind(new, a, q) => Behind(old, a, q)

SamePeriod(a, b) == a.tier = b.tier /\ a.start = b.start /\ a.end = b.end

\* What activation does to a row.
Shifted(a, b) ==
  /\ SamePeriod(a, b)
  /\ \/ b.status = a.status
     \/ a.status = "SCHEDULED" /\ b.status \in {"ACTIVE", "EXPIRED"}
     \/ a.status = "ACTIVE" /\ b.status = "SUSPENDED"

\* A row is suspended for one that was queued and is due.
ShiftedFor(a, b, now) ==
  \A s \in Row : a[s].status = "ACTIVE" /\ b[s].status = "SUSPENDED" =>
    \E t \in Row : /\ a[t].status = "SCHEDULED" /\ b[t].status = "ACTIVE"
                   /\ a[t].start <= now /\ now < b[t].end

USE SubscriptionConstants DEF Row, Order, Free, Status, Tier

--------------------------------------------------------------------------------
(* Lemmas about rows.                                                          *)

\* activateDueSubscription keeps one plan of each kind, and queues none behind a better one.
LEMMA ActivatedRows ==
  ASSUME NEW rows \in [Row -> Subscription], NEW now \in Nat, One(rows),
         NEW due \in Row, rows[due].status = "SCHEDULED", rows[due].start <= now,
         NEW new, new = Activated(rows, due, now)
  PROVE  /\ new \in [Row -> Subscription]
         /\ \A s \in Row : Shifted(rows[s], new[s])
         /\ One(new) /\ NoWorse(rows, new)
         /\ ShiftedFor(rows, new, now)
<1>1. CASE rows[due].end > now /\ Paid(due)
  <2>1. new = [s \in Row |->
                 IF s = due THEN [rows[s] EXCEPT !.status = "ACTIVE"]
                 ELSE IF rows[s].status = "ACTIVE" THEN [rows[s] EXCEPT !.status = "SUSPENDED"]
                 ELSE rows[s]]
    BY <1>1 DEF Activated
  <2>2. new \in [Row -> Subscription]
    BY <2>1 DEF Subscription
  <2>3. ASSUME NEW s \in Row PROVE Shifted(rows[s], new[s])
    BY <2>1 DEF Shifted, SamePeriod, Subscription
  <2>4. ASSUME NEW s \in Row PROVE
          /\ new[s].status = "ACTIVE" => s = due
          /\ new[s].status # "SCHEDULED"
    BY <2>1 DEF One, Subscription
  <2>5. One(new) /\ NoWorse(rows, new)
    BY <2>4 DEF One, NoWorse, Behind
  <2>6. new[due].status = "ACTIVE" /\ now < new[due].end
    BY <1>1, <2>1 DEF Subscription
  <2>7. QED BY <2>2, <2>3, <2>5, <2>6 DEF ShiftedFor
<1>2. CASE ~(rows[due].end > now /\ Paid(due)) /\ rows[due].end <= now
  <2>1. new = [rows EXCEPT ![due].status = "EXPIRED"]
    BY <1>2 DEF Activated
  <2>2. new \in [Row -> Subscription]
    BY <2>1 DEF Subscription
  <2>3. \A s \in Row : Shifted(rows[s], new[s]) /\ (s # due => new[s] = rows[s])
    BY <2>1 DEF Shifted, SamePeriod, Subscription
  <2>4. new[due].status = "EXPIRED"
    BY <2>1 DEF Subscription
  <2>5. One(new) /\ NoWorse(rows, new) /\ ShiftedFor(rows, new, now)
    BY <2>3, <2>4 DEF One, NoWorse, Behind, ShiftedFor
  <2>6. QED BY <2>2, <2>3, <2>5
<1>3. CASE ~(rows[due].end > now /\ Paid(due)) /\ ~(rows[due].end <= now)
  <2>1. new = rows
    BY <1>3 DEF Activated
  <2>2. QED BY <2>1 DEF Shifted, SamePeriod, ShiftedFor, NoWorse
<1>4. QED BY <1>1, <1>2, <1>3

\* So does activateMemberDue.
LEMMA SyncedRows ==
  ASSUME NEW rows \in [Row -> Subscription], NEW now \in Nat, One(rows),
         NEW new \in Synced(rows, now)
  PROVE  /\ new \in [Row -> Subscription]
         /\ \A s \in Row : Shifted(rows[s], new[s])
         /\ One(new) /\ NoWorse(rows, new)
         /\ ShiftedFor(rows, new, now)
<1>1. CASE Due(rows, now) = {}
  BY <1>1 DEF Synced, Shifted, SamePeriod, ShiftedFor, NoWorse
<1>2. CASE Due(rows, now) # {}
  <2>1. PICK due \in Due(rows, now) : new = Activated(rows, due, now)
    BY <1>2 DEF Synced
  <2>2. due \in Row /\ rows[due].status = "SCHEDULED" /\ rows[due].start <= now
    BY DEF Due, In
  <2>3. QED BY <2>1, <2>2, ActivatedRows
<1>3. QED BY <1>1, <1>2

\* inspectPlanPurchase accepts only with an empty queue, and a start from which the new
\* period takes nothing from a plan that is as good.
LEMMA AcceptedStart ==
  ASSUME NEW rows \in [Row -> Subscription], NEW now \in Nat, NEW ask \in Nat,
         NEW tier \in Tier, NEW start \in Starts(rows, tier, ask, now)
  PROVE  /\ start \in Nat /\ start >= now
         /\ \A s \in Row : rows[s].status # "SCHEDULED"
         /\ One(rows) => \A a \in Row : rows[a].status = "ACTIVE"
                           => start >= rows[a].end \/ tier > rows[a].tier
<1>1. \A s \in Row : rows[s].status # "SCHEDULED"
  BY DEF Starts, In
<1>2. CASE In(rows, "ACTIVE") = {}
  <2>1. start = Later(ask, now)
    BY <1>1, <1>2 DEF Starts, In
  <2>2. QED BY <1>1, <1>2, <2>1 DEF Later, In
<1>3. CASE In(rows, "ACTIVE") # {}
  <2>1. PICK c \in Row : rows[c].status = "ACTIVE" /\ start \in StartsAfter(rows[c], tier, ask, now)
    BY <1>1, <1>3 DEF Starts, In
  <2>2. rows[c].end \in Nat /\ rows[c].tier \in Tier
    BY DEF Subscription
  <2>3. /\ start \in Nat /\ start >= now
        /\ start >= rows[c].end \/ tier > rows[c].tier
    BY <2>1, <2>2 DEF StartsAfter, Later
  <2>4. One(rows) => \A a \in Row : rows[a].status = "ACTIVE" => a = c
    BY <2>1 DEF One
  <2>5. QED BY <1>1, <2>3, <2>4
<1>4. QED BY <1>2, <1>3

\* The rows after a grant of row o, and what is true of them.
WithRow(rows, start, now, o, tier) ==
  [Switched(rows, start, now) EXCEPT ![o] = NewRow(tier, start, now)]
Granted(rows, new, o, tier, now) ==
  /\ new \in [Row -> Subscription]
  /\ new[o].status \in {"ACTIVE", "SCHEDULED"} /\ new[o].tier = tier
  /\ new[o].end = new[o].start + Duration
  /\ \A s \in Row \ {o} :
       /\ SamePeriod(rows[s], new[s])
       /\ \/ new[s].status = rows[s].status
          \/ rows[s].status = "ACTIVE" /\ new[s].status = "SUSPENDED"
          \/ rows[s].status = "ACTIVE" /\ new[s].status = "EXPIRED" /\ rows[s].end <= now
  /\ One(new) /\ \A a, q \in Row : ~Behind(new, a, q)
  /\ \A s \in Row : rows[s].status = "ACTIVE" /\ new[s].status = "SUSPENDED" =>
       new[o].status = "ACTIVE" /\ tier > rows[s].tier

\* A grant leaves one plan of each kind; what gives way has ended or is a lesser plan.
LEMMA GrantedRows ==
  ASSUME NEW rows \in [Row -> Subscription], NEW now \in Nat, NEW ask \in Nat,
         NEW tier \in Tier, One(rows),
         NEW start \in Starts(rows, tier, ask, now),
         NEW o \in Row, rows[o].status = "NONE",
         NEW new, new = WithRow(rows, start, now, o, tier)
  PROVE  Granted(rows, new, o, tier, now)
<1>1. /\ start \in Nat /\ start >= now
      /\ \A s \in Row : rows[s].status # "SCHEDULED"
      /\ \A a \in Row : rows[a].status = "ACTIVE" => start >= rows[a].end \/ tier > rows[a].tier
  <2>1. /\ start \in Nat /\ start >= now
        /\ \A s \in Row : rows[s].status # "SCHEDULED"
        /\ One(rows) => \A a \in Row : rows[a].status = "ACTIVE"
                          => start >= rows[a].end \/ tier > rows[a].tier
    <3>1. start \in Starts(rows, tier, ask, now)
      OBVIOUS
    <3>2. rows \in [Row -> Subscription]
      OBVIOUS
    <3>3. now \in Nat /\ ask \in Nat /\ tier \in Tier
      OBVIOUS
    <3>4. QED BY ONLY <3>1, <3>2, <3>3, AcceptedStart
  <2>2. QED BY <2>1
<1>2. start + Duration \in Nat
  BY <1>1
<1>3. NewRow(tier, start, now) \in Subscription
  BY <1>1, <1>2 DEF NewRow, Subscription
<1>4. CASE start > now
  <2>1. new = [rows EXCEPT ![o] = NewRow(tier, start, now)]
    BY <1>4 DEF Switched, WithRow
  <2>2. new \in [Row -> Subscription]
    BY <2>1, <1>3
  <2>3. new[o].status = "SCHEDULED" /\ new[o].tier = tier /\ new[o].start = start
        /\ new[o].end = start + Duration
    BY <2>1, <1>4 DEF NewRow
  <2>4. \A s \in Row \ {o} : new[s] = rows[s]
    BY <2>1
  <2>5. One(new)
    BY <2>3, <2>4, <1>1 DEF One
  <2>6. ASSUME NEW a \in Row, NEW q \in Row, Behind(new, a, q) PROVE FALSE
    <3>1. q = o /\ a # o /\ new[a] = rows[a]
      BY <2>3, <2>4, <2>6, <1>1 DEF Behind
    <3>2. rows[a].end \in Nat /\ rows[a].tier \in Tier
      BY DEF Subscription
    <3>3. QED BY <2>3, <2>6, <3>1, <3>2, <1>1 DEF Behind
  <2>7. QED BY <2>2, <2>3, <2>4, <2>5, <2>6 DEF SamePeriod, Granted
<1>5. CASE ~(start > now)
  <2>1. /\ new \in [Row -> Subscription]
        /\ new[o] = NewRow(tier, start, now)
        /\ \A s \in Row \ {o} : new[s] = GivesWay(rows[s], now)
    <3>1. \A s \in Row : GivesWay(rows[s], now) \in Subscription
      BY DEF GivesWay, Subscription
    <3>2. Switched(rows, start, now) \in [Row -> Subscription]
      BY <3>1, <1>5 DEF Switched
    <3>3. QED BY <3>2, <1>3, <1>5 DEF Switched, WithRow
  <2>2. new[o].status = "ACTIVE" /\ new[o].tier = tier
        /\ new[o].end = new[o].start + Duration
    BY <2>1, <1>5 DEF NewRow
  <2>3. ASSUME NEW s \in Row \ {o} PROVE
          /\ SamePeriod(rows[s], new[s])
          /\ rows[s].status # "ACTIVE" => new[s].status = rows[s].status
          /\ rows[s].status = "ACTIVE" =>
               new[s].status = IF rows[s].end <= now THEN "EXPIRED" ELSE "SUSPENDED"
    <3>1. new[s] = GivesWay(rows[s], now) /\ rows[s] \in Subscription
      BY <2>1
    <3>2. CASE rows[s].status # "ACTIVE"
      BY <3>1, <3>2 DEF GivesWay, SamePeriod
    <3>3. CASE rows[s].status = "ACTIVE"
      <4>1. new[s] = [rows[s] EXCEPT !.status =
                        IF rows[s].end <= now THEN "EXPIRED" ELSE "SUSPENDED"]
        BY <3>1, <3>3 DEF GivesWay
      <4>2. QED BY <3>1, <3>3, <4>1 DEF SamePeriod, Subscription
    <3>4. QED BY <3>2, <3>3
  <2>4. \A s \in Row \ {o} : new[s].status \notin {"ACTIVE", "SCHEDULED"}
    BY <2>3, <1>1
  <2>5. One(new) /\ \A a, q \in Row : ~Behind(new, a, q)
    BY <2>2, <2>4 DEF One, Behind
  <2>6. ASSUME NEW s \in Row, rows[s].status = "ACTIVE", new[s].status = "SUSPENDED"
        PROVE  tier > rows[s].tier
    <3>1. s # o
      BY <2>6
    <3>2. ~(rows[s].end <= now)
      BY <2>3, <2>6, <3>1
    <3>3. start = now
      BY <1>1, <1>5
    <3>4. rows[s].end \in Nat
      BY DEF Subscription
    <3>5. QED BY <1>1, <2>6, <3>2, <3>3, <3>4
  <2>7. QED BY <2>1, <2>2, <2>3, <2>5, <2>6 DEF Granted
<1>6. QED BY <1>4, <1>5

--------------------------------------------------------------------------------
(* The inductive invariant.                                                    *)

Holders == {"confirm", "settle", "retry"}

\* What a request may still rely on when it gets the lock.
Knows ==
  \A r \in Request :
    /\ req[r].kind \in Holders =>
         /\ req[r].row \in Order /\ sub[req[r].row].status = "NONE"
         /\ pay[req[r].row].status # "NONE"
    /\ req[r].kind = "return" => req[r].row \in Order
    /\ req[r].kind \in {"wake", "cancel", "mark"} => sub[req[r].row].status # "NONE"
    /\ req[r].kind = "cancel" /\ req[r].amount # "no" => req[r].row \in Order
    /\ req[r].kind = "mark" => req[r].to \in {"ACTIVE", "EXPIRED", "SCHEDULED"}
    /\ req[r].kind = "cancel" /\ req[r].amount = "full"
         => sub[req[r].row].start + Day > req[r].now
    /\ req[r].kind # "idle" => req[r].now <= clock /\ clock <= req[r].now + Lag

\* The lock of a payment is held by one request.
Alone ==
  \A q, r \in Request :
    req[q].kind \in Holders /\ req[r].kind \in Holders /\ req[q].row = req[r].row => q = r

\* Rows and orders: only a paid order has a row, of its whole period.
Ledger ==
  \A o \in Order :
    /\ pay[o].status \in {"NONE", "PENDING", "FAILED"} => sub[o].status = "NONE"
    /\ sub[o].status # "NONE" => sub[o].end = sub[o].start + Duration

Inv == SubscriptionsTypeOK /\ Knows /\ Alone /\ Ledger /\ One(sub)

\* Rows only move on: none appears, none gets rights it had not.
MovesOn(old, new) ==
  \A s \in Row :
    /\ SamePeriod(old[s], new[s])
    /\ old[s].status = "NONE" <=> new[s].status = "NONE"
    /\ new[s].status = "SCHEDULED" => old[s].status = "SCHEDULED"
    /\ new[s].status = "ACTIVE" => old[s].status \in {"ACTIVE", "SCHEDULED"}

LEMMA ShiftMovesOn ==
  ASSUME NEW old, NEW new, \A s \in Row : Shifted(old[s], new[s])
  PROVE  MovesOn(old, new)
BY DEF Shifted, MovesOn

LEMMA InitInv == SubscriptionsInit => Inv
<1> SUFFICES ASSUME SubscriptionsInit PROVE Inv
  OBVIOUS
<1> USE DEF SubscriptionsInit, NoRow, NoPayment, Idle
<1>1. FreeEnd \in Nat
  BY SubscriptionConstants
<1>2. SubscriptionsTypeOK
  <2>1. sub \in [Row -> Subscription]
    BY <1>1 DEF Subscription
  <2>2. pay \in [Order -> Payment]
    BY DEF Payment, Refund
  <2>3. req \in [Request -> InProgress]
    BY DEF InProgress, Kind, Grants, Refund
  <2>4. QED BY <2>1, <2>2, <2>3 DEF SubscriptionsTypeOK
<1>3. Knows /\ Alone
  BY DEF Knows, Alone, Holders, Grants
<1>4. Ledger
  BY DEF Ledger
<1>5. One(sub)
  BY DEF One
<1>6. QED BY <1>2, <1>3, <1>4, <1>5 DEF Inv

--------------------------------------------------------------------------------
(* What is common to the steps.                                                *)

\* The end of a request's step: the others know what they knew.
LEMMA KnowsKept ==
  ASSUME Knows, Alone, clock' = clock,
         \A s \in Row : sub[s].status # "NONE"
                          => sub'[s].status # "NONE" /\ SamePeriod(sub[s], sub'[s]),
         \A q \in Request :
           \/ /\ req'[q] = req[q]
              /\ req[q].kind \in Holders => /\ sub'[req[q].row].status = "NONE"
                                             /\ pay'[req[q].row].status # "NONE"
           \/ req'[q].kind = "idle"
           \/ req'[q].kind = "redo" /\ req[q].kind # "idle" /\ req'[q].now = req[q].now,
         SubscriptionsTypeOK
  PROVE  Knows' /\ Alone'
<1>1. Alone'
  BY DEF Alone, Holders
<1>2. ASSUME NEW q \in Request PROVE
    /\ req'[q].kind \in Holders =>
         /\ req'[q].row \in Order /\ sub'[req'[q].row].status = "NONE"
         /\ pay'[req'[q].row].status # "NONE"
    /\ req'[q].kind = "return" => req'[q].row \in Order
    /\ req'[q].kind \in {"wake", "cancel", "mark"} => sub'[req'[q].row].status # "NONE"
    /\ req'[q].kind = "cancel" /\ req'[q].amount # "no" => req'[q].row \in Order
    /\ req'[q].kind = "mark" => req'[q].to \in {"ACTIVE", "EXPIRED", "SCHEDULED"}
    /\ req'[q].kind = "cancel" /\ req'[q].amount = "full"
         => sub'[req'[q].row].start + Day > req'[q].now
    /\ req'[q].kind # "idle" => req'[q].now <= clock' /\ clock' <= req'[q].now + Lag
  <2>1. CASE req'[q].kind = "idle"
    BY <2>1 DEF Holders, Grants
  <2>2. CASE req'[q].kind = "redo" /\ req[q].kind # "idle" /\ req'[q].now = req[q].now
    BY <2>2 DEF Holders, Grants, Knows
  <2>3. CASE req'[q] = req[q] /\ (req[q].kind \in Holders =>
               sub'[req[q].row].status = "NONE" /\ pay'[req[q].row].status # "NONE")
    <3>1. req[q].row \in Row
      BY DEF SubscriptionsTypeOK, InProgress
    <3>2. QED BY <2>3, <3>1 DEF Knows, SamePeriod
  <2>4. QED BY <2>1, <2>2, <2>3
<1>3. QED BY <1>1, <1>2 DEF Knows

\* Finish leaves the other requests alone.
LEMMA Finished ==
  ASSUME SubscriptionsTypeOK, NEW r \in Request, Finish(r)
  PROVE  /\ req' \in [Request -> InProgress]
         /\ clock' = clock /\ req'[r].kind = "idle"
         /\ \A q \in Request \ {r} : req'[q] = req[q]
<1>1. Idle \in InProgress
  BY DEF Idle, InProgress, Kind, Refund
<1>2. QED BY <1>1 DEF Finish, SubscriptionsTypeOK, Idle

\* What only a status update may do, which the other steps do not.
StaysBacked == \A o \in Order : Unbacked(o)' => Unbacked(o)
StaysQueued == \A a, q \in Row : Misqueued(a, q)' => Misqueued(a, q)

LEMMA QueuedAsRows ==
  ASSUME NoWorse(sub, sub')
  PROVE  StaysQueued
BY DEF NoWorse, Behind, StaysQueued, Misqueued

\* A step in which rows only move on and the orders do not change.
LEMMA MovedOn ==
  ASSUME Inv, sub' \in [Row -> Subscription], MovesOn(sub, sub'), One(sub'),
         pay' = pay, clock' = clock, req' \in [Request -> InProgress],
         \A q \in Request :
           \/ req'[q] = req[q]
           \/ req'[q].kind = "idle"
           \/ req'[q].kind = "redo" /\ req[q].kind # "idle" /\ req'[q].now = req[q].now
  PROVE  Inv' /\ StaysBacked
<1>1. SubscriptionsTypeOK'
  BY DEF Inv, SubscriptionsTypeOK
<1>2. Ledger'
  BY DEF Inv, Ledger, MovesOn, SamePeriod
<1>3. Knows' /\ Alone'
  <2>1. \A q \in Request : req[q].kind \in Holders =>
          sub'[req[q].row].status = "NONE" /\ pay'[req[q].row].status # "NONE"
    BY DEF Inv, Knows, MovesOn
  <2>2. QED BY <2>1, KnowsKept DEF Inv, MovesOn
<1>4. StaysBacked
  BY DEF StaysBacked, Unbacked, MovesOn
<1>5. QED BY <1>1, <1>2, <1>3, <1>4 DEF Inv, One

\* What gives way to a period that is then not created.
LEMMA SwitchedRows ==
  ASSUME NEW rows \in [Row -> Subscription], One(rows), NEW start, NEW now \in Nat,
         NEW new, new = Switched(rows, start, now)
  PROVE  /\ new \in [Row -> Subscription]
         /\ MovesOn(rows, new) /\ One(new) /\ NoWorse(rows, new)
<1>1. CASE start > now
  BY <1>1 DEF Switched, MovesOn, SamePeriod, NoWorse
<1>2. CASE ~(start > now)
  <2>1. \A s \in Row : GivesWay(rows[s], now) \in Subscription
    BY DEF GivesWay, Subscription
  <2>2. new = [s \in Row |-> GivesWay(rows[s], now)]
    BY <1>2 DEF Switched
  <2>3. ASSUME NEW s \in Row PROVE
          /\ SamePeriod(rows[s], new[s]) /\ new[s].status # "ACTIVE"
          /\ rows[s].status # "ACTIVE" => new[s].status = rows[s].status
          /\ rows[s].status = "ACTIVE" => new[s].status \in {"EXPIRED", "SUSPENDED"}
    <3>1. new[s] = GivesWay(rows[s], now) /\ rows[s] \in Subscription
      BY <2>2
    <3>2. CASE rows[s].status # "ACTIVE"
      BY <3>1, <3>2 DEF GivesWay, SamePeriod
    <3>3. CASE rows[s].status = "ACTIVE"
      <4>1. new[s] = [rows[s] EXCEPT !.status =
                        IF rows[s].end <= now THEN "EXPIRED" ELSE "SUSPENDED"]
        BY <3>1, <3>3 DEF GivesWay
      <4>2. QED BY <3>1, <3>3, <4>1 DEF SamePeriod, Subscription
    <3>4. QED BY <3>2, <3>3
  <2>4. One(new) /\ NoWorse(rows, new)
    BY <2>3 DEF One, NoWorse, Behind
  <2>5. QED BY <2>1, <2>2, <2>3, <2>4 DEF MovesOn
<1>3. QED BY <1>1, <1>2

LEMMA MovesOnTwice ==
  ASSUME NEW a, NEW b, NEW c, MovesOn(a, b), MovesOn(b, c)
  PROVE  MovesOn(a, c)
BY DEF MovesOn, SamePeriod

--------------------------------------------------------------------------------
(* The steps.                                                                  *)

\* A request begins: it knows what it has just read.
LEMMA StartStep ==
  ASSUME Inv, NEW r \in Request, NEW asked \in InProgress, Start(r, asked), asked.kind # "idle",
         asked.kind \in Holders => /\ asked.row \in Order /\ sub[asked.row].status = "NONE"
                                   /\ pay[asked.row].status # "NONE" /\ ~Busy(asked.row),
         asked.kind = "return" => asked.row \in Order,
         asked.kind \in {"wake", "cancel", "mark"} => sub[asked.row].status # "NONE",
         asked.kind = "cancel" /\ asked.amount # "no" => asked.row \in Order,
         asked.kind = "mark" => asked.to \in {"ACTIVE", "EXPIRED", "SCHEDULED"},
         asked.kind = "cancel" /\ asked.amount = "full" => sub[asked.row].start + Day > clock
  PROVE  Inv'
<1> DEFINE new == [asked EXCEPT !.now = clock]
<1>1. clock \in Nat /\ req \in [Request -> InProgress]
  BY DEF Inv, SubscriptionsTypeOK
<1>2. new \in InProgress /\ new.now = clock /\ new.kind = asked.kind /\ new.row = asked.row
      /\ new.to = asked.to /\ new.amount = asked.amount
  BY <1>1 DEF InProgress
<1> HIDE DEF new
<1>3. req' = [req EXCEPT ![r] = new] /\ UNCHANGED <<clock, sub, pay>>
  BY DEF Start, new
<1>4. SubscriptionsTypeOK'
  BY <1>1, <1>2, <1>3 DEF Inv, SubscriptionsTypeOK
<1>5. req'[r] = new /\ \A q \in Request \ {r} : req'[q] = req[q]
  BY <1>1, <1>3
<1>6. Knows'
  BY <1>1, <1>2, <1>3, <1>5 DEF Inv, Knows
<1>7. Alone'
  BY <1>2, <1>5 DEF Inv, Alone, Busy, Holders
<1>8. Ledger' /\ One(sub)'
  BY <1>3 DEF Inv, Ledger, One
<1>9. QED BY <1>4, <1>6, <1>7, <1>8 DEF Inv

LEMMA BeginSteps ==
  ASSUME Inv, NEW r \in Request,
         \/ \E t \in Tier \ {0}, ask \in Nat : StartPurchase(r, t, ask)
         \/ \E o \in Order : StartOrder(r, o) \/ StartRetry(r, o) \/ StartReturn(r, o)
         \/ \E s \in Row, by \in {"staff", "self"} : StartCancel(r, s, by)
         \/ \E s \in Row, to \in Status : StartMark(r, s, to)
  PROVE  Inv'
<1> USE DEF Holders, Grants
<1>0. /\ Idle \in InProgress /\ clock \in Nat
      /\ sub \in [Row -> Subscription] /\ pay \in [Order -> Payment]
  BY DEF Idle, InProgress, Kind, Refund, Inv, SubscriptionsTypeOK
<1>1. ASSUME NEW t \in Tier \ {0}, NEW ask \in Nat, StartPurchase(r, t, ask) PROVE Inv'
  <2> DEFINE asked == [Idle EXCEPT !.kind = "purchase", !.tier = t, !.ask = ask]
  <2>1. asked \in InProgress /\ asked.kind = "purchase"
    BY <1>0 DEF Idle, InProgress, Kind, Refund
  <2>2. Start(r, asked)
    BY <1>1 DEF StartPurchase
  <2> HIDE DEF asked
  <2>3. QED BY <2>1, <2>2, StartStep
<1>2. ASSUME NEW o \in Order, StartOrder(r, o) PROVE Inv'
  <2> DEFINE asked == [Idle EXCEPT !.kind = IF pay[o].online THEN "settle" ELSE "confirm",
                                   !.row = o, !.tier = pay[o].tier, !.ask = pay[o].ask]
  <2>1. pay[o] \in Payment /\ pay[o].status = "PENDING" /\ ~Busy(o)
    BY <1>0, <1>2 DEF StartOrder
  <2>2. asked \in InProgress /\ asked.kind \in {"settle", "confirm"} /\ asked.row = o
    BY <2>1 DEF Idle, InProgress, Kind, Refund, Payment
  <2>3. Start(r, asked)
    BY <1>2 DEF StartOrder
  <2>4. sub[o].status = "NONE"
    BY <2>1 DEF Inv, Ledger
  <2> HIDE DEF asked
  <2>5. QED BY <2>1, <2>2, <2>3, <2>4, StartStep
<1>3. ASSUME NEW o \in Order, StartRetry(r, o) PROVE Inv'
  <2> DEFINE asked == [Idle EXCEPT !.kind = "retry", !.row = o, !.tier = pay[o].tier]
  <2>1. pay[o] \in Payment /\ pay[o].status = "SUCCESS" /\ ~Busy(o) /\ sub[o].status = "NONE"
    BY <1>0, <1>3 DEF StartRetry
  <2>2. asked \in InProgress /\ asked.kind = "retry" /\ asked.row = o
    BY <2>1 DEF Idle, InProgress, Kind, Refund, Payment
  <2>3. Start(r, asked)
    BY <1>3 DEF StartRetry
  <2> HIDE DEF asked
  <2>4. QED BY <2>1, <2>2, <2>3, StartStep
<1>4. ASSUME NEW o \in Order, StartReturn(r, o) PROVE Inv'
  <2> DEFINE asked == [Idle EXCEPT !.kind = "return", !.row = o]
  <2>1. asked \in InProgress /\ asked.kind = "return" /\ asked.row = o
    BY DEF Idle, InProgress, Kind, Refund
  <2>2. Start(r, asked)
    BY <1>4 DEF StartReturn
  <2> HIDE DEF asked
  <2>3. QED BY <2>1, <2>2, StartStep
<1>5. ASSUME NEW s \in Row, NEW to \in Status, StartMark(r, s, to) PROVE Inv'
  <2> DEFINE asked == [Idle EXCEPT !.kind = "mark", !.row = s, !.to = to]
  <2>1. asked \in InProgress /\ asked.kind = "mark" /\ asked.row = s /\ asked.to = to
    BY DEF Idle, InProgress, Kind, Refund
  <2>2. /\ Start(r, asked) /\ sub[s].status # "NONE"
        /\ to \in {"ACTIVE", "EXPIRED", "SCHEDULED"}
    BY <1>5 DEF StartMark
  <2> HIDE DEF asked
  <2>3. QED BY <2>1, <2>2, StartStep
<1>6. ASSUME NEW s \in Row, NEW by \in {"staff", "self"}, StartCancel(r, s, by) PROVE Inv'
  <2>0. sub[s] \in Subscription
    BY <1>0
  <2>1. CASE sub[s].status = "SCHEDULED" /\ sub[s].start <= clock
             /\ Start(r, [Idle EXCEPT !.kind = "wake", !.row = s, !.by = by])
    <3> DEFINE asked == [Idle EXCEPT !.kind = "wake", !.row = s, !.by = by]
    <3>1. asked \in InProgress /\ asked.kind = "wake" /\ asked.row = s
      BY DEF Idle, InProgress, Kind, Refund
    <3>2. Start(r, asked)
      BY <2>1
    <3> HIDE DEF asked
    <3>3. QED BY <2>1, <3>1, <3>2, StartStep
  <2> DEFINE base == [Idle EXCEPT !.kind = "cancel", !.row = s, !.read = sub[s].status]
  <2>2. base \in InProgress /\ base.kind = "cancel" /\ base.row = s /\ base.amount = "no"
    BY <2>0 DEF Idle, InProgress, Kind, Refund, Subscription
  <2> HIDE DEF base
  <2>3. ASSUME NEW amount \in Refund, sub[s].status # "NONE",
               amount # "no" => Paid(s), amount = "full" => sub[s].start + Day > clock,
               Start(r, [base EXCEPT !.amount = amount])
        PROVE Inv'
    <3> DEFINE asked == [base EXCEPT !.amount = amount]
    <3>1. asked \in InProgress /\ asked.kind = "cancel" /\ asked.row = s
          /\ asked.amount = amount
      BY <2>2 DEF InProgress
    <3>2. Start(r, asked)
      BY <2>3
    <3> HIDE DEF asked
    <3>3. QED BY <2>3, <3>1, <3>2, StartStep DEF Paid
  <2>4. base = [base EXCEPT !.amount = "no"] /\ {"no", "part", "full"} = Refund
    BY <2>2 DEF InProgress, Refund
  <2>5. CASE sub[s].status = "SCHEDULED" /\ sub[s].start > clock
             /\ Start(r, [base EXCEPT !.amount = IF Paid(s) THEN "full" ELSE "no"])
    <3>1. CASE Paid(s)
      <4>1. Start(r, [base EXCEPT !.amount = "full"]) /\ sub[s].start + Day > clock
        BY <2>0, <2>5, <3>1, <1>0 DEF Subscription
      <4>2. QED BY <4>1, <2>3, <2>4, <2>5, <3>1
    <3>2. CASE ~Paid(s)
      <4>1. Start(r, [base EXCEPT !.amount = "no"])
        BY <2>5, <3>2
      <4>2. QED BY <4>1, <2>3, <2>4, <2>5
    <3>3. QED BY <3>1, <3>2
  <2>6. CASE sub[s].status = "ACTIVE"
             /\ Start(r, [base EXCEPT !.amount = IF Paid(s) THEN RefundDue(sub[s], by) ELSE "no"])
    <3>1. RefundDue(sub[s], by) \in Refund
      BY DEF RefundDue, Refund
    <3>2. CASE Paid(s)
      <4>1. sub[s].end = sub[s].start + Duration
        BY <2>6, <3>2 DEF Inv, Ledger, Paid
      <4>2. sub[s].start \in Nat /\ sub[s].end \in Nat
        BY <2>0 DEF Subscription
      <4>3. RefundDue(sub[s], by) = "full" => sub[s].start + Day > clock
        BY <1>0, <4>1, <4>2 DEF RefundDue
      <4>4. QED BY <2>3, <2>6, <3>1, <3>2, <4>3
    <3>3. CASE ~Paid(s)
      <4>1. Start(r, [base EXCEPT !.amount = "no"])
        BY <2>6, <3>3
      <4>2. QED BY <4>1, <2>3, <2>4, <2>6
    <3>4. QED BY <3>2, <3>3
  <2>7. CASE sub[s].status \in {"SUSPENDED", "EXPIRED", "CANCELLED"} /\ Start(r, base)
    BY <2>3, <2>4, <2>7
  <2>8. QED BY <1>6, <2>1, <2>5, <2>6, <2>7 DEF StartCancel, base
<1>7. QED BY <1>1, <1>2, <1>3, <1>4, <1>5, <1>6

\* A row that is suspended for a queued one has ended, or the queued one is better or was
\* behind it.
LEMMA ReplacedByQueued ==
  ASSUME NEW old \in [Row -> Subscription], NEW new, NEW now \in Nat,
         ShiftedFor(old, new, now),
         NEW s \in Row, old[s].status = "ACTIVE", new[s].status = "SUSPENDED"
  PROVE  \E t \in Row : /\ old[t].status = "SCHEDULED" /\ new[t].status = "ACTIVE"
                        /\ now < new[t].end
                        /\ \/ old[s].end <= now \/ old[t].tier > old[s].tier
                           \/ Behind(old, s, t)
<1>1. PICK t \in Row : /\ old[t].status = "SCHEDULED" /\ new[t].status = "ACTIVE"
                       /\ old[t].start <= now /\ now < new[t].end
  BY DEF ShiftedFor
<1>2. old[t] \in Subscription /\ old[s] \in Subscription
  OBVIOUS
<1>3. old[s].end <= now \/ old[t].tier > old[s].tier \/ Behind(old, s, t)
  BY <1>1, <1>2 DEF Subscription, Behind
<1>4. QED BY <1>1, <1>3

\* The action properties of the rows, as they stand for one step; Ended is kept by every
\* step but a status update.
Replaced == \A s \in Row : GivenUp(s) => Superseded(s) \/ Overtaken(s)
Explained == \A s \in Row : GivenUp(s) => Superseded(s) \/ Refused(s) \/ Overtaken(s)
Ended ==
  \A s \in Row : sub[s].status \in {"SUSPENDED", "EXPIRED", "CANCELLED"} =>
    /\ sub'[s].status \in {"SUSPENDED", "EXPIRED", "CANCELLED"}
    /\ sub'[s].start = sub[s].start
Fresh ==
  \A o \in Order : pay[o].refund = "no" /\ pay'[o].refund = "full"
    => sub[o].start + Day + Lag > clock

\* Rows that only move on stay ended.
LEMMA MovesOnEnded ==
  ASSUME sub \in [Row -> Subscription], sub' \in [Row -> Subscription], MovesOn(sub, sub')
  PROVE  Ended
<1>1. \A s \in Row : sub'[s].status \in Status
  BY DEF Subscription
<1>2. QED BY <1>1 DEF Ended, MovesOn, SamePeriod

\* A row that is queued behind a better one, and then is not, has overtaken it.
LEMMA BehindOvertakes ==
  ASSUME NEW s \in Row, NEW t \in Row, Behind(sub, s, t), sub'[t].status # "SCHEDULED"
  PROVE  Overtaken(s)
BY DEF Behind, Overtaken, Misqueued

\* An activation replaces what it suspends.
LEMMA ShiftReplaces ==
  ASSUME SubscriptionsTypeOK, NEW now \in Nat, now <= clock,
         \A s \in Row : Shifted(sub[s], sub'[s]), ShiftedFor(sub, sub', now)
  PROVE  Replaced
<1> SUFFICES ASSUME NEW s \in Row, sub[s].status = "ACTIVE", sub'[s].status = "SUSPENDED",
                    ~Overtaken(s)
             PROVE  \E t \in Row : /\ sub[t].status # "ACTIVE" /\ sub'[t].status = "ACTIVE"
                                   /\ sub[s].end <= clock \/ sub'[t].tier > sub[s].tier
  BY DEF Replaced, GivenUp, Superseded
<1>1. PICK t \in Row : /\ sub[t].status = "SCHEDULED" /\ sub'[t].status = "ACTIVE"
                       /\ sub[s].end <= now \/ sub[t].tier > sub[s].tier \/ Behind(sub, s, t)
  <2> DEFINE old == sub
             new == sub'
  <2>1. old \in [Row -> Subscription] /\ ShiftedFor(old, new, now)
        /\ old[s].status = "ACTIVE" /\ new[s].status = "SUSPENDED"
    BY DEF SubscriptionsTypeOK
  <2> HIDE DEF old, new
  <2>2. \E t \in Row : /\ old[t].status = "SCHEDULED" /\ new[t].status = "ACTIVE"
                       /\ now < new[t].end
                       /\ \/ old[s].end <= now \/ old[t].tier > old[s].tier
                          \/ Behind(old, s, t)
    BY <2>1, ReplacedByQueued, Zenon
  <2>3. QED BY <2>2 DEF old, new
<1>2. sub'[t].tier = sub[t].tier
  BY DEF Shifted, SamePeriod
<1>3. sub[s].end \in Nat /\ clock \in Nat
  BY DEF SubscriptionsTypeOK, Subscription
<1>4. ~Behind(sub, s, t)
  BY <1>1, BehindOvertakes
<1>5. QED BY <1>1, <1>2, <1>3, <1>4

\* A step in which rows only move on and one order changes, which gives no rights after it.
LEMMA PaidOn ==
  ASSUME Inv, sub' \in [Row -> Subscription], MovesOn(sub, sub'), One(sub'),
         NEW o \in Order, NEW p \in Payment, pay' = [pay EXCEPT ![o] = p],
         p.status # "NONE",
         p.status \in {"PENDING", "FAILED"} => sub'[o].status = "NONE",
         sub'[o].status \notin {"ACTIVE", "SCHEDULED"},
         clock' = clock, req' \in [Request -> InProgress],
         \A q \in Request : req'[q] = req[q] \/ req'[q].kind = "idle"
  PROVE  Inv' /\ StaysBacked
<1>0. pay \in [Order -> Payment]
  BY DEF Inv, SubscriptionsTypeOK
<1>1. /\ pay' \in [Order -> Payment] /\ pay'[o] = p
      /\ \A x \in Order \ {o} : pay'[x] = pay[x]
  BY <1>0
<1>2. SubscriptionsTypeOK'
  BY <1>1 DEF Inv, SubscriptionsTypeOK
<1>3. Ledger'
  <2>1. ASSUME NEW x \in Order
        PROVE  pay'[x].status \in {"NONE", "PENDING", "FAILED"} => sub'[x].status = "NONE"
    <3>1. CASE x = o
      BY <1>1, <3>1
    <3>2. CASE x # o
      BY <1>1, <3>2 DEF Inv, Ledger, MovesOn
    <3>3. QED BY <3>1, <3>2
  <2>2. \A x \in Order : sub'[x].status # "NONE" => sub'[x].end = sub'[x].start + Duration
    BY DEF Inv, Ledger, MovesOn, SamePeriod
  <2>3. QED BY <2>1, <2>2 DEF Ledger
<1>4. Knows' /\ Alone'
  <2>1. \A q \in Request : req[q].kind \in Holders =>
          sub'[req[q].row].status = "NONE" /\ pay'[req[q].row].status # "NONE"
    BY <1>1 DEF Inv, Knows, MovesOn
  <2>2. QED BY <2>1, KnowsKept DEF Inv, MovesOn
<1>5. ASSUME NEW x \in Order, Unbacked(x)' PROVE Unbacked(x)
  <2>1. x # o
    BY <1>5 DEF Unbacked
  <2>2. QED BY <1>1, <1>5, <2>1 DEF Unbacked, MovesOn
<1>6. QED BY <1>2, <1>3, <1>4, <1>5 DEF Inv, One, StaysBacked

Good == Inv' /\ Replaced /\ Ended /\ Fresh /\ StaysBacked /\ StaysQueued

\* A purchase, a confirmation, a settlement or a retry that is accepted.
LEMMA GrantStep ==
  ASSUME Inv, NEW r \in Request, Grant(r)
  PROVE  Good
<1> DEFINE now == req[r].now
           tier == req[r].tier
           ask == req[r].ask
<1>1. /\ sub \in [Row -> Subscription] /\ pay \in [Order -> Payment] /\ clock \in Nat
      /\ now \in Nat /\ now <= clock /\ ask \in Nat /\ tier \in Tier
  BY DEF Inv, SubscriptionsTypeOK, InProgress, Knows, Grant, Grants
<1>2. PICK rows \in Synced(sub, now), o \in Order :
        \E start \in Starts(rows, tier, ask, now) :
          /\ IF req[r].kind = "purchase" THEN NextOrder(o) ELSE o = req[r].row
          /\ sub' = [Switched(rows, start, now) EXCEPT ![o] = NewRow(tier, start, now)]
          /\ pay' = [pay EXCEPT ![o] = [NoPayment EXCEPT !.status = "SUCCESS"]]
  BY DEF Grant
<1>3. PICK start \in Starts(rows, tier, ask, now) :
          /\ IF req[r].kind = "purchase" THEN NextOrder(o) ELSE o = req[r].row
          /\ sub' = [Switched(rows, start, now) EXCEPT ![o] = NewRow(tier, start, now)]
          /\ pay' = [pay EXCEPT ![o] = [NoPayment EXCEPT !.status = "SUCCESS"]]
  BY <1>2
<1>4. Finish(r) /\ req[r].kind \in Grants
  BY DEF Grant
<1> HIDE DEF now, tier, ask
<1>5. One(sub)
  BY DEF Inv
<1>6. /\ rows \in [Row -> Subscription]
      /\ \A s \in Row : Shifted(sub[s], rows[s])
      /\ One(rows) /\ NoWorse(sub, rows) /\ ShiftedFor(sub, rows, now)
  BY <1>1, <1>5, SyncedRows
<1>7. /\ sub[o].status = "NONE" /\ rows[o].status = "NONE"
      /\ req[r].kind \in Holders => o = req[r].row
      /\ req[r].kind \notin Holders => pay[o].status = "NONE"
  <2>1. CASE req[r].kind = "purchase"
    BY <2>1, <1>3, <1>6 DEF NextOrder, Inv, Ledger, Shifted, Holders
  <2>2. CASE req[r].kind # "purchase"
    <3>1. req[r].kind \in Holders
      BY <2>2, <1>4 DEF Grants, Holders
    <3>2. QED BY <2>2, <3>1, <1>3, <1>6 DEF Inv, Knows, Shifted
  <2>3. QED BY <2>1, <2>2
<1>8. /\ sub' \in [Row -> Subscription]
      /\ sub'[o].status \in {"ACTIVE", "SCHEDULED"} /\ sub'[o].tier = tier
      /\ sub'[o].end = sub'[o].start + Duration
      /\ \A s \in Row \ {o} :
           /\ SamePeriod(rows[s], sub'[s])
           /\ \/ sub'[s].status = rows[s].status
              \/ rows[s].status = "ACTIVE" /\ sub'[s].status = "SUSPENDED"
              \/ rows[s].status = "ACTIVE" /\ sub'[s].status = "EXPIRED" /\ rows[s].end <= now
      /\ One(sub') /\ \A a, q \in Row : ~Behind(sub', a, q)
      /\ \A s \in Row : rows[s].status = "ACTIVE" /\ sub'[s].status = "SUSPENDED" =>
           sub'[o].status = "ACTIVE" /\ tier > rows[s].tier
  <2> DEFINE new == sub'
  <2>1. new = WithRow(rows, start, now, o, tier) /\ o \in Row
    BY <1>3 DEF WithRow
  <2> HIDE DEF new
  <2>2. Granted(rows, new, o, tier, now)
    <3>1. rows \in [Row -> Subscription] /\ One(rows)
      BY <1>6
    <3>2. start \in Starts(rows, tier, ask, now)
      OBVIOUS
    <3>3. now \in Nat /\ ask \in Nat /\ tier \in Tier
      BY <1>1
    <3>4. QED BY <3>1, <3>2, <3>3, <1>7, <2>1, GrantedRows
  <2>3. QED BY <2>2 DEF Granted, new
<1>9. \A s \in Row \ {o} :
        /\ SamePeriod(sub[s], sub'[s])
        /\ sub[s].status = "NONE" <=> sub'[s].status = "NONE"
        /\ sub'[s].status = "SCHEDULED" => sub[s].status = "SCHEDULED"
        /\ sub'[s].status = "ACTIVE" => sub[s].status \in {"ACTIVE", "SCHEDULED"}
  BY <1>6, <1>8 DEF Shifted, SamePeriod
<1>10. /\ pay' \in [Order -> Payment]
       /\ pay'[o] = [NoPayment EXCEPT !.status = "SUCCESS"]
       /\ \A x \in Order \ {o} : pay'[x] = pay[x]
  BY <1>1, <1>3 DEF Payment, NoPayment, Refund
<1>11. /\ req' \in [Request -> InProgress] /\ clock' = clock /\ req'[r].kind = "idle"
       /\ \A q \in Request \ {r} : req'[q] = req[q]
  BY <1>4, Finished DEF Inv
<1>12. SubscriptionsTypeOK'
  BY <1>1, <1>8, <1>10, <1>11 DEF SubscriptionsTypeOK
<1>13. Ledger'
  <2>1. ASSUME NEW x \in Order PROVE
          /\ pay'[x].status \in {"NONE", "PENDING", "FAILED"} => sub'[x].status = "NONE"
          /\ sub'[x].status # "NONE" => sub'[x].end = sub'[x].start + Duration
    <3>1. CASE x = o
      BY <1>8, <1>10, <3>1 DEF NoPayment
    <3>2. CASE x # o
      BY <1>9, <1>10, <3>2 DEF Inv, Ledger, SamePeriod
    <3>3. QED BY <3>1, <3>2
  <2>2. QED BY <2>1 DEF Ledger
<1>14. Knows' /\ Alone'
  <2>1. ASSUME NEW q \in Request \ {r}, req[q].kind \in Holders
        PROVE  sub'[req[q].row].status = "NONE" /\ pay'[req[q].row].status # "NONE"
    <3>1. req[q].row \in Order /\ sub[req[q].row].status = "NONE"
          /\ pay[req[q].row].status # "NONE"
      BY <2>1 DEF Inv, Knows
    <3>2. req[q].row # o
      BY <1>7, <2>1, <3>1 DEF Inv, Alone
    <3>3. QED BY <3>1, <3>2, <1>9, <1>10
  <2>2. \A s \in Row : sub[s].status # "NONE"
          => sub'[s].status # "NONE" /\ SamePeriod(sub[s], sub'[s])
    BY <1>7, <1>9
  <2>3. QED BY <1>11, <2>1, <2>2, KnowsKept DEF Inv
<1>15. Inv'
  BY <1>8, <1>12, <1>13, <1>14 DEF Inv, One
<1>16. Replaced
  <2> SUFFICES ASSUME NEW s \in Row, sub[s].status = "ACTIVE", sub'[s].status = "SUSPENDED",
                      ~Overtaken(s)
               PROVE  \E t \in Row : /\ sub[t].status # "ACTIVE" /\ sub'[t].status = "ACTIVE"
                                     /\ sub[s].end <= clock \/ sub'[t].tier > sub[s].tier
    BY DEF Replaced, GivenUp, Superseded
  <2>1. s # o
    BY <1>7
  <2>2. CASE rows[s].status = "ACTIVE"
    <3>1. sub'[o].status = "ACTIVE" /\ tier > rows[s].tier
      BY <1>8, <2>2
    <3>2. rows[s].tier = sub[s].tier
      BY <1>6 DEF Shifted, SamePeriod
    <3>3. QED BY <3>1, <3>2, <1>7, <1>8
  <2>3. CASE rows[s].status # "ACTIVE"
    <3>1. rows[s].status = "SUSPENDED"
      BY <1>6, <2>3 DEF Shifted
    <3>2. PICK t \in Row : /\ sub[t].status = "SCHEDULED" /\ rows[t].status = "ACTIVE"
                           /\ now < rows[t].end
                           /\ \/ sub[s].end <= now \/ sub[t].tier > sub[s].tier
                              \/ Behind(sub, s, t)
      BY <1>1, <1>6, <3>1, ReplacedByQueued, Zenon
    <3>3. /\ t # o /\ SamePeriod(rows[t], sub'[t]) /\ SamePeriod(sub[t], sub'[t])
          /\ ~Behind(sub, s, t)
      <4>1. t # o /\ SamePeriod(rows[t], sub'[t]) /\ SamePeriod(sub[t], sub'[t])
        BY <1>7, <1>8, <1>9, <3>2
      <4>2. sub'[t].status # "SCHEDULED"
        BY <1>8, <3>2, <4>1
      <4>3. QED BY <4>1, <4>2, BehindOvertakes
    <3>4. /\ sub[s].end \in Nat /\ sub[t].tier \in Tier /\ sub[s].tier \in Tier
          /\ rows[t].end \in Nat
      BY <1>1, <1>6 DEF Subscription
    <3>5. CASE sub'[t].status = "ACTIVE"
      BY <1>1, <3>2, <3>3, <3>4, <3>5 DEF SamePeriod
    <3>6. CASE sub'[t].status # "ACTIVE"
      <4>1. sub'[t].status = "SUSPENDED"
        BY <1>1, <1>8, <3>2, <3>3, <3>4, <3>6
      <4>2. sub'[o].status = "ACTIVE" /\ tier > rows[t].tier
        BY <1>8, <3>2, <4>1
      <4>3. rows[t].tier = sub[t].tier
        BY <3>3 DEF SamePeriod
      <4>4. QED BY <1>1, <1>7, <1>8, <3>2, <3>3, <3>4, <4>2, <4>3
    <3>7. QED BY <3>5, <3>6
  <2>4. QED BY <2>2, <2>3
<1>17. Ended
  <2>1. \A s \in Row : sub'[s].status \in Status
    BY <1>8 DEF Subscription
  <2>2. QED BY <2>1, <1>7, <1>9 DEF Ended, SamePeriod
<1>18. Fresh
  BY <1>10 DEF Fresh, NoPayment
<1>19. ASSUME NEW x \in Order, Unbacked(x)' PROVE Unbacked(x)
  <2>1. x # o
    BY <1>10, <1>19 DEF Unbacked, NoPayment
  <2>2. QED BY <1>9, <1>10, <1>19, <2>1 DEF Unbacked
<1>20. StaysQueued
  BY <1>8 DEF Behind, StaysQueued, Misqueued
<1>21. QED BY <1>15, <1>16, <1>17, <1>18, <1>19, <1>20 DEF Good, StaysBacked

\* The typed parts of the invariant.
LEMMA Typed ==
  ASSUME Inv
  PROVE  /\ sub \in [Row -> Subscription] /\ pay \in [Order -> Payment] /\ clock \in Nat
         /\ req \in [Request -> InProgress]
         /\ One(sub)
         /\ \A r \in Request : /\ req[r].row \in Row /\ req[r].now \in Nat
                               /\ req[r].kind # "idle" => req[r].now <= clock
BY DEF Inv, SubscriptionsTypeOK, InProgress, Knows

\* A settlement whose plan change is refused.
LEMMA SettleReviewStep ==
  ASSUME Inv, NEW r \in Request, SettleReview(r)
  PROVE  /\ Inv' /\ Ended /\ Fresh /\ StaysBacked /\ StaysQueued /\ Explained
         /\ TRUE \notin FullHouse => Replaced
         /\ MovesOn(sub, sub')
<1> DEFINE now == req[r].now
           o == req[r].row
           paid == [NoPayment EXCEPT !.status = "SUCCESS", !.tier = req[r].tier]
<1>1. /\ sub \in [Row -> Subscription] /\ now \in Nat /\ now <= clock
      /\ One(sub)
  BY Typed DEF SettleReview
<1>2. /\ o \in Order /\ sub[o].status = "NONE" /\ req[r].tier \in Tier
  BY Typed DEF SettleReview, Inv, Knows, Holders, Grants, InProgress
<1>3. paid \in Payment /\ paid.status = "SUCCESS" /\ paid.refund = "no"
  BY <1>2 DEF NoPayment, Payment, Refund
<1>4. /\ pay' = [pay EXCEPT ![o] = paid]
      /\ Finish(r)
  BY DEF SettleReview
<1>5. PICK rows \in Synced(sub, now) :
        \/ sub' = rows
        \/ /\ TRUE \in FullHouse
           /\ \E start \in Starts(rows, req[r].tier, req[r].ask, now) :
                sub' = Switched(rows, start, now)
  BY DEF SettleReview
<1> HIDE DEF now, o, paid
<1>6. /\ rows \in [Row -> Subscription]
      /\ \A s \in Row : Shifted(sub[s], rows[s])
      /\ One(rows) /\ NoWorse(sub, rows) /\ ShiftedFor(sub, rows, now)
  BY <1>1, SyncedRows
<1>7. MovesOn(sub, rows)
  BY <1>6, ShiftMovesOn
<1>8. /\ sub' \in [Row -> Subscription] /\ MovesOn(sub, sub') /\ MovesOn(rows, sub')
      /\ One(sub') /\ NoWorse(sub, sub')
      /\ TRUE \notin FullHouse => sub' = rows
  <2>1. CASE sub' = rows
    BY <2>1, <1>6, <1>7 DEF MovesOn, SamePeriod
  <2>2. ASSUME TRUE \in FullHouse, NEW start, sub' = Switched(rows, start, now)
        PROVE  /\ sub' \in [Row -> Subscription] /\ MovesOn(sub, sub')
               /\ MovesOn(rows, sub') /\ One(sub') /\ NoWorse(sub, sub')
    <3> DEFINE new == sub'
    <3>1. new = Switched(rows, start, now)
      BY <2>2
    <3> HIDE DEF new
    <3>2. /\ new \in [Row -> Subscription] /\ MovesOn(rows, new)
          /\ One(new) /\ NoWorse(rows, new)
      BY <1>1, <1>6, <3>1, SwitchedRows
    <3>3. MovesOn(sub, new) /\ NoWorse(sub, new)
      BY <1>6, <1>7, <3>2, MovesOnTwice DEF NoWorse
    <3>4. QED BY <3>2, <3>3 DEF new
  <2>3. QED BY <1>5, <2>1, <2>2
<1>9. req' \in [Request -> InProgress] /\ clock' = clock
      /\ \A q \in Request : req'[q] = req[q] \/ req'[q].kind = "idle"
  BY <1>4, Finished DEF Inv
<1>10. sub'[o].status = "NONE"
  BY <1>2, <1>8 DEF MovesOn
<1>11. Inv' /\ StaysBacked
  BY <1>2, <1>3, <1>4, <1>8, <1>9, <1>10, PaidOn
<1>12. Ended
  BY <1>1, <1>8, MovesOnEnded
<1>13. Fresh
  BY <1>2, <1>3, <1>4, Typed DEF Fresh
<1>14. ASSUME sub' = rows PROVE Replaced
  BY <1>1, <1>6, <1>14, ShiftReplaces DEF Inv
<1>15. TRUE \notin FullHouse => Replaced
  BY <1>8, <1>14
<1>16. ASSUME NEW start \in Starts(rows, req[r].tier, req[r].ask, now),
              sub' = Switched(rows, start, now)
       PROVE  Explained
  <2> SUFFICES ASSUME NEW s \in Row, GivenUp(s), ~Superseded(s), ~Overtaken(s)
               PROVE  sub[s].end <= clock \/ req[r].tier > sub[s].tier
    BY DEF Explained, Refused
  <2>1. req[r].ask \in Nat
    BY Typed DEF InProgress
  <2>2. ASSUME NEW t \in Row, rows[t].status = "ACTIVE", now < rows[t].end
        PROVE  \/ sub'[t].status = "ACTIVE"
               \/ req[r].tier > rows[t].tier
    <3> DEFINE tier == req[r].tier
               ask == req[r].ask
    <3>1. /\ tier \in Tier /\ ask \in Nat /\ start \in Starts(rows, tier, ask, now)
          /\ rows \in [Row -> Subscription] /\ now \in Nat /\ One(rows)
      BY <1>1, <1>2, <1>6, <1>16, <2>1
    <3> HIDE DEF tier, ask
    <3>2. start \in Nat /\ (start >= rows[t].end \/ tier > rows[t].tier)
      BY <2>2, <3>1, AcceptedStart
    <3>3. start \in Nat /\ (start >= rows[t].end \/ req[r].tier > rows[t].tier)
      BY <3>2 DEF tier
    <3>4. rows[t].end \in Nat
      BY <1>6 DEF Subscription
    <3>5. CASE start > now
      BY <1>16, <2>2, <3>5 DEF Switched
    <3>6. CASE ~(start > now)
      BY <1>1, <2>2, <3>3, <3>4, <3>6
    <3>7. QED BY <3>5, <3>6
  <2>3. CASE rows[s].status = "ACTIVE"
    <3>1. rows[s].end \in Nat /\ SamePeriod(sub[s], rows[s])
      BY <1>6 DEF Subscription, Shifted
    <3>2. CASE now < rows[s].end
      BY <2>2, <2>3, <3>1, <3>2 DEF GivenUp, SamePeriod
    <3>3. CASE ~(now < rows[s].end)
      BY <1>1, Typed, <3>1, <3>3 DEF SamePeriod
    <3>4. QED BY <3>2, <3>3
  <2>4. CASE rows[s].status # "ACTIVE"
    <3>1. sub[s].status = "ACTIVE" /\ rows[s].status = "SUSPENDED"
      BY <1>6, <2>4 DEF Shifted, GivenUp
    <3>2. PICK t \in Row : /\ sub[t].status = "SCHEDULED" /\ rows[t].status = "ACTIVE"
                           /\ now < rows[t].end
                           /\ \/ sub[s].end <= now \/ sub[t].tier > sub[s].tier
                              \/ Behind(sub, s, t)
      BY <1>1, <1>6, <3>1, ReplacedByQueued, Zenon
    <3>3. /\ SamePeriod(sub[t], rows[t]) /\ SamePeriod(sub[t], sub'[t])
          /\ ~Behind(sub, s, t)
      <4>1. sub'[t].status # "SCHEDULED"
        BY <1>8, <3>2 DEF MovesOn
      <4>2. QED BY <1>6, <1>8, <4>1, BehindOvertakes DEF Shifted, MovesOn
    <3>4. sub[s].end \in Nat /\ sub[t].tier \in Tier /\ sub[s].tier \in Tier /\ clock \in Nat
      BY Typed DEF Subscription
    <3>5. sub'[t].status # "ACTIVE" \/ sub[s].end <= clock
      BY <1>1, <3>2, <3>3, <3>4 DEF Superseded, SamePeriod
    <3>6. sub'[t].status = "ACTIVE" \/ req[r].tier > sub[t].tier
      BY <2>2, <3>2, <3>3 DEF SamePeriod
    <3>7. CASE sub[s].end <= now
      BY <1>1, <3>4, <3>7
    <3>8. CASE sub[t].tier > sub[s].tier
      BY <1>2, <3>4, <3>5, <3>6, <3>8
    <3>9. QED BY <3>2, <3>3, <3>7, <3>8
  <2>5. QED BY <2>3, <2>4
<1>17. Explained
  BY <1>5, <1>14, <1>16 DEF Replaced, Explained
<1>18. StaysQueued
  BY <1>8, QueuedAsRows
<1>19. QED BY <1>8, <1>11, <1>12, <1>13, <1>15, <1>17, <1>18

\* Activation of a row that is due, by the job or before a cancellation.
LEMMA ActivationStep ==
  ASSUME Inv, NEW s \in Row, NEW now \in Nat, now <= clock,
         sub[s].status = "SCHEDULED", sub[s].start <= now,
         sub' = Activated(sub, s, now), pay' = pay, clock' = clock,
         req' \in [Request -> InProgress],
         \A q \in Request :
           \/ req'[q] = req[q]
           \/ req'[q].kind = "redo" /\ req[q].kind # "idle" /\ req'[q].now = req[q].now
  PROVE  Good /\ MovesOn(sub, sub')
<1>1. sub \in [Row -> Subscription] /\ One(sub)
  BY Typed
<1>2. /\ sub' \in [Row -> Subscription]
      /\ \A t \in Row : Shifted(sub[t], sub'[t])
      /\ One(sub') /\ NoWorse(sub, sub') /\ ShiftedFor(sub, sub', now)
  BY <1>1, ActivatedRows
<1>3. MovesOn(sub, sub')
  BY <1>2, ShiftMovesOn
<1>4. Inv' /\ StaysBacked /\ StaysQueued
  BY <1>2, <1>3, MovedOn, QueuedAsRows
<1>5. Replaced
  BY <1>1, <1>2, ShiftReplaces DEF Inv
<1>6. Ended
  BY <1>1, <1>2, <1>3, MovesOnEnded
<1>7. QED BY <1>3, <1>4, <1>5, <1>6 DEF Good, Fresh

\* A step that leaves rows and orders alone.
LEMMA QuietRows ==
  ASSUME Inv, UNCHANGED <<sub, pay>>
  PROVE  Replaced /\ Ended /\ Fresh /\ StaysBacked /\ StaysQueued
BY DEF Replaced, GivenUp, Ended, Fresh, StaysBacked, Unbacked, StaysQueued, Misqueued

LEMMA RefuseStep ==
  ASSUME Inv, NEW r \in Request, Refuse(r)
  PROVE  Good /\ MovesOn(sub, sub')
<1>1. /\ req' \in [Request -> InProgress] /\ clock' = clock /\ sub' = sub /\ pay' = pay
      /\ \A q \in Request : req'[q] = req[q] \/ req'[q].kind = "idle"
  BY Finished DEF Inv, Refuse
<1>2. MovesOn(sub, sub')
  BY <1>1 DEF MovesOn, SamePeriod
<1>3. One(sub') /\ sub' \in [Row -> Subscription]
  BY <1>1, Typed
<1>4. Inv'
  BY <1>1, <1>2, <1>3, MovedOn
<1>5. QED BY <1>1, <1>2, <1>4, QuietRows DEF Good

LEMMA WakeStep ==
  ASSUME Inv, NEW r \in Request, Wake(r)
  PROVE  Good /\ MovesOn(sub, sub')
<1>1. req' = [req EXCEPT ![r].kind = "redo"] /\ UNCHANGED <<clock, pay>>
      /\ req[r].kind = "wake"
  BY DEF Wake
<1>2. /\ req' \in [Request -> InProgress]
      /\ \A q \in Request :
           \/ req'[q] = req[q]
           \/ req'[q].kind = "redo" /\ req[q].kind # "idle" /\ req'[q].now = req[q].now
  <2>1. req \in [Request -> InProgress]
    BY Typed
  <2>2. [req[r] EXCEPT !.kind = "redo"] \in InProgress
    BY <2>1 DEF InProgress, Kind
  <2>3. req' = [req EXCEPT ![r] = [req[r] EXCEPT !.kind = "redo"]]
    BY <1>1, <2>1
  <2>4. req'[r] = [req[r] EXCEPT !.kind = "redo"] /\ \A q \in Request \ {r} : req'[q] = req[q]
    BY <2>1, <2>3
  <2>5. req'[r].kind = "redo" /\ req'[r].now = req[r].now
    BY <2>1, <2>4 DEF InProgress
  <2>6. QED BY <1>1, <2>1, <2>2, <2>3, <2>4, <2>5
<1>3. req[r].row \in Row /\ req[r].now \in Nat /\ req[r].now <= clock
  BY <1>1, Typed
<1>4. CASE sub[req[r].row].status = "SCHEDULED" /\ sub[req[r].row].start <= req[r].now
  <2>1. sub' = Activated(sub, req[r].row, req[r].now)
    BY <1>4 DEF Wake
  <2>2. QED BY <1>1, <1>2, <1>3, <1>4, <2>1, ActivationStep
<1>5. CASE ~(sub[req[r].row].status = "SCHEDULED" /\ sub[req[r].row].start <= req[r].now)
  <2>1. sub' = sub
    BY <1>5 DEF Wake
  <2>2. MovesOn(sub, sub') /\ One(sub') /\ sub' \in [Row -> Subscription]
    BY <2>1, Typed DEF MovesOn, SamePeriod
  <2>3. Inv'
    BY <1>1, <1>2, <2>2, MovedOn
  <2>4. QED BY <1>1, <2>1, <2>2, <2>3, QuietRows DEF Good
<1>6. QED BY <1>4, <1>5

\* The rows once one of them has been ended.
Ending(s, to) == [sub EXCEPT ![s].status = to]

LEMMA EndedRow ==
  ASSUME Inv, NEW s \in Row, sub[s].status # "NONE", NEW to \in {"EXPIRED", "CANCELLED"}
  PROVE  /\ Ending(s, to) \in [Row -> Subscription] /\ MovesOn(sub, Ending(s, to))
         /\ One(Ending(s, to)) /\ NoWorse(sub, Ending(s, to))
         /\ Ending(s, to)[s].status = to
         /\ \A t \in Row \ {s} : Ending(s, to)[t] = sub[t]
<1> DEFINE ended == Ending(s, to)
<1>1. sub \in [Row -> Subscription] /\ One(sub)
  BY Typed
<1>2. /\ ended \in [Row -> Subscription]
      /\ ended[s].status = to /\ SamePeriod(sub[s], ended[s])
      /\ \A t \in Row \ {s} : ended[t] = sub[t]
  BY <1>1 DEF Subscription, SamePeriod, Ending
<1> HIDE DEF ended
<1>3. MovesOn(sub, ended)
  BY <1>2 DEF MovesOn, SamePeriod
<1>4. One(ended) /\ NoWorse(sub, ended)
  BY <1>1, <1>2 DEF One, NoWorse, Behind
<1>5. QED BY <1>2, <1>3, <1>4 DEF ended

\* What the rows of a step have to show for Replaced.
MakesWay(new) ==
  \A x \in Row : sub[x].status = "ACTIVE" /\ new[x].status = "SUSPENDED" =>
    \E t \in Row : /\ sub[t].status # "ACTIVE" /\ new[t].status = "ACTIVE"
                   /\ \/ sub[x].end <= clock \/ new[t].tier > sub[x].tier
                      \/ Behind(sub, x, t)

LEMMA MakesWayReplaced ==
  ASSUME MakesWay(sub')
  PROVE  Replaced
<1> SUFFICES ASSUME NEW x \in Row, sub[x].status = "ACTIVE", sub'[x].status = "SUSPENDED"
             PROVE  Superseded(x) \/ Overtaken(x)
  BY DEF Replaced, GivenUp
<1>1. PICK t \in Row : /\ sub[t].status # "ACTIVE" /\ sub'[t].status = "ACTIVE"
                       /\ \/ sub[x].end <= clock \/ sub'[t].tier > sub[x].tier
                          \/ Behind(sub, x, t)
  BY DEF MakesWay
<1>2. CASE Behind(sub, x, t)
  BY <1>1, <1>2, BehindOvertakes
<1>3. CASE sub[x].end <= clock \/ sub'[t].tier > sub[x].tier
  BY <1>1, <1>3 DEF Superseded
<1>4. QED BY <1>1, <1>2, <1>3

\* A step that ends a row and then activates what is due.
LEMMA EndStep ==
  ASSUME Inv, NEW s \in Row, sub[s].status # "NONE", NEW to \in {"EXPIRED", "CANCELLED"},
         NEW new \in Synced(Ending(s, to), clock)
  PROVE  /\ new \in [Row -> Subscription] /\ MovesOn(sub, new)
         /\ One(new) /\ NoWorse(sub, new)
         /\ new[s].status = to
         /\ MakesWay(new)
<1> DEFINE ended == Ending(s, to)
<1>1. sub \in [Row -> Subscription] /\ One(sub) /\ clock \in Nat
  BY Typed
<1>2. /\ ended \in [Row -> Subscription] /\ MovesOn(sub, ended)
      /\ One(ended) /\ NoWorse(sub, ended)
      /\ ended[s].status = to /\ \A t \in Row \ {s} : ended[t] = sub[t]
  BY EndedRow
<1>3. new \in Synced(ended, clock)
  OBVIOUS
<1> HIDE DEF ended
<1>4. /\ new \in [Row -> Subscription]
      /\ \A x \in Row : Shifted(ended[x], new[x])
      /\ One(new) /\ NoWorse(ended, new) /\ ShiftedFor(ended, new, clock)
  BY <1>1, <1>2, <1>3, SyncedRows
<1>5. MovesOn(ended, new)
  BY <1>4, ShiftMovesOn
<1>6. MovesOn(sub, new)
  BY <1>2, <1>5, MovesOnTwice
<1>7. new[s].status = to
  BY <1>2, <1>4 DEF Shifted
<1>8. ASSUME NEW x \in Row, sub[x].status = "ACTIVE", new[x].status = "SUSPENDED"
      PROVE  \E t \in Row : /\ sub[t].status # "ACTIVE" /\ new[t].status = "ACTIVE"
                            /\ \/ sub[x].end <= clock \/ new[t].tier > sub[x].tier
                               \/ Behind(sub, x, t)
  <2>1. x # s /\ ended[x] = sub[x]
    BY <1>2, <1>7, <1>8
  <2>2. PICK t \in Row : /\ ended[t].status = "SCHEDULED" /\ new[t].status = "ACTIVE"
                         /\ clock < new[t].end
                         /\ \/ ended[x].end <= clock \/ ended[t].tier > ended[x].tier
                            \/ Behind(ended, x, t)
    <3>1. ended \in [Row -> Subscription] /\ ShiftedFor(ended, new, clock)
      BY <1>2, <1>4
    <3>2. /\ ended[x].status = "ACTIVE" /\ new[x].status = "SUSPENDED" /\ clock \in Nat
          /\ x \in Row
      BY <1>1, <1>8, <2>1
    <3> HIDE DEF Row, Order, Tier, Status
    <3>3. QED BY ONLY <3>1, <3>2, ReplacedByQueued, Zenon
  <2>3. t # s /\ ended[t] = sub[t] /\ new[t].tier = ended[t].tier
    BY <1>2, <1>4, <2>2 DEF Shifted, SamePeriod
  <2>4. Behind(ended, x, t) => Behind(sub, x, t)
    BY <1>2 DEF NoWorse
  <2>5. QED BY <2>1, <2>2, <2>3, <2>4
<1>9. NoWorse(sub, new)
  BY <1>2, <1>4 DEF NoWorse
<1>10. QED BY <1>4, <1>6, <1>7, <1>8, <1>9 DEF MakesWay

\* A cancellation.
LEMMA CancelStep ==
  ASSUME Inv, NEW r \in Request, Cancel(r)
  PROVE  Good /\ MovesOn(sub, sub')
<1> DEFINE s == req[r].row
           new == sub'
<1>1. /\ s \in Row /\ sub[s].status # "NONE" /\ Finish(r)
      /\ new \in Synced(Ending(s, "CANCELLED"), clock) /\ req[r].kind = "cancel"
  BY Typed DEF Cancel, Inv, Knows, Ending
<1>2. /\ new \in [Row -> Subscription] /\ MovesOn(sub, new) /\ One(new) /\ NoWorse(sub, new)
      /\ new[s].status = "CANCELLED" /\ MakesWay(new)
  <2>1. /\ s \in Row /\ sub[s].status # "NONE"
        /\ new \in Synced(Ending(s, "CANCELLED"), clock)
    BY <1>1
  <2> HIDE DEF s, new
  <2>2. QED BY ONLY <2>1, Inv, EndStep
<1>3. Replaced /\ StaysQueued
  BY <1>2, MakesWayReplaced, QueuedAsRows
<1>4. Ended
  BY <1>2, Typed, MovesOnEnded
<1>5. req' \in [Request -> InProgress] /\ clock' = clock
      /\ \A q \in Request : req'[q] = req[q] \/ req'[q].kind = "idle"
  BY <1>1, Finished DEF Inv
<1>6. CASE req[r].amount = "no"
  <2>1. pay' = pay
    BY <1>6 DEF Cancel
  <2>2. Inv' /\ StaysBacked
    BY <1>2, <1>5, <2>1, MovedOn
  <2>3. QED BY <1>2, <1>3, <1>4, <2>1, <2>2 DEF Good, Fresh
<1>7. CASE req[r].amount # "no"
  <2> DEFINE p == [pay[s] EXCEPT !.refund = req[r].amount]
  <2>1. /\ s \in Order /\ pay[s].status = "SUCCESS"
        /\ pay' = [pay EXCEPT ![s].refund = req[r].amount]
    BY <1>7 DEF Cancel, Paid
  <2>2. pay \in [Order -> Payment] /\ req[r].amount \in Refund
    BY Typed DEF InProgress
  <2>3. p \in Payment /\ p.status = "SUCCESS" /\ pay' = [pay EXCEPT ![s] = p]
    BY <2>1, <2>2 DEF Payment
  <2>4. sub'[s].status = "CANCELLED"
    BY <1>2
  <2>5. Inv' /\ StaysBacked
    <3> HIDE DEF p, s, new
    <3>1. sub' \in [Row -> Subscription] /\ MovesOn(sub, sub') /\ One(sub')
      BY <1>2 DEF new
    <3>2. QED BY <1>5, <2>1, <2>3, <2>4, <3>1, PaidOn
  <2>6. Fresh
    <3>1. \A o \in Order \ {s} : pay'[o] = pay[o]
      BY <2>1, <2>2
    <3>2. ASSUME pay'[s].refund = "full" PROVE sub[s].start + Day + Lag > clock
      <4>1. req[r].amount = "full"
        BY <2>1, <2>2, <3>2 DEF Payment
      <4>2. /\ sub[s].start + Day > req[r].now /\ clock <= req[r].now + Lag
        BY <1>1, <4>1 DEF Inv, Knows
      <4>3. sub[s].start \in Nat /\ req[r].now \in Nat /\ clock \in Nat
        BY <1>1, Typed DEF Subscription
      <4>4. QED BY <4>2, <4>3
    <3>3. QED BY <3>1, <3>2 DEF Fresh
  <2>7. QED BY <1>2, <1>3, <1>4, <2>5, <2>6 DEF Good
<1>8. QED BY <1>6, <1>7

\* The money has gone back.
LEMMA ReturnStep ==
  ASSUME Inv, NEW r \in Request, Return(r)
  PROVE  Good /\ MovesOn(sub, sub')
<1> DEFINE o == req[r].row
           new == sub'
           p == [pay[o] EXCEPT !.status = "REFUNDED"]
<1>1. /\ o \in Order /\ o \in Row /\ Finish(r) /\ pay[o].status = "SUCCESS"
      /\ pay' = [pay EXCEPT ![o].status = "REFUNDED"]
  BY DEF Return, Inv, Knows
<1>2. sub \in [Row -> Subscription] /\ pay \in [Order -> Payment]
  BY Typed
<1>3. /\ sub' \in [Row -> Subscription] /\ MovesOn(sub, sub')
      /\ One(sub') /\ NoWorse(sub, sub')
      /\ sub'[o].status \notin {"ACTIVE", "SCHEDULED"}
      /\ Replaced
  <2>1. CASE sub[o].status \in {"ACTIVE", "SCHEDULED", "SUSPENDED", "EXPIRED"}
    <3>1. /\ sub[o].status # "NONE" /\ o \in Row
          /\ new \in Synced(Ending(o, "CANCELLED"), clock)
      BY <1>1, <2>1 DEF Return, Ending
    <3>2. /\ new \in [Row -> Subscription] /\ MovesOn(sub, new)
          /\ One(new) /\ NoWorse(sub, new)
          /\ new[o].status = "CANCELLED" /\ MakesWay(new)
      <4> HIDE DEF o, new
      <4>1. QED BY ONLY <3>1, Inv, EndStep
    <3>3. QED BY <3>2, MakesWayReplaced
  <2>2. CASE sub[o].status \notin {"ACTIVE", "SCHEDULED", "SUSPENDED", "EXPIRED"}
    <3>1. sub' = sub
      BY <2>2 DEF Return
    <3>2. MovesOn(sub, sub') /\ Replaced
      BY <3>1 DEF MovesOn, SamePeriod, Replaced, GivenUp
    <3>3. One(sub') /\ NoWorse(sub, sub') /\ sub' \in [Row -> Subscription]
      BY <3>1, Typed DEF NoWorse
    <3>4. QED BY <2>2, <3>1, <3>2, <3>3
  <2>3. QED BY <2>1, <2>2
<1>4. p \in Payment /\ p.status = "REFUNDED" /\ pay' = [pay EXCEPT ![o] = p]
  <2>1. pay[o] \in Payment
    BY <1>1, <1>2
  <2>2. p \in Payment /\ p.status = "REFUNDED"
    BY <2>1 DEF Payment
  <2>3. QED BY <1>1, <1>2, <2>2
<1>5. req' \in [Request -> InProgress] /\ clock' = clock
      /\ \A q \in Request : req'[q] = req[q] \/ req'[q].kind = "idle"
  BY <1>1, Finished DEF Inv
<1>6. Inv' /\ StaysBacked
  <2> HIDE DEF o, p
  <2>1. QED BY <1>1, <1>3, <1>4, <1>5, PaidOn
<1>7. Ended
  BY <1>2, <1>3, MovesOnEnded
<1>8. Fresh
  BY <1>1, <1>2 DEF Fresh, Payment
<1>9. QED BY <1>3, <1>6, <1>7, <1>8, QueuedAsRows DEF Good

\* The expiry job and its compare-and-set by date.
LEMMA ExpireStep ==
  ASSUME Inv, NEW s \in Row, Expire(s)
  PROVE  Good /\ MovesOn(sub, sub')
<1>1. /\ sub[s].status # "NONE" /\ sub' = Ending(s, "EXPIRED")
      /\ UNCHANGED <<clock, pay, req>>
  BY DEF Expire, Ending
<1>2. /\ sub' \in [Row -> Subscription] /\ MovesOn(sub, sub')
      /\ One(sub') /\ NoWorse(sub, sub')
      /\ sub'[s].status = "EXPIRED" /\ \A t \in Row \ {s} : sub'[t] = sub[t]
  BY <1>1, EndedRow
<1>3. Inv' /\ StaysBacked /\ StaysQueued
  BY <1>1, <1>2, Typed, MovedOn, QueuedAsRows
<1>4. Ended
  BY <1>2, Typed, MovesOnEnded
<1>5. QED BY <1>1, <1>2, <1>3, <1>4 DEF Good, Replaced, GivenUp, Fresh

LEMMA ActivateDueStep ==
  ASSUME Inv, NEW s \in Row, ActivateDue(s)
  PROVE  Good /\ MovesOn(sub, sub')
<1>1. /\ sub[s].status = "SCHEDULED" /\ sub[s].start <= clock
      /\ sub' = Activated(sub, s, clock) /\ UNCHANGED <<clock, pay, req>>
  BY DEF ActivateDue, Due, In
<1>2. clock \in Nat /\ clock <= clock /\ req' \in [Request -> InProgress]
  BY <1>1, Typed
<1>3. QED BY <1>1, <1>2, ActivationStep

\* The status update by id: it changes one row, may give it rights back and may put it into
\* the queue or before it, and does nothing else.
StatusOnly(r) ==
  /\ \A s \in Row : SamePeriod(sub[s], sub'[s]) /\ (sub'[s].status = "NONE" <=> sub[s].status = "NONE")
  /\ \A s \in Row : sub'[s] # sub[s] /\ sub'[s].status # "EXPIRED" => Restores(r, s)
  /\ \A s \in Row : GivenUp(s) => FALSE
  /\ pay' = pay

LEMMA MarkStep ==
  ASSUME Inv, NEW r \in Request, Mark(r)
  PROVE  Inv' /\ StatusOnly(r)
<1> DEFINE s == req[r].row
           to == req[r].to
<1>1. /\ s \in Row /\ sub[s].status # "NONE" /\ to \in {"ACTIVE", "EXPIRED", "SCHEDULED"}
      /\ sub' = [sub EXCEPT ![s].status = to] /\ pay' = pay /\ Finish(r)
      /\ Unique(s, to)
  BY Typed DEF Mark, Inv, Knows
<1>2. Restores(r, s) <=> to # "EXPIRED"
  BY DEF Restores
<1> HIDE DEF s, to
<1>3. /\ req' \in [Request -> InProgress] /\ clock' = clock
      /\ \A q \in Request : req'[q] = req[q] \/ req'[q].kind = "idle"
  BY <1>1, Finished DEF Inv
<1>4. sub \in [Row -> Subscription] /\ One(sub)
  BY Typed
<1>5. /\ sub' \in [Row -> Subscription]
      /\ sub'[s].status = to /\ SamePeriod(sub[s], sub'[s])
      /\ \A t \in Row \ {s} : sub'[t] = sub[t]
  BY <1>1, <1>4 DEF Subscription, SamePeriod
<1>6. One(sub')
  BY <1>1, <1>4, <1>5 DEF One, Unique
<1>7. SubscriptionsTypeOK'
  BY <1>1, <1>3, <1>5 DEF Inv, SubscriptionsTypeOK
<1>8. \A t \in Row : SamePeriod(sub[t], sub'[t]) /\ (sub'[t].status = "NONE" <=> sub[t].status = "NONE")
  BY <1>1, <1>5 DEF SamePeriod
<1>9. Ledger'
  BY <1>1, <1>8 DEF Inv, Ledger, SamePeriod
<1>10. Knows' /\ Alone'
  <2>1. \A q \in Request : req[q].kind \in Holders =>
          sub'[req[q].row].status = "NONE" /\ pay'[req[q].row].status # "NONE"
    BY <1>1, <1>8 DEF Inv, Knows
  <2>2. QED BY <1>3, <1>8, <2>1, KnowsKept DEF Inv
<1>11. Inv'
  BY <1>6, <1>7, <1>9, <1>10 DEF Inv, One
<1>12. \A t \in Row : sub'[t] # sub[t] /\ sub'[t].status # "EXPIRED" => Restores(r, t)
  BY <1>2, <1>5
<1>13. \A t \in Row : ~GivenUp(t)
  BY <1>1, <1>5 DEF GivenUp
<1>14. QED BY <1>1, <1>8, <1>11, <1>12, <1>13 DEF StatusOnly

\* Orders come and are given up.
LEMMA OrderSteps ==
  ASSUME Inv, NEW o \in Order,
         \/ FailOrder(o)
         \/ \E t \in Tier \ {0}, online \in BOOLEAN, ask \in Nat : CreateOrder(o, t, online, ask)
  PROVE  Good
<1>1. ASSUME NEW p \in Payment, p.status \in {"PENDING", "FAILED"}, p.refund = "no",
             pay' = [pay EXCEPT ![o] = p], UNCHANGED <<clock, sub, req>>,
             pay[o].status \in {"NONE", "PENDING"}
      PROVE  Good
  <2>1. sub[o].status = "NONE"
    BY <1>1 DEF Inv, Ledger
  <2>2. MovesOn(sub, sub') /\ One(sub') /\ sub' \in [Row -> Subscription]
    BY <1>1, Typed DEF MovesOn, SamePeriod
  <2>3. req' \in [Request -> InProgress] /\ clock' = clock
        /\ \A q \in Request : req'[q] = req[q] \/ req'[q].kind = "idle"
    BY <1>1, Typed
  <2>4. Inv' /\ StaysBacked
    BY <1>1, <2>1, <2>2, <2>3, PaidOn
  <2>5. Replaced /\ Ended /\ StaysQueued
    BY <1>1 DEF Replaced, GivenUp, Ended, StaysQueued, Misqueued
  <2>6. Fresh
    BY <1>1, Typed DEF Fresh
  <2>7. QED BY <2>4, <2>5, <2>6 DEF Good
<1>2. ASSUME FailOrder(o) PROVE Good
  <2> DEFINE p == [NoPayment EXCEPT !.status = "FAILED"]
  <2>1. p \in Payment /\ p.status = "FAILED" /\ p.refund = "no"
    BY DEF NoPayment, Payment, Refund
  <2>2. pay' = [pay EXCEPT ![o] = p] /\ UNCHANGED <<clock, sub, req>>
        /\ pay[o].status = "PENDING"
    BY <1>2 DEF FailOrder
  <2> HIDE DEF p
  <2>3. QED BY <1>1, <2>1, <2>2
<1>3. ASSUME NEW t \in Tier \ {0}, NEW online \in BOOLEAN, NEW ask \in Nat,
             CreateOrder(o, t, online, ask)
      PROVE  Good
  <2> DEFINE p == [NoPayment EXCEPT !.status = "PENDING", !.tier = t, !.online = online,
                                    !.ask = ask]
  <2>1. p \in Payment /\ p.status = "PENDING" /\ p.refund = "no"
    BY DEF NoPayment, Payment, Refund
  <2>2. pay' = [pay EXCEPT ![o] = p] /\ UNCHANGED <<clock, sub, req>>
        /\ pay[o].status = "NONE"
    BY <1>3 DEF CreateOrder, NextOrder
  <2> HIDE DEF p
  <2>3. QED BY <1>1, <2>1, <2>2
<1>4. QED BY <1>2, <1>3

\* Time passes no further than a request in progress lasts.
LEMMA TickStep ==
  ASSUME Inv, Tick
  PROVE  Good
<1>1. /\ clock' = clock + 1 /\ UNCHANGED <<sub, pay, req>> /\ clock \in Nat
      /\ \A r \in Request : req[r].kind # "idle" => clock < req[r].now + Lag
  BY Typed DEF Tick
<1>2. SubscriptionsTypeOK'
  BY <1>1 DEF Inv, SubscriptionsTypeOK
<1>3. Knows'
  <2>1. \A r \in Request : req[r].kind # "idle" => req[r].now <= clock' /\ clock' <= req[r].now + Lag
    BY <1>1, Typed
  <2>2. QED BY <1>1, <2>1 DEF Inv, Knows
<1>4. Alone' /\ Ledger' /\ One(sub)'
  BY <1>1 DEF Inv, Alone, Ledger, One
<1>5. Inv'
  BY <1>2, <1>3, <1>4 DEF Inv
<1>6. QED BY <1>1, <1>5, QuietRows DEF Good

\* What is offered is a plan for an order.
LEMMA Offered ==
  ASSUME NEW f \in Offers
  PROVE  /\ f.order \in Order /\ f.tier \in Tier \ {0} /\ f.ask \in Nat
         /\ (f.channel = "online") \in BOOLEAN
<1>1. f \in Offer
  OBVIOUS
<1>2. QED BY <1>1 DEF Offer

\* What a step may do to the rows, a status update included.
Queues ==
  \A a, q \in Row : Misqueued(a, q)' =>
    Misqueued(a, q) \/ \E r \in Request : Restores(r, a) \/ Restores(r, q)
Backs ==
  \A o \in Order : Unbacked(o)' => Unbacked(o) \/ \E r \in Request : Restores(r, o)
Revives ==
  \A s \in Row : sub[s].status \in {"SUSPENDED", "EXPIRED", "CANCELLED"} =>
    /\ sub'[s].status \in {"ACTIVE", "SCHEDULED"} => \E r \in Request : Restores(r, s)
    /\ sub'[s].status # "NONE" /\ sub'[s].start = sub[s].start
Allowed ==
  /\ Inv' /\ Queues /\ Backs /\ Revives /\ Fresh /\ Explained
  /\ TRUE \notin FullHouse => Replaced

LEMMA StatusAllowed ==
  ASSUME Inv', NEW r \in Request, StatusOnly(r)
  PROVE  Allowed
<1>1. ASSUME NEW a \in Row, NEW q \in Row, Misqueued(a, q)', ~Restores(r, a), ~Restores(r, q)
      PROVE  Misqueued(a, q)
  <2>1. sub'[a] = sub[a] /\ sub'[q] = sub[q]
    BY <1>1 DEF StatusOnly, Misqueued
  <2>2. QED BY <1>1, <2>1 DEF Misqueued
<1>2. ASSUME NEW o \in Order, Unbacked(o)', ~Restores(r, o)
      PROVE  Unbacked(o)
  <2>1. sub'[o] = sub[o] /\ pay' = pay
    BY <1>2 DEF StatusOnly, Unbacked
  <2>2. QED BY <1>2, <2>1 DEF Unbacked
<1>3. Revives
  BY DEF StatusOnly, SamePeriod, Revives
<1>4. Fresh /\ Explained /\ Replaced
  BY DEF StatusOnly, Fresh, Explained, Replaced
<1>5. Queues /\ Backs
  BY <1>1, <1>2 DEF Queues, Backs
<1>6. QED BY <1>3, <1>4, <1>5 DEF Allowed

\* Every step keeps the invariant and the action properties.
LEMMA NextStep ==
  ASSUME Inv, [SubscriptionsNext]_subscriptionVars
  PROVE  Allowed
<1>1. ASSUME UNCHANGED subscriptionVars PROVE Good
  <2>1. UNCHANGED <<clock, sub, pay, req>>
    BY <1>1 DEF subscriptionVars
  <2>2. Inv'
    BY <2>1 DEF Inv, SubscriptionsTypeOK, Knows, Alone, Ledger, One
  <2>3. QED BY <2>1, <2>2, QuietRows DEF Good
<1>2. ASSUME NEW o \in Order,
             \/ FailOrder(o)
             \/ \E t \in Tier \ {0}, online \in BOOLEAN, ask \in Nat :
                  CreateOrder(o, t, online, ask)
      PROVE  Good
  BY <1>2, OrderSteps
<1>3. ASSUME NEW r \in Request,
             \/ \E t \in Tier \ {0}, ask \in Nat : StartPurchase(r, t, ask)
             \/ \E o \in Order : StartOrder(r, o) \/ StartRetry(r, o) \/ StartReturn(r, o)
             \/ \E s \in Row, by \in {"staff", "self"} : StartCancel(r, s, by)
             \/ \E s \in Row, to \in Status : StartMark(r, s, to)
      PROVE  Good
  <2>1. UNCHANGED <<sub, pay>>
    BY <1>3 DEF StartPurchase, StartOrder, StartRetry, StartReturn, StartCancel, StartMark, Start
  <2>2. Inv'
    BY <1>3, BeginSteps
  <2>3. QED BY <2>1, <2>2, QuietRows DEF Good
<1>4. ASSUME NEW r \in Request, Grant(r) PROVE Good
  BY <1>4, GrantStep
<1>5. ASSUME NEW r \in Request, SettleReview(r)
      PROVE  Allowed
  BY <1>5, SettleReviewStep
     DEF Allowed, Queues, Backs, Revives, StaysQueued, StaysBacked, Ended
<1>6. ASSUME NEW r \in Request, Refuse(r) PROVE Good
  BY <1>6, RefuseStep
<1>7. ASSUME NEW r \in Request, Wake(r) PROVE Good
  BY <1>7, WakeStep
<1>8. ASSUME NEW r \in Request, Cancel(r) PROVE Good
  BY <1>8, CancelStep
<1>9. ASSUME NEW r \in Request, Return(r) PROVE Good
  BY <1>9, ReturnStep
<1>10. ASSUME NEW r \in Request, Mark(r) PROVE Allowed
  BY <1>10, MarkStep, StatusAllowed
<1>11. ASSUME NEW s \in Row, Expire(s) \/ ActivateDue(s)
       PROVE  Good
  BY <1>11, ExpireStep, ActivateDueStep
<1>12. ASSUME Tick PROVE Good
  BY <1>12, TickStep
<1>13. Good => Allowed
  BY DEF Good, Allowed, Replaced, Explained, Queues, Backs, Revives, StaysQueued, StaysBacked,
         Ended
<1>14. ASSUME NEW r \in Request,
              \/ Grant(r) \/ SettleReview(r) \/ Refuse(r) \/ Wake(r)
              \/ Cancel(r) \/ Return(r) \/ Mark(r)
       PROVE  Allowed
  BY <1>4, <1>5, <1>6, <1>7, <1>8, <1>9, <1>10, <1>13, <1>14
<1>15. ASSUME NEW f \in Offers,
              \/ CreateOrder(f.order, f.tier, f.channel = "online", f.ask)
              \/ \E r \in Request : StartPurchase(r, f.tier, f.ask)
       PROVE  Good
  BY <1>2, <1>3, <1>15, Offered
<1>16. CASE SubscriptionsNext
  BY <1>2, <1>3, <1>11, <1>12, <1>13, <1>14, <1>15, <1>16 DEF SubscriptionsNext
<1>17. QED BY <1>1, <1>13, <1>16

--------------------------------------------------------------------------------
(* The orders keep the promise of PaidRights.                                  *)

\* What an order promises, in one step.
Unmoved(o) == Phase(o)' = Phase(o) /\ pay'[o].refund = pay[o].refund
Collected(o) ==
  Phase(o) = "unpaid" /\ Phase(o)' = "held" /\ pay'[o].refund = pay[o].refund
Fulfilled(o) ==
  /\ Phase(o) \in {"unpaid", "held"} /\ Phase(o)' = "granted"
  /\ pay[o].refund = "no" /\ pay'[o].refund = "no"
Promised(o) ==
  /\ Phase(o) = "granted" /\ Phase(o)' = "granted"
  /\ pay[o].refund = "no" /\ pay'[o].refund # "no"
Returned(o) ==
  /\ Phase(o) = "granted" /\ Phase(o)' = "returned"
  /\ pay[o].refund # "no" /\ pay'[o].refund = pay[o].refund
OrderMoves(o) ==
  Unmoved(o) \/ Collected(o) \/ Fulfilled(o) \/ Promised(o) \/ Returned(o)

AtMostOneMoves ==
  \/ \A o \in Order : Unmoved(o)
  \/ \E o \in Order : OrderMoves(o) /\ \A x \in Order \ {o} : Unmoved(x)

\* A refund is promised for an order that has its row, and money goes back, or a request
\* is at work on that, only where it was promised.
Owed ==
  /\ \A o \in Order : pay[o].refund # "no" =>
       pay[o].status \in {"SUCCESS", "REFUNDED"} /\ sub[o].status # "NONE"
  /\ \A o \in Order : pay[o].status = "REFUNDED" => pay[o].refund # "no"
  /\ \A r \in Request : req[r].kind = "return" => pay[req[r].row].refund # "no"

\* A row that exists stays.
RowsStay == \A s \in Row : sub[s].status # "NONE" => sub'[s].status # "NONE"

\* No row appears or vanishes.
SameRows == \A s \in Row : sub[s].status = "NONE" <=> sub'[s].status = "NONE"

\* An order that does not change, and whose row neither appears nor vanishes, keeps its
\* promise as it is.
LEMMA OthersUnmoved ==
  ASSUME SameRows, NEW o \in Order, pay'[o] = pay[o]
  PROVE  Unmoved(o)
BY DEF SameRows, Unmoved, Phase

LEMMA GrantMoves ==
  ASSUME Inv, Owed, NEW r \in Request, Grant(r)
  PROVE  RowsStay /\ AtMostOneMoves
<1> DEFINE now == req[r].now
           tier == req[r].tier
           ask == req[r].ask
<1>1. /\ sub \in [Row -> Subscription] /\ pay \in [Order -> Payment]
      /\ now \in Nat /\ One(sub) /\ req[r].kind \in Grants
  BY Typed DEF Grant
<1>2. PICK rows \in Synced(sub, now), o \in Order :
        \E start \in Starts(rows, tier, ask, now) :
          /\ IF req[r].kind = "purchase" THEN NextOrder(o) ELSE o = req[r].row
          /\ sub' = [Switched(rows, start, now) EXCEPT ![o] = NewRow(tier, start, now)]
          /\ pay' = [pay EXCEPT ![o] = [NoPayment EXCEPT !.status = "SUCCESS"]]
  BY DEF Grant
<1>3. PICK start :
          /\ IF req[r].kind = "purchase" THEN NextOrder(o) ELSE o = req[r].row
          /\ sub' = [Switched(rows, start, now) EXCEPT ![o] = NewRow(tier, start, now)]
          /\ pay' = [pay EXCEPT ![o] = [NoPayment EXCEPT !.status = "SUCCESS"]]
  BY <1>2
<1> HIDE DEF now, tier, ask
<1>4. /\ rows \in [Row -> Subscription] /\ MovesOn(sub, rows) /\ One(rows)
  BY <1>1, SyncedRows, ShiftMovesOn
<1>5. sub[o].status = "NONE"
  <2>1. CASE req[r].kind = "purchase"
    BY <2>1, <1>3 DEF NextOrder, Inv, Ledger
  <2>2. CASE req[r].kind # "purchase"
    BY <2>2, <1>1, <1>3 DEF Inv, Knows, Holders, Grants
  <2>3. QED BY <2>1, <2>2
<1>6. PICK given : given = Switched(rows, start, now)
  OBVIOUS
<1>7. given \in [Row -> Subscription] /\ MovesOn(rows, given)
  BY <1>1, <1>4, <1>6, SwitchedRows
<1>8. MovesOn(sub, given)
  BY <1>4, <1>7, MovesOnTwice
<1>9. sub'[o].status # "NONE" /\ \A s \in Row \ {o} : sub'[s] = given[s]
  BY <1>3, <1>6, <1>7 DEF NewRow
<1>10. /\ pay'[o].status = "SUCCESS" /\ pay'[o].refund = "no"
       /\ \A x \in Order \ {o} : pay'[x] = pay[x]
  BY <1>1, <1>3 DEF NoPayment
<1>11. RowsStay
  BY <1>5, <1>8, <1>9 DEF RowsStay, MovesOn
<1>12. \A x \in Order \ {o} : Unmoved(x)
  BY <1>8, <1>9, <1>10 DEF MovesOn, Unmoved, Phase
<1>13. Fulfilled(o)
  <2>1. pay[o].refund = "no" /\ pay[o].status # "REFUNDED"
    BY <1>5 DEF Owed
  <2>2. QED BY <2>1, <1>5, <1>9, <1>10 DEF Fulfilled, Phase
<1>14. QED BY <1>11, <1>12, <1>13 DEF AtMostOneMoves, OrderMoves

\* The steps that create no row.
LEMMA MoveOnMoves ==
  ASSUME Inv, Owed, SameRows, NEW o \in Order,
         OrderMoves(o), \A x \in Order \ {o} : pay'[x] = pay[x]
  PROVE  RowsStay /\ AtMostOneMoves
BY OthersUnmoved DEF RowsStay, AtMostOneMoves, SameRows

LEMMA SamePay ==
  ASSUME Inv, Owed, SameRows, pay' = pay
  PROVE  RowsStay /\ AtMostOneMoves
BY OthersUnmoved DEF RowsStay, AtMostOneMoves, SameRows

LEMMA SettleReviewMoves ==
  ASSUME Inv, Owed, NEW r \in Request, SettleReview(r)
  PROVE  RowsStay /\ AtMostOneMoves
<1>0. PICK o : o = req[r].row
  OBVIOUS
<1>1. o \in Order /\ sub[o].status = "NONE" /\ pay \in [Order -> Payment]
  BY <1>0, Typed DEF SettleReview, Inv, Knows, Holders
<1>2. SameRows
  BY SettleReviewStep DEF MovesOn, SameRows
<1>3. /\ pay'[o].status = "SUCCESS" /\ pay'[o].refund = "no"
      /\ \A x \in Order \ {o} : pay'[x] = pay[x]
  BY <1>0, <1>1 DEF SettleReview, NoPayment
<1>4. pay[o].refund = "no" /\ pay[o].status # "REFUNDED"
  BY <1>1 DEF Owed
<1>5. Unmoved(o) \/ Collected(o)
  BY <1>1, <1>2, <1>3, <1>4 DEF Unmoved, Collected, Phase, SameRows
<1>6. QED BY <1>1, <1>2, <1>3, <1>5, MoveOnMoves DEF OrderMoves

LEMMA CancelMoves ==
  ASSUME Inv, Owed, NEW r \in Request, Cancel(r)
  PROVE  RowsStay /\ AtMostOneMoves
<1>0. PICK s : s = req[r].row
  OBVIOUS
<1>1. SameRows /\ pay \in [Order -> Payment]
  BY CancelStep, Typed DEF MovesOn, SameRows
<1>2. CASE req[r].amount = "no"
  BY <1>1, <1>2, SamePay DEF Cancel
<1>3. CASE req[r].amount # "no"
  <2>1. /\ s \in Order /\ pay[s].status = "SUCCESS" /\ pay[s].refund = "no"
        /\ pay' = [pay EXCEPT ![s].refund = req[r].amount]
        /\ sub[s].status # "NONE"
    BY <1>0, <1>3 DEF Cancel, Paid, Inv, Knows
  <2>2. /\ pay'[s].status = "SUCCESS" /\ pay'[s].refund # "no"
        /\ \A x \in Order \ {s} : pay'[x] = pay[x]
    BY <1>1, <1>3, <2>1 DEF Payment
  <2>3. Promised(s)
    BY <1>1, <2>1, <2>2 DEF Promised, Phase, SameRows
  <2>4. QED BY <1>1, <2>1, <2>2, <2>3, MoveOnMoves DEF OrderMoves
<1>4. QED BY <1>2, <1>3

LEMMA ReturnMoves ==
  ASSUME Inv, Owed, NEW r \in Request, Return(r)
  PROVE  RowsStay /\ AtMostOneMoves
<1>0. PICK o : o = req[r].row
  OBVIOUS
<1>1. SameRows /\ pay \in [Order -> Payment]
  BY ReturnStep, Typed DEF MovesOn, SameRows
<1>2. /\ o \in Order /\ pay[o].status = "SUCCESS" /\ pay[o].refund # "no"
      /\ pay' = [pay EXCEPT ![o].status = "REFUNDED"]
  BY <1>0 DEF Return, Inv, Knows, Owed
<1>3. /\ pay'[o].status = "REFUNDED" /\ pay'[o].refund = pay[o].refund
      /\ \A x \in Order \ {o} : pay'[x] = pay[x]
  BY <1>1, <1>2 DEF Payment
<1>4. Returned(o)
  BY <1>2, <1>3 DEF Returned, Phase, Owed
<1>5. QED BY <1>1, <1>2, <1>3, <1>4, MoveOnMoves DEF OrderMoves

\* An order that comes or is given up was not paid and is not.
LEMMA OrdersMove ==
  ASSUME Inv, Owed, NEW o \in Order,
         \/ FailOrder(o)
         \/ \E t \in Tier \ {0}, online \in BOOLEAN, ask \in Nat : CreateOrder(o, t, online, ask)
  PROVE  RowsStay /\ AtMostOneMoves
<1>1. /\ pay \in [Order -> Payment] /\ sub' = sub
      /\ pay[o].status \in {"NONE", "PENDING"}
      /\ \E p : pay' = [pay EXCEPT ![o] = p] /\ p.status \in {"PENDING", "FAILED"} /\ p.refund = "no"
  <2>1. CASE FailOrder(o)
    <3> DEFINE p == [NoPayment EXCEPT !.status = "FAILED"]
    <3>1. p.status = "FAILED" /\ p.refund = "no"
      BY DEF NoPayment
    <3>2. pay' = [pay EXCEPT ![o] = p] /\ sub' = sub /\ pay[o].status = "PENDING"
      BY <2>1 DEF FailOrder
    <3> HIDE DEF p
    <3>3. QED BY <3>1, <3>2, Typed
  <2>2. ASSUME NEW t \in Tier \ {0}, NEW online \in BOOLEAN, NEW ask \in Nat,
               CreateOrder(o, t, online, ask)
        PROVE  /\ pay \in [Order -> Payment] /\ sub' = sub
               /\ pay[o].status \in {"NONE", "PENDING"}
               /\ \E p : /\ pay' = [pay EXCEPT ![o] = p]
                         /\ p.status \in {"PENDING", "FAILED"} /\ p.refund = "no"
    <3> DEFINE p == [NoPayment EXCEPT !.status = "PENDING", !.tier = t, !.online = online,
                                      !.ask = ask]
    <3>1. p.status = "PENDING" /\ p.refund = "no"
      BY DEF NoPayment
    <3>2. pay' = [pay EXCEPT ![o] = p] /\ sub' = sub /\ pay[o].status = "NONE"
      BY <2>2 DEF CreateOrder, NextOrder
    <3> HIDE DEF p
    <3>3. QED BY <3>1, <3>2, Typed
  <2>3. QED BY <2>1, <2>2
<1>2. PICK p : pay' = [pay EXCEPT ![o] = p] /\ p.status \in {"PENDING", "FAILED"} /\ p.refund = "no"
  BY <1>1
<1>3. SameRows
  BY <1>1 DEF SameRows
<1>4. pay'[o] = p /\ \A x \in Order \ {o} : pay'[x] = pay[x]
  BY <1>1, <1>2
<1>5. pay[o].refund = "no"
  BY <1>1 DEF Owed
<1>6. Unmoved(o)
  BY <1>1, <1>2, <1>4, <1>5 DEF Unmoved, Phase
<1>7. QED BY <1>3, <1>4, <1>6, MoveOnMoves DEF OrderMoves

\* Every step moves the promise of at most one order, and as PaidRights allows.
LEMMA StepMoves ==
  ASSUME Inv, Owed, [SubscriptionsNext]_subscriptionVars
  PROVE  RowsStay /\ AtMostOneMoves
<1>1. ASSUME UNCHANGED <<sub, pay>> PROVE RowsStay /\ AtMostOneMoves
  <2>1. SameRows
    BY <1>1 DEF SameRows
  <2>2. QED BY <1>1, <2>1, SamePay
<1>2. CASE UNCHANGED subscriptionVars
  BY <1>1, <1>2 DEF subscriptionVars
<1>3. ASSUME NEW o \in Order,
             \/ FailOrder(o)
             \/ \E t \in Tier \ {0}, online \in BOOLEAN, ask \in Nat :
                  CreateOrder(o, t, online, ask)
      PROVE  RowsStay /\ AtMostOneMoves
  BY <1>3, OrdersMove
<1>4. ASSUME NEW r \in Request,
             \/ \E t \in Tier \ {0}, ask \in Nat : StartPurchase(r, t, ask)
             \/ \E o \in Order : StartOrder(r, o) \/ StartRetry(r, o) \/ StartReturn(r, o)
             \/ \E s \in Row, by \in {"staff", "self"} : StartCancel(r, s, by)
             \/ \E s \in Row, to \in Status : StartMark(r, s, to)
      PROVE  RowsStay /\ AtMostOneMoves
  <2>1. UNCHANGED <<sub, pay>>
    BY <1>4 DEF StartPurchase, StartOrder, StartRetry, StartReturn, StartCancel, StartMark, Start
  <2>2. QED BY <1>1, <2>1
<1>5. ASSUME NEW r \in Request, Refuse(r) \/ Wake(r) \/ Mark(r)
      PROVE  RowsStay /\ AtMostOneMoves
  <2>1. SameRows
    BY <1>5, RefuseStep, WakeStep, MarkStep DEF MovesOn, StatusOnly, SameRows
  <2>2. pay' = pay
    BY <1>5 DEF Refuse, Wake, Mark
  <2>3. QED BY <2>1, <2>2, SamePay
<1>6. ASSUME NEW s \in Row, Expire(s) \/ ActivateDue(s) PROVE RowsStay /\ AtMostOneMoves
  <2>1. SameRows
    BY <1>6, ExpireStep, ActivateDueStep DEF MovesOn, SameRows
  <2>2. pay' = pay
    BY <1>6 DEF Expire, ActivateDue
  <2>3. QED BY <2>1, <2>2, SamePay
<1>7. CASE Tick
  BY <1>1, <1>7 DEF Tick
<1>8. ASSUME NEW f \in Offers,
             \/ CreateOrder(f.order, f.tier, f.channel = "online", f.ask)
             \/ \E r \in Request : StartPurchase(r, f.tier, f.ask)
      PROVE  RowsStay /\ AtMostOneMoves
  BY <1>3, <1>4, <1>8, Offered
<1>9. QED
  BY <1>2, <1>3, <1>4, <1>5, <1>6, <1>7, <1>8, GrantMoves, SettleReviewMoves, CancelMoves,
     ReturnMoves
     DEF SubscriptionsNext

\* The requests about an order that was paid.
Late == {"return", "retry"}
Same(q) == req'[q].kind = req[q].kind /\ req'[q].row = req[q].row
Begun(q) ==
  /\ pay' = pay
  /\ req'[q].kind = "return" => pay[req'[q].row].refund # "no"
  /\ req'[q].kind = "retry" => req'[q].row \in Order /\ pay[req'[q].row].status = "SUCCESS"

\* A request to confirm that money went back begins with a promise, a retry with a paid
\* order.
LEMMA LateBegin ==
  ASSUME Inv, [SubscriptionsNext]_subscriptionVars, NEW q \in Request, req'[q].kind \in Late
  PROVE  Same(q) \/ Begun(q)
<1> USE DEF Late, Same
<1>0. req \in [Request -> InProgress]
  BY Typed
<1>1. ASSUME NEW r \in Request, Finish(r)
      PROVE  Same(q)
  BY <1>0, <1>1 DEF Finish, Idle
<1>2. ASSUME req' = req PROVE Same(q)
  BY <1>2
<1>3. ASSUME NEW r \in Request,
             Grant(r) \/ SettleReview(r) \/ Refuse(r) \/ Cancel(r) \/ Return(r) \/ Mark(r)
      PROVE  Same(q)
  BY <1>1, <1>3 DEF Grant, SettleReview, Refuse, Cancel, Return, Mark
<1>4. ASSUME NEW r \in Request, Wake(r) PROVE Same(q)
  <2>1. req' = [req EXCEPT ![r].kind = "redo"]
    BY <1>4 DEF Wake
  <2>2. q # r
    BY <1>0, <2>1 DEF InProgress
  <2>3. QED BY <1>0, <2>1, <2>2
<1>5. ASSUME NEW r \in Request, NEW o \in Order, StartReturn(r, o) \/ StartRetry(r, o)
      PROVE  Same(q) \/ Begun(q)
  <2> DEFINE back == [[Idle EXCEPT !.kind = "return", !.row = o] EXCEPT !.now = clock]
             again == [[Idle EXCEPT !.kind = "retry", !.row = o, !.tier = pay[o].tier]
                         EXCEPT !.now = clock]
  <2>1. /\ pay' = pay
        /\ \/ req' = [req EXCEPT ![r] = back] /\ pay[o].refund # "no"
           \/ req' = [req EXCEPT ![r] = again] /\ pay[o].status = "SUCCESS"
    BY <1>5 DEF StartReturn, StartRetry, Start
  <2>2. back.row = o /\ back.kind = "return" /\ again.row = o /\ again.kind = "retry"
    BY DEF Idle
  <2> HIDE DEF back, again
  <2>3. QED BY <1>0, <2>1, <2>2 DEF Same, Begun
<1>6. ASSUME NEW r \in Request,
             \/ \E t \in Tier \ {0}, ask \in Nat : StartPurchase(r, t, ask)
             \/ \E o \in Order : StartOrder(r, o)
             \/ \E s \in Row, by \in {"staff", "self"} : StartCancel(r, s, by)
             \/ \E s \in Row, to \in Status : StartMark(r, s, to)
      PROVE  Same(q)
  <2> DEFINE Other == \E asked : /\ Start(r, asked) /\ DOMAIN asked = DOMAIN Idle
                                 /\ asked.kind \notin Late
  <2>1. ASSUME NEW asked, Start(r, asked), DOMAIN asked = DOMAIN Idle, asked.kind \notin Late
        PROVE  Same(q)
    <3>1. [asked EXCEPT !.now = clock].kind \notin Late
      BY <2>1 DEF Idle
    <3>2. QED BY <1>0, <2>1, <3>1 DEF Start
  <2>2. Other
    <3>1. ASSUME NEW t, NEW ask, StartPurchase(r, t, ask) PROVE  Other
      <4> DEFINE asked == [Idle EXCEPT !.kind = "purchase", !.tier = t, !.ask = ask]
      <4>1. DOMAIN asked = DOMAIN Idle /\ asked.kind \notin Late
        BY DEF Idle
      <4>2. Start(r, asked)
        BY <3>1 DEF StartPurchase
      <4> HIDE DEF asked
      <4>3. QED BY <4>1, <4>2
    <3>2. ASSUME NEW o, StartOrder(r, o) PROVE  Other
      <4> DEFINE asked == [Idle EXCEPT !.kind = IF pay[o].online THEN "settle" ELSE "confirm",
                                       !.row = o, !.tier = pay[o].tier, !.ask = pay[o].ask]
      <4>1. DOMAIN asked = DOMAIN Idle /\ asked.kind \notin Late
        BY DEF Idle
      <4>2. Start(r, asked)
        BY <3>2 DEF StartOrder
      <4> HIDE DEF asked
      <4>3. QED BY <4>1, <4>2
    <3>3. ASSUME NEW s, NEW by, StartCancel(r, s, by) PROVE  Other
      <4> DEFINE asked == [Idle EXCEPT !.kind = "cancel", !.row = s, !.read = sub[s].status]
                 asleep == [Idle EXCEPT !.kind = "wake", !.row = s, !.by = by]
      <4>1. /\ DOMAIN asked = DOMAIN Idle /\ asked.kind \notin Late
            /\ DOMAIN asleep = DOMAIN Idle /\ asleep.kind \notin Late
            /\ \A due : LET more == [asked EXCEPT !.amount = due]
                       IN  DOMAIN more = DOMAIN Idle /\ more.kind \notin Late
        BY DEF Idle
      <4>2. \/ Start(r, asked) \/ Start(r, asleep)
            \/ \E due : Start(r, [asked EXCEPT !.amount = due])
        BY <3>3 DEF StartCancel
      <4> HIDE DEF asked, asleep
      <4>3. QED BY <4>1, <4>2
    <3>4. ASSUME NEW s, NEW to, StartMark(r, s, to) PROVE  Other
      <4> DEFINE asked == [Idle EXCEPT !.kind = "mark", !.row = s, !.to = to]
      <4>1. DOMAIN asked = DOMAIN Idle /\ asked.kind \notin Late
        BY DEF Idle
      <4>2. Start(r, asked)
        BY <3>4 DEF StartMark
      <4> HIDE DEF asked
      <4>3. QED BY <4>1, <4>2
    <3>5. QED BY <1>6, <3>1, <3>2, <3>3, <3>4
  <2>3. QED BY <2>1, <2>2
<1>7. \A o \in Order, t \in Tier \ {0}, online \in BOOLEAN, ask \in Nat :
        CreateOrder(o, t, online, ask) => req' = req
  BY DEF CreateOrder
<1>8. /\ \A o \in Order : FailOrder(o) => req' = req
      /\ \A s \in Row : Expire(s) \/ ActivateDue(s) => req' = req
      /\ Tick => req' = req
  BY DEF FailOrder, Expire, ActivateDue, Tick
<1>9. UNCHANGED subscriptionVars => req' = req
  BY DEF subscriptionVars
<1>10. ASSUME NEW f \in Offers,
              \/ CreateOrder(f.order, f.tier, f.channel = "online", f.ask)
              \/ \E r \in Request : StartPurchase(r, f.tier, f.ask)
       PROVE  Same(q) \/ Begun(q)
  BY <1>2, <1>6, <1>7, <1>10, Offered
<1>11. QED
  BY <1>2, <1>3, <1>4, <1>5, <1>6, <1>8, <1>9, <1>10 DEF SubscriptionsNext

LEMMA OwedKept ==
  ASSUME Inv, Owed, [SubscriptionsNext]_subscriptionVars
  PROVE  Owed'
<1>0. RowsStay /\ AtMostOneMoves
  BY StepMoves
<1>1. \A o \in Order : OrderMoves(o)
  BY <1>0 DEF AtMostOneMoves, OrderMoves
<1>2. ASSUME NEW o \in Order
      PROVE  /\ pay'[o].refund # "no" =>
                  pay'[o].status \in {"SUCCESS", "REFUNDED"} /\ sub'[o].status # "NONE"
             /\ pay'[o].status = "REFUNDED" => pay'[o].refund # "no"
  <2>1. sub[o].status # "NONE" => sub'[o].status # "NONE"
    BY <1>0 DEF RowsStay
  <2>2. Phase(o)' \in {"granted", "held"} => pay'[o].status = "SUCCESS"
    BY DEF Phase
  <2>3. Phase(o)' = "returned" <=> pay'[o].status = "REFUNDED"
    BY DEF Phase
  <2>4. Phase(o)' = "granted" => sub'[o].status # "NONE"
    BY DEF Phase
  <2>5. pay[o].refund # "no" => Phase(o) \in {"granted", "returned"} /\ sub[o].status # "NONE"
    BY DEF Owed, Phase
  <2>6. Phase(o) = "returned" => pay[o].refund # "no"
    BY DEF Owed, Phase
  <2>7. OrderMoves(o)
    BY <1>1
  <2>8. QED
    BY <2>1, <2>2, <2>3, <2>4, <2>5, <2>6, <2>7
       DEF OrderMoves, Unmoved, Collected, Fulfilled, Promised, Returned
<1>3. ASSUME NEW q \in Request, req'[q].kind = "return"
      PROVE  pay'[req'[q].row].refund # "no"
  <2>1. CASE Same(q)
    <3>1. pay[req[q].row].refund # "no" /\ req[q].row \in Order
      BY <1>3, <2>1 DEF Same, Owed, Inv, Knows
    <3>2. OrderMoves(req[q].row)
      BY <1>1, <3>1
    <3>3. QED BY <2>1, <3>1, <3>2 DEF Same, OrderMoves, Unmoved, Collected, Fulfilled, Promised, Returned
  <2>2. CASE Begun(q)
    BY <1>3, <2>2 DEF Begun
  <2>3. QED BY <1>3, <2>1, <2>2, LateBegin DEF Late
<1>4. QED BY <1>2, <1>3 DEF Owed

LEMMA InitOwed == SubscriptionsInit => Owed
BY DEF SubscriptionsInit, Owed, NoPayment, Idle

\* A retry is for an order that was paid.
Sold ==
  \A r \in Request : req[r].kind = "retry" =>
    req[r].row \in Order /\ pay[req[r].row].status \in {"SUCCESS", "REFUNDED"}

\* Money that came stays or goes back, and what went back stays back.
PaidStays ==
  \A o \in Order :
    /\ pay[o].status = "SUCCESS" => pay'[o].status \in {"SUCCESS", "REFUNDED"}
    /\ pay[o].status = "REFUNDED" => pay'[o].status = "REFUNDED"

LEMMA PaidStep ==
  ASSUME Inv, Owed, [SubscriptionsNext]_subscriptionVars
  PROVE  PaidStays
<1>1. AtMostOneMoves
  BY StepMoves
<1>2. ASSUME NEW o \in Order
      PROVE  /\ pay[o].status = "SUCCESS" => pay'[o].status \in {"SUCCESS", "REFUNDED"}
             /\ pay[o].status = "REFUNDED" => pay'[o].status = "REFUNDED"
  <2>1. OrderMoves(o)
    BY <1>1 DEF AtMostOneMoves, OrderMoves
  <2>2. Phase(o)' \in {"granted", "held"} => pay'[o].status = "SUCCESS"
    BY DEF Phase
  <2>3. Phase(o)' = "returned" => pay'[o].status = "REFUNDED"
    BY DEF Phase
  <2>4. /\ pay[o].status = "SUCCESS" => Phase(o) \in {"granted", "held"}
        /\ pay[o].status = "REFUNDED" => Phase(o) = "returned"
    BY DEF Phase
  <2>5. QED BY <2>1, <2>2, <2>3, <2>4
            DEF OrderMoves, Unmoved, Collected, Fulfilled, Promised, Returned
<1>3. QED BY <1>2 DEF PaidStays

LEMMA SoldKept ==
  ASSUME Inv, Owed, Sold, [SubscriptionsNext]_subscriptionVars
  PROVE  Sold'
<1>1. ASSUME NEW q \in Request, req'[q].kind = "retry"
      PROVE  req'[q].row \in Order /\ pay'[req'[q].row].status \in {"SUCCESS", "REFUNDED"}
  <2>1. CASE Same(q)
    <3>1. req[q].row \in Order /\ pay[req[q].row].status \in {"SUCCESS", "REFUNDED"}
      BY <1>1, <2>1 DEF Same, Sold
    <3>2. QED BY <2>1, <3>1, PaidStep DEF Same, PaidStays
  <2>2. CASE Begun(q)
    BY <1>1, <2>2 DEF Begun
  <2>3. QED BY <1>1, <2>1, <2>2, LateBegin DEF Late
<1>2. QED BY <1>1 DEF Sold

\* A FAILED order is written only by the grant or the settlement that had read it PENDING.
LEMMA FailedStep ==
  ASSUME Inv, Sold, [SubscriptionsNext]_subscriptionVars,
         NEW o \in Order, pay[o].status = "FAILED"
  PROVE  pay'[o].status = "FAILED" \/ (pay'[o].status = "SUCCESS" /\ LateSale(o))
<1>1. pay \in [Order -> Payment] /\ req \in [Request -> InProgress]
  BY Typed
<1>2. ASSUME NEW r \in Request, Grant(r)
      PROVE  pay'[o].status = "FAILED" \/ (pay'[o].status = "SUCCESS" /\ LateSale(o))
  <2>1. PICK x \in Order :
          /\ IF req[r].kind = "purchase" THEN NextOrder(x) ELSE x = req[r].row
          /\ pay' = [pay EXCEPT ![x] = [NoPayment EXCEPT !.status = "SUCCESS"]]
    BY <1>2 DEF Grant
  <2>2. CASE x # o
    BY <1>1, <2>1, <2>2
  <2>3. CASE x = o
    <3>1. pay'[o].status = "SUCCESS"
      BY <1>1, <2>1, <2>3 DEF NoPayment
    <3>2. req[r].kind \notin {"purchase", "retry"} /\ req[r].row = o
      BY <2>1, <2>3 DEF NextOrder, Sold
    <3>3. req[r].kind \in {"confirm", "settle"}
      BY <1>2, <3>2 DEF Grant, Grants
    <3>4. QED BY <1>2, <3>1, <3>2, <3>3 DEF LateSale
  <2>4. QED BY <2>2, <2>3
<1>3. ASSUME NEW r \in Request, SettleReview(r)
      PROVE  pay'[o].status = "FAILED" \/ (pay'[o].status = "SUCCESS" /\ LateSale(o))
  <2>1. CASE req[r].row # o
    BY <1>1, <1>3, <2>1 DEF SettleReview
  <2>2. CASE req[r].row = o
    <3>1. pay'[o].status = "SUCCESS"
      BY <1>1, <1>3, <2>2 DEF SettleReview, NoPayment
    <3>2. QED BY <1>3, <2>2, <3>1 DEF SettleReview, LateSale
  <2>3. QED BY <2>1, <2>2
<1>4. ASSUME NEW r \in Request, Cancel(r) PROVE pay'[o].status = "FAILED"
  <2>1. pay' = pay \/ \E s \in Order : s # o /\ \E d : pay' = [pay EXCEPT ![s].refund = d]
    BY <1>4 DEF Cancel, Paid
  <2>2. QED BY <1>1, <2>1
<1>5. ASSUME NEW r \in Request, Return(r) PROVE pay'[o].status = "FAILED"
  <2>1. req[r].row # o /\ pay' = [pay EXCEPT ![req[r].row].status = "REFUNDED"]
    BY <1>5 DEF Return
  <2>2. QED BY <1>1, <2>1
<1>6. ASSUME NEW x \in Order, FailOrder(x) PROVE pay'[o].status = "FAILED"
  BY <1>1, <1>6 DEF FailOrder
<1>7. ASSUME NEW x \in Order, NEW t, NEW online, NEW ask, CreateOrder(x, t, online, ask)
      PROVE  pay'[o].status = "FAILED"
  BY <1>1, <1>7 DEF CreateOrder, NextOrder
<1>8. ASSUME pay' = pay PROVE pay'[o].status = "FAILED"
  BY <1>8
<1>9. ASSUME NEW r \in Request,
             \/ \E t \in Tier \ {0}, ask \in Nat : StartPurchase(r, t, ask)
             \/ \E x \in Order : StartOrder(r, x) \/ StartRetry(r, x) \/ StartReturn(r, x)
             \/ \E s \in Row, by \in {"staff", "self"} : StartCancel(r, s, by)
             \/ \E s \in Row, to \in Status : StartMark(r, s, to)
             \/ Refuse(r) \/ Wake(r) \/ Mark(r)
      PROVE  pay' = pay
  BY <1>9 DEF StartPurchase, StartOrder, StartRetry, StartReturn, StartCancel, StartMark, Start,
              Refuse, Wake, Mark
<1>10. ASSUME Tick \/ UNCHANGED subscriptionVars \/ \E s \in Row : Expire(s) \/ ActivateDue(s)
       PROVE  pay' = pay
  BY <1>10 DEF Tick, subscriptionVars, Expire, ActivateDue
<1>11. ASSUME NEW f \in Offers,
              \/ CreateOrder(f.order, f.tier, f.channel = "online", f.ask)
              \/ \E r \in Request : StartPurchase(r, f.tier, f.ask)
       PROVE  pay'[o].status = "FAILED"
  BY <1>7, <1>8, <1>9, <1>11, Offered
<1>12. QED
  BY <1>2, <1>3, <1>4, <1>5, <1>6, <1>8, <1>9, <1>10, <1>11 DEF SubscriptionsNext

LEMMA InitSold == SubscriptionsInit => Sold
BY DEF SubscriptionsInit, Sold, Idle

LEMMA InitPromise == SubscriptionsInit => Promise!Init
<1> SUFFICES ASSUME SubscriptionsInit PROVE Promise!Init
  OBVIOUS
<1>1. ASSUME NEW o \in Order PROVE Phase(o) = "unpaid" /\ (pay[o].refund # "no") = FALSE
  BY DEF SubscriptionsInit, Phase, NoPayment
<1>2. QED BY <1>1 DEF Promise!Init

\* The two functions of the promise after a step that moves only order o.
LEMMA PromiseMove ==
  ASSUME NEW o \in Order, \A x \in Order \ {o} : Unmoved(x)
  PROVE  /\ [x \in Order |-> Phase(x)]' = [[x \in Order |-> Phase(x)] EXCEPT ![o] = Phase(o)']
         /\ [x \in Order |-> pay[x].refund # "no"]' =
              [[x \in Order |-> pay[x].refund # "no"] EXCEPT ![o] = (pay'[o].refund # "no")]
<1>1. \A x \in Order \ {o} :
        Phase(x)' = Phase(x) /\ (pay'[x].refund # "no") = (pay[x].refund # "no")
  BY DEF Unmoved
<1>2. QED BY <1>1

LEMMA StepPromise ==
  ASSUME Inv, Owed, [SubscriptionsNext]_subscriptionVars
  PROVE  [Promise!Next]_(Promise!vars)
<1>1. CASE \A o \in Order : Unmoved(o)
  BY <1>1 DEF Unmoved, Promise!vars
<1>2. ASSUME NEW o \in Order, OrderMoves(o), \A x \in Order \ {o} : Unmoved(x)
      PROVE  [Promise!Next]_(Promise!vars)
  <2>1. CASE Unmoved(o)
    BY <1>1, <1>2, <2>1
  <2>2. CASE Collected(o)
    <3>1. (pay'[o].refund # "no") = (pay[o].refund # "no")
      BY <2>2 DEF Collected
    <3>2. Promise!Collect(o)
      BY <1>2, <2>2, <3>1, PromiseMove DEF Promise!Collect, Collected
    <3>3. QED BY <3>2 DEF Promise!Next
  <2>3. CASE Fulfilled(o)
    <3>1. Promise!Grant(o)
      BY <1>2, <2>3, PromiseMove DEF Promise!Grant, Fulfilled
    <3>2. QED BY <3>1 DEF Promise!Next
  <2>4. CASE Promised(o)
    <3>1. Promise!PromiseRefund(o)
      BY <1>2, <2>4, PromiseMove DEF Promise!PromiseRefund, Promised
    <3>2. QED BY <3>1 DEF Promise!Next
  <2>5. CASE Returned(o)
    <3>1. Promise!Return(o)
      BY <1>2, <2>5, PromiseMove DEF Promise!Return, Returned
    <3>2. QED BY <3>1 DEF Promise!Next
  <2>6. QED BY <1>2, <2>1, <2>2, <2>3, <2>4, <2>5 DEF OrderMoves
<1>3. QED BY <1>1, <1>2, StepMoves DEF AtMostOneMoves

--------------------------------------------------------------------------------
(* The theorems.                                                               *)

\* The invariant that all theorems rest on: what each request knows, that a payment has one
\* request at work on it, and that rows and orders agree.
THEOREM Invariance == SubscriptionsSpec => []Inv
<1>1. Inv /\ [SubscriptionsNext]_subscriptionVars => Inv'
  BY NextStep DEF Allowed
<1>2. QED BY InitInv, <1>1, PTL DEF SubscriptionsSpec

\* Every variable keeps its type.
THEOREM SubscriptionsTyped == SubscriptionsSpec => []SubscriptionsTypeOK
<1>1. Inv => SubscriptionsTypeOK
  BY DEF Inv
<1>2. QED BY <1>1, Invariance, PTL

\* A member never has two ACTIVE or two SCHEDULED subscriptions.  The unique indexes have to
\* hold back a status update by id; a purchase, retry, activation or cancellation that finds
\* the rows as an update left them does without them.
THEOREM OnePlanAlways == SubscriptionsSpec => []OnePlan
<1>1. Inv => OnePlan
  BY DEF Inv, One, OnePlan
<1>2. QED BY <1>1, Invariance, PTL

\* A plan comes to be queued behind a better one only by a status update that puts it there
\* or makes the better one current.
THEOREM QueueOrdered == SubscriptionsSpec => OnlyStatusWritesMisqueue
<1>1. Inv /\ [SubscriptionsNext]_subscriptionVars => [Queues]_subscriptionVars
  BY NextStep DEF Allowed
<1>2. QED BY <1>1, Invariance, PTL DEF SubscriptionsSpec, OnlyStatusWritesMisqueue, Queues

\* A plan without its money comes to give rights only by a status update that revives it.
THEOREM RightsBacked == SubscriptionsSpec => OnlyStatusWritesUnback
<1>1. Inv /\ [SubscriptionsNext]_subscriptionVars => [Backs]_subscriptionVars
  BY NextStep DEF Allowed
<1>2. QED BY <1>1, Invariance, PTL DEF SubscriptionsSpec, OnlyStatusWritesUnback, Backs

\* What has ended gives rights again only by a status update, and keeps its start.
THEOREM EndedRevived == SubscriptionsSpec => OnlyStatusWritesRevive
<1>1. Inv /\ [SubscriptionsNext]_subscriptionVars => [Revives]_subscriptionVars
  BY NextStep DEF Allowed
<1>2. QED BY <1>1, Invariance, PTL DEF SubscriptionsSpec, OnlyStatusWritesRevive, Revives

\* A full refund is promised only for a period of which no whole day had been used when it
\* was asked for, revived or not.
THEOREM FullRefundFresh == SubscriptionsSpec => FullRefundWithinADay
<1>1. Inv /\ [SubscriptionsNext]_subscriptionVars => [Fresh]_subscriptionVars
  BY NextStep DEF Allowed
<1>2. QED BY <1>1, Invariance, PTL DEF SubscriptionsSpec, FullRefundWithinADay, Fresh

\* A plan is suspended only for another one, and for a better one if it had not ended; or by
\* a settlement of such a plan that is refused after the switch; or by one that a status
\* update had put behind it.
THEOREM SuspendedExplained == SubscriptionsSpec => SuspensionsExplained
<1>1. Inv /\ [SubscriptionsNext]_subscriptionVars => [Explained]_subscriptionVars
  BY NextStep DEF Allowed
<1>2. QED BY <1>1, Invariance, PTL DEF SubscriptionsSpec, SuspensionsExplained, Explained

\* No status update to ACTIVE or SCHEDULED is written, as long as staff use the forms of the
\* frontend only: they offer CANCELLED and nothing else (businessRules.ts:52).  The API
\* accepts the others.
Unrestored == \A r \in Request, s \in Row : ~Restores(r, s)
NobodyRestores == [][Unrestored]_subscriptionVars

AllOrdered == \A a, q \in Row : ~Misqueued(a, q)
AllBacked == \A o \in Order : ~Unbacked(o)

\* Then a queued plan never takes days from a current one that is as good.
THEOREM BetterPlanKept == SubscriptionsSpec /\ NobodyRestores => []AllOrdered
<1>1. SubscriptionsInit => AllOrdered
  BY DEF SubscriptionsInit, Misqueued, NoRow, AllOrdered
<1>2. Inv /\ AllOrdered /\ [SubscriptionsNext]_subscriptionVars /\ [Unrestored]_subscriptionVars
        => AllOrdered'
  <2>1. ASSUME Inv, AllOrdered, [SubscriptionsNext]_subscriptionVars, Unrestored
        PROVE  AllOrdered'
    BY <2>1, NextStep DEF Allowed, Queues, AllOrdered, Unrestored
  <2>2. ASSUME AllOrdered, UNCHANGED subscriptionVars PROVE AllOrdered'
    BY <2>2 DEF subscriptionVars, Misqueued, AllOrdered
  <2>3. QED BY <2>1, <2>2
<1>3. QED BY <1>1, <1>2, Invariance, PTL DEF SubscriptionsSpec, NobodyRestores

\* Then a plan that gives rights is paid for and its money is not promised back.
THEOREM BackedAlways == SubscriptionsSpec /\ NobodyRestores => []AllBacked
<1>1. SubscriptionsInit => AllBacked
  BY DEF SubscriptionsInit, Unbacked, NoRow, AllBacked
<1>2. Inv /\ AllBacked /\ [SubscriptionsNext]_subscriptionVars /\ [Unrestored]_subscriptionVars
        => AllBacked'
  <2>1. ASSUME Inv, AllBacked, [SubscriptionsNext]_subscriptionVars, Unrestored
        PROVE  AllBacked'
    BY <2>1, NextStep DEF Allowed, Backs, AllBacked, Unrestored
  <2>2. ASSUME AllBacked, UNCHANGED subscriptionVars PROVE AllBacked'
    BY <2>2 DEF subscriptionVars, Unbacked, AllBacked
  <2>3. QED BY <2>1, <2>2
<1>3. QED BY <1>1, <1>2, Invariance, PTL DEF SubscriptionsSpec, NobodyRestores

\* Then, where no facility limit refuses a settlement, a plan is suspended only for another
\* one, and for a better one if it had not ended.
THEOREM SuspendedReplaced ==
  ASSUME TRUE \notin FullHouse
  PROVE  SubscriptionsSpec /\ NobodyRestores => SuspendedIsReplaced
<1>1. Inv /\ AllOrdered /\ [SubscriptionsNext]_subscriptionVars
        => [\A s \in Row : GivenUp(s) => Superseded(s)]_subscriptionVars
  <2> SUFFICES ASSUME Inv, AllOrdered, [SubscriptionsNext]_subscriptionVars
               PROVE  \A s \in Row : GivenUp(s) => Superseded(s)
    OBVIOUS
  <2>1. Replaced
    BY NextStep DEF Allowed
  <2>2. \A s \in Row : ~Overtaken(s)
    BY DEF Overtaken, AllOrdered
  <2>3. QED BY <2>1, <2>2 DEF Replaced
<1>2. QED
  BY <1>1, BetterPlanKept, Invariance, PTL DEF SubscriptionsSpec, SuspendedIsReplaced

\* Bought at the desk, by counter order or online, renewed, queued, cancelled and returned,
\* an order keeps the promise of PaidRights, as the settlement of online orders does: the
\* two modules agree on what money and rights have to do with each other.
THEOREM OrdersKeepTheirPromise == SubscriptionsSpec => OrdersKeepPromise
<1>1. Inv /\ Owed /\ [SubscriptionsNext]_subscriptionVars => [Promise!Next]_(Promise!vars)
  BY StepPromise
<1>2. Inv /\ Owed /\ [SubscriptionsNext]_subscriptionVars => Owed'
  BY OwedKept
<1>3. QED
  BY <1>1, <1>2, InitOwed, InitPromise, Invariance, PTL
     DEF SubscriptionsSpec, OrdersKeepPromise, Promise!Spec

\* An order changes its status as payments.service.ts allows, but for the sale of an order
\* that was set to FAILED after the request for the sale had read it.
THEOREM OrdersLive == SubscriptionsSpec => OnlyLateSalesRevive
<1>1. Inv /\ Owed /\ [SubscriptionsNext]_subscriptionVars => Owed'
  BY OwedKept
<1>2. Inv /\ Owed /\ Sold /\ [SubscriptionsNext]_subscriptionVars => Sold'
  BY SoldKept
<1>3. Inv /\ Owed /\ Sold /\ [SubscriptionsNext]_subscriptionVars =>
        [\A o \in Order :
           /\ pay[o].status = "SUCCESS" => pay'[o].status \in {"SUCCESS", "REFUNDED"}
           /\ pay[o].status = "REFUNDED" => pay'[o].status = "REFUNDED"
           /\ pay[o].status = "FAILED" =>
                pay'[o].status = "FAILED"
                \/ (pay'[o].status = "SUCCESS" /\ LateSale(o))]_subscriptionVars
  BY PaidStep, FailedStep DEF PaidStays
<1>4. QED
  BY <1>1, <1>2, <1>3, InitOwed, InitSold, Invariance, PTL
     DEF SubscriptionsSpec, OnlyLateSalesRevive

================================================================================
