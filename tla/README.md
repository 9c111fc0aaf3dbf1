# Sports Center Management System: verification project

A verification project for the backend of the system, `src/BE` (Express, Prisma on PostgreSQL, MongoDB for the chat,
timers in `server.ts`). It models the parts in which several requests, jobs and outside parties change the same rows:
the payment of a plan, the plans of a member, the seats of class sessions, the timetable of rooms and coaches, the roster
of a session with what follows from absences, and the notification outbox. `TLC` checks each model on small instances
and `TLAPS` proves its most important invariants for all instances.

## 1. Inventory

What follows is a map of the backend. `PROJECT.json` lists every component with its sources, also those that are not
modelled, and under `hazards` each place that is hard to test, with its line.

| component | state | operations | correct when |
|---|---|---|---|
| SePay checkout and settlement (`payments/sepay-payments.service.ts`) | `Payment`, `SepayWebhookEvent`, `SepayBankTransaction` | checkout, webhook, API poll, retry of an activation, closing of expired orders | an order is paid once, from one bank movement, and gives one subscription; money that cannot be used stays in view |
| Payments and refunds (`payments.service.ts`, `refunds.service.ts`) | `Payment.status`, `refundRequestedAt`, `refundedAt` | request a refund, confirm it | money goes back once, on an approved request, and takes the subscription with it |
| Subscriptions (`subscriptions/*`, counter orders in `operations.routes.ts`) | `MembershipSubscription` | purchase at the desk, by counter order or online; renewal, queueing, activation, expiry, cancellation by staff or member, change of status | one active and at most one queued, both paid for; a queued plan takes no days from a better one; an ended one stays ended (a status update by staff may break the last three, and nothing else does) |
| Bookings (`enrollments/*`) | `Enrollment` | book, cancel, move to another session, whole course | capacity, quota, no two sessions at once, no seat in a cancelled session |
| Waitlist (`waitlist/*`) | `WaitlistEntry` | join, leave, promote after a cancellation, worker | first come first served among those who may book; nobody is lost or starved |
| Penalties (`attendance/attendance-penalties.service.ts`) | `AttendancePenalty` | apply, expire, revoke with or without the seats | bars the member from the class while in force |
| Timetable (`class-schedules/*`, `rooms`, `classes`, `terms`, `operations/scheduling.ts`) | `ClassSchedule`, `ClassMember`, `Room`, `Class`, `Term` | create, move, cancel, complete, transfer to another room, assign and remove coaches, close and reopen, set and close a term | no room and no coach twice at a time; no session in a closed room or class, without a primary coach or outside its term |
| Coach changes and leave (`operations/coach-changes.service.ts`, `operations.routes.ts`) | `CoachChangeRequest`, `LeaveRequest` | ask, decide; a resolution for each session of a leave | a coach on leave teaches nothing; a change is applied to what it was asked for |
| Attendance (`attendance/attendance.service.ts`, `reception-attendance.service.ts`) | `Attendance`, `AttendanceManualCode`, `Issue` | codes, check-in, entry, correction, completion, excuse; warning, report, review | no check-in is lost; a completed session answers for everybody; one warning, one report, one decision |
| Outbox (`notifications/outbox.service.ts`) | `NotificationOutbox` | enqueue, flush | every row is sent once or given up after the retries |
| Chat, assistant, reports, catalogue, accounts, frontend | - | CRUD or read-only | not modelled |

**How they interact.** Requests share the database; there is no queue between them. A transaction runs at READ COMMITTED
and serializes itself with others by PostgreSQL advisory locks (`utils/dbLocks.ts`): payment, member's subscription,
member's quota, member and class, session, class, room, coach, term. `config/prisma.ts:20-31` makes a nested
`$transaction` join the one that runs, `:66-70` sends every query of a running transaction into it, and `:197-238` checks the
upcoming sessions again after each write to a room, a class or its coaches. `activateSubscriptionForPayment` is called by
the settlement, by the retry and by counter orders; `revokeSubscriptionBookings` by refunds and cancellations, and it
promotes from the waitlist; cancelling a seat promotes too. The approval of a coach change ends in `updateSchedule`; the
review of a violation report takes seats away; completing a session writes its roster. Notifications go through the
outbox.

**What is hard.** Reads before a transaction or before a lock that are used after it; writers of one row that take
different locks (checkout and lifecycle job against the settlement, assignment of a coach against a move of the
session); the same bank movement coming by two channels; late money; a refund racing a retry; a refusal that is caught
inside a transaction and commits what went before it; checks over many sessions of which one is locked; promotions that
only try a member's lock; a flush that stops half-way; timers that overlap themselves.

## 2. Plan

In the order of importance. Done:

1. `SepaySettlement` with the abstract `PaidRights`, and `SepaySettlementProofs`.
2. `SessionBooking`, with `SessionBookingProofs` and `SessionBookingRuleProofs`.
3. `NotificationOutbox`, and `NotificationOutboxProofs`.
4. `MemberSubscriptions`, and `MemberSubscriptionsProofs`: what `SepaySettlement` takes as granted or refused.
5. `Timetable`, with `TimetableProofs` and `TimetableCoachProofs`: rooms, coaches, classes, terms, coach changes, leave.
6. `Attendance`, and `AttendanceProofs`: roster, codes, completion, absences, reports.

Left, in this order:

1. The travel buffer between facilities in `SessionBooking`: a distance between sessions beside `Overlapping`.
2. A module for the order of locks (class, room, coach, term, session, member): deadlock would be the property. The
   database ends a deadlock by failing one side, so it is a question of service, not of safety.
3. The counts of a facility's limits (count, then insert).

## 3. The modules

### SepaySettlement (the core)

| code | model |
|---|---|
| row of `Payment` | `pay[p]`: status, activation, review, refund request, confirmed refunds; `aged` says that its TTL has passed |
| its `MembershipSubscription` | `granted[p]` counts the rows created, `right[p]` is the state of the last |
| `SepayWebhookEvent`, `SepayBankTransaction` | `event[c]`, `ledger[x]` with the identities of `bankTransactionIdentity` |
| `lockPaymentWebhook` and what was read under it | `tx[p]` |
| a request between two statements | `checkout[k]`, `staff[m]`, `fetched[p]`, `patch` |

A settlement is two steps, the read under the lock and the commit, because `createSepayCheckout` and the lifecycle job
write the order without that lock. `CheckoutRead`/`CheckoutClose`/`CheckoutCreate` are the three awaits of
`createSepayCheckout`; `RetryCheck` ... `RetryRejected` are `retrySepayActivation` with its catch block; `ConfirmRead` and
`ConfirmCommit` are `updatePaymentStatus`; `PatchRead` and `PatchWrite` are `updateSubscriptionStatus` to ACTIVE, of a row read
as ACTIVE, or to SCHEDULED, of a row read in any state but SCHEDULED (`EndRight` has its EXPIRED). `SettleRollback` is an error or a crash at any point of a settlement.
Abstracted: a bank credit is the order code SePay extracted, the codes named in its content, whether amount and account
match, and its reference; an order is identified with its code. Whether the purchase rules accept a grant is a free
choice (`SettleGrant` or `SettleReview`). Several reads before one transaction that are all read again are merged.
Deciding a refund's amount, mock confirmation and the display of an order are left out.

`PaidRights` says what an order promises: unpaid, held, granted or returned, and whether its money was promised back.
`KeepsPromise` is that every behaviour of `SepaySettlement` is one of `PaidRights` under the mapping `Phase`. The same
specification is kept by `MemberSubscriptions` (`OrdersKeepPromise`), which models the purchases that `SepaySettlement` takes as
granted or refused: both sides of the seam promise the same.

### SessionBooking

| code | model |
|---|---|
| `Enrollment.status`, `.subscriptionId` | `seat[m][s]`, `funds[m][s]` |
| `WaitlistEntry` WAITING by position | `place[s][m]`, its rank |
| `ClassSchedule.status` and the clock | `session[s]`: SCHEDULED is AHEAD, RUNNING or OVER |
| effective subscription; cancelled or refunded ones | `sub[m]`, numbered in the order bought; `revoked` |
| latest `AttendancePenalty` of a member in a class | `penalty[<<m, c>>]` |
| `lockMemberQuota` and `lockMemberClass` | `holder[m]`; `lockSchedule` is held in the last, single step of a request |
| a request between two steps | `req[r]` with what it has read |

`bookClass`, `joinWaitlist` and `cancelEnrollment` read again what matters under their locks, so they are `StartLocked`
and one step. `transferEnrollment` and `revokePenalty` decide with what they read before: `StartTransfer`, `StartRevoke`
and `RestoreRead` keep it in the request. `StartCourse` and `Course` are `enrollWholeCourse`: it reads the sessions
of a course before its locks, reads them again under them, and books all that the member has no seat in, or none. `Promotable` is `promoteNextEligible` called `k` times: the first in the queue
whose lock is free and who may book, as long as seats are left. `EndSubscription` is `revokeSubscriptionBookings`, which
goes through the sessions in the order of their ids and promotes in each. Abstracted: capacity and quota are constants; a
course is any set of sessions of one class that lie ahead, for terms are not modelled;
refusals that come from terms, tiers, facilities and the free plan are `Refuse`; the travel buffer between facilities is
not modelled; ranks stand for positions, which the code never compares otherwise.

### NotificationOutbox

Rows are numbered by creation; `stage[w]` is the place of a flush in its loop, `batch[w]` and `read[w]` what its
`findMany` returned. Every statement of the loop is a step, `Throw` and `Catch` are the try block and its handler, and
`Stop` is a flush that ends half-way: the process dies, or the catch block's own update throws. `sends`, `unacked` and
`tries` are history variables for the properties.

### MemberSubscriptions

| code | model |
|---|---|
| rows of `MembershipSubscription` of one member | `sub[s]`, row `Free` for the plan everybody has, row `o` for what order `o` bought |
| `Payment` with tier, start date asked for, refund requested | `pay[o]` |
| a request between its reads and its transaction | `req[r]`: kind, row, `now` as the code took it before the lock, status read, refund due |
| `Date.now()` | `clock`, which runs while requests are in progress, by at most `Lag` |

Every transaction that takes the member's subscription lock is one step (`Grant`, `SettleReview`, `Cancel`, `Return`,
`Wake`); what was read or computed before the lock is kept in the request (`StartPurchase`, `StartCancel`, ...). `Starts`
and `StartsAfter` are `inspectPlanPurchase`, `Switched` is `applyPlanSwitchRules`, `Synced` is `activateMemberDue`, which each
entry point calls first. The jobs `Expire` and `ActivateDue` and the write by id in `Mark` take no lock. `StartMark` and
`Mark` are `updateSubscriptionStatus` to ACTIVE, EXPIRED or SCHEDULED: the first refuses what the code refuses on the row it
reads, which is little (`UpdateStatusSchema` accepts SCHEDULED and no guard stops it on an ended row), the second writes
whatever the row has become, unless a partial unique index is in the way (`Unique`). `RefundDue` rounds as the code does:
staff get back the days left, rounded up, so the whole price within the first `Day`; a period is exactly the days sold, for
no code adds days to it. `FullHouse` says whether the facility's member limit may refuse: the settlement catches that refusal
and commits. `Offers` says what may be bought, as which order and how. Abstracted: times are ticks, a plan is its tier, prices
and payment methods are left out, warnings before an expiry change nothing. `Lag` is justified by Prisma's limits for a
transaction (`maxWait` 10 s, `timeout` 30 s) against periods of days. A transaction into which a writer without the lock
writes loses a compare-and-set or meets an index; that is `Refuse`.

### Timetable

| code | model |
|---|---|
| `ClassSchedule` | `session[s]`: status, class, room, slot, substitute (`coachId`) |
| `ClassMember` of coaches | `role[k][c]` |
| `Room.isActive`, `Class.isActive` | `active` |
| `LeaveRequest` of a coach, `CoachChangeRequest`, `Term` | `leave`, `asked`, `term` |
| a transaction between two of its reads, locks and writes | `job[q]`: locks held, locks waited for, rows it is about to store |

`Create` and `FinishCreate` are `createScheduleBatch`; `ReadMove`, `LockMove`, `CheckMove`, `FinishMove` are `updateSchedule`, which
completes the request with a row read before its transaction, locks the session, computes the other locks, takes them,
checks and writes; `Approve` is `decideCoachChange`, which enters it with the session's lock; `ReadTransfer`, `CheckTransfer`,
`FinishTransfer` are `transferSchedules`; `Assign`, `FinishAssign` and `Remove` are the coaches of a class; `ReadLeave`, `CheckLeave`,
`FinishLeave` are the decision about a leave, with its resolutions carried out one after the other in any order. Handlers
whose reads all lie under the lock that their rivals take are one step. `Fail` stands for every refusal the model does not
name: opening hours, area, capability, specialisation and capacity of a room, a deadlock, a timeout. `Sound` is
`validateResources` with `checkConflicts`.

Abstracted: a slot stands for an interval and sessions overlap when their slots are the same; all sessions lie ahead,
for the clock is in `SessionBooking`; a batch is several sessions of one class and room; the lock of the term is taken
last and held to the commit, so that `InTerm` is looked at in the final step; a transfer takes all the room's sessions.
`Lawful` is what the checks of `config/prisma.ts` and the trigger `scms_require_primary_coach` demand of the rows the period
begins with. Leave of a coach is in the initial rows because `createStaffLeave` refuses coaches by now. `stray` and
`slipped` are history: sessions a transfer wrote although they had been moved, coaches whom a change of roles or the
decision of a leave left in a session without a check under their lock.

### Attendance

| code | model |
|---|---|
| `ClassSchedule.status` and its times | `status[s]`, `phase[s]`: ahead, open (30 minutes before), running, over |
| `Enrollment`, `Attendance`, `AttendanceManualCode` | `seat[m][s]`, `result[m][s]`, `code[c]` |
| `Issue` with a violation report; warnings | `report[i]`, `warned[m]` |
| a request between its reads and its writes, with its locks | `job[q]` |

One class. `ScanRead`/`ScanWrite` and `EnterRead`/`EnterWrite` are check-in and entry, of which the unique index refuses the
second; `CompleteRead`/`CompleteWrite` is `completeSchedule`, whose `createMany` skips rows that have appeared
(`Missing`), and whose check that the session is over, made before the lock (`class-schedules.service.ts:794`) and not again,
is merged with the read under it: the times of a session are constant here; `LeaveRead`/`LeaveWrite` excuses; `IssueRevoke`/`IssueCreate` draws a code in two statements; `WarnRead` ...
`ReviewWrite` are reception's. Bookings and cancellations appear as far as they move a seat. Abstracted: a membership
covers the sessions; a QR token is not stored, so it is always at hand; failed codes are counted in the transaction that
their failure rolls back, so the count never grows; the advisory scan and the analytics write nothing. `Tick` keeps a
session running while a review that takes seats in it is between read and write: the read takes sessions ahead of their
start, and a transaction ends before a session does. `told`, `amended` and `answers` are history.

## 4. The runs

| run | instance | shows |
|---|---|---|
| `sepay_race` | 1 order at a time, 2 credits, 2 staff requests | one subscription, one return; a status leaves its lifecycle only where a checkout closes what it read as PENDING; what a refund cancelled is restored only by a status update; no order PENDING for ever |
| `sepay_mixed` | 2 orders, 2 credits, 1 staff request; reused references, wrong amounts, wrong account, two codes, no code | money is behind each right and pays for one order only, is never out of view, and the settlement keeps `PaidRights` |
| `member_rights` | 1 member, an online and a desk purchase of 2 tiers and the free plan, 2 requests, periods of 2 days, 3 days | one active and one queued plan; only a status update puts a plan behind a better one, gives rights without their money or revives what ended; a plan is suspended only for another, by a refused settlement or by what a status update queued; all the money goes back only within the first day |
| `booking_seats` | 1 session with 1 seat, 2 members, 2 requests, penalties and restorations | never overbooked, nobody drops out of the queue, a penalty bars all ways in but a restoration, a subscription that was ended funds no seat but a restored one |
| `booking_rules` | 2 sessions of 2 classes, 2 members, 2 requests with courses and moves, quota 1 | only a move passes the quota, only a move enters a cancelled session |
| `booking_member` | 3 sessions of 2 classes, one overlapping the other two, 1 member, 2 requests with courses and moves | never in two sessions at once but by a course whose own sessions overlap |
| `booking_live` | 1 session, 2 members, 2 requests | a free seat does not stay free while somebody may have it |
| `timetable` | 3 sessions (1 to be created), 2 classes, 2 rooms, 3 coaches, 2 slots, 1 leave, 2 transactions, 3 requests, 3 opening timetables | no room twice, no coach twice and no coach at work on leave but the pairs in `slipped`; nothing left in a closed room or class, without a primary coach or outside the term |
| `attendance` | 1 member, 2 sessions, 1 code, 2 reports, 2 requests at a time, 5 in all | no check-in lost, everybody answered for, one warning, one report, one decision |
| `outbox` | 2 rows, 2 overlapping flushes, batches of 1, 2 attempts, 1 stop | one sender per row, every repetition explained, no early give-up, every row handled but the one a stopped flush was at |
| `member_suspended`, `timetable_leave` | small | the findings below |

**Why the bounds are enough.** Every conflict in the code is over one row or one lock, and between two parties: two
requests, a request and a job, or two channels. Two of each, over one contended order, seat or row, produce every
pairwise interleaving; a second credit is needed for a duplicate, a second order for a reused reference or a queued plan,
a second class for the quota and for a coach at two places, two overlapping sessions for the time conflict, a class of two sessions for a
course, two attempts to tell a retry from a give-up, two sessions for an absence rate between the limits. `MaxSubs` and `MaxPenalties` bound
subscriptions and penalties per member; `Stops` bounds stopped flushes; `MaxTime` leaves room for a period to begin and end;
`MaxOps` bounds the requests served in `timetable` (three: two that meet and one that prepares or closes something) and
`attendance` (five). `Openings` names the three timetables a run may begin with: two classes apart, two coaches who support
each other, a substitute beside a support coach. Each other set is finite by its constant. Rows of the outbox beyond 2 add
no conflict, for a row has no effect on another. The theorems of section 6 hold without any bound.
`timetable` visits 743,682 distinct states, `attendance` 2,068,723, `booking_seats` 2,079,826. The runs use symmetry among requests (and among
members, sessions, codes and reports of `attendance`), and `member_rights` (4,726,367) a `VIEW` that forgets
whether a promised refund is full or a part: handlers ask only whether one was promised, and `FullRefundWithinADay` looks at
the step that promises it. None of these runs has a liveness property. In `member_rights` a request ends within a tick
(`Lag` 0), so what is stale is what it read, and the free plan ends during the run (`FreeEnd`); `MemberPromise.cfg` has the
stale clocks, `Lag` 1 with days of 2 ticks, over one order bought in every way and from every date.
Restorations are in `booking_seats`. Configurations beside the runs check what the theorems of section 6 say beyond
them: `BookingRestoredInTime.cfg` (`MCSessionBooking`) the four "only" properties of bookings with moves and
restorations on two overlapping sessions, `SepayStaff.cfg` (`MCSepaySettlement`) `NoGrantAfterRefund`, `RefundRevokes` and
`OnlyRejectedRetriesLeaveReason`, `MemberPromise.cfg` (`MCMemberSubscriptions`) the refinement `OrdersKeepPromise` and `OnlyLateSalesRevive`, and again `OnlyStatusWritesUnback`, `OnlyStatusWritesRevive` and `FullRefundWithinADay`,
`OutboxStops.cfg` and `OutboxOneFlush.cfg` (`MCNotificationOutbox`) `OnlyStopsStrand`, `StrandedByStops` and, for one flush
at a time, `AttemptsBounded`, `AttendanceReview.cfg` and `AttendanceCodes.cfg` (`MCAttendance`) `ReviewsTakeWhatIsAhead` and
`CodesByRequests`. `CHECK_DEADLOCK FALSE` is stated because all these
systems may rest: orders are settled, sessions are over, rows are sent, the observed requests are served.

**Fairness.** `sepay_race`: time passes for an open order, and the lifecycle job runs every 15 minutes (`server.ts:55-65`)
and closes expired orders whether or not a request is in progress: weak fairness of `Age` and `CloseStale`, none of the
payer, the bank, staff or the settlement. `booking_live`: a request that has started ends (weak fairness; a
transaction commits, fails or times out), and the worker runs every minute (`server.ts:66-75`) while a request holds its
locks for a moment, so it is not always met by a busy member: strong fairness of `Worker`. `outbox`: a flush that has begun
goes on, the timer (`server.ts:46-53`) begins another, and a backoff ends: weak fairness of each; errors are not fair, and
the number of attempts is what ends them. The other modules claim nothing about what must happen: their handlers are
requests of people, and nothing obliges anybody to make one.

**Each property is one that code can break.** `PROJECT.json` pairs every property of a passing run with a change of a mapped
definition, kept in the module under a comment `Mutant`, under which TLC finds it violated.

## 5. Disagreements between code and documents

Listed as findings, each with a run:

- A settlement that the facility's member limit refuses has suspended the current plan before, and commits that alone
  (`member_suspended`; `subscription-purchase.service.ts:342` before `:357`).
- A leave may be approved with a replacement that leaves the coach on leave in the session, as a support coach
  (`timetable_leave`; `operations.routes.ts:542`).

Where the code breaks a rule in one way only, the rule is not given up: a property with "only" in its name says that
every other way keeps it (`OnlyCheckoutsOverwrite`, `OnlyStatusWritesRestore`, `OnlyRejectedRetriesLeaveReason`,
`OnlyStatusWritesMisqueue`, `OnlyStatusWritesUnback`, `OnlyStatusWritesRevive`, `OnlyLateSalesRevive`, `OnlyStopsStrand`, `OnlyStaleFillsCancelled`, `OnlyRestoresRevoked`, `OnlyMovesPassQuota`, `OnlyCoursesOverlap`), and
the configuration named below shows the way that does not. For three of the rows (of this table and the next) a theorem says the same: `OneFlushKeepsTheLimit`
of `OutboxAttempts.cfg`, `OneCodeIfOneDraws` of `AttendanceOneCode.cfg` and `OnePendingIfOneChecksOut` of
`SepayOnePending.cfg`.

Further ones met while modelling. Each has a configuration beside the runs, which ends with a counterexample when run with
`tlc -config <cfg> <module>`:

| cfg, module | the code | what is said of it |
|---|---|---|
| `SepaySuccessOnlyRefunded.cfg`, `MCSepaySettlement` | `createSepayCheckout` (`:260`) closes an expired order by id and may overwrite a SUCCESS | `payments.service.ts:97` and `docs/audit/BE_REMEDIATION_STATUS.vi.md:85`: SUCCESS is left only for REFUNDED |
| `SepayOnePending.cfg`, `MCSepaySettlement` | two checkouts both find no pending order and both create one | `sepay-payments.service.ts:235` each (member, plan) has only one SePay order waiting |
| `SepayReviewReason.cfg`, `MCSepaySettlement` | a refused retry writes `reviewReason` on an order another retry has activated | `schema.prisma:603` null once handled |
| `SepayReturnedRevoked.cfg`, `MCSepaySettlement` | `updateSubscriptionStatus` (`subscriptions.service.ts:546`) revives a subscription that a refund cancelled: with SCHEDULED (`subscriptions.schema.ts:19`) without any race, with ACTIVE when the refund came between its read and its write | `docs/POLICY_A_MEMBERSHIP_LIFECYCLE.md:23` CANCELLED to ACTIVE is forbidden |
| `MemberFailedOrder.cfg`, `MCMemberSubscriptions` | the confirmation of a counter order writes SUCCESS over an order that was set to FAILED after it was read | `payments.service.ts:97` the statuses an order may change between |
| `OutboxCrash.cfg`, `MCNotificationOutbox` | a row that was claimed when a flush stopped is SENDING for ever | `schema.prisma:655` and `server.ts:46`, where the timer is to deliver what is left |
| `OutboxAttempts.cfg`, `MCNotificationOutbox` | a flush counts attempts from a stale read, so a row is tried more often than `OUTBOX_MAX_ATTEMPTS` | `outbox.service.ts:48` at most that many |
| `BookingMovedIntoCancelled.cfg`, `MCSessionBooking` | `transferEnrollment` books a target that was cancelled since it was read | `enrollments.service.ts:319`, where `bookClass` reads the session again for that reason |
| `BookingMovedOverQuota.cfg`, `MCSessionBooking` | a move within a class skips the quota check, and when the seat it leaves has started the class was no longer counted | the quota of future classes in `enrollment-quota.service.ts` |
| `BookingRestoredIntoCancelled.cfg`, `MCSessionBooking` | `revokePenalty` restores a seat in a session cancelled since it was read | as `enrollments.service.ts:319` |
| `BookingRestoredUnfunded.cfg`, `MCSessionBooking` | it restores a seat of a subscription that was refunded | `revokeSubscriptionBookings` takes such seats back |
| `BookingRestoredBarred.cfg`, `MCSessionBooking` | it restores a seat of a member who is barred again | `docs/CURRENT_BUSINESS_FLOW_AND_RULES.md:280` a penalty in force bars booking again |
| `BookingCourseTwice.cfg`, `MCSessionBooking` | a course is compared with the seats in other classes only (`course-enrollment.service.ts:147`), so two overlapping sessions of its own class are both booked; `checkConflicts` allows them in two rooms under two coaches | `course-enrollment.service.ts:288` each session is compared with the bookings in other classes and with the other sessions of the course |
| `BookingRebooked.cfg`, `MCSessionBooking` | a member who waits for the session of the seat just cancelled is promoted back into it | the answer of `cancelEnrollment` says the seat was cancelled |
| `TimetableRoom.cfg`, `MCTimetable` | a bulk transfer checks and writes rows it read before its locks: two sessions in one room | `rooms.service.ts:327` each is checked again inside the transaction |
| `TimetableCoach.cfg`, `MCTimetable` | an assignment to a class and a move of its session lock different coaches (`class-schedules.service.ts:642`, `classes.service.ts:442`): one coach in two sessions | BR-COACH-002, `docs/BUSINESS_LOGIC_REVIEW_2026-09-26.md:452` |
| `TimetableOnlyCoach.cfg`, `MCTimetable` | an approved coach change writes back the room as it was read (`class-schedules.service.ts:661`) | `docs/coach-change-workflow.md`: the change is of the coach |
| `AttendanceOneCode.cfg`, `MCAttendance` | two requests for a code each revoke, then each create: two valid codes | `schema.prisma:788` one valid code per session |

## 6. What is proved

The theorems hold for any number of orders, requests, credits, members, sessions, classes, rooms, coaches, rows and flushes.
They assume only the named assumptions of the modules (`SepayConstants`, `BookingConstants`, `OutboxConstants`,
`SubscriptionConstants`, `TimetableConstants`, `OpeningsAssumption`, `AttendanceConstants`): reserved values are outside their
sets, the members and the sessions of a centre are finitely many, sessions are ordered by number, an opening
timetable is made of rows.

**SepaySettlementProofs.** `TypeCorrect` strengthens `TypeOK` to `Typed`: every order a request, a lock or the ledger refers
to exists (an order is never deleted). The invariant `Money` then says why stale reads do no harm:
nothing has happened to an order that is PENDING, nor to one a settlement *read* as PENDING under the lock
(`SettlesClean`): those who write without the lock can only close it. A retry that passed its checks knows that the order
has no subscription and no refund (`RetryKnows`, for it holds the lock), and a confirmation knows whether there is a
subscription, for after the approval nobody creates one (`ConfirmKnows`). From `Typed /\ Money` follow `OneGrant`,
`MoneyFirst`, `OneReturn`, the action properties `RefundIsFinal` and `ReturnRevokes`, and `Refinement`: every step is a
step of `PaidRights` or a stutter. `MoneyStaysInView` has an invariant of its own, `InView`: money allocated to an order is
never taken away from it; an order that was lost when its transfer came can only be revived by a transaction that read
it PENDING or SUCCESS under the lock, and while one holds the lock no transfer for the order is found late.

Three action properties bound what the stale writes of this part can do. `StatusLife`: `SettledFrom` shows that a settlement
that read PENDING finds the order PENDING or FAILED at its commit, and a retry finds it SUCCESS or FAILED; so a status
leaves the lifecycle in one step only, the checkout that closes by id, and in what the transaction that had read the order
before makes of it. `ReturnedStaysCancelled`: the row of a subscription changes with a grant, a confirmation or a write
by a status update (`RightMoves`), and an order whose money went back is past the first two (`NextKind`); the third, to
SCHEDULED, needs no stale read, so the theorem names the write and not a race.
`ReasonOnlyByRejectedRetry` needs `Reasons`: an order that is open, or was when a settlement read it, has no reason yet, and
staff only work on orders that were collected; so whatever sets a reason sets the review with it, but the catch block of a
rejected retry.

`OnePendingIfOneChecksOut` has the hypothesis that no two checkouts for one purpose overlap, which the code does not enforce:
its subject is what happens when they do not. `OneWaits` says what a checkout that is alone knows between its awaits: before it
creates, no order is waiting, and before it closes, none but the one it read; nobody else makes an order wait
(`OthersOpenNone`), so what the checkout read can only become less.

**SessionBookingProofs.** `NeverOverbooked`: `NotOverbooked` is inductive together with the type of `seat`. Every way to a
seat counts the takers and writes in one step under the session's lock; the lemmas about `Takers` turn this into
cardinalities. The delicate case is the end of a subscription, which promotes in one session after the other: when it
reaches a session, that session has lost the member and gained nobody, whatever it promoted before.

**SessionBookingRuleProofs.** `BookInv` is `NotOverbooked`, `TypeOK`, `QueuesInLine` (the ranks of a queue are distinct and at
most its length, which `LeftInLine` and `JoinInLine` keep) and `Known` (what a request in progress may rely on). Most
properties then rest on one fact about a step: a seat that was not there before (`New`) was granted by the booking rules
(`Granted`), which count the member's other seats as they are. For the end of a subscription, which offers seats of many
sessions in one step, `EndSubscriptionGranted` shows that the order of offering makes no difference to that, and
`ReseatedWithin` that the quota holds whichever of the sessions were reached, by a minimal counterexample instead of an
induction. All theorems of this module hold for all `Kinds` of requests but four corollaries.

A step that breaks a rule of booking is a step of the one handler that does not look: `OverlapOnlyByCourse`
(`OnlyCoursesOverlap`), `CancelledOnlyByStale` (`OnlyStaleFillsCancelled`), `QuotaOnlyByMoves` (`OnlyMovesPassQuota`),
`RevokedOnlyByRestore` (`OnlyRestoresRevoked`) and `PenaltyAlwaysBars` name it, the member and the session it is about; in the
same step no other seat comes about against the rule. `RevokedOnlyByRestore` needs `SubsLive` besides: the effective
subscription is never one that was revoked, and when one is, `RevokedTogether` shows that the seats it funds go in the same
step, though that step promotes into them, perhaps the same member. The corollaries put these rules as invariants:
`NobodyIsTwice` where the sessions of one class do not overlap or there are no courses, `CancelledStaysEmpty` and `QuotaIsKept`
without moves and restorations, `RevokedFundsNoSeat` without restorations. The `Booking...` rows of section 5 are the
counterexamples otherwise.

**NotificationOutboxProofs.** `Inv` says that a flush past its claim owns its row, which is SENDING (`Owned`, `Alone`); what
has been sent at each of its stages (`Counted`); and that no attempt count, stored or read, runs ahead of the true number
of tries (`Tried`). It gives `OutboxTyped`, `OneSenderAlways`, `SendsAccountedAlways`, `GivesUpLateAlways` and
`HandledStays`. `OutboxCrash.cfg` shows a row that nobody takes up again; `StrandedOnlyByStop` and `OneLostPerStop` bound the
loss: only the end of the flush that is working on a row leaves it so, and so there are no more such rows than stopped
flushes. `OneFlushKeepsTheLimit` assumes that no two flushes overlap; then what a flush knows of its rows is never stale
(`Paced`), and `AttemptsBounded`, which `OutboxAttempts.cfg` refutes, holds.

**MemberSubscriptionsProofs.** The invariant is `SubscriptionsTypeOK`, `One` (`OnePlan`), `Knows`, `Alone` and `Ledger`. `Knows`
is what a request may rely on when it gets the member's lock: the order it pays for has no row yet, its clock is at most
`Lag` behind, and a full refund was read off a period of which no whole day was used. `Alone` is the lock of the payment.
`Ledger` ties rows to paid orders, which is why an activation of a due row finds it paid or leaves it alone. What a status
update may write (`Mark`, with any target, over any row) keeps all of that, `One` by the unique indexes and the others because
they speak of money and reads. What it does not keep are the rules about rows, so these are action properties, proved step by
step in `Allowed`: a row comes to be behind a better one (`QueueOrdered`), unbacked (`RightsBacked`) or alive again
(`EndedRevived`) only in a status update of that row. Activation and purchase work with rows as an update may have left them;
`NoWorse` says that they make nothing worse. `FullRefundFresh` has no exception: a revived row that is due is activated before
its refund is computed. The finding `member_suspended` is a plan suspended for nothing; `SuspendedExplained` says that
only a settlement refused by the facility's limit does that, and only for a plan that would have been allowed to take the
other's place, or a row that a status update had put behind the plan it pushes out (`Overtaken`).

`NobodyRestores` is the hypothesis that no status update writes ACTIVE or SCHEDULED. The frontend's forms offer CANCELLED only
(`src/FE/src/shared/businessRules.ts:52`), the API accepts the others, so this is not a fact about the backend and the theorems name
it: under it the three rules are invariants (`BetterPlanKept`, `BackedAlways`) and, where no limit refuses, `SuspendedIsReplaced`
holds (`SuspendedReplaced`). `OrdersKeepTheirPromise`, without that hypothesis, is the refinement of `PaidRights`: the mapping
takes a paid order without a row as held, which no handler but the refused settlement leaves behind, and `Owed`
says that a refund is promised only for an order that has its row, and that money goes back only where it was promised.
`OrdersLive` adds `Sold`, a retry is for an order that was paid: then only a request that read an order before it was set to
FAILED can still sell it.

**TimetableProofs.** A request is judged by what it may rely on between its checks and its commit, `Fit`: the rows it is
about to store still belong to their sessions (`RowsFit`), nobody else is in their rooms (`RoomHeld`), its locks and those it
waits for cover them (`NeedFit`, `ArgFit`), an approved change still is for the time it was asked for (`AskFit`). Steps of
others are described by the locks they need (`SessionStep`, `RoleStep`, `ActiveStep`), and one lemma, `Frame`, shows that a
step under other locks (`Apart`) keeps `Fit`. Each action then has to show that it is such a step and that its own rows
fit. From it follow `RoomOnce`, `InUse`, `WithinTerm`, and the action properties `ClosedStays` and `AsAsked`, which no run
repeats. `ClosedStays` is not obvious: `FinishTransfer` and `FinishLeave` write without a look at the status. A transfer
writes only the room, and a decision holds the locks of its sessions, so none of them ends in between.

**TimetableCoachProofs.** `CoachOnce` and `LeaveKept` need more than locks, for the coaches of a row change without a write
to the row: an assignment locks the class and the new coach, not the sessions. `CoachFit` adds what a request knows of
coaches: those of its rows are locked or have slipped in (`Taught`), are free of other sessions and of leave (`CoachHeld`), a
decision about a leave has a row for every session of the coach (`LeaveSeen`), and an assignment knows the coach's part in
the sessions of the class (`AssignFit`). The step of another is now described by the coaches it brings to a session: under
their lock, or slipped in (`TeachStep`, `RowStep`), and `CoachFrame` is the frame lemma for them. `AssignGains` shows that
an assignment brings, unslipped, only the assigned coach, and only to a session that is as it was checked.

**AttendanceProofs.** `Shape` says what the fields of a request are for its kind, `Apart` that no lock is held twice. `Listed`
is why a completion leaves nobody out: whoever is booked in the session is on its list or on the roster, for bookings
need the lock it holds. `Answered` relates seats to results. `Vacant` is what reception read under the lock of member and
class: no warning, no report, no answer, and it still holds at the write. They give `CheckedInStays`, `EveryoneAnswered` and
`OneCase`. `Unattended` is what a review holds on to while others book, cancel and complete: its list is every seat ahead
of its start, for bookings need the lock of member and class that it holds, and nothing on it was attended, for a session is
completed when it is over and a review ends before that (the guard of `Tick`). So `ReviewsTakeTheRightSeats`. For codes,
`Revoked` (a session whose code is being drawn has no valid one) is inductive as long as one request draws at a time, which
`OneCodeIfOneDraws` states as the hypothesis `[]OneDraws`; `CodesAreBounded` needs none but that requests are finitely many.

**Only model-checked.** The liveness properties `OrderSettles`, `SeatsFilled` and `HandledOrStranded`: liveness under fairness
is outside the prover's reach. Every invariant and every action property of the passing runs is a theorem.

## 7. What is not modelled

`SessionBooking` knows subscriptions that end and never live again: one that a status update revives (`Mark` in
`MemberSubscriptions`) is outside it, and so are the seats it would fund. Nothing is claimed about an end to the cancellation
of such a row when it is due and not paid: `cancelScheduledSubscription` (`subscriptions.service.ts:328`) activates it and calls
itself through `updateSubscriptionStatus`, the activation leaves it SCHEDULED, and so they go on until the period has ended
(`Wake` and `StartCancel` take turns).

The travel buffer between facilities, the grants for a term, and the other bookings of members when a session moves; activity plans and the patterns of weeks that lead to a batch;
opening hours, areas and qualifications; the counts behind a facility's limits; facility visits; analytics and the
evaluation of goals; the failed-code counter and the advisory scan of the attendance. The order of locks: two
requests may wait for each other (class, room, coach, term in `createSession` against session first in a move), and the
database fails one. Authentication is for other methods. Chat, assistant, reports, catalogue, accounts and the frontend
keep no state that concurrent steps could break, or belong to other stores.

Hazards that are known and stated nowhere: the worker looks at the first 100 sessions per round, which is larger than
a checkable instance, so if those have only waiters who may not book, later sessions wait for them to start, and
`SeatsFilled` says nothing of that; `notifyViaOutbox` outside a transaction is not atomic with the change it announces
(`outbox.service.ts:57`); a retry reads the requested start date from `gatewayPayload`, which the settlement has replaced
(`sepay-payments.service.ts:614`), and `StartRetry` accordingly has none.

`MoneyInView` is about money that settled an order or came late. A second transfer for an order already paid is a
DUPLICATE: its webhook and ledger rows record it, and nothing flags the order for review, so no property claims it.
