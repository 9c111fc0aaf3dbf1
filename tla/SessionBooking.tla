----------------------------- MODULE SessionBooking -----------------------------
(***************************************************************************)
(* Seats and waitlists of class sessions: booking a session or a whole     *)
(* course, cancelling, moving to another session of the class, the         *)
(* waitlist and its promotions, the attendance penalty that takes seats    *)
(* back and its revocation, the end of a subscription, and the             *)
(* cancellation or completion of a session.                                *)
(*                                                                         *)
(* Locks.  Every request takes the advisory locks member (quota and class) *)
(* -> session, waiting for each.  holder is the member lock; a session's   *)
(* lock is taken for the last, single step of a request, in which it       *)
(* checks and writes.  What a handler reads before it has the member lock, *)
(* or before the session locks, is a step of its own when it is not read   *)
(* again.  A promotion holds the session and only tries the lock of the    *)
(* member it wants to promote.                                             *)
(*                                                                         *)
(* Subscriptions of a member are numbered in the order they were bought.   *)
(* Refusals of the booking rules that depend on terms, tiers and           *)
(* facilities are the action Refuse.                                       *)
(***************************************************************************)
EXTENDS Naturals, FiniteSets

CONSTANTS
  Member, Session, Class,
  ClassOf,        \* the class of each session
  Overlapping,    \* pairs of sessions at overlapping times
  Capacity,       \* seats of a session (class.capacity)
  Quota,          \* maxConcurrentClasses of a member
  Request,        \* requests that may be in progress at the same time
  Kinds,          \* the requests a run allows, a subset of Kind
  MaxSubs,        \* bound on subscriptions of a member
  MaxPenalties,   \* bound on penalties of a member in a class
  NoMember, NoSession, NoRequest

Kind == {"book", "course", "join", "cancel", "transfer", "revoke", "restore"}

ASSUME BookingConstants ==
  /\ IsFiniteSet(Member)
  /\ Session \subseteq Nat /\ IsFiniteSet(Session)
  /\ ClassOf \in [Session -> Class]
  /\ Overlapping \subseteq Session \X Session
  /\ \A s, q \in Session : <<s, q>> \in Overlapping => <<q, s>> \in Overlapping
  /\ Capacity \in Nat \ {0} /\ Quota \in Nat
  /\ Kinds \subseteq Kind
  /\ MaxSubs \in Nat /\ MaxPenalties \in Nat
  /\ NoMember \notin Member /\ NoSession \notin Session /\ NoRequest \notin Request

EnrollmentStatus == {"NONE", "BOOKED", "CANCELLED", "COMPLETED"}

\* ClassSchedule.status; SCHEDULED is split by the clock: before the start, between
\* start and end, after the end.
Scheduled == {"AHEAD", "RUNNING", "OVER"}
Phase == Scheduled \cup {"CANCELLED", "COMPLETED"}

\* The latest AttendancePenalty of a member in a class; released is
\* releasedEnrollmentIds.
Penalty ==
  [ status : {"NONE", "APPLIED", "EXPIRED", "REVOKED"}, number : Nat,
    released : SUBSET Session ]
NoPenalty == [status |-> "NONE", number |-> 0, released |-> {}]

RequestRow ==
  [ pc : {"idle", "checked", "holding", "read"}, kind : Kind,
    member : Member \cup {NoMember},
    session : Session \cup {NoSession},   \* the session it is about (target)
    from : Session \cup {NoSession},      \* the session it leaves
    number : Nat,                         \* the penalty it read
    slots : SUBSET Session ]              \* sessions it read: released, or of the course
Idle ==
  [ pc |-> "idle", kind |-> "book", member |-> NoMember, session |-> NoSession,
    from |-> NoSession, number |-> 0, slots |-> {} ]

VARIABLES
  seat,       \* Enrollment.status of a member in a session
  funds,      \* Enrollment.subscriptionId, 0 is none
  place,      \* rank among the WAITING entries of a session, 0 is not waiting
  session,    \* Phase of a session
  sub,        \* the member's effective subscription, 0 is none
  bought,     \* subscriptions bought so far
  revoked,    \* subscriptions that were cancelled or refunded
  penalty,
  holder,     \* the request that holds a member's lock
  req         \* requests in progress

seats == <<seat, funds, place>>
rights == <<sub, bought, revoked, penalty>>
requests == <<holder, req>>
vars == <<seats, session, rights, requests>>

SeatsTyped ==
  /\ seat \in [Member -> [Session -> EnrollmentStatus]]
  /\ funds \in [Member -> [Session -> Nat]]
  /\ place \in [Session -> [Member -> Nat]]
RightsTyped ==
  /\ session \in [Session -> Phase]
  /\ sub \in [Member -> Nat] /\ bought \in [Member -> Nat]
  /\ revoked \subseteq Member \X Nat
  /\ penalty \in [Member \X Class -> Penalty]
RequestsTyped ==
  /\ holder \in [Member -> Request \cup {NoRequest}]
  /\ req \in [Request -> RequestRow]
TypeOK == SeatsTyped /\ RightsTyped /\ RequestsTyped

Init ==
  /\ seat = [m \in Member |-> [s \in Session |-> "NONE"]]
  /\ funds = [m \in Member |-> [s \in Session |-> 0]]
  /\ place = [s \in Session |-> [m \in Member |-> 0]]
  /\ session = [s \in Session |-> "AHEAD"]
  /\ sub = [m \in Member |-> 0]
  /\ bought = [m \in Member |-> 0]
  /\ revoked = {}
  /\ penalty = [mc \in Member \X Class |-> NoPenalty]
  /\ holder = [m \in Member |-> NoRequest]
  /\ req = [r \in Request |-> Idle]

--------------------------------------------------------------------------------
(* The booking rules: assertCanBook on the seats st.                       *)

Open(s) == session[s] = "AHEAD"

Takes(status) == status \in {"BOOKED", "COMPLETED"}
Takers(st, s) == {m \in Member : Takes(st[m][s])}
Full(st, s) == Cardinality(Takers(st, s)) >= Capacity

\* Classes with a future BOOKED session: what the quota counts.
ClassesHeld(st, m) == {ClassOf[s] : s \in {q \in Session : st[m][q] = "BOOKED" /\ Open(q)}}

\* Mutant: one class too many.
WithinQuotaAndOne(st, m, s) ==
  ClassOf[s] \in ClassesHeld(st, m) \/ Cardinality(ClassesHeld(st, m)) <= Quota

WithinQuota(st, m, s) ==
  ClassOf[s] \in ClassesHeld(st, m) \/ Cardinality(ClassesHeld(st, m)) < Quota

Clashes(st, m, s) ==
  \E q \in Session \ {s} :
    <<q, s>> \in Overlapping /\ Takes(st[m][q]) /\ session[q] \in Scheduled

Barred(m, c) == penalty[<<m, c>>].status = "APPLIED"

\* Mutant: the penalty of the class is not looked up.
MayAttendUnbarred(st, m, s) == sub[m] # 0 /\ ~Takes(st[m][s]) /\ ~Clashes(st, m, s)

\* Everything but capacity and quota.
MayAttend(st, m, s) ==
  /\ sub[m] # 0
  /\ ~Barred(m, ClassOf[s])
  /\ ~Takes(st[m][s])
  /\ ~Clashes(st, m, s)

Eligible(st, m, s) == MayAttend(st, m, s) /\ WithinQuota(st, m, s)
CanBook(st, m, s) == Eligible(st, m, s) /\ ~Full(st, s)

\* A seat is created or reactivated for every member of ms.
Seated(st, ms, s) ==
  [m \in Member |-> IF m \in ms THEN [st[m] EXCEPT ![s] = "BOOKED"] ELSE st[m]]
Funded(fd, ms, s) ==
  [m \in Member |-> IF m \in ms THEN [fd[m] EXCEPT ![s] = sub[m]] ELSE fd[m]]

--------------------------------------------------------------------------------
(* The waitlist.                                                           *)

Waiting(s) == {m \in Member : place[s][m] > 0}

\* Mutant: everybody moves up.
WithoutForAll(pl, ms, s) ==
  [pl EXCEPT ![s] = [m \in Member |-> IF m \in ms THEN 0 ELSE pl[s][m] - Cardinality(ms)]]

\* The entries of ms leave the queue, those behind move up.
Without(pl, ms, s) ==
  [pl EXCEPT ![s] = [m \in Member |->
     IF m \in ms THEN 0
     ELSE pl[s][m] - Cardinality({x \in ms : 0 < pl[s][x] /\ pl[s][x] < pl[s][m]})]]

\* Members whose lock another request holds: a promotion skips them.
Busy(r) == {m \in Member : holder[m] \notin {NoRequest, r}}

Candidates(st, s, busy) == {m \in Waiting(s) \ busy : Eligible(st, m, s)}

\* Mutants: the capacity is not counted again; only the head of the queue is tried.
PromotableFull(ms, st, s, busy, k) ==
  ms \subseteq Candidates(st, s, busy) /\ Cardinality(ms) <= k
PromotableHead(ms, st, s, busy, k) ==
  /\ ms \subseteq Candidates(st, s, busy) /\ Cardinality(ms) <= k /\ ~Full(st, s)
  /\ \A m \in ms, x \in Waiting(s) : place[s][m] <= place[s][x]

\* ms are the members promoteNextEligible promotes in k calls: the first in the
\* queue whose locks are free and who may book, while seats are left.
Promotable(ms, st, s, busy, k) ==
  LET C == Candidates(st, s, busy)
      taken == Cardinality(Takers(st, s)) + Cardinality(ms) IN
  /\ ms \subseteq C
  /\ Cardinality(ms) <= k
  /\ ms # {} => taken <= Capacity
  /\ ms = C \/ Cardinality(ms) = k \/ taken >= Capacity
  /\ \A m \in ms, x \in C \ ms : place[s][m] < place[s][x]

\* runWaitlistPromotions on one session: calls until nobody is promoted.
Worker(s) ==
  /\ Open(s)
  /\ \E ms \in SUBSET Waiting(s) \ {{}} :
       /\ Promotable(ms, seat, s, Busy(NoRequest), Capacity)
       /\ seat' = Seated(seat, ms, s)
       /\ funds' = Funded(funds, ms, s)
       /\ place' = Without(place, ms, s)
  /\ UNCHANGED <<session, rights, requests>>

\* cancelWaitlistEntry: CAS on WAITING, no lock.
LeaveQueue(m, s) ==
  /\ m \in Waiting(s)
  /\ place' = Without(place, {m}, s)
  /\ UNCHANGED <<seat, funds, session, rights, requests>>

--------------------------------------------------------------------------------
(* Requests: what they read before their locks.                            *)

Start(r, row) ==
  /\ req[r].pc = "idle"
  /\ row.kind \in Kinds
  /\ req' = [req EXCEPT ![r] = row]
  /\ UNCHANGED <<seats, session, rights, holder>>

\* A request whose early reads are all read again begins when it gets its lock.
StartLocked(r, k, m, s) ==
  /\ req[r].pc = "idle"
  /\ k \in Kinds
  /\ holder[m] = NoRequest
  /\ holder' = [holder EXCEPT ![m] = r]
  /\ req' = [req EXCEPT ![r] =
               [Idle EXCEPT !.pc = "holding", !.kind = k, !.member = m, !.session = s]]
  /\ UNCHANGED <<seats, session, rights>>

StartBook(r, m, s) == Open(s) /\ StartLocked(r, "book", m, s)
StartJoin(r, m, s) == Open(s) /\ StartLocked(r, "join", m, s)
StartCancel(r, m, s) ==
  /\ seat[m][s] = "BOOKED" /\ session[s] \notin {"RUNNING", "OVER"}
  /\ StartLocked(r, "cancel", m, s)

\* enrollWholeCourse reads the sessions of the class that lie ahead, those of one term
\* if there are terms, before its locks; s is the first of them.
StartCourse(r, m, s) ==
  \E ss \in SUBSET {q \in Session : ClassOf[q] = ClassOf[s] /\ Open(q)} :
    /\ s \in ss /\ \A q \in ss : s <= q
    /\ Start(r, [Idle EXCEPT !.pc = "checked", !.kind = "course", !.member = m,
                             !.session = s, !.slots = ss])

\* BR-08: to another session of the same class.
StartTransfer(r, m, f, s) ==
  /\ seat[m][f] = "BOOKED" /\ session[f] \notin {"RUNNING", "OVER"}
  /\ f # s /\ ClassOf[f] = ClassOf[s]
  /\ Open(s)
  /\ Start(r, [Idle EXCEPT !.pc = "checked", !.kind = "transfer", !.member = m,
                           !.session = s, !.from = f])

\* revokePenalty reads the penalty, its status and released seats, without a lock.
StartRevoke(r, m, s) ==
  LET p == penalty[<<m, ClassOf[s]>>] IN
  /\ p.status = "APPLIED"
  /\ \E k \in {"revoke", "restore"} :
       Start(r, [Idle EXCEPT !.pc = "checked", !.kind = k, !.member = m, !.session = s,
                             !.number = p.number, !.slots = p.released])

Lock(r) ==
  /\ req[r].pc = "checked"
  /\ holder[req[r].member] = NoRequest
  /\ holder' = [holder EXCEPT ![req[r].member] = r]
  /\ req' = [req EXCEPT ![r].pc = "holding"]
  /\ UNCHANGED <<seats, session, rights>>

\* The transaction ends and its locks are released.
Done(r) ==
  /\ holder' = [holder EXCEPT ![req[r].member] = NoRequest]
  /\ req' = [req EXCEPT ![r] = Idle]

\* Any other refusal, an error or a crash: everything is rolled back.
Refuse(r) ==
  /\ req[r].pc \in {"holding", "read"}
  /\ Done(r)
  /\ UNCHANGED <<seats, session, rights>>

Holding(r, k) == req[r].pc = "holding" /\ req[r].kind = k

--------------------------------------------------------------------------------
(* Requests: the step under the session's lock.                            *)

\* Mutant: the session is not read again under its lock.
BookStale(r) ==
  LET m == req[r].member  s == req[r].session IN
  /\ Holding(r, "book")
  /\ CanBook(seat, m, s)
  /\ seat' = Seated(seat, {m}, s)
  /\ funds' = Funded(funds, {m}, s)
  /\ Done(r)
  /\ UNCHANGED <<place, session, rights>>

\* bookClass reads the session again under its lock (A12).
Book(r) ==
  LET m == req[r].member  s == req[r].session IN
  /\ Holding(r, "book")
  /\ Open(s)
  /\ CanBook(seat, m, s)
  /\ seat' = Seated(seat, {m}, s)
  /\ funds' = Funded(funds, {m}, s)
  /\ Done(r)
  /\ UNCHANGED <<place, session, rights>>

\* Mutant: conflicts are looked for in the class itself.
ClashesWithin(m, s) ==
  \E q \in Session :
    /\ ClassOf[q] = ClassOf[s]
    /\ <<q, s>> \in Overlapping /\ Takes(seat[m][q]) /\ session[q] \in Scheduled

\* The conflicts evaluateCourseEligibility looks for: seats in other classes.
ClashesElsewhere(m, s) ==
  \E q \in Session :
    /\ ClassOf[q] # ClassOf[s]
    /\ <<q, s>> \in Overlapping /\ Takes(seat[m][q]) /\ session[q] \in Scheduled

\* enrollWholeCourse: every session that was read is read again under the locks, and
\* all those without a seat are booked, or none.
Course(r) ==
  LET m == req[r].member  s == req[r].session
      ss == {q \in req[r].slots : ~Takes(seat[m][q])} IN
  /\ Holding(r, "course")
  /\ \A q \in req[r].slots : Open(q)
  /\ sub[m] # 0 /\ ~Barred(m, ClassOf[s]) /\ WithinQuota(seat, m, s)
  /\ \A q \in ss : ~Full(seat, q) /\ ~ClashesElsewhere(m, q)
  /\ seat' = [seat EXCEPT ![m] =
                [q \in Session |-> IF q \in ss THEN "BOOKED" ELSE seat[m][q]]]
  /\ funds' = [funds EXCEPT ![m] =
                 [q \in Session |-> IF q \in ss THEN sub[m] ELSE funds[m][q]]]
  /\ Done(r)
  /\ UNCHANGED <<place, session, rights>>

Join(r) ==
  LET m == req[r].member  s == req[r].session IN
  /\ Holding(r, "join")
  /\ Open(s)
  /\ Eligible(seat, m, s)
  /\ m \notin Waiting(s)
  /\ Full(seat, s)
  /\ place' = [place EXCEPT ![s][m] = Cardinality(Waiting(s)) + 1]
  /\ Done(r)
  /\ UNCHANGED <<seat, funds, session, rights>>

Vacated(m, s) == [seat EXCEPT ![m][s] = "CANCELLED"]

\* Mutant: the seat is freed and nobody is promoted, the entries are dropped.
CancelDropsQueue(r) ==
  LET m == req[r].member  s == req[r].session IN
  /\ Holding(r, "cancel") /\ seat[m][s] = "BOOKED"
  /\ seat' = Vacated(m, s)
  /\ place' = [place EXCEPT ![s] = [x \in Member |-> 0]]
  /\ Done(r)
  /\ UNCHANGED <<funds, session, rights>>

\* CAS BOOKED -> CANCELLED; the first of the queue gets the seat in the same
\* transaction.
Cancel(r) ==
  LET m == req[r].member  s == req[r].session IN
  /\ Holding(r, "cancel")
  /\ seat[m][s] = "BOOKED"
  /\ \E ms \in SUBSET Waiting(s) :
       /\ IF Open(s) THEN Promotable(ms, Vacated(m, s), s, Busy(r), 1) ELSE ms = {}
       /\ seat' = Seated(Vacated(m, s), ms, s)
       /\ funds' = Funded(funds, ms, s)
       /\ place' = Without(place, ms, s)
  /\ Done(r)
  /\ UNCHANGED <<session, rights>>

\* CAS on the old seat, then the booking rules on the new session as it was read
\* before the transaction: its status and start are not read again.
Transfer(r) ==
  LET m == req[r].member  s == req[r].session
      st == Vacated(m, req[r].from) IN
  /\ Holding(r, "transfer")
  /\ seat[m][req[r].from] = "BOOKED"
  /\ MayAttend(st, m, s)
  /\ ~Full(st, s)
  /\ seat' = Seated(st, {m}, s)
  /\ funds' = Funded(funds, {m}, s)
  /\ Done(r)
  /\ UNCHANGED <<place, session, rights>>

\* The penalty row is updated by id, whatever its status is by now.
Revoked(r) ==
  LET mc == <<req[r].member, ClassOf[req[r].session]>> IN
  IF penalty[mc].number = req[r].number THEN [penalty EXCEPT ![mc].status = "REVOKED"]
  ELSE penalty

Revoke(r) ==
  /\ Holding(r, "revoke")
  /\ penalty' = Revoked(r)
  /\ Done(r)
  /\ UNCHANGED <<seats, session, sub, bought, revoked>>

\* restoreSlots reads the released seats and their sessions before it locks them.
RestoreRead(r) ==
  LET m == req[r].member IN
  /\ Holding(r, "restore")
  /\ req' = [req EXCEPT ![r] =
       [@ EXCEPT !.pc = "read",
                 !.slots = {s \in req[r].slots : seat[m][s] = "CANCELLED" /\ Open(s)}]]
  /\ UNCHANGED <<seats, session, rights, holder>>

\* A released seat is given back only while there is room and time for it.
Restorable(m, s) == ~Full(seat, s) /\ ~Clashes(seat, m, s)

BothOn(s, q) == <<s, q>> \in Overlapping /\ session[s] \in Scheduled /\ session[q] \in Scheduled

\* ss are restored when the seats are tried one after the other: each has room and
\* clashes with none, and each of the others clashes with one that was restored.
RestoredSlots(m, slots, ss) ==
  LET fit == {s \in slots : Restorable(m, s)} IN
  /\ ss \subseteq fit
  /\ \A s, q \in ss : s # q => ~BothOn(s, q)
  /\ \A s \in fit \ ss : \E q \in ss : <<q, s>> \in Overlapping /\ session[q] \in Scheduled

Restore(r) ==
  LET m == req[r].member IN
  /\ req[r].pc = "read"
  /\ penalty' = Revoked(r)
  /\ \E ss \in SUBSET req[r].slots :
       /\ RestoredSlots(m, req[r].slots, ss)
       /\ seat' = [seat EXCEPT ![m] =
                     [s \in Session |-> IF s \in ss THEN "BOOKED" ELSE seat[m][s]]]
  /\ Done(r)
  /\ UNCHANGED <<funds, place, session, sub, bought, revoked>>

--------------------------------------------------------------------------------
(* Subscriptions, penalties and sessions: transactions of a single step.   *)

\* A subscription becomes effective, in place of the member's present one.
Subscribe(m) ==
  /\ holder[m] = NoRequest
  /\ bought[m] < MaxSubs
  /\ bought' = [bought EXCEPT ![m] = @ + 1]
  /\ sub' = [sub EXCEPT ![m] = bought[m] + 1]
  /\ UNCHANGED <<seats, session, revoked, penalty, requests>>

\* The present subscription expires or is suspended; its seats are kept.
Lapse(m) ==
  /\ sub[m] # 0
  /\ sub' = [sub EXCEPT ![m] = 0]
  /\ UNCHANGED <<seats, session, bought, revoked, penalty, requests>>

\* Mutant: only seats of sessions that have not started are taken back.
PaidByAhead(m, b) == {s \in Session : seat[m][s] = "BOOKED" /\ funds[m][s] = b /\ Open(s)}

\* The seats revokeSubscriptionBookings takes back.
PaidBy(m, b) ==
  {s \in Session : seat[m][s] = "BOOKED" /\ funds[m][s] = b /\ session[s] # "OVER"}

\* Seats after ss of member m are taken back and picks are promoted in turn.
Reseated(m, ss, picks, upTo) ==
  [x \in Member |-> [s \in Session |->
     IF s \in upTo /\ x \in picks[s] THEN "BOOKED"
     ELSE IF x = m /\ s \in ss THEN "CANCELLED"
     ELSE seat[x][s]]]

\* A subscription is cancelled or refunded: its seats are taken back, and in the
\* order of the sessions' ids the queue of each is asked once.
EndSubscription(m, b) ==
  LET ss == PaidBy(m, b)
      out == Busy(NoRequest) \cup (IF sub[m] = b THEN {m} ELSE {}) IN
  /\ holder[m] = NoRequest
  /\ b \in 1 .. bought[m] /\ <<m, b>> \notin revoked
  /\ revoked' = revoked \cup {<<m, b>>}
  /\ sub' = [sub EXCEPT ![m] = IF @ = b THEN 0 ELSE @]
  /\ \E picks \in [ss -> SUBSET Member] :
       /\ \A s \in ss :
            IF Open(s)
            THEN Promotable(picks[s], Reseated(m, ss, picks, {q \in ss : q < s}), s, out, 1)
            ELSE picks[s] = {}
       /\ seat' = Reseated(m, ss, picks, ss)
       /\ funds' = [x \in Member |-> [s \in Session |->
                      IF s \in ss /\ x \in picks[s] THEN sub[x] ELSE funds[x][s]]]
       /\ place' = [s \in Session |->
                      IF s \in ss THEN Without(place, picks[s], s)[s] ELSE place[s]]
  /\ UNCHANGED <<session, bought, penalty, requests>>

\* applyPenalty: the member's future seats in the class are taken back; nobody is
\* promoted into them here.
ApplyPenalty(m, c) ==
  LET mc == <<m, c>>
      ss == {s \in Session : ClassOf[s] = c /\ seat[m][s] = "BOOKED" /\ Open(s)} IN
  /\ holder[m] = NoRequest
  /\ penalty[mc].status # "APPLIED" /\ penalty[mc].number < MaxPenalties
  /\ penalty' = [penalty EXCEPT ![mc] =
       [status |-> "APPLIED", number |-> penalty[mc].number + 1, released |-> ss]]
  /\ seat' = [seat EXCEPT ![m] =
       [s \in Session |-> IF s \in ss THEN "CANCELLED" ELSE seat[m][s]]]
  /\ UNCHANGED <<funds, place, session, sub, bought, revoked, requests>>

\* blockedUntil passes (expireStalePenalties).
PenaltyEnds(m, c) ==
  /\ penalty[<<m, c>>].status = "APPLIED"
  /\ penalty' = [penalty EXCEPT ![<<m, c>>].status = "EXPIRED"]
  /\ UNCHANGED <<seats, session, sub, bought, revoked, requests>>

\* Mutant: the BOOKED seats are left in the cancelled session.
CancelSessionOnly(s) ==
  /\ session[s] \in Scheduled
  /\ session' = [session EXCEPT ![s] = "CANCELLED"]
  /\ UNCHANGED <<seats, rights, requests>>

\* The session and its BOOKED seats change together, under the session's lock.
BookedTo(s, status) ==
  [m \in Member |-> [seat[m] EXCEPT ![s] = IF @ = "BOOKED" THEN status ELSE @]]

\* cancelScheduleTx; the waitlist keeps its entries.
CancelSession(s) ==
  /\ session[s] \in Scheduled
  /\ session' = [session EXCEPT ![s] = "CANCELLED"]
  /\ seat' = BookedTo(s, "CANCELLED")
  /\ UNCHANGED <<funds, place, rights, requests>>

CompleteSession(s) ==
  /\ session[s] = "OVER"
  /\ session' = [session EXCEPT ![s] = "COMPLETED"]
  /\ seat' = BookedTo(s, "COMPLETED")
  /\ UNCHANGED <<funds, place, rights, requests>>

\* A session starts, then ends.
Pass(s) ==
  /\ session[s] \in {"AHEAD", "RUNNING"}
  /\ session' = [session EXCEPT ![s] = IF @ = "AHEAD" THEN "RUNNING" ELSE "OVER"]
  /\ UNCHANGED <<seats, rights, requests>>

--------------------------------------------------------------------------------

Arrive(r) ==
  \E m \in Member, s \in Session :
    \/ StartBook(r, m, s) \/ StartJoin(r, m, s) \/ StartCancel(r, m, s)
    \/ StartCourse(r, m, s) \/ StartRevoke(r, m, s)
    \/ \E f \in Session : StartTransfer(r, m, f, s)
RequestStep(r) ==
  \/ Lock(r) \/ Book(r) \/ Course(r) \/ Join(r) \/ Cancel(r) \/ Transfer(r)
  \/ Revoke(r) \/ RestoreRead(r) \/ Restore(r) \/ Refuse(r)
MemberStep(m) ==
  \/ Subscribe(m) \/ Lapse(m) \/ \E b \in 1 .. MaxSubs : EndSubscription(m, b)
  \/ \E c \in Class : ApplyPenalty(m, c) \/ PenaltyEnds(m, c)
  \/ \E s \in Session : LeaveQueue(m, s)
SessionStep(s) == Worker(s) \/ CancelSession(s) \/ CompleteSession(s) \/ Pass(s)

Next ==
  \/ \E r \in Request : Arrive(r) \/ RequestStep(r)
  \/ \E m \in Member : MemberStep(m)
  \/ \E s \in Session : SessionStep(s)

Spec == Init /\ [][Next]_vars

\* A request that has started ends.  The worker runs every minute and a request
\* holds its locks for a moment, so a member in the queue is not busy each time.
FairSpec ==
  /\ Spec
  /\ \A r \in Request : WF_vars(RequestStep(r))
  /\ \A s \in Session : SF_vars(Worker(s))

--------------------------------------------------------------------------------
(* Properties.                                                             *)

\* A session never has more members than seats, whatever bookings, moves, promotions
\* and restored seats meet at its last seat.
NotOverbooked == \A s \in Session : Cardinality(Takers(seat, s)) <= Capacity

\* A member never holds two sessions at overlapping times, although requests of one
\* member, promotions and a manager's restoration are separate transactions.
Twice(m, s, q) == s # q /\ BothOn(s, q) /\ Takes(seat[m][s]) /\ Takes(seat[m][q])
NoTimeConflict == \A m \in Member : \A s, q \in Session : ~Twice(m, s, q)

\* A member never holds future seats in more classes than the plan allows.
QuotaKept == \A m \in Member : Cardinality(ClassesHeld(seat, m)) <= Quota

\* A cancelled or refunded subscription funds no seat that can still be used
\* (revokeSubscriptionBookings), whatever bookings and promotions ran beside it.
RevokedFundsNothing ==
  \A m \in Member, s \in Session :
    seat[m][s] = "BOOKED" /\ session[s] # "OVER" => <<m, funds[m][s]>> \notin revoked

\* A move that brings a member into a session; a restoration that has read a seat of the
\* member in the session as released.
Moves(r, m, s) == Transfer(r) /\ req[r].member = m /\ req[r].session = s
Restores(r, m, s) == Restore(r) /\ req[r].member = m /\ s \in req[r].slots

\* While a penalty is in force, no booking, move or promotion that read the member's
\* standing before seats the member in the class; only the restoration of the seat does.
BarredSeat(m, s) == Barred(m, ClassOf[s]) /\ Open(s) /\ seat[m][s] = "BOOKED"
PenaltyBars ==
  [][\A m \in Member, s \in Session :
       BarredSeat(m, s)' => BarredSeat(m, s) \/ \E r \in Request : Restores(r, m, s)]_vars

\* A cancelled session has no BOOKED seat (A12).
CancelledIsEmpty ==
  \A m \in Member, s \in Session : session[s] = "CANCELLED" => seat[m][s] # "BOOKED"

\* A member leaves the queue by leaving it or by getting the seat, never otherwise.
QueueKept ==
  [][\A m \in Member, s \in Session :
       place[s][m] > 0 /\ place'[s][m] = 0 => seat'[m][s] = "BOOKED" \/ LeaveQueue(m, s)]_vars

\* A move and a restoration decide with sessions they read before their locks, so a seat
\* comes into a cancelled session only by one of them, and only the seat it is about.
SeatInCancelled(m, s) == session[s] = "CANCELLED" /\ seat[m][s] = "BOOKED"
OnlyStaleFillsCancelled ==
  [][\A m \in Member, s \in Session :
       SeatInCancelled(m, s)' =>
         \/ SeatInCancelled(m, s)
         \/ \E r \in Request : Moves(r, m, s) \/ Restores(r, m, s)]_vars

\* A cancelled or refunded subscription gets no usable seat back but by the restoration of
\* the seats a penalty took, whatever bookings, moves and promotions ran beside its end.
SeatOfRevoked(m, s) ==
  seat[m][s] = "BOOKED" /\ session[s] # "OVER" /\ <<m, funds[m][s]>> \in revoked
OnlyRestoresRevoked ==
  [][\A m \in Member, s \in Session :
       SeatOfRevoked(m, s)' => SeatOfRevoked(m, s) \/ \E r \in Request : Restores(r, m, s)]_vars

\* Beyond the quota a member gets another class only by a move or a restoration, which do
\* not count: a booking, a course or a promotion does, whatever it runs beside.
HeldClasses(m) == Cardinality(ClassesHeld(seat, m))
OnlyMovesPassQuota ==
  [][\A m \in Member :
       HeldClasses(m)' > Quota =>
         \/ HeldClasses(m)' <= HeldClasses(m)
         \/ \E r \in Request, s \in Session : Moves(r, m, s) \/ Restores(r, m, s)]_vars

\* Two overlapping sessions are both a member's only where a course books sessions of its
\* own class, which it does not compare with each other.
OnlyCoursesOverlap ==
  [][\A m \in Member : \A s, q \in Session :
       Twice(m, s, q)' =>
         \/ Twice(m, s, q)
         \/ ClassOf[s] = ClassOf[q] /\ \E r \in Request : Course(r) /\ req[r].member = m]_vars

\* A free seat does not stay free for ever while somebody in the queue may take it.
Hungry(s) == Open(s) /\ ~Full(seat, s) /\ \E m \in Waiting(s) : Eligible(seat, m, s)
SeatsFilled == \A s \in Session : []<>~Hungry(s)

\* CURRENT_BUSINESS_FLOW_AND_RULES.md:280: a penalty in force bars its member.
NoBarredSeat == \A m \in Member, s \in Session : ~BarredSeat(m, s)

\* enrollments.service.ts: the member is told that the seat "was cancelled": the step
\* that cancels a seat leaves its member without it.
CancelFrees ==
  [][\A r \in Request : Cancel(r) => seat'[req[r].member][req[r].session] # "BOOKED"]_vars

================================================================================
