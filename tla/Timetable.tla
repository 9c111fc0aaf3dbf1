----------------------------- MODULE Timetable -----------------------------
(***************************************************************************)
(* The timetable of a sports centre: sessions of classes in rooms, taught  *)
(* by the coaches of the class or by a substitute, and the handlers that   *)
(* change it (class-schedules, rooms, classes, terms, coach-changes and    *)
(* leave).  A handler is one PostgreSQL transaction under READ COMMITTED:  *)
(* it reads, takes advisory locks, checks, writes and commits; what it     *)
(* wrote shows, and its locks end, at the commit.  Handlers whose reads    *)
(* all lie under the lock that their rivals take are one step.             *)
(*                                                                         *)
(* A slot stands for an interval of time; two sessions overlap when they   *)
(* are in the same slot.  All sessions lie ahead: the clock is not here.   *)
(***************************************************************************)
EXTENDS Naturals, FiniteSets

CONSTANTS Sessions, Classes, Rooms, Coaches, Slots, Leaves, Jobs,
          None,      \* no coach
          Openings,  \* timetables the observed period may start with
          MaxOps     \* how many requests are served (bounds the runs only)

ASSUME TimetableConstants ==
  /\ None \notin Coaches
  /\ None \notin [session: Sessions, coach: Coaches, slot: Slots]
  /\ Rooms \cap Classes = {}   \* rows of two tables
  /\ IsFiniteSet(Sessions)

VARIABLES
  session,   \* ClassSchedule rows
  role,      \* ClassMember rows: what a coach is to a class
  active,    \* the rooms and the classes with isActive
  leave,     \* LeaveRequest rows of coaches
  asked,     \* CoachChangeRequest rows that are PENDING
  term,      \* the Term row: the slots inside its dates, and CLOSED or not
  job,       \* the transactions in flight
  stray,     \* sessions a bulk transfer wrote, moved since it had read them
  slipped,   \* pairs of a session and a coach whom a change of roles slipped in
  ops        \* requests served so far

vars == <<session, role, active, leave, asked, term, job, stray, slipped, ops>>
ghosts == <<stray, slipped>>

Status == {"NONE", "SCHEDULED", "COMPLETED", "CANCELLED"}
Row    == [status: Status, class: Classes, room: Rooms, slot: Slots, sub: Coaches \cup {None}]
Role   == {"none", "primary", "support"}
NoRows == [s \in {} |-> None]

ASSUME OpeningsAssumption ==
  \A o \in Openings :
    /\ o.session \in [Sessions -> Row]
    /\ o.role \in [Classes -> [Coaches -> Role]]
    /\ o.leave \in [Leaves -> [coach: Coaches, slot: Slots, status: {"PENDING", "APPROVED", "REJECTED"}]]

Locks == Sessions \cup Classes \cup Rooms \cup Coaches \cup Leaves
Idle  == [step |-> "idle", locks |-> {}, rows |-> NoRows, need |-> {}, arg |-> None]

-----------------------------------------------------------------------------
(* Who teaches a session, and what the checks ask of one.                  *)

Scheduled(ses) == {s \in Sessions : ses[s].status = "SCHEDULED"}
SessionsOf(k)  == {s \in Scheduled(session) : session[s].class = k}

Members(ro, k)  == {c \in Coaches : ro[k][c] # "none"}
Supports(ro, k) == {c \in Coaches : ro[k][c] = "support"}
Leads(ro, k)    == {c \in Coaches : ro[k][c] = "primary"}
OneLead(ro, k)  == \E c \in Coaches : Leads(ro, k) = {c}

\* A substitute stands in for the primary coach; support coaches always teach.
Teaches(ro, row) ==
  IF row.sub = None THEN Members(ro, row.class) ELSE {row.sub} \cup Supports(ro, row.class)

OnLeave(c, slot) ==
  \E l \in Leaves : leave[l].coach = c /\ leave[l].slot = slot /\ leave[l].status = "APPROVED"

Resourced(ro, row) ==
  /\ {row.class, row.room} \subseteq active
  /\ row.sub = None => OneLead(ro, row.class)
  /\ Teaches(ro, row) # {}
  /\ \A c \in Teaches(ro, row) : ~OnLeave(c, row.slot)

\* Neither the room nor a coach of the row has another session of ses then.
Clear(ro, ses, s, row) ==
  \A t \in Scheduled(ses) \ {s} :
     ses[t].slot = row.slot => /\ ses[t].room # row.room
                               /\ Teaches(ro, ses[t]) \cap Teaches(ro, row) = {}

Sound(ro, ses, s, row) == Resourced(ro, row) /\ Clear(ro, ses, s, row)

InTerm(slot) == slot \in term.slots /\ ~term.closed

-----------------------------------------------------------------------------
(* Transactions.                                                           *)

Held(q)    == UNION {job[p].locks : p \in Jobs \ {q}}
Free(q, L) == L \cap Held(q) = {}
Quiet(L)   == L \cap UNION {job[p].locks : p \in Jobs} = {}

Overlay(ses, rows) == [s \in Sessions |-> IF s \in DOMAIN rows THEN rows[s] ELSE ses[s]]

Serve == ops < MaxOps /\ ops' = ops + 1

Take(q, step, locks, rows, need, arg) ==
  job' = [job EXCEPT ![q] = [step |-> step, locks |-> locks, rows |-> rows,
                             need |-> need, arg |-> arg]]
End(q) == job' = [job EXCEPT ![q] = Idle]

\* The rows replace what is stored.
Store(q) ==
  /\ session' = Overlay(session, job[q].rows)
  /\ stray' = stray \ DOMAIN job[q].rows

\* A refused check, an error or a timeout rolls a transaction back.
Fail(q) ==
  /\ job[q].step # "idle"
  /\ End(q)
  /\ UNCHANGED <<session, role, active, leave, asked, term, ghosts, ops>>

-----------------------------------------------------------------------------
(* New sessions: createScheduleBatch.                                      *)

Create(q, k, r, at) ==
  LET rows  == [s \in DOMAIN at |-> [status |-> "SCHEDULED", class |-> k, room |-> r,
                                     slot |-> at[s], sub |-> None]]
      locks == {k, r} \cup Members(role, k) IN
  /\ job[q].step = "idle" /\ Serve
  /\ \A s \in DOMAIN at : session[s].status = "NONE"
  /\ \A s, t \in DOMAIN at : s # t => at[s] # at[t]
  /\ Free(q, locks)
  /\ \A s \in DOMAIN at :
       /\ Sound(role, session, s, rows[s])
       /\ \A t \in SessionsOf(k) : session[t].slot # at[s]
  /\ Take(q, "create", locks, rows, {}, None)
  /\ UNCHANGED <<session, role, active, leave, asked, term, ghosts>>

FinishCreate(q) ==
  /\ job[q].step = "create"
  /\ \A s \in DOMAIN job[q].rows : session[s].status = "NONE" /\ InTerm(job[q].rows[s].slot)
  /\ Store(q) /\ End(q)
  /\ UNCHANGED <<role, active, leave, asked, term, slipped, ops>>

-----------------------------------------------------------------------------
(* A session is moved or its coach replaced: updateSchedule.               *)

\* Mutant: the missing substitute is not filtered out.
ResourcesUnfiltered(old, row) == {old.room, row.room, row.sub} \cup Members(role, row.class)

\* Mutant: the room the session goes to is not locked.
ResourcesOldRoom(old, row) ==
  {old.room} \cup Members(role, row.class) \cup ({row.sub} \ {None})

\* Mutant: the coach who is to stand in is not locked.
ResourcesStoredCoach(old, row) ==
  {old.room, row.room} \cup Members(role, row.class) \cup ({old.sub} \ {None})

\* What lockScheduleResources locks for the row: its old and new room, the
\* coaches of the class as they are now, and the substitute.
Resources(old, row) ==
  {old.room, row.room} \cup Members(role, row.class) \cup ({row.sub} \ {None})

\* The request is completed with the stored row before the transaction starts.
ReadMove(q, s, slot, r, c) ==
  LET row == [session[s] EXCEPT !.slot = slot, !.room = r, !.sub = c] IN
  /\ job[q].step = "idle" /\ Serve
  /\ session[s].status = "SCHEDULED"
  /\ slot # session[s].slot \/ r # session[s].room \/ c # None
  /\ slot # session[s].slot => InTerm(slot)
  /\ Take(q, "read", {}, [x \in {s} |-> row], {}, None)
  /\ UNCHANGED <<session, role, active, leave, asked, term, ghosts>>

\* Under the session's lock the row is read again, and the class's coaches.
LockMove(q, s) ==
  LET given == job[q].rows[s]
      row   == [given EXCEPT !.sub = IF @ = None THEN session[s].sub ELSE @] IN
  /\ job[q].step = "read" /\ DOMAIN job[q].rows = {s}
  /\ Free(q, {s})
  /\ session[s].status = "SCHEDULED" /\ row.room \in active
  /\ Take(q, "locked", {s}, [x \in {s} |-> row], Resources(session[s], row), None)
  /\ UNCHANGED <<session, role, active, leave, asked, term, ghosts, ops>>

CheckMove(q, s) ==
  LET rows == job[q].rows
      locks == job[q].locks \cup job[q].need IN
  /\ job[q].step = "locked" /\ DOMAIN rows = {s}
  /\ Free(q, job[q].need)
  /\ Sound(role, session, s, rows[s])
  /\ Take(q, "move", locks, rows, {}, job[q].arg)
  /\ UNCHANGED <<session, role, active, leave, asked, term, ghosts, ops>>

\* Mutant: the term is looked at only before the transaction.
FinishMoveOnceChecked(q, s) ==
  /\ job[q].step = "move" /\ DOMAIN job[q].rows = {s}
  /\ session[s].status = "SCHEDULED"
  /\ job[q].arg # None => Resourced(role, job[q].rows[s])
  /\ Store(q) /\ End(q)
  /\ asked' = asked \ {job[q].arg}
  /\ UNCHANGED <<role, active, leave, term, slipped, ops>>

FinishMove(q, s) ==
  /\ job[q].step = "move" /\ DOMAIN job[q].rows = {s}
  /\ session[s].status = "SCHEDULED" /\ InTerm(job[q].rows[s].slot)
  /\ job[q].arg # None => Resourced(role, job[q].rows[s])
  /\ Store(q) /\ End(q)
  /\ asked' = asked \ {job[q].arg}
  /\ UNCHANGED <<role, active, leave, term, slipped, ops>>

Cancel(s) ==
  /\ Serve /\ Quiet({s})
  /\ session[s].status = "SCHEDULED"
  /\ session' = [session EXCEPT ![s].status = "CANCELLED"]
  /\ UNCHANGED <<role, active, leave, asked, term, job, ghosts>>

Complete(s) ==
  /\ Serve /\ Quiet({s})
  /\ session[s].status = "SCHEDULED"
  /\ session' = [session EXCEPT ![s].status = "COMPLETED"]
  /\ UNCHANGED <<role, active, leave, asked, term, job, ghosts>>

-----------------------------------------------------------------------------
(* A coach asks to be replaced in one session, a manager decides.          *)

\* The coach a session is led by, who alone may ask.
LedBy(ro, row, c) ==
  IF row.sub # None THEN row.sub = c
  ELSE Leads(ro, row.class) = {c} \/ Members(ro, row.class) = {c}

Ask(s, c) ==
  /\ Serve /\ Quiet({s})
  /\ session[s].status = "SCHEDULED" /\ LedBy(role, session[s], c)
  /\ \A a \in asked : a.session # s \/ a.coach # c
  /\ asked' = asked \cup {[session |-> s, coach |-> c, slot |-> session[s].slot]}
  /\ UNCHANGED <<session, role, active, leave, term, job, ghosts>>

Decline(a) ==
  /\ Serve /\ Quiet({a.session})
  /\ asked' = asked \ {a}
  /\ UNCHANGED <<session, role, active, leave, term, job, ghosts>>

\* The approval holds the session's lock when it enters updateSchedule.
Approve(q, a, c) ==
  LET s == a.session
      row == [session[s] EXCEPT !.sub = c] IN
  /\ job[q].step = "idle" /\ Serve
  /\ Free(q, {s})
  /\ c # a.coach
  /\ session[s].status = "SCHEDULED" /\ LedBy(role, session[s], a.coach)
  /\ session[s].slot = a.slot
  /\ row.room \in active
  /\ Take(q, "locked", {s}, [x \in {s} |-> row], Resources(session[s], row), a)
  /\ UNCHANGED <<session, role, active, leave, asked, term, ghosts>>

-----------------------------------------------------------------------------
(* The sessions of a room move to another: transferSchedules.              *)

ReadTransfer(q, from, to) ==
  LET S == {s \in Scheduled(session) : session[s].room = from} IN
  /\ job[q].step = "idle" /\ Serve
  /\ from # to /\ to \in active /\ S # {}
  /\ Take(q, "reread", {}, [s \in S |-> [session[s] EXCEPT !.room = to]],
          {to} \cup UNION {Members(role, session[s].class) : s \in S}, [from |-> from, to |-> to])
  /\ UNCHANGED <<session, role, active, leave, asked, term, ghosts>>

\* The checks are made with the rows as they were read before the locks.
CheckTransfer(q) ==
  LET rows == job[q].rows IN
  /\ job[q].step = "reread"
  /\ Free(q, job[q].need)
  /\ \A s \in DOMAIN rows : Sound(role, session, s, rows[s])
  /\ Take(q, "transfer", job[q].need, rows, {}, job[q].arg)
  /\ UNCHANGED <<session, role, active, leave, asked, term, ghosts, ops>>

\* Only the room is written, by id.
FinishTransfer(q) ==
  LET rows == job[q].rows IN
  /\ job[q].step = "transfer"
  /\ session' = [s \in Sessions |-> IF s \in DOMAIN rows
                                    THEN [session[s] EXCEPT !.room = job[q].arg.to] ELSE session[s]]
  /\ stray' = stray \cup {s \in DOMAIN rows :
                            session[s].slot # rows[s].slot \/ session[s].room # job[q].arg.from}
  /\ End(q)
  /\ UNCHANGED <<role, active, leave, asked, term, slipped, ops>>

-----------------------------------------------------------------------------
(* The coaches of a class: assignCoach, removeCoach.                       *)

\* A new primary coach makes the old one a support coach.
Promoted(k, c, as) ==
  [d \in Coaches |-> IF d = c THEN as
                     ELSE IF as = "primary" /\ role[k][d] = "primary" THEN "support"
                     ELSE role[k][d]]
WithCoach(k, c, as) == [role EXCEPT ![k] = Promoted(k, c, as)]

\* The session has been locked, or locked and checked, for a change.
InFlight(s) ==
  \E p \in Jobs : job[p].step \in {"locked", "move", "leave"} /\ s \in DOMAIN job[p].rows

\* The rows of session s there are: the stored one and those about to be stored.
Versions(s) ==
  {session[s]} \cup {job[p].rows[s] :
     p \in {p \in Jobs : job[p].step \in {"locked", "move", "leave"} /\ s \in DOMAIN job[p].rows}}

Gains(ro, s) == UNION {Teaches(ro, row) \ Teaches(role, row) : row \in Versions(s)}

Assign(q, k, c, as) ==
  LET ro == WithCoach(k, c, as)
      locks == {k, c} IN
  /\ job[q].step = "idle" /\ Serve
  /\ k \in active
  /\ Free(q, locks)
  /\ \A s \in SessionsOf(k), t \in Scheduled(session) :
       session[t].class # k /\ session[t].slot = session[s].slot
         => c \notin Members(role, session[t].class)
  /\ ~(as = "support" /\ role[k][c] = "primary" /\ SessionsOf(k) # {})
  /\ \A s \in SessionsOf(k) : Sound(ro, session, s, session[s])
  /\ Take(q, "assign", locks, [s \in SessionsOf(k) |-> session[s]], {},
          [class |-> k, coach |-> c, as |-> as])
  /\ UNCHANGED <<session, role, active, leave, asked, term, ghosts>>

\* The deferred trigger asks for one primary coach at the commit.  Only the
\* coach's own lock is held, and sessions may be moved meanwhile: a coach slips
\* into a session that is in flight or not as it was checked, and so does the
\* former primary coach, as a support coach, into a substituted one.
FinishAssign(q) ==
  LET a == job[q].arg
      ro == WithCoach(a.class, a.coach, a.as) IN
  /\ job[q].step = "assign"
  /\ SessionsOf(a.class) # {} => OneLead(ro, a.class)
  /\ role' = ro
  /\ slipped' = slipped \cup
       {p \in SessionsOf(a.class) \X Coaches :
          /\ p[2] \in Gains(ro, p[1])
          /\ p[2] # a.coach \/ InFlight(p[1]) \/ session[p[1]] # job[q].rows[p[1]]}
  /\ End(q)
  /\ UNCHANGED <<session, active, leave, asked, term, stray, ops>>

Remove(k, c) ==
  LET ro == [role EXCEPT ![k][c] = "none"] IN
  /\ Serve /\ Quiet({k})
  /\ role[k][c] # "none"
  /\ ~(role[k][c] = "primary" /\ SessionsOf(k) # {})
  /\ SessionsOf(k) # {} => OneLead(ro, k)
  /\ \A s \in SessionsOf(k) : Sound(ro, session, s, session[s])
  /\ role' = ro
  /\ UNCHANGED <<session, active, leave, asked, term, job, ghosts>>

-----------------------------------------------------------------------------
(* Rooms, classes and the term.                                            *)

\* Mutant: a room is closed without its lock.
CloseRoomUnlocked(r) ==
  /\ Serve
  /\ \A s \in Scheduled(session) : session[s].room # r
  /\ active' = active \ {r}
  /\ UNCHANGED <<session, role, leave, asked, term, job, ghosts>>

CloseRoom(r) ==
  /\ Serve /\ Quiet({r})
  /\ \A s \in Scheduled(session) : session[s].room # r
  /\ active' = active \ {r}
  /\ UNCHANGED <<session, role, leave, asked, term, job, ghosts>>

CloseClass(k) ==
  /\ Serve /\ Quiet({k})
  /\ SessionsOf(k) = {}
  /\ active' = active \ {k}
  /\ UNCHANGED <<session, role, leave, asked, term, job, ghosts>>

Reopen(x) ==
  /\ Serve /\ Quiet({x})
  /\ active' = active \cup {x}
  /\ UNCHANGED <<session, role, leave, asked, term, job, ghosts>>

\* New dates may leave no session of the term outside, whatever its status.
SetTerm(S) ==
  /\ Serve
  /\ \A s \in Sessions : session[s].status # "NONE" => session[s].slot \in S
  /\ term' = [term EXCEPT !.slots = S]
  /\ UNCHANGED <<session, role, active, leave, asked, job, ghosts>>

CloseTerm ==
  /\ Serve
  /\ term' = [term EXCEPT !.closed = TRUE]
  /\ UNCHANGED <<session, role, active, leave, asked, job, ghosts>>

-----------------------------------------------------------------------------
(* A coach's leave is decided with a resolution for every session it hits. *)

\* Mutant: sessions the coach only stands in for are forgotten.
AffectedOfMembers(l) ==
  {s \in Scheduled(session) : /\ session[s].slot = leave[l].slot
                              /\ leave[l].coach \in Members(role, session[s].class)}

Affected(l) == {s \in Scheduled(session) : /\ session[s].slot = leave[l].slot
                                           /\ leave[l].coach \in Teaches(role, session[s])}

Resolution == [act: {"REPLACE"}, coach: Coaches]
         \cup [act: {"MOVE"}, slot: Slots, room: Rooms]
         \cup [act: {"CANCEL"}]

Resolved(row, x) ==
  CASE x.act = "REPLACE" -> [row EXCEPT !.sub = x.coach]
    [] x.act = "MOVE"    -> [row EXCEPT !.slot = x.slot, !.room = x.room]
    [] x.act = "CANCEL"  -> [row EXCEPT !.status = "CANCELLED"]

\* A support coach on leave is not replaced, unless also the substitute.
Permitted(l, row, x) ==
  /\ x.act = "REPLACE" => /\ x.coach # leave[l].coach
                          /\ leave[l].coach \in Supports(role, row.class) => row.sub = leave[l].coach
  /\ x.act = "MOVE" => x.slot # leave[l].slot

Plan(plan) == [s \in DOMAIN plan |-> Resolved(session[s], plan[s])]

LeaveLocks(l, plan) ==
  {leave[l].coach} \cup DOMAIN plan
    \cup UNION {Resources(session[s], Plan(plan)[s]) : s \in DOMAIN plan}

ReadLeave(q, l, plan) ==
  /\ job[q].step = "idle" /\ Serve
  /\ leave[l].status = "PENDING" /\ Free(q, {l})
  /\ DOMAIN plan = Affected(l)
  /\ Take(q, "reload", {l}, NoRows, LeaveLocks(l, plan), [leave |-> l, plan |-> plan])
  /\ UNCHANGED <<session, role, active, leave, asked, term, ghosts>>

\* The resolutions are carried out one after the other, in the order sent.
CheckLeave(q) ==
  LET l == job[q].arg.leave
      plan == job[q].arg.plan
      rows == Plan(plan)
      locks == job[q].locks \cup job[q].need \cup LeaveLocks(l, plan) IN
  /\ job[q].step = "reload"
  /\ Free(q, locks)
  /\ DOMAIN plan = Affected(l)
  /\ \A s \in DOMAIN plan : Permitted(l, session[s], plan[s])
  /\ \E order \in [DOMAIN plan -> 1..Cardinality(DOMAIN plan)] :
       /\ \A s, t \in DOMAIN plan : s # t => order[s] # order[t]
       /\ \A s \in DOMAIN plan : plan[s].act # "CANCEL" =>
            Sound(role,
                  Overlay(session, [t \in {t \in DOMAIN plan : order[t] < order[s]} |-> rows[t]]),
                  s, rows[s])
  /\ Take(q, "leave", locks, rows, {}, job[q].arg)
  /\ UNCHANGED <<session, role, active, leave, asked, term, ghosts, ops>>

\* A coach who is both substitute and support coach stays as the latter.
FinishLeave(q) ==
  LET coach == leave[job[q].arg.leave].coach IN
  /\ job[q].step = "leave"
  /\ \A s \in DOMAIN job[q].rows :
       job[q].rows[s].status = "SCHEDULED" => InTerm(job[q].rows[s].slot)
  /\ leave' = [leave EXCEPT ![job[q].arg.leave].status = "APPROVED"]
  /\ slipped' = slipped \cup {p \in (DOMAIN job[q].rows) \X Coaches :
                                p[2] = coach /\ coach \in Teaches(role, job[q].rows[p[1]])}
  /\ Store(q) /\ End(q)
  /\ UNCHANGED <<role, active, asked, term, ops>>

RejectLeave(l) ==
  /\ Serve /\ Quiet({l})
  /\ leave[l].status = "PENDING"
  /\ leave' = [leave EXCEPT ![l].status = "REJECTED"]
  /\ UNCHANGED <<session, role, active, asked, term, job, ghosts>>

-----------------------------------------------------------------------------
Lawful ==
  /\ \A s \in Scheduled(session) : Sound(role, session, s, session[s])
  /\ \A s \in Sessions : session[s].status \in {"NONE", "SCHEDULED"}
  /\ \A k \in Classes : Cardinality(Leads(role, k)) <= 1
  /\ \A k \in Classes : SessionsOf(k) # {} => OneLead(role, k)

\* The period starts between requests, with a timetable that breaks no rule.
Init ==
  /\ \E o \in Openings : session = o.session /\ role = o.role /\ leave = o.leave
  /\ active = Rooms \cup Classes
  /\ asked = {}
  /\ term = [slots |-> Slots, closed |-> FALSE]
  /\ job = [q \in Jobs |-> Idle]
  /\ stray = {} /\ slipped = {} /\ ops = 0
  /\ Lawful

Next ==
  \/ \E q \in Jobs :
       \/ Fail(q)
       \/ \E k \in Classes, r \in Rooms, S \in SUBSET Sessions \ {{}} :
            \E at \in [S -> Slots] : Create(q, k, r, at)
       \/ FinishCreate(q)
       \/ \E s \in Sessions, slot \in Slots, r \in Rooms, c \in Coaches \cup {None} :
            ReadMove(q, s, slot, r, c)
       \/ \E s \in Sessions : LockMove(q, s) \/ CheckMove(q, s) \/ FinishMove(q, s)
       \/ \E a \in asked, c \in Coaches : Approve(q, a, c)
       \/ \E from, to \in Rooms : ReadTransfer(q, from, to)
       \/ CheckTransfer(q) \/ FinishTransfer(q)
       \/ \E k \in Classes, c \in Coaches, as \in {"primary", "support"} : Assign(q, k, c, as)
       \/ FinishAssign(q)
       \/ \E l \in Leaves : \E plan \in [Affected(l) -> Resolution] : ReadLeave(q, l, plan)
       \/ CheckLeave(q) \/ FinishLeave(q)
  \/ \E s \in Sessions : Cancel(s) \/ Complete(s)
  \/ \E s \in Sessions, c \in Coaches : Ask(s, c)
  \/ \E a \in asked : Decline(a)
  \/ \E k \in Classes, c \in Coaches : Remove(k, c)
  \/ \E r \in Rooms : CloseRoom(r)
  \/ \E k \in Classes : CloseClass(k)
  \/ \E x \in Rooms \cup Classes : Reopen(x)
  \/ \E S \in SUBSET Slots : SetTerm(S)
  \/ CloseTerm
  \/ \E l \in Leaves : RejectLeave(l)

Spec == Init /\ [][Next]_vars

-----------------------------------------------------------------------------
(* Properties.                                                             *)

Jobs_ == [step: {"idle", "create", "read", "locked", "move", "reread", "transfer", "assign",
                 "reload", "leave"},
          locks: SUBSET Locks, need: SUBSET Locks]

\* Every variable has the type of its table.
TypeOK ==
  /\ session \in [Sessions -> Row]
  /\ role \in [Classes -> [Coaches -> Role]]
  /\ active \subseteq Rooms \cup Classes
  /\ leave \in [Leaves -> [coach: Coaches, slot: Slots, status: {"PENDING", "APPROVED", "REJECTED"}]]
  /\ asked \subseteq [session: Sessions, coach: Coaches, slot: Slots]
  /\ term \in [slots: SUBSET Slots, closed: BOOLEAN]
  /\ \A q \in Jobs :
       /\ DOMAIN job[q].rows \subseteq Sessions
       /\ job[q].rows \in [DOMAIN job[q].rows -> Row]
       /\ [step |-> job[q].step, locks |-> job[q].locks, need |-> job[q].need] \in Jobs_
  /\ stray \subseteq Sessions
  /\ slipped \subseteq Sessions \X Coaches
  /\ ops \in Nat

\* No two sessions are in one room at one time, unless a bulk transfer wrote a
\* session it had read before somebody moved it (rooms.service.ts reads the
\* sessions before it takes its locks): every other writer is covered by the
\* room lock from its check to its commit.
RoomOnce ==
  \A s, t \in Scheduled(session) \ stray :
     s # t /\ session[s].slot = session[t].slot => session[s].room # session[t].room

\* No coach teaches two sessions at one time, as primary, support or
\* substitute, except one whom an assignment to the class brought to a session
\* that was being moved, or to a substituted one: those are the pairs that no
\* transaction checked while it held the coach's lock.
CoachOnce ==
  \A s, t \in Scheduled(session) :
     s # t /\ session[s].slot = session[t].slot =>
       \A c \in Teaches(role, session[s]) \cap Teaches(role, session[t]) :
          <<s, c>> \in slipped \/ <<t, c>> \in slipped

\* Outside those pairs no coach teaches during an approved leave, whichever of
\* the leave, the move and the assignment came first.
LeaveKept ==
  \A s \in Scheduled(session), c \in Coaches :
     c \in Teaches(role, session[s]) /\ OnLeave(c, session[s].slot) => <<s, c>> \in slipped

\* A room or class is not closed, nor its primary coach taken away, while a
\* session of it is being created or brought there.
InUse ==
  \A s \in Scheduled(session) :
     /\ {session[s].class, session[s].room} \subseteq active
     /\ OneLead(role, session[s].class)

\* New term dates and new session times cannot pass each other.
WithinTerm ==
  \A s \in Sessions : session[s].status # "NONE" => session[s].slot \in term.slots

\* An approved coach change is applied to the session at the time it was asked
\* for, and does not move it in time.
AsAsked ==
  [][\A a \in asked, q \in Jobs :
        job[q].step = "move" /\ job[q].arg = a /\ session' # session /\ a \notin asked' =>
          session[a.session].slot = a.slot /\ session'[a.session].slot = a.slot]_vars

\* A session that is over or cancelled stays where and how it was.
Closed == {"COMPLETED", "CANCELLED"}
ClosedStays ==
  [][\A s \in Sessions : session[s].status \in Closed =>
        session'[s].status = session[s].status /\ session'[s].slot = session[s].slot]_vars

-----------------------------------------------------------------------------
(* What the documentation says and the code does not do.                   *)

\* An approved leave leaves the coach no session at that time: its decision
\* asks for a resolution of every session the coach teaches.
LeaveIsCovered ==
  \A s \in Scheduled(session) : \A c \in Teaches(role, session[s]) : ~OnLeave(c, session[s].slot)

\* A transfer checks every session again inside its transaction.
RoomOnceAlways ==
  \A s, t \in Scheduled(session) :
     s # t /\ session[s].slot = session[t].slot => session[s].room # session[t].room

\* Every assignment, creation and move of sessions keeps coaches apart.
CoachOnceAlways ==
  \A s, t \in Scheduled(session) :
     s # t /\ session[s].slot = session[t].slot =>
       Teaches(role, session[s]) \cap Teaches(role, session[t]) = {}

\* An approved coach change sets the session's coach and nothing else.
OnlyTheCoach ==
  [][\A a \in asked, q \in Jobs :
        job[q].step = "move" /\ job[q].arg = a /\ a \notin asked' =>
          session'[a.session].room = session[a.session].room]_vars
=============================================================================
