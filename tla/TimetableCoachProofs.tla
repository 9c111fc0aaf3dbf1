-------------------------- MODULE TimetableCoachProofs --------------------------
(***************************************************************************)
(* Proofs about the coaches of Timetable.  The locks of a request cover    *)
(* the coaches of its rows as they were when it was checked; whoever comes *)
(* to them later has slipped in.  CoachFit says so, and a frame lemma      *)
(* shows that it outlives the steps of others, which bring a coach to a    *)
(* session only under his lock or by a change of roles (TeachStep).        *)
(***************************************************************************)
EXTENDS TimetableProofs

Slip(s) == {c \in Coaches : <<s, c>> \in slipped}

\* The rows of a request that a change of roles may find.
Waiting == {"locked", "move", "leave"}

\* Who is to teach a row is locked, or has slipped in, or will be locked before
\* the row is checked.
Taught(q) ==
  LET j == job[q] IN
  \A s \in DOMAIN j.rows :
    /\ j.step = "locked" => Teaches(role, j.rows[s]) \subseteq j.need \cup Slip(s)
    /\ j.step \in {"create", "move", "leave"} /\ j.rows[s].status = "SCHEDULED" =>
         Teaches(role, j.rows[s]) \subseteq j.locks \cup Slip(s)

\* A row that was checked is clear of the other sessions and rows, and of leave.
CoachHeld(q) ==
  LET j == job[q] IN
  j.step \in {"create", "move", "leave"} =>
    \A s \in DOMAIN j.rows : j.rows[s].status = "SCHEDULED" =>
      /\ \A t \in Scheduled(session) \ DOMAIN j.rows : session[t].slot = j.rows[s].slot =>
           Teaches(role, session[t]) \cap Teaches(role, j.rows[s]) \subseteq Slip(s) \cup Slip(t)
      /\ \A t \in DOMAIN j.rows :
           t # s /\ j.rows[t].status = "SCHEDULED" /\ j.rows[t].slot = j.rows[s].slot =>
             Teaches(role, j.rows[t]) \cap Teaches(role, j.rows[s]) \subseteq Slip(s) \cup Slip(t)
      /\ \A c \in Teaches(role, j.rows[s]) : OnLeave(c, j.rows[s].slot) => c \in Slip(s)

\* The decision of a leave has a row for every session of the coach then.
LeaveSeen(q) ==
  LET j == job[q]
      l == leave[j.arg.leave] IN
  j.step = "leave" =>
    /\ l.coach \in j.locks
    /\ \A t \in Scheduled(session) \ DOMAIN j.rows :
         session[t].slot = l.slot /\ l.coach \in Teaches(role, session[t]) => l.coach \in Slip(t)

\* An assignment has seen every session of the class: the coach's part in them
\* is as it was, and his time in those he will teach is free.
AssignFit(q) ==
  LET j  == job[q]
      c  == j.arg.coach
      ro == WithCoach(j.arg.class, c, j.arg.as) IN
  j.step = "assign" =>
    /\ \A t \in SessionsOf(j.arg.class) :
         /\ t \in DOMAIN j.rows
         /\ c \in Teaches(role, session[t]) =>
              c \in Slip(t) \/ (session[t].slot = j.rows[t].slot /\ session[t].sub = j.rows[t].sub)
    /\ \A s \in DOMAIN j.rows :
         /\ j.rows[s].class = j.arg.class
         /\ c \in Teaches(ro, j.rows[s]) =>
              /\ ~OnLeave(c, j.rows[s].slot)
              /\ \A t \in DOMAIN j.rows :
                   t # s /\ j.rows[t].slot = j.rows[s].slot => c \notin Teaches(ro, j.rows[t])
              /\ \A t \in Scheduled(session) :
                   /\ session[t].class # j.arg.class /\ session[t].slot = j.rows[s].slot
                   /\ c \in Teaches(role, session[t])
                   => c \in Slip(t)

CoachFit(q) == Taught(q) /\ CoachHeld(q) /\ LeaveSeen(q) /\ AssignFit(q)

CoachInv == Inv /\ (\A q \in Jobs : CoachFit(q)) /\ CoachOnce /\ LeaveKept

-----------------------------------------------------------------------------
(* What a step under the locks L does to the coaches.                      *)

Kept(t, c) ==
  /\ session[t].status = "SCHEDULED" /\ c \in Teaches(role, session[t])
  /\ session'[t].slot = session[t].slot /\ session'[t].class = session[t].class
  /\ session'[t].sub = session[t].sub

ClassStep(L) ==
  \A t \in Scheduled(session') :
    \/ session[t].status = "SCHEDULED" /\ session'[t].class = session[t].class
    \/ session'[t].class \in L
TeachStep(L) ==
  \A t \in Scheduled(session') : \A c \in Teaches(role', session'[t]) :
    Kept(t, c) \/ c \in L \/ <<t, c>> \in slipped'
LeaveStep(L) ==
  \A l \in Leaves :
    /\ leave'[l].coach = leave[l].coach /\ leave'[l].slot = leave[l].slot
    /\ leave'[l].status = "APPROVED" => leave[l].status = "APPROVED" \/ leave[l].coach \in L
RowStep(p) ==
  job[p].step \in Waiting =>
    \A s \in DOMAIN job[p].rows : \A c \in Teaches(role', job[p].rows[s]) :
      c \in Teaches(role, job[p].rows[s]) \/ <<s, c>> \in slipped'

CoachStep(L) ==
  /\ ClassStep(L) /\ TeachStep(L) /\ RoleStep(L) /\ LeaveStep(L)
  /\ slipped \subseteq slipped'

\* The coaches of a row are those of its class and the substitute.
LEMMA TeachesTyped ==
  ASSUME NEW ro, NEW row \in Row
  PROVE  Teaches(ro, row) \subseteq Coaches
BY DEF Teaches, Members, Supports, Row

\* They depend on the roles in the class only.
LEMMA TeachesOf ==
  ASSUME NEW ro, NEW rp, NEW row, ro[row.class] = rp[row.class]
  PROVE  Teaches(ro, row) = Teaches(rp, row)
BY DEF Teaches, Members, Supports

\* Who is on leave was so, or is locked by the step.
LEMMA LeaveGrows ==
  ASSUME NEW L, LeaveStep(L), NEW c, NEW slot, OnLeave(c, slot)'
  PROVE  OnLeave(c, slot) \/ c \in L
BY DEF LeaveStep, OnLeave

\* A coach who comes to a row of a request has slipped in.
LEMMA RowsGain ==
  ASSUME StateTyped, StateTyped', NEW p \in Jobs, Fit(p), NEW L, L \cap job[p].locks = {},
         RoleStep(L), RowStep(p), job[p].step \in {"create"} \cup Waiting,
         NEW s \in DOMAIN job[p].rows, NEW c \in Teaches(role', job[p].rows[s])
  PROVE  c \in Coaches /\ (c \in Teaches(role, job[p].rows[s]) \/ c \in Slip(s)')
<1>1. job[p].rows[s] \in Row BY DEF Fit, JobTyped
<1>2. c \in Coaches BY <1>1, TeachesTyped
<1>3. CASE job[p].step \in Waiting BY <1>2, <1>3 DEF RowStep, Slip
<1>4. CASE job[p].step = "create"
  <2>1. job[p].rows[s].class \in job[p].locks BY <1>4 DEF Fit, RowsFit
  <2>2. job[p].rows[s].class \in Classes BY <1>1 DEF Row
  <2>3. role'[job[p].rows[s].class] = role[job[p].rows[s].class] BY <2>1, <2>2 DEF RoleStep
  <2> QED BY <1>2, <2>3, TeachesOf
<1> QED BY <1>3, <1>4

\* A coach who is to teach a row and has not slipped in is locked.
LEMMA RowsLocked ==
  ASSUME StateTyped, StateTyped', NEW p \in Jobs, Fit(p), CoachFit(p), NEW L, L \cap job[p].locks = {},
         RoleStep(L), RowStep(p), slipped \subseteq slipped', job[p].step \in {"create", "move", "leave"},
         NEW s \in DOMAIN job[p].rows, job[p].rows[s].status = "SCHEDULED",
         NEW c \in Teaches(role', job[p].rows[s]), c \notin Slip(s)'
  PROVE  c \in Coaches /\ c \in Teaches(role, job[p].rows[s]) /\ c \notin L
<1>1. c \in Coaches /\ c \in Teaches(role, job[p].rows[s]) BY RowsGain DEF Waiting
<1>2. c \notin Slip(s) BY DEF Slip
<1>3. c \in job[p].locks BY <1>1, <1>2 DEF CoachFit, Taught
<1> QED BY <1>1, <1>3

\* A request that goes on waiting knows who is to teach its rows.
LEMMA TaughtFrame ==
  ASSUME StateTyped, StateTyped', NEW p \in Jobs, Fit(p), CoachFit(p), job'[p] = job[p],
         NEW L, L \cap job[p].locks = {}, RoleStep(L), RowStep(p), slipped \subseteq slipped'
  PROVE  Taught(p)'
<1> DEFINE j == job[p]
<1> SUFFICES ASSUME NEW s \in DOMAIN j.rows
             PROVE  /\ j.step = "locked" => Teaches(role', j.rows[s]) \subseteq j.need \cup Slip(s)'
                    /\ j.step \in {"create", "move", "leave"} /\ j.rows[s].status = "SCHEDULED" =>
                         Teaches(role', j.rows[s]) \subseteq j.locks \cup Slip(s)'
  BY DEF Taught
<1>1. Slip(s) \subseteq Slip(s)' BY DEF Slip
<1>2. Taught(p) BY DEF CoachFit
<1>3. j.step = "locked" => Teaches(role', j.rows[s]) \subseteq j.need \cup Slip(s)'
  <2> SUFFICES ASSUME j.step = "locked", NEW c \in Teaches(role', j.rows[s])
               PROVE  c \in j.need \cup Slip(s)'
    OBVIOUS
  <2>1. c \in Teaches(role, j.rows[s]) \/ c \in Slip(s)' BY RowsGain DEF Waiting
  <2> QED BY <1>1, <1>2, <2>1 DEF Taught
<1>4. j.step \in {"create", "move", "leave"} /\ j.rows[s].status = "SCHEDULED" =>
        Teaches(role', j.rows[s]) \subseteq j.locks \cup Slip(s)'
  <2> SUFFICES ASSUME j.step \in {"create", "move", "leave"}, j.rows[s].status = "SCHEDULED",
                      NEW c \in Teaches(role', j.rows[s])
               PROVE  c \in j.locks \cup Slip(s)'
    OBVIOUS
  <2>1. c \in Teaches(role, j.rows[s]) \/ c \in Slip(s)' BY RowsGain DEF Waiting
  <2> QED BY <1>1, <1>2, <2>1 DEF Taught
<1> QED BY <1>3, <1>4

\* Its rows stay clear of other sessions and of leave.
LEMMA HeldFrame ==
  ASSUME StateTyped, StateTyped', NEW p \in Jobs, Fit(p), CoachFit(p), job'[p] = job[p],
         NEW L, L \cap job[p].locks = {}, CoachStep(L), RowStep(p)
  PROVE  CoachHeld(p)'
<1> DEFINE j == job[p]
<1>0. RoleStep(L) /\ TeachStep(L) /\ LeaveStep(L) /\ slipped \subseteq slipped' BY DEF CoachStep
<1> SUFFICES ASSUME j.step \in {"create", "move", "leave"}, NEW s \in DOMAIN j.rows,
                    j.rows[s].status = "SCHEDULED", NEW c \in Teaches(role', j.rows[s]),
                    c \notin Slip(s)'
             PROVE  /\ \A t \in Scheduled(session') \ DOMAIN j.rows : session'[t].slot = j.rows[s].slot =>
                         (c \in Teaches(role', session'[t]) => c \in Slip(t)')
                    /\ \A t \in DOMAIN j.rows :
                         t # s /\ j.rows[t].status = "SCHEDULED" /\ j.rows[t].slot = j.rows[s].slot =>
                           (c \in Teaches(role', j.rows[t]) => c \in Slip(t)')
                    /\ ~OnLeave(c, j.rows[s].slot)'
  BY DEF CoachHeld, Scheduled
<1>1. c \in Coaches /\ c \in Teaches(role, j.rows[s]) /\ c \notin L BY <1>0, RowsLocked
<1>2. \A t : Slip(t) \subseteq Slip(t)' BY <1>0 DEF Slip
<1>3. CoachHeld(p) /\ c \notin Slip(s) BY <1>2 DEF CoachFit
<1>4. ASSUME NEW t \in Scheduled(session') \ DOMAIN j.rows, session'[t].slot = j.rows[s].slot,
             c \in Teaches(role', session'[t]), c \notin Slip(t)'
      PROVE  FALSE
  <2>1. <<t, c>> \notin slipped' BY <1>1, <1>4 DEF Slip
  <2>2. Kept(t, c) BY <1>0, <1>1, <1>4, <2>1 DEF TeachStep
  <2>3. t \in Scheduled(session) \ DOMAIN j.rows /\ session[t].slot = j.rows[s].slot
    BY <1>4, <2>2 DEF Kept, Scheduled
  <2>4. c \in Slip(t) BY <1>1, <1>3, <2>2, <2>3 DEF CoachHeld, Kept
  <2> QED BY <1>2, <1>4, <2>4
<1>5. ASSUME NEW t \in DOMAIN j.rows, t # s, j.rows[t].status = "SCHEDULED",
             j.rows[t].slot = j.rows[s].slot, c \in Teaches(role', j.rows[t]), c \notin Slip(t)'
      PROVE  FALSE
  <2>1. c \in Teaches(role, j.rows[t]) BY <1>0, <1>5, RowsLocked
  <2>2. c \in Slip(t) BY <1>1, <1>3, <1>5, <2>1 DEF CoachHeld
  <2> QED BY <1>2, <1>5, <2>2
<1>6. ASSUME OnLeave(c, j.rows[s].slot)' PROVE FALSE
  <2>1. OnLeave(c, j.rows[s].slot) BY <1>0, <1>1, <1>6, LeaveGrows
  <2> QED BY <1>1, <1>3, <2>1 DEF CoachHeld
<1> QED BY <1>4, <1>5, <1>6

\* The decision of a leave has still seen every session of the coach.
LEMMA SeenFrame ==
  ASSUME NEW p \in Jobs, Fit(p), CoachFit(p), job'[p] = job[p], StateTyped,
         NEW L, L \cap job[p].locks = {}, CoachStep(L)
  PROVE  LeaveSeen(p)'
<1> DEFINE j == job[p]
           l == leave[j.arg.leave]
<1> SUFFICES ASSUME j.step = "leave"
             PROVE  /\ leave'[j.arg.leave].coach \in j.locks
                    /\ \A t \in Scheduled(session') \ DOMAIN j.rows :
                         session'[t].slot = leave'[j.arg.leave].slot
                         /\ leave'[j.arg.leave].coach \in Teaches(role', session'[t])
                           => leave'[j.arg.leave].coach \in Slip(t)'
  BY DEF LeaveSeen, Scheduled
<1>1. TeachStep(L) /\ LeaveStep(L) /\ slipped \subseteq slipped' BY DEF CoachStep
<1>2. j.arg.leave \in Leaves BY DEF Fit, ArgFit
<1>3. /\ leave'[j.arg.leave].coach = l.coach /\ leave'[j.arg.leave].slot = l.slot
      /\ l.coach \in Coaches
  BY <1>1, <1>2 DEF LeaveStep, StateTyped
<1>4. LeaveSeen(p) BY DEF CoachFit
<1>5. l.coach \in j.locks /\ l.coach \notin L BY <1>4 DEF LeaveSeen
<1>6. ASSUME NEW t \in Scheduled(session') \ DOMAIN j.rows, session'[t].slot = l.slot,
             l.coach \in Teaches(role', session'[t]), l.coach \notin Slip(t)'
      PROVE  FALSE
  <2>1. <<t, l.coach>> \notin slipped' BY <1>3, <1>6 DEF Slip
  <2>2. Kept(t, l.coach) BY <1>1, <1>5, <1>6, <2>1 DEF TeachStep
  <2>3. t \in Scheduled(session) \ DOMAIN j.rows BY <1>6, <2>2 DEF Kept, Scheduled
  <2>4. l.coach \in Slip(t) BY <1>4, <1>6, <2>2, <2>3 DEF LeaveSeen, Kept
  <2> QED BY <1>1, <1>3, <2>1, <2>4 DEF Slip
<1> QED BY <1>3, <1>5, <1>6

\* An assignment has still seen every session of its class.
LEMMA AssignFrame ==
  ASSUME NEW p \in Jobs, Fit(p), CoachFit(p), job'[p] = job[p], StateTyped, StateTyped',
         NEW L, L \cap job[p].locks = {}, CoachStep(L)
  PROVE  AssignFit(p)'
<1> DEFINE j  == job[p]
           k  == j.arg.class
           c  == j.arg.coach
           ro == WithCoach(k, c, j.arg.as)
<1> SUFFICES ASSUME j.step = "assign" PROVE AssignFit(p)'
  BY DEF AssignFit
<1>1. ClassStep(L) /\ TeachStep(L) /\ RoleStep(L) /\ LeaveStep(L) /\ slipped \subseteq slipped'
  BY DEF CoachStep
<1>2. k \in Classes /\ c \in Coaches /\ k \notin L /\ c \notin L BY DEF Fit, ArgFit
<1>3. AssignFit(p) BY DEF CoachFit
<1>4. \A t : Slip(t) \subseteq Slip(t)' BY <1>1 DEF Slip
<1>5. role'[k] = role[k] BY <1>1, <1>2 DEF RoleStep
<1>6. (ro')[k] = ro[k]
  BY <1>2, <1>5 DEF WithCoach, Promoted, StateTyped
<1>7. \A s \in DOMAIN j.rows : j.rows[s].class = k BY <1>3 DEF AssignFit
<1>8. \A s \in DOMAIN j.rows : Teaches(ro', j.rows[s]) = Teaches(ro, j.rows[s])
  BY <1>6, <1>7, TeachesOf
<1>9. ASSUME NEW t \in SessionsOf(k)'
      PROVE  /\ t \in DOMAIN j.rows
             /\ c \in Teaches(role', session'[t]) =>
                  c \in Slip(t)' \/ (session'[t].slot = j.rows[t].slot /\ session'[t].sub = j.rows[t].sub)
  <2>1. t \in Scheduled(session') /\ session'[t].class = k /\ t \in Sessions BY DEF SessionsOf, Scheduled
  <2>2. session[t].status = "SCHEDULED" /\ session[t].class = k BY <1>1, <1>2, <2>1 DEF ClassStep
  <2>3. t \in SessionsOf(k) BY <2>1, <2>2 DEF SessionsOf, Scheduled
  <2>4. ASSUME c \in Teaches(role', session'[t]), c \notin Slip(t)'
        PROVE  session'[t].slot = j.rows[t].slot /\ session'[t].sub = j.rows[t].sub
    <3>1. Kept(t, c) BY <1>1, <1>2, <2>1, <2>4 DEF TeachStep, Slip
    <3>2. c \notin Slip(t) BY <1>4, <2>4
    <3> QED BY <1>3, <2>3, <3>1, <3>2 DEF AssignFit, Kept
  <2> QED BY <1>3, <2>3, <2>4 DEF AssignFit
<1>10. ASSUME NEW s \in DOMAIN j.rows, c \in Teaches(ro', j.rows[s])
       PROVE  /\ ~OnLeave(c, j.rows[s].slot)'
              /\ \A t \in DOMAIN j.rows :
                   t # s /\ j.rows[t].slot = j.rows[s].slot => c \notin Teaches(ro', j.rows[t])
              /\ \A t \in Scheduled(session') :
                   /\ session'[t].class # k /\ session'[t].slot = j.rows[s].slot
                   /\ c \in Teaches(role', session'[t])
                   => c \in Slip(t)'
  <2>1. c \in Teaches(ro, j.rows[s]) BY <1>8, <1>10
  <2>2. ~OnLeave(c, j.rows[s].slot)'
    <3>1. ~OnLeave(c, j.rows[s].slot) BY <1>3, <2>1 DEF AssignFit
    <3> QED BY <1>1, <1>2, <3>1, LeaveGrows
  <2>3. \A t \in DOMAIN j.rows :
          t # s /\ j.rows[t].slot = j.rows[s].slot => c \notin Teaches(ro', j.rows[t])
    BY <1>3, <1>8, <2>1 DEF AssignFit
  <2>4. ASSUME NEW t \in Scheduled(session'), session'[t].class # k, session'[t].slot = j.rows[s].slot,
               c \in Teaches(role', session'[t]), c \notin Slip(t)'
        PROVE  FALSE
    <3>1. Kept(t, c) BY <1>1, <1>2, <2>4 DEF TeachStep, Slip
    <3>2. t \in Scheduled(session) BY <2>4, <3>1 DEF Kept, Scheduled
    <3>3. c \in Slip(t) BY <1>3, <2>1, <2>4, <3>1, <3>2 DEF AssignFit, Kept
    <3> QED BY <1>4, <2>4, <3>3
  <2> QED BY <2>2, <2>3, <2>4
<1> QED BY <1>7, <1>9, <1>10 DEF AssignFit

\* A step under other locks keeps what a request knows of its coaches.
LEMMA CoachFrame ==
  ASSUME StateTyped, StateTyped', NEW p \in Jobs, Fit(p), CoachFit(p), job'[p] = job[p],
         NEW L, L \cap job[p].locks = {}, CoachStep(L), RowStep(p)
  PROVE  CoachFit(p)'
<1>1. RoleStep(L) /\ slipped \subseteq slipped' BY DEF CoachStep
<1> QED BY <1>1, TaughtFrame, HeldFrame, SeenFrame, AssignFrame DEF CoachFit

-----------------------------------------------------------------------------
(* Three kinds of steps.                                                   *)

\* What a request knows matters only between its checks and its commit.
LEMMA OthersFit ==
  ASSUME NEW q \in Jobs, job'[q].step \notin {"create", "locked", "move", "leave", "assign"}
  PROVE  CoachFit(q)'
BY DEF CoachFit, Taught, CoachHeld, LeaveSeen, AssignFit

\* A step that changes neither sessions nor roles nor leave.
LEMMA StillStep ==
  ASSUME UNCHANGED <<session, role, leave, slipped>>
  PROVE  CoachStep({}) /\ \A p \in Jobs : RowStep(p)
<1>1. \A s : Teaches(role', session'[s]) = Teaches(role, session[s]) OBVIOUS
<1>2. TeachStep({}) /\ ClassStep({}) BY <1>1 DEF TeachStep, ClassStep, Kept, Scheduled
<1>3. \A row : Teaches(role', row) = Teaches(role, row) OBVIOUS
<1>4. \A p \in Jobs : RowStep(p) BY <1>3 DEF RowStep
<1> QED BY <1>2, <1>4 DEF CoachStep, RoleStep, LeaveStep

\* It keeps the invariants of the sessions.
LEMMA StillKeeps ==
  ASSUME CoachOnce, LeaveKept, UNCHANGED <<session, role, leave, slipped>>
  PROVE  CoachOnce' /\ LeaveKept'
<1>1. \A s : Teaches(role', session'[s]) = Teaches(role, session[s]) OBVIOUS
<1>2. \A c, slot : OnLeave(c, slot)' <=> OnLeave(c, slot) BY DEF OnLeave
<1> QED BY <1>1, <1>2 DEF CoachOnce, LeaveKept, Scheduled

\* A request begins or goes on.
LEMMA CoachStart ==
  ASSUME CoachInv, Inv', NEW q \in Jobs, Others(q), CoachFit(q)',
         UNCHANGED <<session, role, leave, slipped>>
  PROVE  CoachInv'
<1>1. CoachOnce' /\ LeaveKept' BY StillKeeps DEF CoachInv
<1>2. CoachStep({}) /\ \A p \in Jobs : RowStep(p) BY StillStep
<1>3. ASSUME NEW p \in Jobs PROVE CoachFit(p)'
  <2>1. CASE p = q BY <2>1
  <2>2. CASE p # q
    <3>1. job'[p] = job[p] BY <2>2 DEF Others
    <3>2. StateTyped /\ StateTyped' /\ Fit(p) /\ CoachFit(p) BY DEF CoachInv, Inv
    <3>3. {} \cap job[p].locks = {} OBVIOUS
    <3> QED BY <1>2, <3>1, <3>2, <3>3, CoachFrame
  <2> QED BY <2>1, <2>2
<1> QED BY <1>1, <1>3 DEF CoachInv

\* A request ends, and has brought coaches to sessions under its locks.
LEMMA CoachEnd ==
  ASSUME CoachInv, Inv', NEW q \in Jobs, End(q), CoachStep(job[q].locks),
         \A p \in Jobs : p # q => RowStep(p), CoachOnce', LeaveKept'
  PROVE  CoachInv'
<1>1. Others(q) /\ job'[q] = Idle BY EndEffect DEF CoachInv, Inv
<1>2. ASSUME NEW p \in Jobs PROVE CoachFit(p)'
  <2>1. CASE p = q
    <3>1. job'[p].step = "idle" BY <1>1, <2>1 DEF Idle
    <3> QED BY <3>1, OthersFit
  <2>2. CASE p # q
    <3>1. job'[p] = job[p] BY <1>1, <2>2 DEF Others
    <3>2. job[q].locks \cap job[p].locks = {} BY <2>2 DEF CoachInv, Inv, Apart
    <3>3. StateTyped /\ StateTyped' /\ Fit(p) /\ CoachFit(p) BY DEF CoachInv, Inv
    <3> QED BY <2>2, <3>1, <3>2, <3>3, CoachFrame
  <2> QED BY <2>1, <2>2
<1> QED BY <1>2 DEF CoachInv

\* A handler of one step has done so under locks that nobody else holds.
LEMMA CoachDirect ==
  ASSUME CoachInv, Inv', UNCHANGED job, NEW L, Quiet(L), CoachStep(L),
         \A p \in Jobs : RowStep(p), CoachOnce', LeaveKept'
  PROVE  CoachInv'
<1>1. ASSUME NEW p \in Jobs PROVE CoachFit(p)'
  <2>1. job'[p] = job[p] OBVIOUS
  <2>2. L \cap job[p].locks = {} BY DEF Quiet
  <2>3. StateTyped /\ StateTyped' /\ Fit(p) /\ CoachFit(p) BY DEF CoachInv, Inv
  <2> QED BY <2>1, <2>2, <2>3, CoachFrame
<1> QED BY <1>1 DEF CoachInv

-----------------------------------------------------------------------------
(* Requests begin and go on.                                               *)

\* A checked row is clear of leave, and of the coaches of the other sessions.
LEMMA SoundCoaches ==
  ASSUME NEW ro, NEW ses, NEW s, NEW row, Sound(ro, ses, s, row)
  PROVE  /\ \A c \in Teaches(ro, row) : ~OnLeave(c, row.slot)
         /\ \A t \in Scheduled(ses) \ {s} : ses[t].slot = row.slot =>
              Teaches(ro, ses[t]) \cap Teaches(ro, row) = {}
BY DEF Sound, Resourced, Clear

\* A batch of new sessions.
LEMMA CreateCoach ==
  ASSUME CoachInv, Inv', NEW q \in Jobs, NEW k \in Classes, NEW r \in Rooms, NEW S \in SUBSET Sessions,
         NEW at \in [S -> Slots], Create(q, k, r, at)
  PROVE  CoachInv'
<1> DEFINE rows  == [s \in DOMAIN at |-> [status |-> "SCHEDULED", class |-> k, room |-> r,
                                          slot |-> at[s], sub |-> None]]
           locks == {k, r} \cup Members(role, k)
<1>1. Take(q, "create", locks, rows, {}, None) BY DEF Create
<1>2. UNCHANGED <<session, role, leave, slipped>> BY DEF Create, ghosts
<1>3. \A s \in S : Sound(role, session, s, rows[s]) BY DEF Create
<1>4. \A s, t \in S : s # t => at[s] # at[t] BY DEF Create
<1>5. DOMAIN rows = S /\ \A s \in S : rows[s].class = k /\ rows[s].slot = at[s] /\ rows[s].sub = None
  OBVIOUS
<1>6. \A s \in S : Teaches(role, rows[s]) \subseteq locks BY <1>5 DEF Teaches
<1> HIDE DEF rows, locks
<1>7. /\ Others(q) /\ job'[q].step = "create" /\ job'[q].locks = locks /\ job'[q].rows = rows
  BY <1>1, TakeEffect DEF CoachInv, Inv
<1>8. Taught(q)' BY <1>2, <1>5, <1>6, <1>7 DEF Taught
<1>9. CoachHeld(q)'
  <2>1. ASSUME NEW s \in S
        PROVE  /\ \A t \in Scheduled(session) \ S : session[t].slot = rows[s].slot =>
                    Teaches(role, session[t]) \cap Teaches(role, rows[s]) = {}
               /\ \A t \in S : t # s => rows[t].slot # rows[s].slot
               /\ \A c \in Teaches(role, rows[s]) : ~OnLeave(c, rows[s].slot)
    <3>1. Sound(role, session, s, rows[s]) BY <1>3
    <3> QED BY <1>4, <1>5, <3>1, SoundCoaches
  <2>2. \A c, slot : OnLeave(c, slot)' <=> OnLeave(c, slot) BY <1>2 DEF OnLeave
  <2> QED BY <1>2, <1>5, <1>7, <2>1, <2>2 DEF CoachHeld, Scheduled
<1>10. CoachFit(q)' BY <1>7, <1>8, <1>9 DEF CoachFit, LeaveSeen, AssignFit
<1> QED BY <1>2, <1>7, <1>10, CoachStart

\* A change of a session is locked.
LEMMA LockCoach ==
  ASSUME CoachInv, Inv', NEW q \in Jobs, NEW s \in Sessions, NEW row \in Row, NEW a,
         Take(q, "locked", {s}, [x \in {s} |-> row], Resources(session[s], row), a),
         UNCHANGED <<session, role, leave, slipped>>
  PROVE  CoachInv'
<1> DEFINE rows == [x \in {s} |-> row]
           need == Resources(session[s], row)
<1>1. DOMAIN rows = {s} /\ rows[s] = row OBVIOUS
<1>2. session[s] \in Row BY DEF CoachInv, Inv, StateTyped
<1>3. Teaches(role, row) \subseteq need BY <1>2, TeachesLocked
<1>4. Take(q, "locked", {s}, rows, need, a) OBVIOUS
<1> HIDE DEF rows, need
<1>5. /\ Others(q) /\ job'[q].step = "locked" /\ job'[q].rows = rows /\ job'[q].need = need
  BY <1>4, TakeEffect DEF CoachInv, Inv
<1>6. Taught(q)' BY <1>1, <1>3, <1>5 DEF Taught
<1>7. CoachFit(q)' BY <1>5, <1>6 DEF CoachFit, CoachHeld, LeaveSeen, AssignFit
<1> QED BY <1>5, <1>7, CoachStart

\* By updateSchedule.
LEMMA LockMoveCoach ==
  ASSUME CoachInv, Inv', NEW q \in Jobs, NEW s \in Sessions, LockMove(q, s)
  PROVE  CoachInv'
<1> DEFINE given == job[q].rows[s]
           row   == [given EXCEPT !.sub = IF @ = None THEN session[s].sub ELSE @]
<1>1. JobTyped(q) /\ DOMAIN job[q].rows = {s} BY DEF CoachInv, Inv, Fit, LockMove
<1>2. given \in Row /\ session[s] \in Row BY <1>1 DEF JobTyped, CoachInv, Inv, StateTyped
<1>3. row \in Row BY <1>2 DEF Row
<1>4. /\ Take(q, "locked", {s}, [x \in {s} |-> row], Resources(session[s], row), None)
      /\ UNCHANGED <<session, role, leave, slipped>>
  BY DEF LockMove, ghosts
<1> HIDE DEF row, given
<1> QED BY <1>3, <1>4, LockCoach

\* By the approval of a coach change.
LEMMA ApproveCoach ==
  ASSUME CoachInv, Inv', NEW q \in Jobs, NEW a \in asked, NEW c \in Coaches, Approve(q, a, c)
  PROVE  CoachInv'
<1> DEFINE s   == a.session
           row == [session[s] EXCEPT !.sub = c]
<1>1. s \in Sessions BY DEF CoachInv, Inv, StateTyped
<1>2. session[s] \in Row BY <1>1 DEF CoachInv, Inv, StateTyped
<1>3. row \in Row BY <1>2 DEF Row
<1>4. /\ Take(q, "locked", {s}, [x \in {s} |-> row], Resources(session[s], row), a)
      /\ UNCHANGED <<session, role, leave, slipped>>
  BY DEF Approve, ghosts
<1> HIDE DEF row, s
<1> QED BY <1>1, <1>3, <1>4, LockCoach

\* It is checked under the locks of its coaches.
LEMMA CheckMoveCoach ==
  ASSUME CoachInv, Inv', NEW q \in Jobs, NEW s \in Sessions, CheckMove(q, s)
  PROVE  CoachInv'
<1> DEFINE rows  == job[q].rows
           locks == job[q].locks \cup job[q].need
<1>1. /\ job[q].step = "locked" /\ DOMAIN rows = {s} /\ Sound(role, session, s, rows[s])
      /\ Take(q, "move", locks, rows, {}, job[q].arg)
      /\ UNCHANGED <<session, role, leave, slipped>>
  BY DEF CheckMove, ghosts
<1>2. Taught(q) BY DEF CoachInv, CoachFit
<1>3. Teaches(role, rows[s]) \subseteq locks \cup Slip(s) BY <1>1, <1>2 DEF Taught
<1>4. /\ \A c \in Teaches(role, rows[s]) : ~OnLeave(c, rows[s].slot)
      /\ \A t \in Scheduled(session) \ {s} : session[t].slot = rows[s].slot =>
           Teaches(role, session[t]) \cap Teaches(role, rows[s]) = {}
  BY <1>1, SoundCoaches
<1>5. /\ Others(q) /\ job'[q].step = "move" /\ job'[q].locks = locks /\ job'[q].rows = job[q].rows
  BY <1>1, TakeEffect DEF CoachInv, Inv
<1> HIDE DEF locks
<1>6. Slip(s)' = Slip(s) /\ \A c, slot : OnLeave(c, slot)' <=> OnLeave(c, slot)
  BY <1>1 DEF Slip, OnLeave
<1>7. Taught(q)' BY <1>1, <1>3, <1>5, <1>6 DEF Taught
<1>8. CoachHeld(q)' BY <1>1, <1>4, <1>5, <1>6 DEF CoachHeld, Scheduled
<1>9. CoachFit(q)' BY <1>5, <1>7, <1>8 DEF CoachFit, LeaveSeen, AssignFit
<1> QED BY <1>1, <1>5, <1>9, CoachStart

\* Requests that know nothing of coaches yet.
LEMMA BeginCoach ==
  ASSUME CoachInv, Inv', NEW q \in Jobs,
         NEW step \in {"read", "reread", "transfer", "reload"}, NEW locks, NEW rows, NEW need, NEW arg,
         Take(q, step, locks, rows, need, arg),
         UNCHANGED <<session, role, leave, slipped>>
  PROVE  CoachInv'
<1>1. Others(q) /\ job'[q].step = step BY TakeEffect DEF CoachInv, Inv
<1>2. CoachFit(q)' BY <1>1, OthersFit
<1> QED BY <1>1, <1>2, CoachStart

\* updateSchedule, a transfer and a decision about a leave read first; a
\* transfer checks its rows but keeps no coach.
LEMMA ReadCoach ==
  ASSUME CoachInv, Inv', NEW q \in Jobs,
         \/ \E s \in Sessions, slot \in Slots, r \in Rooms, c \in Coaches \cup {None} :
              ReadMove(q, s, slot, r, c)
         \/ \E from, to \in Rooms : ReadTransfer(q, from, to)
         \/ CheckTransfer(q)
         \/ \E l \in Leaves : \E plan \in [Affected(l) -> Resolution] : ReadLeave(q, l, plan)
  PROVE  CoachInv'
<1> DEFINE Begins(step) ==
        \E locks, rows, need, arg :
          Take(q, step, locks, rows, need, arg) /\ UNCHANGED <<session, role, leave, slipped>>
<1>1. ASSUME NEW s \in Sessions, NEW slot \in Slots, NEW r \in Rooms, NEW c \in Coaches \cup {None},
             ReadMove(q, s, slot, r, c)
      PROVE  Begins("read")
  BY <1>1 DEF ReadMove, ghosts
<1>2. ASSUME NEW from \in Rooms, NEW to \in Rooms, ReadTransfer(q, from, to) PROVE Begins("reread")
  BY <1>2 DEF ReadTransfer, ghosts
<1>3. ASSUME CheckTransfer(q) PROVE Begins("transfer")
  BY <1>3 DEF CheckTransfer, ghosts
<1>4. ASSUME NEW l \in Leaves, NEW plan \in [Affected(l) -> Resolution], ReadLeave(q, l, plan)
      PROVE  Begins("reload")
  BY <1>4 DEF ReadLeave, ghosts
<1>5. \A step \in {"read", "reread", "transfer", "reload"} : Begins(step) => CoachInv'
  BY BeginCoach
<1> HIDE DEF Begins
<1> QED BY <1>1, <1>2, <1>3, <1>4, <1>5

\* A coach is to be assigned: his time in the sessions of the class is free.
LEMMA AssignCoach ==
  ASSUME CoachInv, Inv', NEW q \in Jobs, NEW k \in Classes, NEW c \in Coaches,
         NEW as \in {"primary", "support"}, Assign(q, k, c, as)
  PROVE  CoachInv'
<1> DEFINE rows  == [s \in SessionsOf(k) |-> session[s]]
           locks == {k, c}
           arg   == [class |-> k, coach |-> c, as |-> as]
           ro    == WithCoach(k, c, as)
<1>1. /\ Take(q, "assign", locks, rows, {}, arg)
      /\ \A s \in SessionsOf(k) : Sound(ro, session, s, session[s])
      /\ UNCHANGED <<session, role, leave, slipped>>
  BY DEF Assign, ghosts
<1>2. DOMAIN rows = SessionsOf(k) /\ \A s \in SessionsOf(k) : rows[s] = session[s] OBVIOUS
<1>3. arg.class = k /\ arg.coach = c /\ arg.as = as OBVIOUS
<1>5. \A x \in Classes : x # k => ro[x] = role[x] BY RolesTyped DEF CoachInv, Inv
<1> HIDE DEF rows, locks, arg
<1>6. /\ Others(q) /\ job'[q].step = "assign" /\ job'[q].rows = rows /\ job'[q].arg = arg
  BY <1>1, TakeEffect DEF CoachInv, Inv
<1>7. ASSUME NEW s \in SessionsOf(k), c \in Teaches(ro, session[s])
      PROVE  /\ ~OnLeave(c, session[s].slot)
             /\ \A t \in SessionsOf(k) :
                  t # s /\ session[t].slot = session[s].slot => c \notin Teaches(ro, session[t])
             /\ \A t \in Scheduled(session) :
                  session[t].class # k /\ session[t].slot = session[s].slot =>
                    c \notin Teaches(role, session[t])
  <2> HIDE DEF ro
  <2>1. Sound(ro, session, s, session[s]) BY <1>1
  <2>2. /\ ~OnLeave(c, session[s].slot)
        /\ \A t \in Scheduled(session) \ {s} : session[t].slot = session[s].slot =>
             c \notin Teaches(ro, session[t])
    BY <1>7, <2>1, SoundCoaches
  <2>3. \A t \in SessionsOf(k) : t \in Scheduled(session) /\ session[t].class = k BY DEF SessionsOf
  <2>4. \A t \in Scheduled(session) : session[t].class \in Classes
    BY DEF CoachInv, Inv, StateTyped, Scheduled, Row
  <2>5. \A t \in Scheduled(session) : session[t].class # k =>
          Teaches(role, session[t]) = Teaches(ro, session[t])
    BY <1>5, <2>4, TeachesOf
  <2> QED BY <2>2, <2>3, <2>5
<1>8. \A x, slot : OnLeave(x, slot)' <=> OnLeave(x, slot) BY <1>1 DEF OnLeave
<1>9. /\ SessionsOf(job[q].arg.class)' = SessionsOf(k)
      /\ WithCoach(job[q].arg.class, job[q].arg.coach, job[q].arg.as)' = ro
      /\ \A t : Slip(t)' = Slip(t)
  BY <1>1, <1>3, <1>6 DEF SessionsOf, Scheduled, WithCoach, Promoted, Slip
<1>10. \A s \in SessionsOf(k) : session[s].class = k BY DEF SessionsOf
<1>11. AssignFit(q)'
  <2> HIDE DEF ro
  <2>1. \A t \in SessionsOf(k) : t \in DOMAIN rows /\ rows[t] = session[t] BY <1>2
  <2>2. ASSUME NEW s \in DOMAIN rows
        PROVE  /\ rows[s].class = k
               /\ c \in Teaches(ro, rows[s]) =>
                    /\ ~OnLeave(c, rows[s].slot)
                    /\ \A t \in DOMAIN rows :
                         t # s /\ rows[t].slot = rows[s].slot => c \notin Teaches(ro, rows[t])
                    /\ \A t \in Scheduled(session) :
                         session[t].class # k /\ session[t].slot = rows[s].slot =>
                           c \notin Teaches(role, session[t])
    BY <1>2, <1>7, <1>10
  <2>3. Scheduled(session') = Scheduled(session) /\ session' = session /\ role' = role BY <1>1
  <2> QED BY <1>3, <1>6, <1>8, <1>9, <2>1, <2>2, <2>3 DEF AssignFit, Scheduled
<1>12. CoachFit(q)' BY <1>6, <1>11 DEF CoachFit, Taught, CoachHeld, LeaveSeen
<1> QED BY <1>1, <1>6, <1>12, CoachStart

\* The rows of a decision are clear of the sessions it leaves alone and of each
\* other.
RowsClear(D, rows) ==
  \A s \in D : rows[s].status = "SCHEDULED" =>
    /\ \A t \in Scheduled(session) \ D : session[t].slot = rows[s].slot =>
         /\ session[t].room # rows[s].room
         /\ Teaches(role, session[t]) \cap Teaches(role, rows[s]) = {}
    /\ \A t \in D : t # s /\ rows[t].status = "SCHEDULED" /\ rows[t].slot = rows[s].slot =>
         /\ rows[t].room # rows[s].room
         /\ Teaches(role, rows[t]) \cap Teaches(role, rows[s]) = {}

\* They are so when they were checked one after the other.
LEMMA OrderedCoaches ==
  ASSUME StateTyped, NEW STATE D, NEW STATE rows, NEW order,
         D \in SUBSET Scheduled(session), rows \in [D -> Row], order \in [D -> Nat],
         \A s, t \in D : s # t => order[s] # order[t],
         \A s \in D : rows[s].status = "SCHEDULED" => Clear(role, Earlier(D, order, rows, s), s, rows[s])
  PROVE  RowsClear(D, rows)
BY OrderedClear DEF RowsClear

\* The decision about a leave locks the coaches of its rows and checks them.
LEMMA CheckLeaveCoach ==
  ASSUME CoachInv, Inv', NEW q \in Jobs, CheckLeave(q)
  PROVE  CoachInv'
<1> DEFINE l     == job[q].arg.leave
           plan  == job[q].arg.plan
           rows  == Plan(plan)
           locks == job[q].locks \cup job[q].need \cup LeaveLocks(l, plan)
           D     == DOMAIN plan
<1>0. Inv BY DEF CoachInv
<1>1. /\ job[q].step = "reload" /\ D = Affected(l)
      /\ Take(q, "leave", locks, rows, {}, job[q].arg)
      /\ UNCHANGED <<session, role, leave, slipped>>
  BY DEF CheckLeave, ghosts
<1>2. \E order \in [D -> 1..Cardinality(D)] :
        /\ \A s, t \in D : s # t => order[s] # order[t]
        /\ \A s \in D : plan[s].act # "CANCEL" =>
             Sound(role, Overlay(session, [t \in {t \in D : order[t] < order[s]} |-> rows[t]]), s, rows[s])
  BY DEF CheckLeave
<1>3. ArgFit(q) BY <1>0 DEF Inv, Fit
<1>4. /\ l \in Leaves /\ D \subseteq Scheduled(session)
      /\ \A s \in D : plan[s] \in Resolution
  BY <1>1, <1>3 DEF ArgFit, Affected
<1>5. /\ DOMAIN rows = D
      /\ \A s \in D :
           /\ rows[s] \in Row
           /\ rows[s].status = IF plan[s].act = "CANCEL" THEN "CANCELLED" ELSE "SCHEDULED"
  BY <1>0, <1>4, PlanRows DEF Inv
<1>6. rows \in [D -> Row] BY <1>5 DEF Plan
<1>7. \A s \in D : Resources(session[s], rows[s]) \subseteq locks
  BY <1>0, <1>4, LeaveLocksTyped DEF Inv
<1>8. leave[l].coach \in locks BY DEF LeaveLocks
<1> HIDE DEF l, plan, rows, locks, D
<1>9. PICK order \in [D -> Nat] :
        /\ \A s, t \in D : s # t => order[s] # order[t]
        /\ \A s \in D : plan[s].act # "CANCEL" => Sound(role, Earlier(D, order, rows, s), s, rows[s])
  <2>1. IsFiniteSet(D) BY <1>4, FS_Subset, TimetableConstants DEF Scheduled
  <2>2. Cardinality(D) \in Nat BY <2>1, FS_CardinalityType
  <2>3. [D -> 1..Cardinality(D)] \subseteq [D -> Nat] BY <2>2
  <2> QED BY <1>2, <2>3 DEF Earlier
<1>10. \A s \in D : rows[s].status = "SCHEDULED" =>
         Sound(role, Earlier(D, order, rows, s), s, rows[s])
  BY <1>5, <1>9
<1>11. RowsClear(D, rows)
  <2>1. StateTyped /\ D \in SUBSET Scheduled(session) /\ rows \in [D -> Row] /\ order \in [D -> Nat]
    BY <1>0, <1>4, <1>6, <1>9 DEF Inv
  <2>2. \A s, t \in D : s # t => order[s] # order[t] BY <1>9
  <2>3. \A s \in D : rows[s].status = "SCHEDULED" => Clear(role, Earlier(D, order, rows, s), s, rows[s])
    BY <1>10 DEF Sound
  <2> QED BY <2>1, <2>2, <2>3, OrderedCoaches
<1>12. \A s \in D : rows[s].status = "SCHEDULED" =>
         \A c \in Teaches(role, rows[s]) : ~OnLeave(c, rows[s].slot)
  BY <1>10, SoundCoaches
<1>13. \A s \in D : Teaches(role, rows[s]) \subseteq locks
  <2> TAKE s \in D
  <2>1. session[s] \in Row /\ rows[s] \in Row BY <1>0, <1>4, <1>5 DEF Inv, StateTyped, Scheduled
  <2>2. Teaches(role, rows[s]) \subseteq Resources(session[s], rows[s]) BY <2>1, TeachesLocked
  <2> QED BY <1>7, <2>2
<1>14. /\ Others(q) /\ job'[q].step = "leave" /\ job'[q].locks = locks /\ job'[q].rows = rows
       /\ job'[q].arg = job[q].arg
  BY <1>0, <1>1, TakeEffect DEF Inv
<1>15. \A c, slot : OnLeave(c, slot)' <=> OnLeave(c, slot) BY <1>1 DEF OnLeave
<1>16. Taught(q)' BY <1>1, <1>5, <1>13, <1>14 DEF Taught
<1>17. CoachHeld(q)' BY <1>1, <1>5, <1>11, <1>12, <1>14, <1>15 DEF CoachHeld, RowsClear, Scheduled
<1>18. LeaveSeen(q)'
  <2>1. \A t \in Scheduled(session) : session[t].slot = leave[l].slot
          /\ leave[l].coach \in Teaches(role, session[t]) => t \in D
    BY <1>1 DEF Affected
  <2> QED BY <1>1, <1>5, <1>8, <1>14, <2>1 DEF LeaveSeen, Scheduled, l
<1>19. CoachFit(q)' BY <1>14, <1>16, <1>17, <1>18 DEF CoachFit, AssignFit
<1> QED BY <1>1, <1>14, <1>19, CoachStart

-----------------------------------------------------------------------------
(* Requests end.                                                           *)

\* A request is refused.
LEMMA FailCoach ==
  ASSUME CoachInv, Inv', NEW q \in Jobs, Fail(q)
  PROVE  CoachInv'
<1>1. End(q) /\ UNCHANGED <<session, role, leave, slipped>> BY DEF Fail, ghosts
<1>2. CoachStep({}) /\ \A p \in Jobs : RowStep(p) BY <1>1, StillStep
<1>3. CoachStep(job[q].locks)
  BY <1>2 DEF CoachStep, ClassStep, TeachStep, RoleStep, LeaveStep
<1>4. CoachOnce' /\ LeaveKept' BY <1>1, StillKeeps DEF CoachInv
<1> QED BY <1>1, <1>2, <1>3, <1>4, CoachEnd

\* Rows that were checked are stored: no coach teaches twice.
LEMMA StoreCoach ==
  ASSUME CoachInv, NEW q \in Jobs, job[q].step \in {"create", "move", "leave"}, Store(q),
         role' = role, slipped \subseteq slipped'
  PROVE  /\ ClassStep(job[q].locks) /\ TeachStep(job[q].locks) /\ RoleStep(job[q].locks)
         /\ \A p \in Jobs : RowStep(p)
         /\ CoachOnce'
<1> DEFINE rows == job[q].rows
           D    == DOMAIN rows
           L    == job[q].locks
<1>1. \A t \in Sessions : session'[t] = IF t \in D THEN rows[t] ELSE session[t]
  BY StoreEffect DEF CoachInv, Inv, Fit
<1>2. /\ RowsFit(q) /\ Taught(q) /\ CoachHeld(q) /\ CoachOnce
  BY DEF CoachInv, CoachFit, Inv, Fit
<1>3. \A s \in D :
        \/ session[s].status = "SCHEDULED" /\ rows[s].class = session[s].class
        \/ rows[s].class \in L
  BY <1>2 DEF RowsFit
<1>4. \A s \in D : rows[s].status = "SCHEDULED" =>
        /\ Teaches(role, rows[s]) \subseteq L \cup Slip(s)
        /\ \A t \in Scheduled(session) \ D : session[t].slot = rows[s].slot =>
             Teaches(role, session[t]) \cap Teaches(role, rows[s]) \subseteq Slip(s) \cup Slip(t)
        /\ \A t \in D : t # s /\ rows[t].status = "SCHEDULED" /\ rows[t].slot = rows[s].slot =>
             Teaches(role, rows[t]) \cap Teaches(role, rows[s]) \subseteq Slip(s) \cup Slip(t)
  BY <1>2 DEF Taught, CoachHeld
<1> HIDE DEF rows, D, L
<1>5. \A s, c : c \in Slip(s) => <<s, c>> \in slipped' BY DEF Slip
<1>6. ClassStep(L) BY <1>1, <1>3 DEF ClassStep, Scheduled
<1>7. TeachStep(L) BY <1>1, <1>4, <1>5 DEF TeachStep, Kept, Scheduled
<1>8. RoleStep(L) /\ \A p \in Jobs : RowStep(p) BY DEF RoleStep, RowStep
<1>9. CoachOnce'
  <2> SUFFICES ASSUME NEW s \in Scheduled(session'), NEW t \in Scheduled(session'),
                      s # t, session'[s].slot = session'[t].slot,
                      NEW c \in Teaches(role, session'[s]) \cap Teaches(role, session'[t])
               PROVE  <<s, c>> \in slipped' \/ <<t, c>> \in slipped'
    BY DEF CoachOnce, Scheduled
  <2>1. /\ s \in Sessions /\ session'[s].status = "SCHEDULED"
        /\ t \in Sessions /\ session'[t].status = "SCHEDULED"
    BY DEF Scheduled
  <2>2. CASE s \in D /\ t \in D
    <3>1. c \in Slip(s) \cup Slip(t) BY <1>1, <1>4, <2>1, <2>2
    <3> QED BY <1>5, <3>1
  <2>3. CASE s \in D /\ t \notin D
    <3>1. c \in Slip(s) \cup Slip(t) BY <1>1, <1>4, <2>1, <2>3 DEF Scheduled
    <3> QED BY <1>5, <3>1
  <2>4. CASE s \notin D /\ t \in D
    <3>1. c \in Slip(s) \cup Slip(t) BY <1>1, <1>4, <2>1, <2>4 DEF Scheduled
    <3> QED BY <1>5, <3>1
  <2>5. CASE s \notin D /\ t \notin D BY <1>1, <1>2, <2>1, <2>5 DEF Scheduled, CoachOnce
  <2> QED BY <2>2, <2>3, <2>4, <2>5
<1> QED BY <1>6, <1>7, <1>8, <1>9 DEF L

\* Nor during a leave that was approved before.
LEMMA StoreLeave ==
  ASSUME CoachInv, NEW q \in Jobs, job[q].step \in {"create", "move", "leave"}, Store(q),
         role' = role, slipped \subseteq slipped',
         NEW s \in Scheduled(session'), NEW c \in Coaches, c \in Teaches(role', session'[s]),
         OnLeave(c, session'[s].slot)
  PROVE  <<s, c>> \in slipped'
<1> DEFINE rows == job[q].rows
           D    == DOMAIN rows
<1>1. \A t \in Sessions : session'[t] = IF t \in D THEN rows[t] ELSE session[t]
  BY StoreEffect DEF CoachInv, Inv, Fit
<1>2. CoachHeld(q) /\ LeaveKept BY DEF CoachInv, CoachFit
<1>3. \A t \in D : rows[t].status = "SCHEDULED" =>
        \A d \in Teaches(role, rows[t]) : OnLeave(d, rows[t].slot) => d \in Slip(t)
  BY <1>2 DEF CoachHeld
<1> HIDE DEF rows, D
<1>4. s \in Sessions /\ session'[s].status = "SCHEDULED" BY DEF Scheduled
<1>5. CASE s \in D BY <1>1, <1>3, <1>4, <1>5 DEF Slip
<1>6. CASE s \notin D BY <1>1, <1>2, <1>4, <1>6 DEF LeaveKept, Scheduled
<1> QED BY <1>5, <1>6

\* New sessions and changes of sessions are written.
LEMMA FinishCoach ==
  ASSUME CoachInv, Inv', NEW q \in Jobs, FinishCreate(q) \/ \E s \in Sessions : FinishMove(q, s)
  PROVE  CoachInv'
<1>1. /\ job[q].step \in {"create", "move", "leave"} /\ Store(q) /\ End(q)
      /\ UNCHANGED <<role, leave, slipped>>
  BY DEF FinishCreate, FinishMove
<1>2. /\ ClassStep(job[q].locks) /\ TeachStep(job[q].locks) /\ RoleStep(job[q].locks)
      /\ \A p \in Jobs : RowStep(p)
      /\ CoachOnce'
  BY <1>1, StoreCoach
<1>3. LeaveStep(job[q].locks) BY <1>1 DEF LeaveStep
<1>4. \A c, slot : OnLeave(c, slot)' <=> OnLeave(c, slot) BY <1>1 DEF OnLeave
<1>5. LeaveKept'
  <2> SUFFICES ASSUME NEW s \in Scheduled(session'), NEW c \in Coaches, NEW slot,
                      c \in Teaches(role', session'[s]), slot = session'[s].slot, OnLeave(c, slot)'
               PROVE  <<s, c>> \in slipped'
    BY DEF LeaveKept, Scheduled
  <2>1. OnLeave(c, session'[s].slot) BY <1>4
  <2> QED BY <1>1, <2>1, StoreLeave
<1> QED BY <1>1, <1>2, <1>3, <1>5, CoachEnd DEF CoachStep

\* A leave is approved and its decision written.
LEMMA FinishLeaveCoach ==
  ASSUME CoachInv, Inv', NEW q \in Jobs, FinishLeave(q)
  PROVE  CoachInv'
<1> DEFINE rows  == job[q].rows
           L     == job[q].locks
           l     == job[q].arg.leave
           coach == leave[l].coach
<1>1. /\ job[q].step = "leave" /\ Store(q) /\ End(q)
      /\ leave' = [leave EXCEPT ![l].status = "APPROVED"]
      /\ slipped' = slipped \cup {p \in (DOMAIN rows) \X Coaches :
                                   p[2] = coach /\ coach \in Teaches(role, rows[p[1]])}
      /\ role' = role
  BY DEF FinishLeave
<1>2. StateTyped /\ JobTyped(q) /\ ArgFit(q) /\ LeaveSeen(q) /\ LeaveKept
  BY DEF CoachInv, Inv, Fit, CoachFit
<1>3. l \in Leaves /\ coach \in Coaches /\ coach \in L
  BY <1>1, <1>2 DEF ArgFit, LeaveSeen, StateTyped
<1>4. \A t \in Sessions : session'[t] = IF t \in DOMAIN rows THEN rows[t] ELSE session[t]
  BY <1>1, <1>2, StoreEffect
<1>5. \A x \in Leaves : /\ leave'[x].coach = leave[x].coach /\ leave'[x].slot = leave[x].slot
                        /\ x # l => leave'[x].status = leave[x].status
  BY <1>1, <1>2, <1>3 DEF StateTyped
<1>6. \A t \in Scheduled(session) \ DOMAIN rows :
        session[t].slot = leave[l].slot /\ coach \in Teaches(role, session[t]) => coach \in Slip(t)
  BY <1>1, <1>2 DEF LeaveSeen
<1>7. \A s \in DOMAIN rows : coach \in Teaches(role, rows[s]) => <<s, coach>> \in slipped'
  BY <1>1, <1>3
<1>8. slipped \subseteq slipped' BY <1>1
<1> HIDE DEF rows, L, l, coach
<1>9. ClassStep(L) /\ TeachStep(L) /\ RoleStep(L) /\ (\A p \in Jobs : RowStep(p)) /\ CoachOnce'
  BY <1>1, <1>8, StoreCoach DEF L
<1>10. LeaveStep(L)
  <2> SUFFICES ASSUME NEW x \in Leaves, leave'[x].status = "APPROVED"
               PROVE  leave[x].status = "APPROVED" \/ leave[x].coach \in L
    BY <1>5 DEF LeaveStep
  <2>1. CASE x = l BY <1>3, <2>1 DEF coach
  <2>2. CASE x # l BY <1>5, <2>2
  <2> QED BY <2>1, <2>2
<1>11. LeaveKept'
  <2> SUFFICES ASSUME NEW s \in Scheduled(session'), NEW c \in Coaches, NEW slot,
                      c \in Teaches(role', session'[s]), slot = session'[s].slot, OnLeave(c, slot)'
               PROVE  <<s, c>> \in slipped'
    BY DEF LeaveKept, Scheduled
  <2>1. CASE OnLeave(c, slot) BY <1>1, <1>8, <2>1, StoreLeave
  <2>2. CASE ~OnLeave(c, slot)
    <3>1. PICK x \in Leaves : /\ leave'[x].coach = c /\ leave'[x].slot = slot
                              /\ leave'[x].status = "APPROVED"
      BY DEF OnLeave
    <3>2. x = l BY <1>5, <2>2, <3>1 DEF OnLeave
    <3>3. c = coach /\ session'[s].slot = leave[l].slot BY <1>5, <3>1, <3>2 DEF coach
    <3>4. s \in Sessions /\ session'[s].status = "SCHEDULED" BY DEF Scheduled
    <3>5. CASE s \in DOMAIN rows BY <1>1, <1>4, <1>7, <3>3, <3>4, <3>5
    <3>6. CASE s \notin DOMAIN rows
      <4>1. s \in Scheduled(session) \ DOMAIN rows /\ session'[s] = session[s]
        BY <1>4, <3>4, <3>6 DEF Scheduled
      <4>2. coach \in Slip(s) BY <1>1, <1>6, <3>3, <4>1
      <4> QED BY <1>8, <3>3, <4>2 DEF Slip
    <3> QED BY <3>5, <3>6
  <2> QED BY <2>1, <2>2
<1> QED BY <1>1, <1>8, <1>9, <1>10, <1>11, CoachEnd DEF CoachStep, L

\* A bulk transfer writes rooms, and rooms alone.
LEMMA FinishTransferCoach ==
  ASSUME CoachInv, Inv', NEW q \in Jobs, FinishTransfer(q)
  PROVE  CoachInv'
<1> DEFINE D  == DOMAIN job[q].rows
           to == job[q].arg.to
<1>1. /\ End(q)
      /\ session' = [s \in Sessions |-> IF s \in D THEN [session[s] EXCEPT !.room = to] ELSE session[s]]
      /\ UNCHANGED <<role, leave, slipped>>
  BY DEF FinishTransfer
<1>2. session \in [Sessions -> Row] BY DEF CoachInv, Inv, StateTyped
<1>3. \A t \in Sessions : /\ session'[t].status = session[t].status
                          /\ session'[t].class = session[t].class
                          /\ session'[t].slot = session[t].slot
                          /\ session'[t].sub = session[t].sub
  BY <1>1, <1>2 DEF Row
<1> HIDE DEF D, to
<1>4. \A t \in Sessions : Teaches(role', session'[t]) = Teaches(role, session[t])
  BY <1>1, <1>3 DEF Teaches
<1>5. Scheduled(session') = Scheduled(session) /\ Scheduled(session) \subseteq Sessions
  BY <1>3 DEF Scheduled
<1>6. CoachStep(job[q].locks)
  <2>1. ClassStep(job[q].locks) BY <1>3, <1>5 DEF ClassStep, Scheduled
  <2>2. TeachStep(job[q].locks) BY <1>3, <1>4, <1>5 DEF TeachStep, Kept, Scheduled
  <2> QED BY <1>1, <2>1, <2>2 DEF CoachStep, RoleStep, LeaveStep
<1>7. \A p \in Jobs : RowStep(p) BY <1>1 DEF RowStep
<1>8. CoachOnce' BY <1>1, <1>3, <1>4, <1>5 DEF CoachInv, CoachOnce, Scheduled
<1>9. \A c, slot : OnLeave(c, slot)' <=> OnLeave(c, slot) BY <1>1 DEF OnLeave
<1>10. LeaveKept'
  <2> SUFFICES ASSUME NEW s \in Scheduled(session'), NEW c \in Coaches, NEW slot,
                      c \in Teaches(role', session'[s]), slot = session'[s].slot, OnLeave(c, slot)'
               PROVE  <<s, c>> \in slipped
    BY <1>1 DEF LeaveKept, Scheduled
  <2>1. s \in Scheduled(session) /\ session'[s].slot = session[s].slot
        /\ c \in Teaches(role, session[s])
    BY <1>3, <1>4, <1>5
  <2>2. OnLeave(c, session[s].slot) BY <1>9, <2>1
  <2> QED BY <2>1, <2>2 DEF CoachInv, LeaveKept
<1> QED BY <1>1, <1>6, <1>7, <1>8, <1>10, CoachEnd

\* What an assignment brings to the sessions: a coach who slips in, or the
\* assigned one in a session that is as it was checked.
LEMMA AssignGains ==
  ASSUME CoachInv, NEW q \in Jobs, FinishAssign(q), NEW t \in Scheduled(session),
         NEW d \in Teaches(role', session[t]), <<t, d>> \notin slipped'
  PROVE  \/ d \in Teaches(role, session[t])
         \/ /\ d = job[q].arg.coach /\ t \in SessionsOf(job[q].arg.class)
            /\ session[t] = job[q].rows[t]
<1> DEFINE a  == job[q].arg
           ro == WithCoach(a.class, a.coach, a.as)
<1>1. /\ role' = ro
      /\ slipped' = slipped \cup
           {p \in SessionsOf(a.class) \X Coaches :
              /\ p[2] \in Gains(ro, p[1])
              /\ p[2] # a.coach \/ InFlight(p[1]) \/ session[p[1]] # job[q].rows[p[1]]}
      /\ job[q].step = "assign"
  BY DEF FinishAssign
<1>2. a.class \in Classes /\ a.coach \in Coaches /\ a.as \in {"primary", "support"}
  BY <1>1 DEF CoachInv, Inv, Fit, ArgFit
<1>3. \A x \in Classes : x # a.class => ro[x] = role[x]
  BY <1>2, RolesTyped DEF CoachInv, Inv
<1>4. session[t] \in Row /\ t \in Sessions /\ session[t].class \in Classes
  BY DEF CoachInv, Inv, StateTyped, Scheduled, Row
<1> HIDE DEF a, ro
<1>5. d \in Coaches BY <1>4, TeachesTyped
<1>6. CASE session[t].class # a.class BY <1>1, <1>3, <1>4, <1>6, TeachesOf
<1>7. CASE session[t].class = a.class /\ d \notin Teaches(role, session[t])
  <2>1. t \in SessionsOf(a.class) BY <1>7 DEF SessionsOf
  <2>2. d \in Gains(ro, t) BY <1>1, <1>7 DEF Gains, Versions
  <2>3. <<t, d>> \in SessionsOf(a.class) \X Coaches BY <1>5, <2>1
  <2>4. ~(d # a.coach \/ InFlight(t) \/ session[t] # job[q].rows[t]) BY <1>1, <2>2, <2>3
  <2> QED BY <2>1, <2>4 DEF a
<1> QED BY <1>6, <1>7

\* A coach whom an assignment brings to a row in flight has slipped in.
LEMMA AssignRows ==
  ASSUME CoachInv, NEW q \in Jobs, FinishAssign(q), NEW p \in Jobs
  PROVE  RowStep(p)
<1> DEFINE a  == job[q].arg
           ro == WithCoach(a.class, a.coach, a.as)
<1>1. /\ role' = ro
      /\ slipped' = slipped \cup
           {x \in SessionsOf(a.class) \X Coaches :
              /\ x[2] \in Gains(ro, x[1])
              /\ x[2] # a.coach \/ InFlight(x[1]) \/ session[x[1]] # job[q].rows[x[1]]}
      /\ job[q].step = "assign"
  BY DEF FinishAssign
<1>2. a.class \in Classes /\ a.coach \in Coaches /\ a.as \in {"primary", "support"}
  BY <1>1 DEF CoachInv, Inv, Fit, ArgFit
<1>3. \A x \in Classes : x # a.class => ro[x] = role[x]
  BY <1>2, RolesTyped DEF CoachInv, Inv
<1> HIDE DEF a, ro
<1> SUFFICES ASSUME job[p].step \in Waiting, NEW s \in DOMAIN job[p].rows,
                    NEW d \in Teaches(role', job[p].rows[s]), d \notin Teaches(role, job[p].rows[s])
             PROVE  <<s, d>> \in slipped'
  BY DEF RowStep
<1>4. /\ s \in Sessions /\ job[p].rows[s] \in Row /\ job[p].rows[s].class = session[s].class
      /\ session[s].status = "SCHEDULED"
  BY DEF CoachInv, Inv, Fit, JobTyped, RowsFit, Waiting
<1>5. d \in Coaches /\ session[s].class \in Classes BY <1>4, TeachesTyped DEF Row
<1>6. session[s].class = a.class BY <1>1, <1>3, <1>4, <1>5, TeachesOf
<1>7. s \in SessionsOf(a.class) BY <1>4, <1>6 DEF SessionsOf, Scheduled
<1>8. InFlight(s) BY DEF InFlight, Waiting
<1>9. d \in Gains(ro, s) BY <1>1 DEF Gains, Versions, Waiting
<1>10. <<s, d>> \in SessionsOf(a.class) \X Coaches BY <1>5, <1>7
<1> QED BY <1>1, <1>8, <1>9, <1>10

\* A coach is assigned to the class.
LEMMA FinishAssignCoach ==
  ASSUME CoachInv, Inv', NEW q \in Jobs, FinishAssign(q)
  PROVE  CoachInv'
<1> DEFINE k    == job[q].arg.class
           c    == job[q].arg.coach
           ro   == WithCoach(k, c, job[q].arg.as)
           rows == job[q].rows
           L    == job[q].locks
<1>1. /\ job[q].step = "assign" /\ End(q) /\ role' = ro
      /\ slipped \subseteq slipped'
      /\ UNCHANGED <<session, leave>>
  BY DEF FinishAssign
<1>2. /\ k \in Classes /\ c \in Coaches /\ job[q].arg.as \in {"primary", "support"}
      /\ k \in L /\ c \in L
  BY <1>1 DEF CoachInv, Inv, Fit, ArgFit
<1>3. \A x \in Classes : x # k => ro[x] = role[x] BY <1>2, RolesTyped DEF CoachInv, Inv
<1>4. AssignFit(q) BY DEF CoachInv, CoachFit
<1>5. \A t \in SessionsOf(k) :
        /\ t \in DOMAIN rows
        /\ c \in Teaches(role, session[t]) =>
             c \in Slip(t) \/ (session[t].slot = rows[t].slot /\ session[t].sub = rows[t].sub)
  BY <1>1, <1>4 DEF AssignFit
<1>6. \A s \in DOMAIN rows :
        /\ rows[s].class = k
        /\ c \in Teaches(ro, rows[s]) =>
             /\ ~OnLeave(c, rows[s].slot)
             /\ \A t \in DOMAIN rows :
                  t # s /\ rows[t].slot = rows[s].slot => c \notin Teaches(ro, rows[t])
             /\ \A t \in Scheduled(session) :
                  /\ session[t].class # k /\ session[t].slot = rows[s].slot
                  /\ c \in Teaches(role, session[t])
                  => c \in Slip(t)
  BY <1>1, <1>4 DEF AssignFit
<1>7. \A t \in Scheduled(session) : \A d \in Teaches(ro, session[t]) :
        <<t, d>> \notin slipped' =>
          \/ d \in Teaches(role, session[t])
          \/ d = c /\ t \in SessionsOf(k) /\ session[t] = rows[t]
  BY <1>1, AssignGains
<1>8. \A t \in Scheduled(session) : t \in Sessions /\ session[t].class \in Classes
  BY DEF CoachInv, Inv, StateTyped, Scheduled, Row
<1> HIDE DEF k, c, ro, rows, L
<1>9. CoachStep(L)
  <2>1. ClassStep(L) BY <1>1 DEF ClassStep, Scheduled
  <2>2. TeachStep(L) BY <1>1, <1>2, <1>7 DEF TeachStep, Kept, Scheduled
  <2>3. RoleStep(L) BY <1>1, <1>2, <1>3 DEF RoleStep
  <2>4. LeaveStep(L) BY <1>1 DEF LeaveStep
  <2> QED BY <1>1, <2>1, <2>2, <2>3, <2>4 DEF CoachStep
<1>10. ASSUME NEW s \in SessionsOf(k), session[s] = rows[s], c \in Teaches(ro, session[s]),
              NEW t \in Scheduled(session), t # s, session[t].slot = session[s].slot,
              c \in Teaches(ro, session[t]), <<t, c>> \notin slipped'
       PROVE  FALSE
  <2>1. s \in DOMAIN rows /\ c \in Teaches(ro, rows[s]) BY <1>5, <1>10
  <2>2. c \notin Slip(t) BY <1>1, <1>10 DEF Slip
  <2>3. CASE session[t].class # k
    <3>1. c \in Teaches(role, session[t]) BY <1>3, <1>8, <1>10, <2>3, TeachesOf
    <3> QED BY <1>6, <1>10, <2>1, <2>2, <2>3, <3>1
  <2>4. CASE session[t].class = k
    <3>1. t \in SessionsOf(k) BY <2>4 DEF SessionsOf
    <3>2. session[t].slot = rows[t].slot /\ session[t].sub = rows[t].sub
      BY <1>5, <1>7, <1>10, <2>2, <3>1
    <3>3. t \in DOMAIN rows /\ rows[t].class = session[t].class BY <1>5, <1>6, <2>4, <3>1
    <3>4. c \in Teaches(ro, rows[t]) BY <1>10, <3>2, <3>3 DEF Teaches
    <3> QED BY <1>6, <1>10, <2>1, <3>2, <3>3, <3>4
  <2> QED BY <2>3, <2>4
<1>11. CoachOnce'
  <2> SUFFICES ASSUME NEW s \in Scheduled(session), NEW t \in Scheduled(session),
                      s # t, session[s].slot = session[t].slot,
                      NEW d \in Teaches(ro, session[s]) \cap Teaches(ro, session[t]),
                      <<s, d>> \notin slipped', <<t, d>> \notin slipped'
               PROVE  FALSE
    BY <1>1 DEF CoachOnce, Scheduled
  <2>1. CASE d \in Teaches(role, session[s]) /\ d \in Teaches(role, session[t])
    BY <1>1, <2>1 DEF CoachInv, CoachOnce
  <2>2. CASE d \notin Teaches(role, session[s])
    <3>1. d = c /\ s \in SessionsOf(k) /\ session[s] = rows[s] BY <1>7, <2>2
    <3> QED BY <1>10, <3>1
  <2>3. CASE d \notin Teaches(role, session[t])
    <3>1. d = c /\ t \in SessionsOf(k) /\ session[t] = rows[t] BY <1>7, <2>3
    <3> QED BY <1>10, <3>1
  <2> QED BY <2>1, <2>2, <2>3
<1>12. LeaveKept'
  <2> SUFFICES ASSUME NEW s \in Scheduled(session), NEW d \in Coaches, d \in Teaches(ro, session[s]),
                      OnLeave(d, session[s].slot), <<s, d>> \notin slipped'
               PROVE  FALSE
    <3>1. \A x, slot : OnLeave(x, slot)' <=> OnLeave(x, slot) BY <1>1 DEF OnLeave
    <3> QED BY <1>1, <3>1 DEF LeaveKept, Scheduled
  <2>1. CASE d \in Teaches(role, session[s]) BY <1>1, <2>1 DEF CoachInv, LeaveKept
  <2>2. CASE d \notin Teaches(role, session[s])
    <3>1. d = c /\ s \in SessionsOf(k) /\ session[s] = rows[s] BY <1>7, <2>2
    <3>2. s \in DOMAIN rows /\ c \in Teaches(ro, rows[s]) BY <1>5, <3>1
    <3> QED BY <1>6, <3>1, <3>2
  <2> QED BY <2>1, <2>2
<1> QED BY <1>1, <1>9, <1>11, <1>12, AssignRows, CoachEnd DEF L

-----------------------------------------------------------------------------
(* Handlers of one step.                                                   *)

\* A session is completed or cancelled.
LEMMA CloseSessionCoach ==
  ASSUME CoachInv, Inv', NEW s \in Sessions, Cancel(s) \/ Complete(s)
  PROVE  CoachInv'
<1>1. PICK st \in {"CANCELLED", "COMPLETED"} :
        /\ Quiet({s}) /\ session' = [session EXCEPT ![s].status = st]
        /\ UNCHANGED <<role, leave, job, slipped>>
  BY DEF Cancel, Complete, ghosts
<1>2. session \in [Sessions -> Row] BY DEF CoachInv, Inv, StateTyped
<1>3. \A t \in Scheduled(session') : t \in Scheduled(session) /\ session'[t] = session[t]
  BY <1>1, <1>2 DEF Scheduled, Row
<1>4. CoachStep({s})
  <2>1. ClassStep({s}) BY <1>3 DEF ClassStep, Scheduled
  <2>2. TeachStep({s}) BY <1>1, <1>3 DEF TeachStep, Kept, Scheduled
  <2> QED BY <1>1, <2>1, <2>2 DEF CoachStep, RoleStep, LeaveStep
<1>5. \A p \in Jobs : RowStep(p) BY <1>1 DEF RowStep
<1>6. CoachOnce' BY <1>1, <1>3 DEF CoachInv, CoachOnce, Scheduled
<1>7. \A c, slot : OnLeave(c, slot)' <=> OnLeave(c, slot) BY <1>1 DEF OnLeave
<1>8. LeaveKept' BY <1>1, <1>3, <1>7 DEF CoachInv, LeaveKept, Scheduled
<1> QED BY <1>1, <1>4, <1>5, <1>6, <1>8, CoachDirect

\* A coach is taken off a class.
LEMMA RemoveCoach ==
  ASSUME CoachInv, Inv', NEW k \in Classes, NEW c \in Coaches, Remove(k, c)
  PROVE  CoachInv'
<1> DEFINE ro == [role EXCEPT ![k][c] = "none"]
<1>1. Quiet({k}) /\ role' = ro /\ UNCHANGED <<session, leave, job, slipped>> BY DEF Remove, ghosts
<1>2. role \in [Classes -> [Coaches -> Role]] /\ session \in [Sessions -> Row]
  BY DEF CoachInv, Inv, StateTyped
<1>3. ro = [role EXCEPT ![k] = [role[k] EXCEPT ![c] = "none"]] OBVIOUS
<1>4. \A x \in Classes : /\ x # k => ro[x] = role[x]
                         /\ \A d \in Coaches : ro[x][d] = role[x][d] \/ ro[x][d] = "none"
  BY <1>2, <1>3
<1> HIDE DEF ro
<1>5. \A row \in Row : Teaches(ro, row) \subseteq Teaches(role, row)
  BY <1>4 DEF Teaches, Members, Supports, Row
<1>6. \A t \in Scheduled(session) : session[t] \in Row BY <1>2 DEF Scheduled
<1>7. CoachStep({k})
  <2>1. ClassStep({k}) BY <1>1 DEF ClassStep, Scheduled
  <2>2. TeachStep({k}) BY <1>1, <1>5, <1>6 DEF TeachStep, Kept, Scheduled
  <2> QED BY <1>1, <1>4, <2>1, <2>2 DEF CoachStep, RoleStep, LeaveStep
<1>8. \A p \in Jobs : RowStep(p)
  <2>1. \A p \in Jobs : \A s \in DOMAIN job[p].rows : job[p].rows[s] \in Row
    BY DEF CoachInv, Inv, Fit, JobTyped
  <2> QED BY <1>1, <1>5, <2>1 DEF RowStep
<1>9. CoachOnce' BY <1>1, <1>5, <1>6 DEF CoachInv, CoachOnce, Scheduled
<1>10. \A x, slot : OnLeave(x, slot)' <=> OnLeave(x, slot) BY <1>1 DEF OnLeave
<1>11. LeaveKept' BY <1>1, <1>5, <1>6, <1>10 DEF CoachInv, LeaveKept, Scheduled
<1> QED BY <1>1, <1>7, <1>8, <1>9, <1>11, CoachDirect

\* A leave is rejected.
LEMMA RejectCoach ==
  ASSUME CoachInv, Inv', NEW l \in Leaves, RejectLeave(l)
  PROVE  CoachInv'
<1>1. /\ leave' = [leave EXCEPT ![l].status = "REJECTED"]
      /\ UNCHANGED <<session, role, job, slipped>>
  BY DEF RejectLeave, ghosts
<1>2. \A x \in Leaves : /\ leave'[x].coach = leave[x].coach /\ leave'[x].slot = leave[x].slot
                        /\ leave'[x].status = "APPROVED" => leave[x].status = "APPROVED"
  BY <1>1 DEF CoachInv, Inv, StateTyped
<1>3. \A c, slot : OnLeave(c, slot)' => OnLeave(c, slot) BY <1>2 DEF OnLeave
<1>4. CoachStep({})
  <2>1. ClassStep({}) BY <1>1 DEF ClassStep, Scheduled
  <2>2. TeachStep({}) BY <1>1 DEF TeachStep, Kept, Scheduled
  <2> QED BY <1>1, <1>2, <2>1, <2>2 DEF CoachStep, RoleStep, LeaveStep
<1>5. \A p \in Jobs : RowStep(p) BY <1>1 DEF RowStep
<1>6. CoachOnce' BY <1>1 DEF CoachInv, CoachOnce, Scheduled
<1>7. LeaveKept' BY <1>1, <1>3 DEF CoachInv, LeaveKept, Scheduled
<1>8. Quiet({}) BY DEF Quiet
<1> QED BY <1>1, <1>4, <1>5, <1>6, <1>7, <1>8, CoachDirect

\* The other handlers touch neither sessions nor coaches.
LEMMA StillCoach ==
  ASSUME CoachInv, Inv', UNCHANGED <<session, role, leave, slipped, job>>
  PROVE  CoachInv'
<1>1. CoachStep({}) /\ \A p \in Jobs : RowStep(p) BY StillStep
<1>2. CoachOnce' /\ LeaveKept' BY StillKeeps DEF CoachInv
<1>3. Quiet({}) BY DEF Quiet
<1> QED BY <1>1, <1>2, <1>3, CoachDirect

\* Those handlers are the requests for a change and what is open and when.
LEMMA AsideCoach ==
  ASSUME CoachInv, Inv',
         \/ \E s \in Sessions, c \in Coaches : Ask(s, c)
         \/ \E a \in asked : Decline(a)
         \/ \E r \in Rooms : CloseRoom(r)
         \/ \E k \in Classes : CloseClass(k)
         \/ \E x \in Rooms \cup Classes : Reopen(x)
         \/ \E S \in SUBSET Slots : SetTerm(S)
         \/ CloseTerm
  PROVE  CoachInv'
<1>1. UNCHANGED <<session, role, leave, slipped, job>>
  BY DEF Ask, Decline, CloseRoom, CloseClass, Reopen, SetTerm, CloseTerm, ghosts
<1> QED BY <1>1, StillCoach

-----------------------------------------------------------------------------
(* The theorems.                                                           *)

\* The inductive invariant holds initially: the timetable breaks no rule.
LEMMA CoachInitInv == Init => CoachInv
<1> SUFFICES ASSUME Init PROVE CoachInv OBVIOUS
<1>1. Inv BY InitInv
<1>2. \A s \in Scheduled(session) : Sound(role, session, s, session[s]) BY DEF Init, Lawful
<1>3. CoachOnce
  <2> SUFFICES ASSUME NEW s \in Scheduled(session), NEW t \in Scheduled(session), s # t,
                      session[s].slot = session[t].slot
               PROVE  Teaches(role, session[s]) \cap Teaches(role, session[t]) = {}
    BY DEF CoachOnce
  <2>1. Sound(role, session, s, session[s]) BY <1>2
  <2> QED BY <2>1, SoundCoaches
<1>4. LeaveKept BY <1>2, SoundCoaches DEF LeaveKept
<1>5. \A q \in Jobs : job[q].step = "idle" BY DEF Init, Idle
<1>6. \A q \in Jobs : CoachFit(q)
  BY <1>5 DEF CoachFit, Taught, CoachHeld, LeaveSeen, AssignFit
<1> QED BY <1>1, <1>3, <1>4, <1>6 DEF CoachInv

\* Every step keeps it.
LEMMA CoachNextInv == CoachInv /\ [Next]_vars => CoachInv'
<1> SUFFICES ASSUME CoachInv, [Next]_vars PROVE CoachInv' OBVIOUS
<1>1. Inv' BY NextInv DEF CoachInv
<1>2. CASE UNCHANGED vars BY <1>1, <1>2, StillCoach DEF vars
<1>3. ASSUME NEW q \in Jobs, NEW k \in Classes, NEW r \in Rooms, NEW S \in SUBSET Sessions \ {{}},
             NEW at \in [S -> Slots], Create(q, k, r, at)
      PROVE  CoachInv'
  BY <1>1, <1>3, CreateCoach
<1>4. CASE Next
  BY <1>1, <1>3, <1>4, FailCoach, FinishCoach, ReadCoach, LockMoveCoach, CheckMoveCoach, ApproveCoach,
     FinishTransferCoach, AssignCoach, FinishAssignCoach, CheckLeaveCoach, FinishLeaveCoach,
     CloseSessionCoach, RemoveCoach, RejectCoach, AsideCoach DEF Next
<1> QED BY <1>2, <1>4

\* Every reachable state satisfies the inductive invariant.
THEOREM CoachInvariant == Spec => []CoachInv
<1>1. Init => CoachInv BY CoachInitInv
<1>2. CoachInv /\ [Next]_vars => CoachInv' BY CoachNextInv
<1> QED BY <1>1, <1>2, PTL DEF Spec

\* The coach locks that createScheduleBatch, updateSchedule, the leave decision and
\* assignCoach take cover their checks up to the commit: no coach teaches two
\* sessions at one time, except one whom a change of roles slipped in unchecked.
THEOREM CoachesAreOnce == Spec => []CoachOnce
<1>1. CoachInv => CoachOnce BY DEF CoachInv
<1> QED BY <1>1, CoachInvariant, PTL

\* Nor does a coach teach during an approved leave, with the same exception: the
\* decision holds the coach's lock from the list of his sessions to the commit.
THEOREM LeavesAreKept == Spec => []LeaveKept
<1>1. CoachInv => LeaveKept BY DEF CoachInv
<1> QED BY <1>1, CoachInvariant, PTL
=============================================================================
