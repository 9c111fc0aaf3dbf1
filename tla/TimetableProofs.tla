--------------------------- MODULE TimetableProofs ---------------------------
(***************************************************************************)
(* Proofs about Timetable: for any number of sessions, rooms, coaches and  *)
(* requests.  A request is judged by what it may rely on between its checks *)
(* and its commit: the locks it holds keep the others away (Apart), and    *)
(* the rows it is about to store still fit the timetable (RowsFit,         *)
(* RoomHeld).  The steps of the others are described by the locks they     *)
(* need (SessionStep, RoleStep, ActiveStep), and one frame lemma shows     *)
(* that steps under other locks keep what a request relies on.             *)
(***************************************************************************)
EXTENDS Timetable, FiniteSetTheorems, TLAPS

JobTyped(q) ==
  /\ DOMAIN job[q].rows \subseteq Sessions
  /\ job[q].rows \in [DOMAIN job[q].rows -> Row]
  /\ [step |-> job[q].step, locks |-> job[q].locks, need |-> job[q].need] \in Jobs_

StateTyped ==
  /\ session \in [Sessions -> Row]
  /\ role \in [Classes -> [Coaches -> Role]]
  /\ active \subseteq Rooms \cup Classes
  /\ leave \in [Leaves -> [coach: Coaches, slot: Slots, status: {"PENDING", "APPROVED", "REJECTED"}]]
  /\ asked \subseteq [session: Sessions, coach: Coaches, slot: Slots]
  /\ term \in [slots: SUBSET Slots, closed: BOOLEAN]
  /\ stray \subseteq Sessions
  /\ slipped \subseteq Sessions \X Coaches
  /\ ops \in Nat

\* What the argument of a request may be.
ArgFit(q) ==
  LET j == job[q] IN
  /\ j.step \in {"reread", "transfer"} => {j.arg.from, j.arg.to} \subseteq Rooms
  /\ j.step = "transfer" => j.arg.to \in j.locks
  /\ j.step = "assign" => /\ j.arg.class \in Classes /\ j.arg.coach \in Coaches
                          /\ j.arg.as \in {"primary", "support"}
                          /\ {j.arg.class, j.arg.coach} \subseteq j.locks
  /\ j.step \in {"reload", "leave"} =>
       /\ j.arg.leave \in Leaves /\ j.arg.leave \in j.locks
       /\ DOMAIN j.arg.plan \subseteq Sessions
       /\ \A s \in DOMAIN j.arg.plan : j.arg.plan[s] \in Resolution

\* The rows of a request and the sessions they are about.
RowsFit(q) ==
  LET j == job[q] IN
  \A s \in DOMAIN j.rows :
    /\ j.step # "create" => session[s].status # "NONE"
    /\ j.step \in {"read", "locked", "move", "leave"} => j.rows[s].class = session[s].class
    /\ j.step # "leave" => j.rows[s].status = "SCHEDULED"
    /\ j.step \in {"locked", "move", "leave"} => s \in j.locks /\ session[s].status = "SCHEDULED"
    /\ j.step = "leave" =>
         /\ j.rows[s].status \in {"SCHEDULED", "CANCELLED"}
         /\ j.rows[s].status = "CANCELLED" => j.rows[s].slot = session[s].slot
    /\ j.step \in {"reread", "transfer"} => j.rows[s].room = j.arg.to
    /\ j.step = "create" => /\ j.rows[s].class \in j.locks \cap active
                            /\ OneLead(role, j.rows[s].class)

Checked == {"create", "move", "leave", "transfer"}

\* A request that has been checked holds the rooms of its rows, and nobody else
\* is in them at the time.
RoomHeld(q) ==
  LET j == job[q] IN
  j.step \in Checked =>
    \A s \in DOMAIN j.rows : j.rows[s].status = "SCHEDULED" =>
      /\ j.rows[s].room \in j.locks \cap active
      /\ \A t \in Scheduled(session) \ DOMAIN j.rows :
           session[t].slot = j.rows[s].slot => session[t].room # j.rows[s].room
      /\ j.step # "transfer" =>
           \A t \in DOMAIN j.rows :
             t # s /\ j.rows[t].status = "SCHEDULED" /\ j.rows[t].slot = j.rows[s].slot
               => j.rows[t].room # j.rows[s].room

\* An approved change is for the session and the time it was asked for.
AskFit(q) ==
  LET j == job[q] IN
  j.step \in {"locked", "move"} /\ j.arg # None =>
    /\ DOMAIN j.rows = {j.arg.session}
    /\ session[j.arg.session].slot = j.arg.slot /\ j.rows[j.arg.session].slot = j.arg.slot

\* A request that waits for locks waits for those of the rooms it needs.
NeedFit(q) ==
  LET j == job[q] IN
  /\ j.step = "locked" => \A s \in DOMAIN j.rows : j.rows[s].room \in j.need
  /\ j.step = "reread" => j.arg.to \in j.need

Fit(q) == NeedFit(q) /\ JobTyped(q) /\ ArgFit(q) /\ RowsFit(q) /\ RoomHeld(q) /\ AskFit(q)

Fn    == job = [q \in Jobs |-> job[q]]
Apart == \A p, q \in Jobs : p # q => job[p].locks \cap job[q].locks = {}

Inv == StateTyped /\ Fn /\ Apart /\ (\A q \in Jobs : Fit(q)) /\ RoomOnce /\ InUse /\ WithinTerm

-----------------------------------------------------------------------------
(* What a step does to the requests.                                       *)

Others(q) == \A p \in Jobs : p # q => job'[p] = job[p]

\* A request goes on with the fields it is given.
LEMMA TakeEffect ==
  ASSUME Fn, NEW q \in Jobs, NEW step, NEW locks, NEW rows, NEW need, NEW arg,
         Take(q, step, locks, rows, need, arg)
  PROVE  /\ Fn' /\ Others(q)
         /\ job'[q].step = step /\ job'[q].locks = locks /\ job'[q].rows = rows
         /\ job'[q].need = need /\ job'[q].arg = arg
<1> DEFINE j == [step |-> step, locks |-> locks, rows |-> rows, need |-> need, arg |-> arg]
<1>1. job' = [p \in Jobs |-> IF p = q THEN j ELSE job[p]] BY DEF Take, Fn
<1>2. job'[q] = j /\ Others(q) BY <1>1 DEF Others
<1>3. Fn' BY <1>1 DEF Fn
<1> QED BY <1>2, <1>3

\* A request ends.
LEMMA EndEffect ==
  ASSUME Fn, NEW q \in Jobs, End(q)
  PROVE  Fn' /\ Others(q) /\ job'[q] = Idle
<1>1. job' = [p \in Jobs |-> IF p = q THEN Idle ELSE job[p]] BY DEF End, Fn
<1>2. job'[q] = Idle /\ Others(q) BY <1>1 DEF Others
<1>3. Fn' BY <1>1 DEF Fn
<1> QED BY <1>2, <1>3

\* A request in progress has no locks in common with another.
LEMMA ApartTake ==
  ASSUME Apart, NEW q \in Jobs, Others(q),
         \E L : Free(q, L) /\ job'[q].locks \subseteq job[q].locks \cup L
  PROVE  Apart'
<1>1. PICK L : Free(q, L) /\ job'[q].locks \subseteq job[q].locks \cup L OBVIOUS
<1>2. \A p \in Jobs : p # q => job[p].locks \cap job'[q].locks = {}
  BY <1>1 DEF Free, Held, Apart
<1> QED BY <1>2 DEF Apart, Others

\* A request that ends keeps the others apart.
LEMMA ApartEnd ==
  ASSUME Apart, NEW q \in Jobs, Others(q), job'[q] = Idle
  PROVE  Apart'
<1>1. job'[q].locks = {} BY DEF Idle
<1> QED BY <1>1 DEF Apart, Others

\* An idle request fits whatever the timetable is.
LEMMA IdleFits ==
  ASSUME NEW q \in Jobs, job'[q] = Idle
  PROVE  Fit(q)'
<1>1. /\ job'[q].step = "idle" /\ job'[q].locks = {} /\ job'[q].need = {}
      /\ job'[q].rows = NoRows
  BY DEF Idle
<1>2. DOMAIN NoRows = {} /\ NoRows \in [{} -> Row] BY DEF NoRows
<1>3. JobTyped(q)' BY <1>1, <1>2 DEF JobTyped, Jobs_
<1>4. RowsFit(q)' BY <1>1, <1>2 DEF RowsFit
<1>5. ArgFit(q)' /\ RoomHeld(q)' /\ AskFit(q)' /\ NeedFit(q)'
  BY <1>1 DEF ArgFit, RoomHeld, Checked, AskFit, NeedFit
<1> QED BY <1>3, <1>4, <1>5 DEF Fit

-----------------------------------------------------------------------------
(* What a step under the locks L does to the timetable.                    *)

SessionStep(L) ==
  \A t \in Sessions :
    \/ session'[t] = session[t]
    \/ /\ session[t].status # "NONE" /\ session'[t].room \in L
       /\ session'[t].status = session[t].status /\ session'[t].class = session[t].class
       /\ session'[t].slot = session[t].slot /\ session'[t].sub = session[t].sub
    \/ /\ session[t].status = "NONE" /\ session'[t].status = "SCHEDULED"
       /\ {session'[t].class, session'[t].room} \subseteq L
    \/ /\ t \in L /\ session[t].status = "SCHEDULED" /\ session'[t].status # "NONE"
       /\ session'[t].class = session[t].class
       /\ session'[t].status = "SCHEDULED" => session'[t].room \in L
RoleStep(L)   == \A k \in Classes : role'[k] = role[k] \/ k \in L
ActiveStep(L) == active \ active' \subseteq L

\* A step under other locks keeps what a request relies on.
LEMMA Frame ==
  ASSUME StateTyped, StateTyped', NEW p \in Jobs, Fit(p), job'[p] = job[p],
         NEW L, L \cap job[p].locks = {},
         SessionStep(L), RoleStep(L), ActiveStep(L)
  PROVE  Fit(p)'
<1> DEFINE j == job[p]
<1>1. JobTyped(p)' /\ ArgFit(p)' /\ NeedFit(p)' BY DEF Fit, JobTyped, ArgFit, NeedFit
<1>2. DOMAIN j.rows \subseteq Sessions /\ j.rows \in [DOMAIN j.rows -> Row] BY DEF Fit, JobTyped
<1>3. RowsFit(p)'
  <2> SUFFICES ASSUME NEW s \in DOMAIN j.rows
               PROVE  /\ j.step # "create" => session'[s].status # "NONE"
                      /\ j.step \in {"read", "locked", "move", "leave"} => j.rows[s].class = session'[s].class
                      /\ j.step # "leave" => j.rows[s].status = "SCHEDULED"
                      /\ j.step \in {"locked", "move", "leave"} =>
                           s \in j.locks /\ session'[s].status = "SCHEDULED"
                      /\ j.step = "leave" =>
                           /\ j.rows[s].status \in {"SCHEDULED", "CANCELLED"}
                           /\ j.rows[s].status = "CANCELLED" => j.rows[s].slot = session'[s].slot
                      /\ j.step \in {"reread", "transfer"} => j.rows[s].room = j.arg.to
                      /\ j.step = "create" => /\ j.rows[s].class \in j.locks \cap active'
                                              /\ OneLead(role', j.rows[s].class)
    BY DEF RowsFit
  <2>1. RowsFit(p) /\ s \in Sessions BY <1>2 DEF Fit
  <2>2. j.step = "create" => j.rows[s].class \in Classes /\ j.rows[s].class \notin L
    BY <2>1, <1>2 DEF RowsFit, Row
  <2>3. j.step = "create" => /\ j.rows[s].class \in j.locks \cap active'
                             /\ OneLead(role', j.rows[s].class)
    BY <2>1, <2>2 DEF RowsFit, RoleStep, ActiveStep, OneLead, Leads
  <2>4. j.step \in {"locked", "move", "leave"} => s \notin L BY <2>1 DEF RowsFit
  <2> QED BY <2>1, <2>3, <2>4 DEF RowsFit, SessionStep
<1>4. RoomHeld(p)'
  <2> SUFFICES ASSUME j.step \in Checked, NEW s \in DOMAIN j.rows, j.rows[s].status = "SCHEDULED"
               PROVE  /\ j.rows[s].room \in j.locks \cap active'
                      /\ \A t \in Scheduled(session') \ DOMAIN j.rows :
                           session'[t].slot = j.rows[s].slot => session'[t].room # j.rows[s].room
                      /\ j.step # "transfer" =>
                           \A t \in DOMAIN j.rows :
                             t # s /\ j.rows[t].status = "SCHEDULED" /\ j.rows[t].slot = j.rows[s].slot
                               => j.rows[t].room # j.rows[s].room
    BY DEF RoomHeld, Scheduled
  <2>1. RoomHeld(p) BY DEF Fit
  <2>2. j.rows[s].room \in j.locks \cap active' BY <2>1 DEF RoomHeld, ActiveStep
  <2>3. ASSUME NEW t \in Scheduled(session') \ DOMAIN j.rows, session'[t].slot = j.rows[s].slot
        PROVE  session'[t].room # j.rows[s].room
    <3>1. t \in Sessions /\ session'[t].status = "SCHEDULED" BY <2>3 DEF Scheduled
    <3>2. CASE session'[t].room \in L BY <3>2, <2>2
    <3>3. CASE session'[t].room \notin L
      <4>1. session'[t] = session[t] BY <3>1, <3>3 DEF SessionStep
      <4> QED BY <2>1, <2>3, <3>1, <4>1 DEF RoomHeld, Scheduled
    <3> QED BY <3>2, <3>3
  <2> QED BY <2>1, <2>2, <2>3 DEF RoomHeld
<1>5. AskFit(p)'
  <2>1. AskFit(p) /\ RowsFit(p) BY DEF Fit
  <2> SUFFICES ASSUME j.step \in {"locked", "move"}, j.arg # None
               PROVE  /\ DOMAIN j.rows = {j.arg.session}
                      /\ session'[j.arg.session].slot = j.arg.slot
                      /\ j.rows[j.arg.session].slot = j.arg.slot
    BY DEF AskFit
  <2>2. /\ DOMAIN j.rows = {j.arg.session}
        /\ session[j.arg.session].slot = j.arg.slot /\ j.rows[j.arg.session].slot = j.arg.slot
    BY <2>1 DEF AskFit
  <2>3. j.arg.session \in Sessions /\ j.arg.session \notin L BY <1>2, <2>1, <2>2 DEF RowsFit
  <2>4. session[j.arg.session].status # "NONE" BY <2>1, <2>2 DEF RowsFit
  <2>5. session'[j.arg.session].slot = session[j.arg.session].slot BY <2>3, <2>4 DEF SessionStep
  <2> QED BY <2>2, <2>5
<1> QED BY <1>1, <1>3, <1>4, <1>5 DEF Fit
ClosedKept ==
  \A s \in Sessions : session[s].status \in Closed =>
     session'[s].status = session[s].status /\ session'[s].slot = session[s].slot

\* A step under any locks leaves closed sessions where they are.
LEMMA StepsKeepClosed ==
  ASSUME NEW L, SessionStep(L)
  PROVE  ClosedKept
BY DEF SessionStep, ClosedKept, Closed

-----------------------------------------------------------------------------
(* Three kinds of steps.                                                   *)

\* A request begins or goes on: nothing is written.
LEMMA StartInv ==
  ASSUME Inv, NEW q \in Jobs, Fn', Others(q), Fit(q)', ops' \in Nat,
         UNCHANGED <<session, role, active, leave, asked, term, ghosts>>,
         \E L : Free(q, L) /\ job'[q].locks \subseteq job[q].locks \cup L
  PROVE  Inv' /\ ClosedKept
<1>1. StateTyped' BY DEF Inv, StateTyped, ghosts
<1>2. Apart' BY ApartTake DEF Inv
<1>3. ASSUME NEW p \in Jobs PROVE Fit(p)'
  <2>1. CASE p = q BY <2>1
  <2>2. CASE p # q
    <3>1. job'[p] = job[p] BY <2>2 DEF Others
    <3>2. SessionStep({}) /\ RoleStep({}) /\ ActiveStep({}) BY DEF SessionStep, RoleStep, ActiveStep
    <3>3. StateTyped /\ Fit(p) BY DEF Inv
    <3>4. {} \cap job[p].locks = {} OBVIOUS
    <3> QED BY <1>1, <3>1, <3>2, <3>3, <3>4, Frame
  <2> QED BY <2>1, <2>2
<1>4. RoomOnce' BY DEF Inv, RoomOnce, Scheduled, ghosts
<1>5. InUse' BY DEF Inv, InUse, Scheduled, OneLead, Leads
<1>6. WithinTerm' BY DEF Inv, WithinTerm
<1> QED BY <1>1, <1>2, <1>3, <1>4, <1>5, <1>6 DEF Inv, ClosedKept

\* A request ends, and has written under its locks.
LEMMA EndInv ==
  ASSUME Inv, NEW q \in Jobs, End(q), StateTyped',
         SessionStep(job[q].locks), RoleStep(job[q].locks), ActiveStep(job[q].locks),
         RoomOnce', InUse', WithinTerm'
  PROVE  Inv' /\ ClosedKept
<1>1. Fn' /\ Others(q) /\ job'[q] = Idle BY EndEffect DEF Inv
<1>2. Apart' BY <1>1, ApartEnd DEF Inv
<1>3. ASSUME NEW p \in Jobs PROVE Fit(p)'
  <2>1. CASE p = q BY <1>1, <2>1, IdleFits
  <2>2. CASE p # q
    <3>1. job'[p] = job[p] BY <1>1, <2>2 DEF Others
    <3>2. job[q].locks \cap job[p].locks = {} BY <2>2 DEF Inv, Apart
    <3>3. StateTyped /\ Fit(p) BY DEF Inv
    <3> QED BY <3>1, <3>2, <3>3, Frame
  <2> QED BY <2>1, <2>2
<1> QED BY <1>1, <1>2, <1>3, StepsKeepClosed DEF Inv

\* A handler of one step has written under locks that nobody else holds.
LEMMA DirectInv ==
  ASSUME Inv, UNCHANGED job, StateTyped', NEW L, Quiet(L),
         SessionStep(L), RoleStep(L), ActiveStep(L),
         RoomOnce', InUse', WithinTerm'
  PROVE  Inv' /\ ClosedKept
<1>1. Fn' /\ Apart' BY DEF Inv, Fn, Apart
<1>2. ASSUME NEW p \in Jobs PROVE Fit(p)'
  <2>1. job'[p] = job[p] OBVIOUS
  <2>2. L \cap job[p].locks = {} BY DEF Quiet
  <2>3. StateTyped /\ Fit(p) BY DEF Inv
  <2> QED BY <2>1, <2>2, <2>3, Frame
<1> QED BY <1>1, <1>2, StepsKeepClosed DEF Inv

-----------------------------------------------------------------------------
(* Requests begin and go on.                                               *)

\* The coaches of a class and of a session are coaches, the locks of a row locks.
LEMMA ResourcesTyped ==
  ASSUME NEW old \in Row, NEW row \in Row
  PROVE  Resources(old, row) \subseteq Locks /\ row.room \in Resources(old, row)
BY DEF Resources, Row, Members, Locks

\* Who is to teach a row is among its resources.
LEMMA TeachesLocked ==
  ASSUME NEW old \in Row, NEW row \in Row
  PROVE  Teaches(role, row) \subseteq Resources(old, row)
BY DEF Resources, Row, Members, Supports, Teaches

\* A batch of new sessions.
LEMMA CreateInv ==
  ASSUME Inv, NEW q \in Jobs, NEW k \in Classes, NEW r \in Rooms, NEW S \in SUBSET Sessions,
         NEW at \in [S -> Slots], Create(q, k, r, at)
  PROVE  Inv' /\ ClosedKept
<1> DEFINE rows  == [s \in DOMAIN at |-> [status |-> "SCHEDULED", class |-> k, room |-> r,
                                          slot |-> at[s], sub |-> None]]
           locks == {k, r} \cup Members(role, k)
<1>1. Take(q, "create", locks, rows, {}, None) /\ Free(q, locks) /\ ops' \in Nat
  BY DEF Create, Serve, Inv, StateTyped
<1>2. UNCHANGED <<session, role, active, leave, asked, term, ghosts>> BY DEF Create
<1>3. \A s \in S : Sound(role, session, s, rows[s]) BY DEF Create
<1>4. \A s, t \in S : s # t => at[s] # at[t] BY DEF Create
<1>5. DOMAIN rows = S /\ \A s \in S : rows[s] \in Row /\ rows[s].class = k /\ rows[s].room = r
                        /\ rows[s].status = "SCHEDULED" /\ rows[s].slot = at[s] /\ rows[s].sub = None
  BY DEF Row, Status
<1>6. locks \subseteq Locks BY DEF Locks, Members
<1>7. k \in locks /\ r \in locks OBVIOUS
<1>8. rows \in [S -> Row] BY <1>5
<1> HIDE DEF rows, locks
<1>9. /\ Fn' /\ Others(q)
      /\ job'[q].step = "create" /\ job'[q].locks = locks /\ job'[q].rows = rows
      /\ job'[q].need = {} /\ job'[q].arg = None
  BY <1>1, TakeEffect DEF Inv
<1>10. JobTyped(q)' BY <1>5, <1>6, <1>8, <1>9 DEF JobTyped, Jobs_
<1>11. RowsFit(q)'
  <2>1. \A s \in S : k \in active /\ OneLead(role, k) BY <1>3, <1>5 DEF Sound, Resourced
  <2> QED BY <1>2, <1>5, <1>7, <1>9, <2>1 DEF RowsFit, OneLead, Leads
<1>12. RoomHeld(q)'
  <2>1. ASSUME NEW s \in S
        PROVE  /\ r \in locks \cap active
               /\ \A t \in Scheduled(session) \ S : session[t].slot = at[s] => session[t].room # r
    BY <1>3, <1>5, <1>7 DEF Sound, Resourced, Clear
  <2> QED BY <1>2, <1>4, <1>5, <1>9, <2>1 DEF RoomHeld, Scheduled
<1>13. Fit(q)' BY <1>9, <1>10, <1>11, <1>12 DEF Fit, ArgFit, AskFit, NeedFit
<1> QED BY <1>1, <1>2, <1>9, <1>13, StartInv

\* A change of a session is read.
LEMMA ReadMoveInv ==
  ASSUME Inv, NEW q \in Jobs, NEW s \in Sessions, NEW slot \in Slots, NEW r \in Rooms,
         NEW c \in Coaches \cup {None}, ReadMove(q, s, slot, r, c)
  PROVE  Inv' /\ ClosedKept
<1> DEFINE row  == [session[s] EXCEPT !.slot = slot, !.room = r, !.sub = c]
           rows == [x \in {s} |-> row]
<1>1. Take(q, "read", {}, rows, {}, None) /\ ops' \in Nat /\ session[s].status = "SCHEDULED"
  BY DEF ReadMove, Serve, Inv, StateTyped
<1>2. UNCHANGED <<session, role, active, leave, asked, term, ghosts>> BY DEF ReadMove
<1>3. session[s] \in Row BY DEF Inv, StateTyped
<1>4. row \in Row /\ row.status = "SCHEDULED" /\ row.class = session[s].class BY <1>1, <1>3 DEF Row
<1>5. DOMAIN rows = {s} /\ rows[s] = row /\ rows \in [{s} -> Row] BY <1>4
<1> HIDE DEF row, rows
<1>6. /\ Fn' /\ Others(q)
      /\ job'[q].step = "read" /\ job'[q].locks = {} /\ job'[q].rows = rows
      /\ job'[q].need = {} /\ job'[q].arg = None
  BY <1>1, TakeEffect DEF Inv
<1>7. JobTyped(q)' BY <1>5, <1>6 DEF JobTyped, Jobs_
<1>8. RowsFit(q)' BY <1>1, <1>2, <1>4, <1>5, <1>6 DEF RowsFit
<1>9. Fit(q)' BY <1>6, <1>7, <1>8 DEF Fit, ArgFit, AskFit, NeedFit, RoomHeld, Checked
<1>10. \E L : Free(q, L) /\ job'[q].locks \subseteq job[q].locks \cup L
  <2>1. Free(q, {}) /\ job'[q].locks \subseteq job[q].locks \cup {} BY <1>6 DEF Free
  <2> QED BY <2>1
<1> QED BY <1>1, <1>2, <1>6, <1>9, <1>10, StartInv

\* It is locked, by updateSchedule or by the approval of a coach change.
LEMMA LockInv ==
  ASSUME Inv, NEW q \in Jobs, NEW s \in Sessions, NEW row \in Row, NEW a,
         Take(q, "locked", {s}, [x \in {s} |-> row], Resources(session[s], row), a),
         Free(q, {s}), ops' \in Nat,
         UNCHANGED <<session, role, active, leave, asked, term, ghosts>>,
         session[s].status = "SCHEDULED", row.status = "SCHEDULED", row.class = session[s].class,
         a # None => a.session = s /\ session[s].slot = a.slot /\ row.slot = a.slot
  PROVE  Inv' /\ ClosedKept
<1> DEFINE rows == [x \in {s} |-> row]
           need == Resources(session[s], row)
<1>1. DOMAIN rows = {s} /\ rows[s] = row /\ rows \in [{s} -> Row] OBVIOUS
<1>2. session[s] \in Row BY DEF Inv, StateTyped
<1>3. need \subseteq Locks BY <1>2, ResourcesTyped
<1>4. Take(q, "locked", {s}, rows, need, a) OBVIOUS
<1> HIDE DEF rows, need
<1>5. /\ Fn' /\ Others(q)
      /\ job'[q].step = "locked" /\ job'[q].locks = {s} /\ job'[q].rows = rows
      /\ job'[q].need = need /\ job'[q].arg = a
  BY <1>4, TakeEffect DEF Inv
<1>6. JobTyped(q)' BY <1>1, <1>3, <1>5 DEF JobTyped, Jobs_, Locks
<1>7. RowsFit(q)' BY <1>1, <1>5 DEF RowsFit
<1>8. AskFit(q)' BY <1>1, <1>5 DEF AskFit
<1>11. row.room \in need BY <1>2, ResourcesTyped DEF need
<1>9. Fit(q)' BY <1>1, <1>5, <1>6, <1>7, <1>8, <1>11 DEF Fit, ArgFit, NeedFit, RoomHeld, Checked
<1>10. \E L : Free(q, L) /\ job'[q].locks \subseteq job[q].locks \cup L BY <1>5
<1> QED BY <1>5, <1>9, <1>10, StartInv

\* updateSchedule locks the row it has read.
LEMMA LockMoveInv ==
  ASSUME Inv, NEW q \in Jobs, NEW s \in Sessions, LockMove(q, s)
  PROVE  Inv' /\ ClosedKept
<1> DEFINE given == job[q].rows[s]
           row   == [given EXCEPT !.sub = IF @ = None THEN session[s].sub ELSE @]
<1>1. JobTyped(q) /\ RowsFit(q) BY DEF Inv, Fit
<1>2. job[q].step = "read" /\ DOMAIN job[q].rows = {s} BY DEF LockMove
<1>3. given \in Row /\ session[s] \in Row BY <1>1, <1>2 DEF JobTyped, Inv, StateTyped
<1>4. given.status = "SCHEDULED" /\ given.class = session[s].class BY <1>1, <1>2 DEF RowsFit
<1>5. row \in Row /\ row.status = "SCHEDULED" /\ row.class = session[s].class BY <1>3, <1>4 DEF Row
<1>6. /\ Take(q, "locked", {s}, [x \in {s} |-> row], Resources(session[s], row), None)
      /\ Free(q, {s}) /\ ops' \in Nat /\ session[s].status = "SCHEDULED"
      /\ UNCHANGED <<session, role, active, leave, asked, term, ghosts>>
  BY DEF LockMove, Inv, StateTyped
<1> HIDE DEF row, given
<1> QED BY <1>5, <1>6, LockInv

\* The approval of a coach change locks the session with the coach asked for.
LEMMA ApproveInv ==
  ASSUME Inv, NEW q \in Jobs, NEW a \in asked, NEW c \in Coaches, Approve(q, a, c)
  PROVE  Inv' /\ ClosedKept
<1> DEFINE s   == a.session
           row == [session[s] EXCEPT !.sub = c]
<1>1. s \in Sessions BY DEF Inv, StateTyped
<1>2. session[s] \in Row BY <1>1 DEF Inv, StateTyped
<1>3. /\ Take(q, "locked", {s}, [x \in {s} |-> row], Resources(session[s], row), a)
      /\ Free(q, {s}) /\ ops' \in Nat /\ session[s].status = "SCHEDULED" /\ session[s].slot = a.slot
      /\ UNCHANGED <<session, role, active, leave, asked, term, ghosts>>
  BY DEF Approve, Inv, StateTyped, Serve
<1>4. /\ row \in Row /\ row.status = "SCHEDULED" /\ row.class = session[s].class
      /\ row.slot = session[s].slot
  BY <1>2, <1>3 DEF Row
<1>5. a # None => a.session = s /\ session[s].slot = a.slot /\ row.slot = a.slot BY <1>3, <1>4
<1> HIDE DEF row, s
<1> QED BY <1>1, <1>3, <1>4, <1>5, LockInv

\* It is checked under the locks of its resources.
LEMMA CheckMoveInv ==
  ASSUME Inv, NEW q \in Jobs, NEW s \in Sessions, CheckMove(q, s)
  PROVE  Inv' /\ ClosedKept
<1> DEFINE rows  == job[q].rows
           locks == job[q].locks \cup job[q].need
<1>1. JobTyped(q) /\ RowsFit(q) /\ AskFit(q) /\ NeedFit(q) BY DEF Inv, Fit
<1>2. /\ job[q].step = "locked" /\ DOMAIN rows = {s} /\ Free(q, job[q].need)
      /\ Sound(role, session, s, rows[s])
      /\ Take(q, "move", locks, rows, {}, job[q].arg) /\ ops' \in Nat
      /\ UNCHANGED <<session, role, active, leave, asked, term, ghosts>>
  BY DEF CheckMove, Inv, StateTyped
<1>3. rows[s].room \in locks BY <1>1, <1>2 DEF NeedFit
<1>4. rows[s] \in Row /\ rows[s].status = "SCHEDULED" BY <1>1, <1>2 DEF JobTyped, RowsFit
<1>5. /\ rows[s].room \in active
      /\ \A t \in Scheduled(session) \ {s} : session[t].slot = rows[s].slot => session[t].room # rows[s].room
  BY <1>2 DEF Sound, Resourced, Clear
<1>6. locks \subseteq Locks BY <1>1 DEF JobTyped, Jobs_
<1>7. job[q].locks \subseteq locks OBVIOUS
<1>8. /\ Fn' /\ Others(q)
      /\ job'[q].step = "move" /\ job'[q].locks = locks /\ job'[q].rows = job[q].rows
      /\ job'[q].need = {} /\ job'[q].arg = job[q].arg
  BY <1>2, TakeEffect DEF Inv
<1>9. \E L : Free(q, L) /\ job'[q].locks \subseteq job[q].locks \cup L BY <1>2, <1>8
<1> HIDE DEF locks
<1>10. JobTyped(q)' BY <1>1, <1>6, <1>8 DEF JobTyped, Jobs_
<1>11. RowsFit(q)' BY <1>1, <1>2, <1>7, <1>8 DEF RowsFit
<1>12. RoomHeld(q)' BY <1>2, <1>3, <1>5, <1>8 DEF RoomHeld, Scheduled
<1>13. AskFit(q)' BY <1>1, <1>2, <1>8 DEF AskFit
<1>14. Fit(q)' BY <1>8, <1>10, <1>11, <1>12, <1>13 DEF Fit, ArgFit, NeedFit
<1> QED BY <1>2, <1>8, <1>9, <1>14, StartInv

\* A bulk transfer reads its sessions.
LEMMA ReadTransferInv ==
  ASSUME Inv, NEW q \in Jobs, NEW from \in Rooms, NEW to \in Rooms, ReadTransfer(q, from, to)
  PROVE  Inv' /\ ClosedKept
<1> DEFINE S    == {s \in Scheduled(session) : session[s].room = from}
           rows == [s \in S |-> [session[s] EXCEPT !.room = to]]
           need == {to} \cup UNION {Members(role, session[s].class) : s \in S}
           arg  == [from |-> from, to |-> to]
<1>1. /\ Take(q, "reread", {}, rows, need, arg) /\ ops' \in Nat
      /\ UNCHANGED <<session, role, active, leave, asked, term, ghosts>>
  BY DEF ReadTransfer, Serve, Inv, StateTyped
<1>2. S \subseteq Sessions /\ \A s \in S : session[s].status = "SCHEDULED" BY DEF Scheduled
<1>3. \A s \in S : session[s] \in Row BY <1>2 DEF Inv, StateTyped
<1>4. \A s \in S : /\ [session[s] EXCEPT !.room = to] \in Row
                   /\ [session[s] EXCEPT !.room = to].room = to
                   /\ [session[s] EXCEPT !.room = to].status = "SCHEDULED"
  BY <1>2, <1>3 DEF Row
<1>5. /\ DOMAIN rows = S /\ rows \in [S -> Row]
      /\ \A s \in S : rows[s].room = to /\ rows[s].status = "SCHEDULED"
  BY <1>4
<1>6. need \subseteq Locks /\ to \in need BY DEF Locks, Members
<1>7. arg.from = from /\ arg.to = to OBVIOUS
<1> HIDE DEF S, rows, need, arg
<1>8. /\ Fn' /\ Others(q)
      /\ job'[q].step = "reread" /\ job'[q].locks = {} /\ job'[q].rows = rows
      /\ job'[q].need = need /\ job'[q].arg = arg
  BY <1>1, TakeEffect DEF Inv
<1>9. JobTyped(q)' BY <1>2, <1>5, <1>6, <1>8 DEF JobTyped, Jobs_
<1>10. RowsFit(q)' BY <1>1, <1>2, <1>5, <1>7, <1>8 DEF RowsFit
<1>11. ArgFit(q)' /\ NeedFit(q)' BY <1>6, <1>7, <1>8 DEF ArgFit, NeedFit
<1>12. Fit(q)' BY <1>8, <1>9, <1>10, <1>11 DEF Fit, AskFit, RoomHeld, Checked
<1>13. \E L : Free(q, L) /\ job'[q].locks \subseteq job[q].locks \cup L
  <2>1. Free(q, {}) /\ job'[q].locks \subseteq job[q].locks \cup {} BY <1>8 DEF Free
  <2> QED BY <2>1
<1> QED BY <1>1, <1>8, <1>12, <1>13, StartInv

\* It takes its locks and checks the rows it has read.
LEMMA CheckTransferInv ==
  ASSUME Inv, NEW q \in Jobs, CheckTransfer(q)
  PROVE  Inv' /\ ClosedKept
<1> DEFINE rows == job[q].rows
           need == job[q].need
<1>1. JobTyped(q) /\ RowsFit(q) /\ ArgFit(q) /\ NeedFit(q) BY DEF Inv, Fit
<1>2. /\ job[q].step = "reread" /\ Free(q, need)
      /\ \A s \in DOMAIN rows : Sound(role, session, s, rows[s])
      /\ Take(q, "transfer", need, rows, {}, job[q].arg) /\ ops' \in Nat
      /\ UNCHANGED <<session, role, active, leave, asked, term, ghosts>>
  BY DEF CheckTransfer, Inv, StateTyped
<1>3. \A s \in DOMAIN rows :
        /\ rows[s].room \in need \cap active
        /\ \A t \in Scheduled(session) \ {s} : session[t].slot = rows[s].slot => session[t].room # rows[s].room
  BY <1>1, <1>2 DEF Sound, Resourced, Clear, RowsFit, NeedFit
<1>4. /\ Fn' /\ Others(q)
      /\ job'[q].step = "transfer" /\ job'[q].locks = need /\ job'[q].rows = job[q].rows
      /\ job'[q].need = {} /\ job'[q].arg = job[q].arg
  BY <1>2, TakeEffect DEF Inv
<1>5. JobTyped(q)' BY <1>1, <1>4 DEF JobTyped, Jobs_
<1>6. RowsFit(q)' BY <1>1, <1>2, <1>4 DEF RowsFit
<1>7. RoomHeld(q)' BY <1>2, <1>3, <1>4 DEF RoomHeld, Scheduled
<1>8. ArgFit(q)' BY <1>1, <1>2, <1>4 DEF ArgFit, NeedFit
<1>9. Fit(q)' BY <1>4, <1>5, <1>6, <1>7, <1>8 DEF Fit, AskFit, NeedFit
<1>10. \E L : Free(q, L) /\ job'[q].locks \subseteq job[q].locks \cup L BY <1>2, <1>4
<1> QED BY <1>2, <1>4, <1>9, <1>10, StartInv

\* A coach is assigned to a class.
LEMMA AssignInv ==
  ASSUME Inv, NEW q \in Jobs, NEW k \in Classes, NEW c \in Coaches, NEW as \in {"primary", "support"},
         Assign(q, k, c, as)
  PROVE  Inv' /\ ClosedKept
<1> DEFINE rows  == [s \in SessionsOf(k) |-> session[s]]
           locks == {k, c}
           arg   == [class |-> k, coach |-> c, as |-> as]
<1>1. /\ Take(q, "assign", locks, rows, {}, arg) /\ ops' \in Nat /\ Free(q, locks)
      /\ UNCHANGED <<session, role, active, leave, asked, term, ghosts>>
  BY DEF Assign, Serve, Inv, StateTyped
<1>2. SessionsOf(k) \subseteq Sessions /\ \A s \in SessionsOf(k) : session[s].status = "SCHEDULED"
  BY DEF SessionsOf, Scheduled
<1>3. DOMAIN rows = SessionsOf(k) /\ rows \in [SessionsOf(k) -> Row]
      /\ \A s \in SessionsOf(k) : rows[s] = session[s]
  BY <1>2 DEF Inv, StateTyped
<1>4. locks \subseteq Locks /\ k \in locks /\ c \in locks BY DEF Locks
<1>5. arg.class = k /\ arg.coach = c /\ arg.as = as OBVIOUS
<1> HIDE DEF rows, locks, arg
<1>6. /\ Fn' /\ Others(q)
      /\ job'[q].step = "assign" /\ job'[q].locks = locks /\ job'[q].rows = rows
      /\ job'[q].need = {} /\ job'[q].arg = arg
  BY <1>1, TakeEffect DEF Inv
<1>7. JobTyped(q)' BY <1>2, <1>3, <1>4, <1>6 DEF JobTyped, Jobs_
<1>8. RowsFit(q)' BY <1>1, <1>2, <1>3, <1>6 DEF RowsFit
<1>9. ArgFit(q)' BY <1>4, <1>5, <1>6 DEF ArgFit
<1>10. Fit(q)' BY <1>6, <1>7, <1>8, <1>9 DEF Fit, AskFit, NeedFit, RoomHeld, Checked
<1>11. \E L : Free(q, L) /\ job'[q].locks \subseteq job[q].locks \cup L BY <1>1, <1>6
<1> QED BY <1>1, <1>6, <1>10, <1>11, StartInv

\* The rows a decision about a leave leads to.
LEMMA PlanRows ==
  ASSUME StateTyped, NEW plan, DOMAIN plan \subseteq Scheduled(session),
         \A s \in DOMAIN plan : plan[s] \in Resolution
  PROVE  /\ DOMAIN Plan(plan) = DOMAIN plan
         /\ \A s \in DOMAIN plan :
              /\ Plan(plan)[s] \in Row
              /\ Plan(plan)[s].class = session[s].class
              /\ Plan(plan)[s].status = IF plan[s].act = "CANCEL" THEN "CANCELLED" ELSE "SCHEDULED"
              /\ plan[s].act = "CANCEL" => Plan(plan)[s].slot = session[s].slot
<1>1. DOMAIN Plan(plan) = DOMAIN plan BY DEF Plan
<1>2. ASSUME NEW s \in DOMAIN plan
      PROVE  /\ Resolved(session[s], plan[s]) \in Row
             /\ Resolved(session[s], plan[s]).class = session[s].class
             /\ Resolved(session[s], plan[s]).status = IF plan[s].act = "CANCEL" THEN "CANCELLED" ELSE "SCHEDULED"
             /\ plan[s].act = "CANCEL" => Resolved(session[s], plan[s]).slot = session[s].slot
  <2>1. session[s] \in Row /\ session[s].status = "SCHEDULED" BY DEF StateTyped, Scheduled
  <2>2. CASE plan[s] \in [act: {"REPLACE"}, coach: Coaches]
    <3>1. Resolved(session[s], plan[s]) = [session[s] EXCEPT !.sub = plan[s].coach] BY <2>2 DEF Resolved
    <3> QED BY <2>1, <2>2, <3>1 DEF Row
  <2>3. CASE plan[s] \in [act: {"MOVE"}, slot: Slots, room: Rooms]
    <3>1. Resolved(session[s], plan[s]) = [session[s] EXCEPT !.slot = plan[s].slot, !.room = plan[s].room]
      BY <2>3 DEF Resolved
    <3> QED BY <2>1, <2>3, <3>1 DEF Row
  <2>4. CASE plan[s] \in [act: {"CANCEL"}]
    <3>1. Resolved(session[s], plan[s]) = [session[s] EXCEPT !.status = "CANCELLED"] BY <2>4 DEF Resolved
    <3> QED BY <2>1, <2>4, <3>1 DEF Row, Status
  <2> QED BY <2>2, <2>3, <2>4 DEF Resolution
<1> QED BY <1>1, <1>2 DEF Plan

\* The locks of a decision are locks, and hold the rooms its rows go to.
LEMMA LeaveLocksTyped ==
  ASSUME StateTyped, NEW l \in Leaves, NEW plan, DOMAIN plan \subseteq Scheduled(session),
         \A s \in DOMAIN plan : plan[s] \in Resolution
  PROVE  /\ LeaveLocks(l, plan) \subseteq Locks
         /\ DOMAIN plan \subseteq LeaveLocks(l, plan)
         /\ \A s \in DOMAIN plan : Resources(session[s], Plan(plan)[s]) \subseteq LeaveLocks(l, plan)
<1>1. DOMAIN plan \subseteq Sessions /\ \A s \in DOMAIN plan : session[s] \in Row
  BY DEF StateTyped, Scheduled
<1>2. \A s \in DOMAIN plan : Resources(session[s], Plan(plan)[s]) \subseteq Locks
  BY <1>1, PlanRows, ResourcesTyped
<1>3. leave[l].coach \in Coaches BY DEF StateTyped
<1> QED BY <1>1, <1>2, <1>3 DEF LeaveLocks, Locks

\* A decision about a leave is read.
LEMMA ReadLeaveInv ==
  ASSUME Inv, NEW q \in Jobs, NEW l \in Leaves, NEW plan \in [Affected(l) -> Resolution],
         ReadLeave(q, l, plan)
  PROVE  Inv' /\ ClosedKept
<1> DEFINE arg == [leave |-> l, plan |-> plan]
<1>1. /\ Take(q, "reload", {l}, NoRows, LeaveLocks(l, plan), arg) /\ ops' \in Nat /\ Free(q, {l})
      /\ UNCHANGED <<session, role, active, leave, asked, term, ghosts>>
  BY DEF ReadLeave, Serve, Inv, StateTyped
<1>2. /\ DOMAIN plan \subseteq Scheduled(session) /\ DOMAIN plan \subseteq Sessions
      /\ \A s \in DOMAIN plan : plan[s] \in Resolution
  BY DEF Affected, Scheduled
<1>3. LeaveLocks(l, plan) \subseteq Locks BY <1>2, LeaveLocksTyped DEF Inv
<1>4. arg.leave = l /\ arg.plan = plan OBVIOUS
<1> HIDE DEF arg
<1>5. /\ Fn' /\ Others(q)
      /\ job'[q].step = "reload" /\ job'[q].locks = {l} /\ job'[q].rows = NoRows
      /\ job'[q].need = LeaveLocks(l, plan) /\ job'[q].arg = arg
  BY <1>1, TakeEffect DEF Inv
<1>6. DOMAIN NoRows = {} /\ NoRows \in [{} -> Row] BY DEF NoRows
<1>7. JobTyped(q)' BY <1>3, <1>5, <1>6 DEF JobTyped, Jobs_, Locks
<1>8. ArgFit(q)' BY <1>2, <1>4, <1>5 DEF ArgFit
<1>9. Fit(q)' BY <1>5, <1>6, <1>7, <1>8 DEF Fit, RowsFit, AskFit, NeedFit, RoomHeld, Checked
<1>10. \E L : Free(q, L) /\ job'[q].locks \subseteq job[q].locks \cup L BY <1>1, <1>5
<1> QED BY <1>1, <1>5, <1>9, <1>10, StartInv

\* The timetable that the check of row s finds.
Earlier(D, order, rows, s) ==
  Overlay(session, [t \in {t \in D : order[t] < order[s]} |-> rows[t]])

\* What the checks of a decision, one after the other, show of its rows: each is
\* clear of the sessions it leaves alone and of the other rows.
LEMMA OrderedClear ==
  ASSUME StateTyped, NEW D \in SUBSET Scheduled(session), NEW rows \in [D -> Row],
         NEW order \in [D -> Nat], \A s, t \in D : s # t => order[s] # order[t],
         \A s \in D : rows[s].status = "SCHEDULED" =>
            Clear(role, Earlier(D, order, rows, s), s, rows[s])
  PROVE  \A s \in D : rows[s].status = "SCHEDULED" =>
           /\ \A t \in Scheduled(session) \ D : session[t].slot = rows[s].slot =>
                /\ session[t].room # rows[s].room
                /\ Teaches(role, session[t]) \cap Teaches(role, rows[s]) = {}
           /\ \A t \in D : t # s /\ rows[t].status = "SCHEDULED" /\ rows[t].slot = rows[s].slot =>
                /\ rows[t].room # rows[s].room
                /\ Teaches(role, rows[t]) \cap Teaches(role, rows[s]) = {}
<1> DEFINE Early(s) == {t \in D : order[t] < order[s]}
           Seen(s)  == Earlier(D, order, rows, s)
<1>1. D \subseteq Sessions BY DEF Scheduled
<1>2. ASSUME NEW s \in D, NEW t \in Sessions
      PROVE  Seen(s)[t] = IF t \in Early(s) THEN rows[t] ELSE session[t]
  BY DEF Earlier, Overlay
<1>3. \A s \in D : rows[s].status = "SCHEDULED" => Clear(role, Seen(s), s, rows[s]) OBVIOUS
<1> HIDE DEF Seen
<1>4. ASSUME NEW s \in D, rows[s].status = "SCHEDULED", NEW t \in Scheduled(session) \ D,
             session[t].slot = rows[s].slot
      PROVE  /\ session[t].room # rows[s].room
             /\ Teaches(role, session[t]) \cap Teaches(role, rows[s]) = {}
  <2>1. t \in Sessions /\ t \notin Early(s) /\ t # s /\ session[t].status = "SCHEDULED"
    BY <1>4 DEF Scheduled
  <2>2. Seen(s)[t] = session[t] BY <1>2, <2>1
  <2> QED BY <1>3, <1>4, <2>1, <2>2 DEF Clear, Scheduled
<1>5. ASSUME NEW s \in D, NEW t \in D, order[t] < order[s],
             rows[s].status = "SCHEDULED", rows[t].status = "SCHEDULED", rows[t].slot = rows[s].slot
      PROVE  /\ rows[t].room # rows[s].room
             /\ Teaches(role, rows[t]) \cap Teaches(role, rows[s]) = {}
  <2>1. t \in Sessions /\ t \in Early(s) /\ t # s BY <1>1, <1>5
  <2>2. Seen(s)[t] = rows[t] BY <1>2, <2>1
  <2> QED BY <1>3, <1>5, <2>1, <2>2 DEF Clear, Scheduled
<1>6. \A s, t \in D : s # t => order[s] < order[t] \/ order[t] < order[s] OBVIOUS
<1> HIDE DEF Early
<1> QED BY <1>4, <1>5, <1>6

\* The decision takes its locks and checks what it leads to.
LEMMA CheckLeaveInv ==
  ASSUME Inv, NEW q \in Jobs, CheckLeave(q)
  PROVE  Inv' /\ ClosedKept
<1> DEFINE l     == job[q].arg.leave
           plan  == job[q].arg.plan
           rows  == Plan(plan)
           locks == job[q].locks \cup job[q].need \cup LeaveLocks(l, plan)
<1>1. JobTyped(q) /\ ArgFit(q) BY DEF Inv, Fit
<1>2. /\ job[q].step = "reload" /\ Free(q, locks) /\ DOMAIN plan = Affected(l)
      /\ Take(q, "leave", locks, rows, {}, job[q].arg) /\ ops' \in Nat
      /\ UNCHANGED <<session, role, active, leave, asked, term, ghosts>>
  BY DEF CheckLeave, Inv, StateTyped
<1>3. PICK order \in [DOMAIN plan -> 1..Cardinality(DOMAIN plan)] :
        /\ \A s, t \in DOMAIN plan : s # t => order[s] # order[t]
        /\ \A s \in DOMAIN plan : plan[s].act # "CANCEL" =>
             Sound(role,
                   Overlay(session, [t \in {t \in DOMAIN plan : order[t] < order[s]} |-> rows[t]]),
                   s, rows[s])
  BY DEF CheckLeave
<1>4. /\ l \in Leaves /\ DOMAIN plan \subseteq Scheduled(session) /\ DOMAIN plan \subseteq Sessions
      /\ \A s \in DOMAIN plan : plan[s] \in Resolution /\ session[s].status = "SCHEDULED"
  BY <1>1, <1>2 DEF ArgFit, Affected, Scheduled
<1>5. /\ DOMAIN rows = DOMAIN plan
      /\ \A s \in DOMAIN plan :
           /\ rows[s] \in Row /\ rows[s].class = session[s].class
           /\ rows[s].status = IF plan[s].act = "CANCEL" THEN "CANCELLED" ELSE "SCHEDULED"
           /\ plan[s].act = "CANCEL" => rows[s].slot = session[s].slot
  BY <1>4, PlanRows DEF Inv
<1>6. rows \in [DOMAIN plan -> Row] BY <1>5 DEF Plan
<1>7. /\ LeaveLocks(l, plan) \subseteq Locks /\ DOMAIN plan \subseteq LeaveLocks(l, plan)
      /\ \A s \in DOMAIN plan : Resources(session[s], rows[s]) \subseteq LeaveLocks(l, plan)
  BY <1>4, LeaveLocksTyped DEF Inv
<1>8. locks \subseteq Locks /\ DOMAIN plan \subseteq locks /\ l \in locks
  BY <1>1, <1>2, <1>7 DEF JobTyped, Jobs_, ArgFit
<1>9. \A s \in DOMAIN plan : rows[s].room \in locks
  <2> TAKE s \in DOMAIN plan
  <2>1. session[s] \in Row BY <1>4 DEF Inv, StateTyped
  <2>2. rows[s].room \in Resources(session[s], rows[s]) BY <1>5, <2>1, ResourcesTyped
  <2> QED BY <1>7, <2>2
<1>10. order \in [DOMAIN plan -> Nat]
  <2>1. IsFiniteSet(DOMAIN plan) BY <1>4, FS_Subset, TimetableConstants
  <2>2. Cardinality(DOMAIN plan) \in Nat BY <2>1, FS_CardinalityType
  <2> QED BY <2>2
<1>11. \A s \in DOMAIN plan : rows[s].status = "SCHEDULED" =>
         /\ rows[s].room \in active
         /\ Clear(role, Overlay(session, [t \in {t \in DOMAIN plan : order[t] < order[s]} |-> rows[t]]),
                  s, rows[s])
  BY <1>3, <1>5 DEF Sound, Resourced
<1> DEFINE D == DOMAIN plan
<1> HIDE DEF l, plan, rows, locks, D
<1>12. \A s \in D : rows[s].status = "SCHEDULED" =>
         /\ \A t \in Scheduled(session) \ D : session[t].slot = rows[s].slot =>
              session[t].room # rows[s].room
         /\ \A t \in D : t # s /\ rows[t].status = "SCHEDULED" /\ rows[t].slot = rows[s].slot =>
              rows[t].room # rows[s].room
  <2>1. StateTyped /\ D \in SUBSET Scheduled(session) /\ rows \in [D -> Row] /\ order \in [D -> Nat]
    BY <1>4, <1>6, <1>10 DEF Inv, D
  <2>2. \A s, t \in D : s # t => order[s] # order[t] BY <1>3 DEF D
  <2>3. \A s \in D : rows[s].status = "SCHEDULED" => Clear(role, Earlier(D, order, rows, s), s, rows[s])
    BY <1>11 DEF D, Earlier
  <2> QED BY ONLY <2>1, <2>2, <2>3, OrderedClear
<1>13. /\ Fn' /\ Others(q)
       /\ job'[q].step = "leave" /\ job'[q].locks = locks /\ job'[q].rows = rows
       /\ job'[q].need = {} /\ job'[q].arg = job[q].arg
  BY <1>2, TakeEffect DEF Inv
<1>14. JobTyped(q)' BY <1>4, <1>5, <1>6, <1>8, <1>13 DEF JobTyped, Jobs_
<1>15. RowsFit(q)' BY <1>2, <1>4, <1>5, <1>8, <1>13 DEF RowsFit
<1>16. RoomHeld(q)'
  BY <1>2, <1>5, <1>9, <1>11, <1>12, <1>13 DEF RoomHeld, Scheduled, D
<1>17. ArgFit(q)' BY <1>1, <1>2, <1>8, <1>13 DEF ArgFit, l
<1>18. Fit(q)' BY <1>13, <1>14, <1>15, <1>16, <1>17 DEF Fit, AskFit, NeedFit
<1>19. \E L : Free(q, L) /\ job'[q].locks \subseteq job[q].locks \cup L BY <1>2, <1>13
<1> QED BY <1>2, <1>13, <1>18, <1>19, StartInv

-----------------------------------------------------------------------------
(* Requests end.                                                           *)

\* What storing the rows of a request does to the sessions.
LEMMA StoreEffect ==
  ASSUME StateTyped, NEW q \in Jobs, JobTyped(q), Store(q)
  PROVE  /\ session' \in [Sessions -> Row] /\ stray' \subseteq Sessions
         /\ \A t \in Sessions : session'[t] = IF t \in DOMAIN job[q].rows THEN job[q].rows[t]
                                             ELSE session[t]
         /\ stray' = stray \ DOMAIN job[q].rows
  BY DEF Store, Overlay, StateTyped, JobTyped

\* Rows that were checked are stored: no room is taken twice.
LEMMA StoreRooms ==
  ASSUME Inv, NEW q \in Jobs, job[q].step \in {"create", "move", "leave"}, Store(q)
  PROVE  RoomOnce'
<1> DEFINE rows == job[q].rows
           D    == DOMAIN rows
<1>1. /\ \A t \in Sessions : session'[t] = IF t \in D THEN rows[t] ELSE session[t]
      /\ stray' = stray \ D
  BY StoreEffect DEF Inv, Fit
<1>2. RoomHeld(q) BY DEF Inv, Fit
<1>3. \A s \in D : rows[s].status = "SCHEDULED" =>
        /\ \A t \in Scheduled(session) \ D : session[t].slot = rows[s].slot => session[t].room # rows[s].room
        /\ \A t \in D : t # s /\ rows[t].status = "SCHEDULED" /\ rows[t].slot = rows[s].slot
                        => rows[t].room # rows[s].room
  BY <1>2 DEF RoomHeld, Checked
<1>4. RoomOnce BY DEF Inv
<1> HIDE DEF rows, D
<1> SUFFICES ASSUME NEW s \in Scheduled(session') \ stray', NEW t \in Scheduled(session') \ stray',
                    s # t, session'[s].slot = session'[t].slot
             PROVE  session'[s].room # session'[t].room
  BY DEF RoomOnce, Scheduled
<1>5. /\ s \in Sessions /\ session'[s].status = "SCHEDULED"
      /\ t \in Sessions /\ session'[t].status = "SCHEDULED"
  BY DEF Scheduled
<1>6. CASE s \in D /\ t \in D BY <1>1, <1>3, <1>5, <1>6
<1>7. CASE s \in D /\ t \notin D BY <1>1, <1>3, <1>5, <1>7 DEF Scheduled
<1>8. CASE s \notin D /\ t \in D BY <1>1, <1>3, <1>5, <1>8 DEF Scheduled
<1>9. CASE s \notin D /\ t \notin D BY <1>1, <1>4, <1>5, <1>9 DEF Scheduled, RoomOnce
<1> QED BY <1>6, <1>7, <1>8, <1>9

\* A request is refused.
LEMMA FailInv ==
  ASSUME Inv, NEW q \in Jobs, Fail(q)
  PROVE  Inv' /\ ClosedKept
<1>1. /\ End(q) /\ UNCHANGED <<session, role, active, leave, asked, term, stray, slipped, ops>>
  BY DEF Fail, ghosts
<1>2. StateTyped' BY <1>1 DEF Inv, StateTyped
<1>3. SessionStep(job[q].locks) /\ RoleStep(job[q].locks) /\ ActiveStep(job[q].locks)
  BY <1>1 DEF SessionStep, RoleStep, ActiveStep
<1>4. RoomOnce' /\ InUse' /\ WithinTerm'
  BY <1>1 DEF Inv, RoomOnce, InUse, WithinTerm, Scheduled, OneLead, Leads
<1> QED BY <1>1, <1>2, <1>3, <1>4, EndInv

\* New sessions are inserted.
LEMMA FinishCreateInv ==
  ASSUME Inv, NEW q \in Jobs, FinishCreate(q)
  PROVE  Inv' /\ ClosedKept
<1> DEFINE rows == job[q].rows
           L    == job[q].locks
<1>1. /\ job[q].step = "create" /\ Store(q) /\ End(q)
      /\ \A s \in DOMAIN rows : session[s].status = "NONE" /\ InTerm(rows[s].slot)
      /\ UNCHANGED <<role, active, leave, asked, term, slipped, ops>>
  BY DEF FinishCreate
<1>2. JobTyped(q) /\ RowsFit(q) /\ RoomHeld(q) BY DEF Inv, Fit
<1>3. /\ session' \in [Sessions -> Row] /\ stray' \subseteq Sessions
      /\ \A t \in Sessions : session'[t] = IF t \in DOMAIN rows THEN rows[t] ELSE session[t]
  BY <1>1, <1>2, StoreEffect DEF Inv
<1>4. \A s \in DOMAIN rows :
        /\ rows[s].status = "SCHEDULED" /\ rows[s].room \in L \cap active
        /\ rows[s].class \in L \cap active /\ OneLead(role, rows[s].class)
  BY <1>1, <1>2 DEF RowsFit, RoomHeld, Checked
<1> HIDE DEF rows, L
<1>5. StateTyped' BY <1>1, <1>3 DEF Inv, StateTyped
<1>6. SessionStep(L) /\ RoleStep(L) /\ ActiveStep(L)
  BY <1>1, <1>3, <1>4 DEF SessionStep, RoleStep, ActiveStep
<1>7. RoomOnce' BY <1>1, StoreRooms
<1>8. InUse' BY <1>1, <1>3, <1>4 DEF Inv, InUse, Scheduled, OneLead, Leads
<1>9. WithinTerm' BY <1>1, <1>3 DEF Inv, WithinTerm, InTerm
<1> QED BY <1>1, <1>5, <1>6, <1>7, <1>8, <1>9, EndInv DEF L

\* A checked change is written.
LEMMA FinishMoveInv ==
  ASSUME Inv, NEW q \in Jobs, NEW s \in Sessions, FinishMove(q, s)
  PROVE  Inv' /\ ClosedKept
<1> DEFINE rows == job[q].rows
           L    == job[q].locks
<1>1. /\ job[q].step = "move" /\ DOMAIN rows = {s} /\ Store(q) /\ End(q)
      /\ session[s].status = "SCHEDULED" /\ InTerm(rows[s].slot)
      /\ asked' \subseteq asked
      /\ UNCHANGED <<role, active, leave, term, slipped, ops>>
  BY DEF FinishMove
<1>2. JobTyped(q) /\ RowsFit(q) /\ RoomHeld(q) BY DEF Inv, Fit
<1>3. /\ session' \in [Sessions -> Row] /\ stray' \subseteq Sessions
      /\ \A t \in Sessions : session'[t] = IF t = s THEN rows[s] ELSE session[t]
  BY <1>1, <1>2, StoreEffect DEF Inv
<1>4. /\ rows[s].status = "SCHEDULED" /\ rows[s].room \in L \cap active
      /\ rows[s].class = session[s].class /\ s \in L
  BY <1>1, <1>2 DEF RowsFit, RoomHeld, Checked
<1> HIDE DEF rows, L
<1>5. StateTyped' BY <1>1, <1>3 DEF Inv, StateTyped
<1>6. SessionStep(L) /\ RoleStep(L) /\ ActiveStep(L)
  BY <1>1, <1>3, <1>4 DEF SessionStep, RoleStep, ActiveStep
<1>7. RoomOnce' BY <1>1, StoreRooms
<1>8. InUse' BY <1>1, <1>3, <1>4 DEF Inv, InUse, Scheduled, OneLead, Leads
<1>9. WithinTerm' BY <1>1, <1>3 DEF Inv, WithinTerm, InTerm
<1> QED BY <1>1, <1>5, <1>6, <1>7, <1>8, <1>9, EndInv DEF L

\* A decision about a leave is written.
LEMMA FinishLeaveInv ==
  ASSUME Inv, NEW q \in Jobs, FinishLeave(q)
  PROVE  Inv' /\ ClosedKept
<1> DEFINE rows == job[q].rows
           L    == job[q].locks
           l    == job[q].arg.leave
<1>1. /\ job[q].step = "leave" /\ Store(q) /\ End(q)
      /\ \A s \in DOMAIN rows : rows[s].status = "SCHEDULED" => InTerm(rows[s].slot)
      /\ leave' = [leave EXCEPT ![l].status = "APPROVED"]
      /\ slipped' = slipped \cup {p \in (DOMAIN rows) \X Coaches :
                                   p[2] = leave[l].coach /\ leave[l].coach \in Teaches(role, rows[p[1]])}
      /\ UNCHANGED <<role, active, asked, term, ops>>
  BY DEF FinishLeave
<1>2. JobTyped(q) /\ RowsFit(q) /\ RoomHeld(q) /\ ArgFit(q) BY DEF Inv, Fit
<1>3. /\ session' \in [Sessions -> Row] /\ stray' \subseteq Sessions
      /\ \A t \in Sessions : session'[t] = IF t \in DOMAIN rows THEN rows[t] ELSE session[t]
  BY <1>1, <1>2, StoreEffect DEF Inv
<1>4. \A s \in DOMAIN rows :
        /\ s \in L /\ s \in Sessions
        /\ rows[s].class = session[s].class /\ session[s].status = "SCHEDULED"
        /\ rows[s].status \in {"SCHEDULED", "CANCELLED"}
        /\ rows[s].status = "SCHEDULED" => rows[s].room \in L \cap active
        /\ rows[s].status = "CANCELLED" => rows[s].slot = session[s].slot
  BY <1>1, <1>2 DEF RowsFit, RoomHeld, JobTyped, Checked
<1>5. leave' \in [Leaves -> [coach: Coaches, slot: Slots, status: {"PENDING", "APPROVED", "REJECTED"}]]
  BY <1>1, <1>2 DEF Inv, StateTyped, ArgFit
<1>6. slipped' \subseteq Sessions \X Coaches BY <1>1, <1>4 DEF Inv, StateTyped
<1> HIDE DEF rows, L, l
<1>7. StateTyped' BY <1>1, <1>3, <1>5, <1>6 DEF Inv, StateTyped
<1>8. SessionStep(L) /\ RoleStep(L) /\ ActiveStep(L)
  <2>1. SessionStep(L)
    <3> SUFFICES ASSUME NEW t \in Sessions, t \in DOMAIN rows
                 PROVE  /\ t \in L /\ session[t].status = "SCHEDULED" /\ session'[t].status # "NONE"
                        /\ session'[t].class = session[t].class
                        /\ session'[t].status = "SCHEDULED" => session'[t].room \in L
      BY <1>3 DEF SessionStep
    <3> QED BY <1>3, <1>4
  <2> QED BY <1>1, <2>1 DEF RoleStep, ActiveStep
<1>9. RoomOnce' BY <1>1, StoreRooms
<1>10. InUse' BY <1>1, <1>3, <1>4 DEF Inv, InUse, Scheduled, OneLead, Leads
<1>11. WithinTerm'
  <2> SUFFICES ASSUME NEW s \in Sessions, session'[s].status # "NONE" PROVE session'[s].slot \in term.slots
    BY <1>1 DEF WithinTerm
  <2>1. CASE s \in DOMAIN rows BY <1>1, <1>3, <1>4, <2>1 DEF Inv, WithinTerm, InTerm
  <2>2. CASE s \notin DOMAIN rows BY <1>3, <2>2 DEF Inv, WithinTerm
  <2> QED BY <2>1, <2>2
<1> QED BY <1>1, <1>7, <1>8, <1>9, <1>10, <1>11, EndInv DEF L

\* A bulk transfer writes its room into the sessions it has read.
LEMMA FinishTransferInv ==
  ASSUME Inv, NEW q \in Jobs, FinishTransfer(q)
  PROVE  Inv' /\ ClosedKept
<1> DEFINE rows == job[q].rows
           L    == job[q].locks
           to   == job[q].arg.to
           from == job[q].arg.from
           D    == DOMAIN rows
<1>1. /\ job[q].step = "transfer" /\ End(q)
      /\ session' = [s \in Sessions |-> IF s \in D THEN [session[s] EXCEPT !.room = to] ELSE session[s]]
      /\ stray' = stray \cup {s \in D : session[s].slot # rows[s].slot \/ session[s].room # from}
      /\ UNCHANGED <<role, active, leave, asked, term, slipped, ops>>
  BY DEF FinishTransfer
<1>2. JobTyped(q) /\ RowsFit(q) /\ RoomHeld(q) /\ ArgFit(q) BY DEF Inv, Fit
<1>3. D \subseteq Sessions /\ to \in Rooms /\ to \in L BY <1>1, <1>2 DEF JobTyped, ArgFit
<1>4. session \in [Sessions -> Row] BY DEF Inv, StateTyped
<1>5. \A s \in D : /\ [session[s] EXCEPT !.room = to] \in Row
                   /\ [session[s] EXCEPT !.room = to].room = to
                   /\ [session[s] EXCEPT !.room = to].status = session[s].status
                   /\ [session[s] EXCEPT !.room = to].class = session[s].class
                   /\ [session[s] EXCEPT !.room = to].slot = session[s].slot
                   /\ [session[s] EXCEPT !.room = to].sub = session[s].sub
  BY <1>3, <1>4 DEF Row
<1>6. \A s \in D : /\ session[s].status # "NONE" /\ rows[s].status = "SCHEDULED" /\ rows[s].room = to
                   /\ rows[s].room \in active
                   /\ \A t \in Scheduled(session) \ D : session[t].slot = rows[s].slot => session[t].room # to
  BY <1>1, <1>2 DEF RowsFit, RoomHeld, Checked
<1> HIDE DEF rows, L, to, from, D
<1>7. /\ session' \in [Sessions -> Row]
      /\ \A t \in Sessions : /\ session'[t].status = session[t].status
                              /\ session'[t].class = session[t].class
                              /\ session'[t].slot = session[t].slot
                              /\ session'[t].sub = session[t].sub
                              /\ session'[t].room = IF t \in D THEN to ELSE session[t].room
  BY <1>1, <1>3, <1>4, <1>5
<1>8. \A t \in Sessions : t \notin D => session'[t] = session[t] BY <1>1
<1>9. StateTyped' BY <1>1, <1>3, <1>7 DEF Inv, StateTyped
<1>10. SessionStep(L) /\ RoleStep(L) /\ ActiveStep(L)
  BY <1>1, <1>3, <1>6, <1>7, <1>8 DEF SessionStep, RoleStep, ActiveStep
<1>11. RoomOnce'
  <2> SUFFICES ASSUME NEW s \in Scheduled(session') \ stray', NEW t \in Scheduled(session') \ stray',
                      s # t, session'[s].slot = session'[t].slot
               PROVE  session'[s].room # session'[t].room
    BY DEF RoomOnce, Scheduled
  <2>1. /\ s \in Sessions /\ s \in Scheduled(session) \ stray
        /\ t \in Sessions /\ t \in Scheduled(session) \ stray
    BY <1>1, <1>7 DEF Scheduled
  <2>2. session[s].room # session[t].room BY <1>7, <2>1 DEF Inv, RoomOnce
  <2>7. \A x \in D : x \notin stray' => session[x].slot = rows[x].slot /\ session[x].room = from BY <1>1
  <2>8. ASSUME NEW x \in D, x \notin stray', NEW y \in Scheduled(session) \ D, session[x].slot = session[y].slot
        PROVE  session[y].room # to
    BY <1>6, <2>7, <2>8
  <2>3. CASE s \in D /\ t \in D BY <2>2, <2>3, <2>7
  <2>4. CASE s \in D /\ t \notin D BY <1>7, <2>1, <2>4, <2>8
  <2>5. CASE s \notin D /\ t \in D BY <1>7, <2>1, <2>5, <2>8
  <2>6. CASE s \notin D /\ t \notin D BY <1>7, <2>1, <2>2, <2>6
  <2> QED BY <2>3, <2>4, <2>5, <2>6
<1>12. InUse'
  BY <1>1, <1>6, <1>7 DEF Inv, InUse, Scheduled, OneLead, Leads
<1>13. WithinTerm' BY <1>1, <1>7 DEF Inv, WithinTerm
<1> QED BY <1>1, <1>9, <1>10, <1>11, <1>12, <1>13, EndInv DEF L

\* The roles an assignment leads to.
LEMMA RolesTyped ==
  ASSUME StateTyped, NEW k \in Classes, NEW c \in Coaches, NEW as \in {"primary", "support"}
  PROVE  /\ WithCoach(k, c, as) \in [Classes -> [Coaches -> Role]]
         /\ \A x \in Classes : x # k => WithCoach(k, c, as)[x] = role[x]
<1>1. Promoted(k, c, as) \in [Coaches -> Role]
  <2>1. \A d \in Coaches : (IF d = c THEN as
                             ELSE IF as = "primary" /\ role[k][d] = "primary" THEN "support"
                             ELSE role[k][d]) \in Role
    <3>1. role[k] \in [Coaches -> Role] BY DEF StateTyped
    <3>2. as \in Role /\ "support" \in Role BY DEF Role
    <3> QED BY <3>1, <3>2
  <2> QED BY <2>1 DEF Promoted
<1> QED BY <1>1 DEF WithCoach, StateTyped

\* A coach becomes the primary or a support coach of a class.
LEMMA FinishAssignInv ==
  ASSUME Inv, NEW q \in Jobs, FinishAssign(q)
  PROVE  Inv' /\ ClosedKept
<1> DEFINE a  == job[q].arg
           ro == WithCoach(a.class, a.coach, a.as)
           L  == job[q].locks
           new == {p \in SessionsOf(a.class) \X Coaches :
                    /\ p[2] \in Gains(ro, p[1])
                    /\ p[2] # a.coach \/ InFlight(p[1]) \/ session[p[1]] # job[q].rows[p[1]]}
<1>1. /\ job[q].step = "assign" /\ End(q) /\ role' = ro
      /\ SessionsOf(a.class) # {} => OneLead(ro, a.class)
      /\ slipped' = slipped \cup new
      /\ UNCHANGED <<session, active, leave, asked, term, stray, ops>>
  BY DEF FinishAssign
<1>2. a.class \in Classes /\ a.coach \in Coaches /\ a.as \in {"primary", "support"} /\ a.class \in L
  BY <1>1 DEF Inv, Fit, ArgFit
<1>3. ro \in [Classes -> [Coaches -> Role]] /\ \A x \in Classes : x # a.class => ro[x] = role[x]
  BY <1>2, RolesTyped DEF Inv
<1>4. new \subseteq Sessions \X Coaches BY DEF SessionsOf, Scheduled
<1> HIDE DEF ro, L, new
<1>5. StateTyped' BY <1>1, <1>3, <1>4 DEF Inv, StateTyped
<1>6. SessionStep(L) /\ RoleStep(L) /\ ActiveStep(L)
  BY <1>1, <1>2, <1>3 DEF SessionStep, RoleStep, ActiveStep
<1>7. RoomOnce' /\ WithinTerm' BY <1>1 DEF Inv, RoomOnce, WithinTerm, Scheduled
<1>8. InUse'
  <2> SUFFICES ASSUME NEW s \in Scheduled(session)
               PROVE  {session[s].class, session[s].room} \subseteq active /\ OneLead(ro, session[s].class)
    BY <1>1 DEF InUse, Scheduled
  <2>1. session[s].class \in Classes BY DEF Inv, StateTyped, Scheduled, Row
  <2>2. CASE session[s].class = a.class BY <1>1, <2>2 DEF SessionsOf, Inv, InUse
  <2>3. CASE session[s].class # a.class BY <1>3, <2>1, <2>3 DEF Inv, InUse, OneLead, Leads
  <2> QED BY <2>2, <2>3
<1> QED BY <1>1, <1>5, <1>6, <1>7, <1>8, EndInv DEF L

-----------------------------------------------------------------------------
(* Handlers of one step.                                                   *)

\* A session is completed or cancelled.
LEMMA CloseSessionInv ==
  ASSUME Inv, NEW s \in Sessions, Cancel(s) \/ Complete(s)
  PROVE  Inv' /\ ClosedKept
<1>1. PICK st \in {"CANCELLED", "COMPLETED"} :
        /\ Quiet({s}) /\ session[s].status = "SCHEDULED"
        /\ session' = [session EXCEPT ![s].status = st]
        /\ UNCHANGED <<role, active, leave, asked, term, job, stray, slipped>> /\ ops' \in Nat
  BY DEF Cancel, Complete, Serve, Inv, StateTyped, ghosts
<1>2. session \in [Sessions -> Row] /\ session[s] \in Row BY DEF Inv, StateTyped
<1> DEFINE row == [session[s] EXCEPT !.status = st]
<1>3. session' = [session EXCEPT ![s] = row] BY <1>1
<1>4. /\ row \in Row /\ row.status = st /\ row.class = session[s].class
      /\ row.slot = session[s].slot
  BY <1>2 DEF Row, Status
<1> HIDE DEF row
<1>5. session' \in [Sessions -> Row] /\ \A t \in Sessions : session'[t] = IF t = s THEN row ELSE session[t]
  BY <1>2, <1>3, <1>4
<1>6. StateTyped' BY <1>1, <1>5 DEF Inv, StateTyped
<1>7. SessionStep({s}) /\ RoleStep({s}) /\ ActiveStep({s})
  BY <1>1, <1>4, <1>5 DEF SessionStep, RoleStep, ActiveStep
<1>8. \A t \in Scheduled(session') : t \in Scheduled(session) /\ session'[t] = session[t]
  BY <1>4, <1>5 DEF Scheduled
<1>9. RoomOnce' BY <1>1, <1>8 DEF Inv, RoomOnce, Scheduled
<1>10. InUse' BY <1>1, <1>8 DEF Inv, InUse, Scheduled, OneLead, Leads
<1>11. WithinTerm' BY <1>1, <1>4, <1>5 DEF Inv, WithinTerm
<1> QED BY <1>1, <1>6, <1>7, <1>9, <1>10, <1>11, DirectInv

\* Handlers that write neither sessions nor roles nor what is open.
LEMMA AsideInv ==
  ASSUME Inv, UNCHANGED <<session, role, active, job, stray, slipped>>, StateTyped', WithinTerm'
  PROVE  Inv' /\ ClosedKept
<1>1. SessionStep({}) /\ RoleStep({}) /\ ActiveStep({}) BY DEF SessionStep, RoleStep, ActiveStep
<1>2. Quiet({}) BY DEF Quiet
<1>3. RoomOnce' /\ InUse' BY DEF Inv, RoomOnce, InUse, Scheduled, OneLead, Leads
<1> QED BY <1>1, <1>2, <1>3, DirectInv

\* A coach asks for a change, withdraws it, or is refused.
LEMMA AskInv ==
  ASSUME Inv, \/ \E s \in Sessions, c \in Coaches : Ask(s, c)
              \/ \E a \in asked : Decline(a)
  PROVE  Inv' /\ ClosedKept
<1>1. UNCHANGED <<session, role, active, leave, term, job, stray, slipped>> /\ ops' \in Nat
  <2>1. ops \in Nat BY DEF Inv, StateTyped
  <2>2. ASSUME NEW s \in Sessions, NEW c \in Coaches, Ask(s, c)
        PROVE  UNCHANGED <<session, role, active, leave, term, job, stray, slipped>> /\ ops' = ops + 1
    BY <2>2 DEF Ask, Serve, ghosts
  <2>3. ASSUME NEW a \in asked, Decline(a)
        PROVE  UNCHANGED <<session, role, active, leave, term, job, stray, slipped>> /\ ops' = ops + 1
    BY <2>3 DEF Decline, Serve, ghosts
  <2> QED BY <2>1, <2>2, <2>3
<1>2. asked' \subseteq [session: Sessions, coach: Coaches, slot: Slots]
  <2>1. ASSUME NEW s \in Sessions, NEW c \in Coaches, Ask(s, c)
        PROVE  asked' \subseteq [session: Sessions, coach: Coaches, slot: Slots]
    <3>1. session[s].slot \in Slots BY DEF Inv, StateTyped, Row
    <3> QED BY <2>1, <3>1 DEF Ask, Inv, StateTyped
  <2>2. ASSUME NEW a \in asked, Decline(a)
        PROVE  asked' \subseteq [session: Sessions, coach: Coaches, slot: Slots]
    BY <2>2 DEF Decline, Inv, StateTyped
  <2> QED BY <2>1, <2>2
<1>3. StateTyped' BY <1>1, <1>2 DEF Inv, StateTyped
<1>4. WithinTerm' BY <1>1 DEF Inv, WithinTerm
<1> QED BY <1>1, <1>3, <1>4, AsideInv

\* The dates of a term are changed.
LEMMA TermInv ==
  ASSUME Inv, (\E S \in SUBSET Slots : SetTerm(S)) \/ CloseTerm \/ \E l \in Leaves : RejectLeave(l)
  PROVE  Inv' /\ ClosedKept
<1>1. UNCHANGED <<session, role, active, asked, job, stray, slipped>> /\ ops' \in Nat
  <2>1. ops \in Nat BY DEF Inv, StateTyped
  <2>2. ASSUME NEW S \in SUBSET Slots, SetTerm(S)
        PROVE  UNCHANGED <<session, role, active, asked, job, stray, slipped>> /\ ops' = ops + 1
    BY <2>2 DEF SetTerm, Serve, ghosts
  <2>3. ASSUME CloseTerm
        PROVE  UNCHANGED <<session, role, active, asked, job, stray, slipped>> /\ ops' = ops + 1
    BY <2>3 DEF CloseTerm, Serve, ghosts
  <2>4. ASSUME NEW l \in Leaves, RejectLeave(l)
        PROVE  UNCHANGED <<session, role, active, asked, job, stray, slipped>> /\ ops' = ops + 1
    BY <2>4 DEF RejectLeave, Serve, ghosts
  <2> QED BY <2>1, <2>2, <2>3, <2>4
<1>2. ASSUME NEW S \in SUBSET Slots, SetTerm(S) PROVE StateTyped' /\ WithinTerm'
  BY <1>1, <1>2 DEF SetTerm, Inv, StateTyped, WithinTerm
<1>3. ASSUME CloseTerm PROVE StateTyped' /\ WithinTerm'
  BY <1>1, <1>3 DEF CloseTerm, Inv, StateTyped, WithinTerm
<1>4. ASSUME NEW l \in Leaves, RejectLeave(l) PROVE StateTyped' /\ WithinTerm'
  BY <1>1, <1>4 DEF RejectLeave, Inv, StateTyped, WithinTerm
<1> QED BY <1>1, <1>2, <1>3, <1>4, AsideInv

\* A coach is taken off a class.
LEMMA RemoveInv ==
  ASSUME Inv, NEW k \in Classes, NEW c \in Coaches, Remove(k, c)
  PROVE  Inv' /\ ClosedKept
<1> DEFINE ro == [role EXCEPT ![k][c] = "none"]
<1>1. /\ Quiet({k}) /\ role' = ro /\ (SessionsOf(k) # {} => OneLead(ro, k))
      /\ UNCHANGED <<session, active, leave, asked, term, job, stray, slipped>> /\ ops' \in Nat
  BY DEF Remove, Serve, ghosts, Inv, StateTyped
<1>2. ro = [role EXCEPT ![k] = [role[k] EXCEPT ![c] = "none"]] OBVIOUS
<1>3. ro \in [Classes -> [Coaches -> Role]] /\ \A x \in Classes : x # k => ro[x] = role[x]
  BY <1>2 DEF Inv, StateTyped, Role
<1> HIDE DEF ro
<1>4. StateTyped' BY <1>1, <1>3 DEF Inv, StateTyped
<1>5. SessionStep({k}) /\ RoleStep({k}) /\ ActiveStep({k})
  BY <1>1, <1>3 DEF SessionStep, RoleStep, ActiveStep
<1>6. RoomOnce' /\ WithinTerm' BY <1>1 DEF Inv, RoomOnce, WithinTerm, Scheduled
<1>7. InUse'
  <2> SUFFICES ASSUME NEW s \in Scheduled(session)
               PROVE  {session[s].class, session[s].room} \subseteq active /\ OneLead(ro, session[s].class)
    BY <1>1 DEF InUse, Scheduled
  <2>1. session[s].class \in Classes BY DEF Inv, StateTyped, Scheduled, Row
  <2>2. CASE session[s].class = k BY <1>1, <2>2 DEF SessionsOf, Inv, InUse
  <2>3. CASE session[s].class # k BY <1>3, <2>1, <2>3 DEF Inv, InUse, OneLead, Leads
  <2> QED BY <2>2, <2>3
<1> QED BY <1>1, <1>4, <1>5, <1>6, <1>7, DirectInv

\* A room or a class is closed or opened.
LEMMA OpenCloseInv ==
  ASSUME Inv, \/ \E r \in Rooms : CloseRoom(r)
              \/ \E k \in Classes : CloseClass(k)
              \/ \E x \in Rooms \cup Classes : Reopen(x)
  PROVE  Inv' /\ ClosedKept
<1> DEFINE Changes(x) ==
        /\ Quiet({x}) /\ active' \subseteq Rooms \cup Classes
        /\ \/ active \subseteq active'
           \/ /\ active' = active \ {x}
              /\ \A s \in Scheduled(session) : x \notin {session[s].class, session[s].room}
        /\ UNCHANGED <<session, role, leave, asked, term, job, stray, slipped>> /\ ops' \in Nat
<1>0. active \subseteq Rooms \cup Classes /\ ops \in Nat BY DEF Inv, StateTyped
<1>6. \A s \in Scheduled(session) : session[s].class \in Classes /\ session[s].room \in Rooms
  BY DEF Scheduled, Inv, StateTyped, Row
<1>7. ASSUME NEW r \in Rooms, CloseRoom(r) PROVE Changes(r)
  <2>1. \A s \in Scheduled(session) : r \notin {session[s].class, session[s].room}
    BY <1>6, <1>7, TimetableConstants DEF CloseRoom
  <2> QED BY <1>0, <1>7, <2>1 DEF CloseRoom, Serve, ghosts
<1>8. ASSUME NEW k \in Classes, CloseClass(k) PROVE Changes(k)
  <2>1. \A s \in Scheduled(session) : k \notin {session[s].class, session[s].room}
    BY <1>6, <1>8, TimetableConstants DEF CloseClass, SessionsOf
  <2> QED BY <1>0, <1>8, <2>1 DEF CloseClass, Serve, ghosts
<1>9. ASSUME NEW x \in Rooms \cup Classes, Reopen(x) PROVE Changes(x)
  BY <1>0, <1>9 DEF Reopen, Serve, ghosts
<1>1. PICK x \in Rooms \cup Classes : Changes(x)
  <2> HIDE DEF Changes
  <2> QED BY <1>7, <1>8, <1>9
<1>2. StateTyped' BY <1>1 DEF Inv, StateTyped
<1>3. SessionStep({x}) /\ RoleStep({x}) /\ ActiveStep({x})
  BY <1>1 DEF SessionStep, RoleStep, ActiveStep
<1>4. RoomOnce' /\ WithinTerm' BY <1>1 DEF Inv, RoomOnce, WithinTerm, Scheduled
<1>5. InUse' BY <1>1 DEF Inv, InUse, Scheduled, OneLead, Leads
<1> QED BY <1>1, <1>2, <1>3, <1>4, <1>5, DirectInv

-----------------------------------------------------------------------------
(* The theorems.                                                           *)

\* The inductive invariant holds initially.
LEMMA InitInv == Init => Inv
<1> SUFFICES ASSUME Init PROVE Inv OBVIOUS
<1>1. PICK o \in Openings : session = o.session /\ role = o.role /\ leave = o.leave BY DEF Init
<1>2. StateTyped BY <1>1, OpeningsAssumption DEF Init, StateTyped
<1>3. Fn BY DEF Init, Fn
<1>4. ASSUME NEW q \in Jobs PROVE Fit(q) /\ job[q].locks = {}
  <2>1. /\ job[q].step = "idle" /\ job[q].locks = {} /\ job[q].need = {} /\ job[q].rows = NoRows
    BY DEF Init, Idle
  <2>2. DOMAIN NoRows = {} /\ NoRows \in [{} -> Row] BY DEF NoRows
  <2>3. JobTyped(q) BY <2>1, <2>2 DEF JobTyped, Jobs_
  <2>4. RowsFit(q) BY <2>1, <2>2 DEF RowsFit
  <2> QED BY <2>1, <2>3, <2>4 DEF Fit, ArgFit, RoomHeld, Checked, AskFit, NeedFit
<1>5. Apart BY <1>4 DEF Apart
<1>6. \A s \in Scheduled(session) : Sound(role, session, s, session[s]) BY DEF Init, Lawful
<1>7. RoomOnce BY <1>6 DEF RoomOnce, Sound, Clear
<1>8. InUse
  <2> SUFFICES ASSUME NEW s \in Scheduled(session)
               PROVE  {session[s].class, session[s].room} \subseteq active /\ OneLead(role, session[s].class)
    BY DEF InUse
  <2>1. Resourced(role, session[s]) BY <1>6 DEF Sound
  <2>2. s \in Sessions /\ session[s].class \in Classes BY <1>2 DEF StateTyped, Scheduled, Row
  <2>3. OneLead(role, session[s].class) BY <2>2 DEF Init, Lawful, SessionsOf
  <2> QED BY <2>1, <2>3 DEF Resourced
<1>9. WithinTerm BY <1>2 DEF Init, WithinTerm, StateTyped, Row
<1> QED BY <1>2, <1>3, <1>4, <1>5, <1>7, <1>8, <1>9 DEF Inv

\* Every step keeps it, and leaves closed sessions where they are.
LEMMA NextInv == Inv /\ [Next]_vars => Inv' /\ ClosedKept
<1> SUFFICES ASSUME Inv, [Next]_vars PROVE Inv' /\ ClosedKept OBVIOUS
<1>1. CASE UNCHANGED vars
  <2> USE <1>1 DEF vars
  <2>1. StateTyped' /\ Fn' /\ Apart' BY DEF Inv, StateTyped, Fn, Apart
  <2>2. SessionStep({}) /\ RoleStep({}) /\ ActiveStep({}) BY DEF SessionStep, RoleStep, ActiveStep
  <2>3. RoomOnce' /\ InUse' /\ WithinTerm'
    BY DEF Inv, RoomOnce, InUse, WithinTerm, Scheduled, OneLead, Leads
  <2>4. Quiet({}) BY DEF Quiet
  <2> QED BY <2>1, <2>2, <2>3, <2>4, DirectInv
<1>2. ASSUME NEW q \in Jobs, NEW k \in Classes, NEW r \in Rooms, NEW S \in SUBSET Sessions \ {{}},
             NEW at \in [S -> Slots], Create(q, k, r, at)
      PROVE  Inv' /\ ClosedKept
  BY <1>2, CreateInv
<1>3. CASE Next
  BY <1>2, <1>3, FailInv, FinishCreateInv, ReadMoveInv, LockMoveInv, CheckMoveInv, FinishMoveInv, ApproveInv,
     ReadTransferInv, CheckTransferInv, FinishTransferInv, AssignInv, FinishAssignInv, ReadLeaveInv,
     CheckLeaveInv, FinishLeaveInv, CloseSessionInv, AskInv, RemoveInv, OpenCloseInv, TermInv DEF Next
<1> QED BY <1>1, <1>3

\* Every reachable state satisfies the inductive invariant.
THEOREM Invariant == Spec => []Inv
<1>1. Init => Inv BY InitInv
<1>2. Inv /\ [Next]_vars => Inv' BY NextInv
<1> QED BY <1>1, <1>2, PTL DEF Spec

\* Every variable keeps its type.
THEOREM Types == Spec => []TypeOK
<1>1. Inv => TypeOK BY DEF Inv, Fit, StateTyped, JobTyped, TypeOK
<1> QED BY <1>1, Invariant, PTL

\* The room locks that updateSchedule, the leave decision, createScheduleBatch and
\* transferSchedules take cover their checks up to the commit: no two sessions
\* are in one room at one time, unless a transfer wrote one that had been moved.
THEOREM RoomsAreOnce == Spec => []RoomOnce
<1>1. Inv => RoomOnce BY DEF Inv
<1> QED BY <1>1, Invariant, PTL

\* No session is left in a closed room or class, or without a primary coach.
THEOREM StaysInUse == Spec => []InUse
<1>1. Inv => InUse BY DEF Inv
<1> QED BY <1>1, Invariant, PTL

\* No session is left outside the dates of its term.
THEOREM StaysWithinTerm == Spec => []WithinTerm
<1>1. Inv => WithinTerm BY DEF Inv
<1> QED BY <1>1, Invariant, PTL

\* A session that is over or cancelled stays so and at its time, although a
\* transfer writes by id and a decision about leave without a look at the status.
THEOREM ClosedAlwaysStays == Spec => ClosedStays
<1>1. Inv /\ [Next]_vars => [\A s \in Sessions : session[s].status \in Closed =>
        session'[s].status = session[s].status /\ session'[s].slot = session[s].slot]_vars
  BY NextInv DEF ClosedKept
<1> QED BY <1>1, Invariant, PTL DEF Spec, ClosedStays

\* A step that applies an approved change does so at the time it was asked for.
LEMMA AskedStep ==
  ASSUME Inv, Next, NEW a \in asked, a \notin asked', session' # session
  PROVE  session[a.session].slot = a.slot /\ session'[a.session].slot = a.slot
<1>1. ASSUME NEW q \in Jobs, NEW s \in Sessions, FinishMove(q, s)
      PROVE  session[a.session].slot = a.slot /\ session'[a.session].slot = a.slot
  <2>1. job[q].step = "move" /\ DOMAIN job[q].rows = {s} /\ Store(q) /\ asked' = asked \ {job[q].arg}
    BY <1>1 DEF FinishMove
  <2>2. job[q].arg = a BY <2>1
  <2>3. a # None BY TimetableConstants DEF Inv, StateTyped
  <2>4. AskFit(q) /\ JobTyped(q) BY DEF Inv, Fit
  <2>5. s = a.session /\ session[s].slot = a.slot /\ job[q].rows[s].slot = a.slot
    BY <2>1, <2>2, <2>3, <2>4 DEF AskFit
  <2>6. session'[s] = job[q].rows[s] BY <2>1, <2>4, StoreEffect DEF Inv
  <2> QED BY <2>5, <2>6
<1>2. ASSUME NEW b \in asked, Decline(b) PROVE FALSE BY <1>2 DEF Decline
<1>3. ASSUME asked \subseteq asked' PROVE FALSE BY <1>3
<1>4. ASSUME NEW q \in Jobs,
             \/ Fail(q) \/ FinishCreate(q) \/ CheckTransfer(q) \/ FinishTransfer(q) \/ FinishAssign(q)
             \/ CheckLeave(q) \/ FinishLeave(q)
             \/ \E s \in Sessions : LockMove(q, s) \/ CheckMove(q, s)
      PROVE  asked \subseteq asked'
  BY <1>4 DEF Fail, FinishCreate, CheckTransfer, FinishTransfer, FinishAssign, CheckLeave, FinishLeave,
     LockMove, CheckMove
<1>5. ASSUME NEW q \in Jobs,
             \/ \E k \in Classes, r \in Rooms, S \in SUBSET Sessions \ {{}} :
                  \E at \in [S -> Slots] : Create(q, k, r, at)
             \/ \E s \in Sessions, slot \in Slots, r \in Rooms, c \in Coaches \cup {None} :
                  ReadMove(q, s, slot, r, c)
             \/ \E b \in asked, c \in Coaches : Approve(q, b, c)
             \/ \E from, to \in Rooms : ReadTransfer(q, from, to)
             \/ \E k \in Classes, c \in Coaches, as \in {"primary", "support"} : Assign(q, k, c, as)
             \/ \E l \in Leaves : \E plan \in [Affected(l) -> Resolution] : ReadLeave(q, l, plan)
      PROVE  asked \subseteq asked'
  BY <1>5 DEF Create, ReadMove, Approve, ReadTransfer, Assign, ReadLeave
<1>6. ASSUME \/ \E s \in Sessions : Cancel(s) \/ Complete(s)
             \/ \E s \in Sessions, c \in Coaches : Ask(s, c)
             \/ \E k \in Classes, c \in Coaches : Remove(k, c)
             \/ \E r \in Rooms : CloseRoom(r)
             \/ \E k \in Classes : CloseClass(k)
             \/ \E x \in Rooms \cup Classes : Reopen(x)
             \/ \E S \in SUBSET Slots : SetTerm(S)
             \/ CloseTerm
             \/ \E l \in Leaves : RejectLeave(l)
      PROVE  asked \subseteq asked'
  BY <1>6 DEF Cancel, Complete, Ask, Remove, CloseRoom, CloseClass, Reopen, SetTerm, CloseTerm, RejectLeave
<1> QED BY <1>1, <1>2, <1>3, <1>4, <1>5, <1>6 DEF Next

\* An approved coach change is applied to the session at the time it was asked
\* for: decideCoachChange compares the times under the session's lock, which it
\* still holds when updateSchedule writes.
THEOREM ChangesAreAsAsked == Spec => AsAsked
<1>1. Inv /\ [Next]_vars =>
        [\A a \in asked, q \in Jobs :
           job[q].step = "move" /\ job[q].arg = a /\ session' # session /\ a \notin asked' =>
             session[a.session].slot = a.slot /\ session'[a.session].slot = a.slot]_vars
  BY AskedStep
<1> QED BY <1>1, Invariant, PTL DEF Spec, AsAsked
=============================================================================
