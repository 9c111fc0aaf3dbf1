------------------------------ MODULE Attendance ------------------------------
(***************************************************************************)
(* Who was there: check-in with the codes a coach shows, entries and       *)
(* corrections of the roster, the completion of a session, leave of        *)
(* members, and what reception makes of the absences in one class: the     *)
(* warning, the violation report and its review, which takes seats away    *)
(* (attendance.service, reception-attendance.service, completeSchedule and *)
(* the leave of operations.routes).                                        *)
(*                                                                         *)
(* A request reads, and writes in a later step; what it holds meanwhile is *)
(* the advisory locks of its transaction.  Two inserts of one Attendance   *)
(* row are told apart by its unique index: the second one fails.           *)
(***************************************************************************)
EXTENDS Naturals, FiniteSets

CONSTANTS Members, Sessions,
          Codes,     \* codes there are to draw from
          Reports,   \* identities of reports
          Jobs,      \* requests in progress
          None,      \* no member, no session
          WarnAt, ViolationAt,   \* percentages of absences, 20 and 30
          MaxOps     \* how many requests are served (bounds the runs only)

ASSUME AttendanceConstants ==
  /\ None \notin Members /\ None \notin Sessions
  /\ IsFiniteSet(Sessions)
  /\ WarnAt \in Nat /\ ViolationAt \in Nat

VARIABLES
  status,   \* ClassSchedule.status
  phase,    \* the clock, as it stands to a session
  seat,     \* Enrollment.status
  result,   \* Attendance.status, NONE without a row
  code,     \* AttendanceManualCode rows
  report,   \* Issue rows that hold a violation report
  warned,   \* ATTENDANCE_WARNING notifications reception sent to a member
  job,      \* requests between their reads and their writes
  told,     \* members who were told that they are checked in to a session
  amended,  \* results changed since by a manager
  answers,  \* the decisions announced for a report
  ops

roster == <<status, seat, result>>
cases  == <<report, warned, answers>>
vars   == <<roster, phase, code, cases, job, told, amended, ops>>

Status == {"SCHEDULED", "COMPLETED", "CANCELLED"}
\* Check-in is open 30 minutes before the start and until the end.
Phase  == {"ahead", "open", "running", "over"}
Seat   == {"NONE", "BOOKED", "COMPLETED", "CANCELLED"}
Given  == {"PRESENT", "ABSENT", "LATE", "EXCUSED"}
Result == Given \cup {"NONE"}
NoReport == [status |-> "NONE", member |-> None]
NoCode   == [status |-> "NONE", session |-> None]

Idle == [step |-> "idle", locks |-> {}, member |-> None, session |-> None,
         set |-> {}, what |-> "NONE"]

Init ==
  /\ status = [s \in Sessions |-> "SCHEDULED"]
  /\ phase = [s \in Sessions |-> "ahead"]
  /\ seat \in [Members -> [Sessions -> {"NONE", "BOOKED"}]]
  /\ result = [m \in Members |-> [s \in Sessions |-> "NONE"]]
  /\ code = [c \in Codes |-> NoCode]
  /\ report = [i \in Reports |-> NoReport]
  /\ warned = [m \in Members |-> 0]
  /\ job = [q \in Jobs |-> Idle]
  /\ told = {} /\ amended = {} /\ answers = [i \in Reports |-> {}] /\ ops = 0

-----------------------------------------------------------------------------
(* Locks and requests.                                                     *)

Free(q, L) == \A p \in Jobs \ {q} : L \cap job[p].locks = {}
Quiet(L)   == \A p \in Jobs : L \cap job[p].locks = {}

Serve == ops < MaxOps /\ ops' = ops + 1

Take(q, step, locks, m, s, set, what) ==
  /\ job[q].step = "idle" /\ Serve
  /\ Free(q, locks)
  /\ job' = [job EXCEPT ![q] = [step |-> step, locks |-> locks, member |-> m, session |-> s,
                                set |-> set, what |-> what]]
  /\ UNCHANGED <<roster, phase, code, cases, told, amended>>

End(q) == job' = [job EXCEPT ![q] = Idle] /\ UNCHANGED <<phase, ops>>

\* An error, a refused insert or a timeout: nothing was written.
Fail(q) ==
  /\ job[q].step # "idle"
  /\ End(q)
  /\ UNCHANGED <<roster, code, cases, told, amended>>

-----------------------------------------------------------------------------
(* Seats, sessions and time, as the rest of the system moves them.         *)

Seated(m, s) == seat[m][s] \in {"BOOKED", "COMPLETED"}
Window(s)    == status[s] = "SCHEDULED" /\ phase[s] \in {"open", "running"}
Upcoming(s)  == status[s] = "SCHEDULED" /\ phase[s] \in {"ahead", "open"}

\* A transaction ends long before a session does.
Tick(s) ==
  /\ phase[s] # "over"
  /\ phase[s] = "running" => \A q \in Jobs : job[q].step = "review" => s \notin job[q].set
  /\ phase' = [phase EXCEPT ![s] = CASE @ = "ahead" -> "open"
                                     [] @ = "open" -> "running"
                                     [] @ = "running" -> "over"]
  /\ UNCHANGED <<roster, code, cases, job, told, amended, ops>>

Book(m, s) ==
  /\ Serve /\ Quiet({s, <<"class", m>>})
  /\ Upcoming(s) /\ seat[m][s] \in {"NONE", "CANCELLED"}
  /\ seat' = [seat EXCEPT ![m][s] = "BOOKED"]
  /\ UNCHANGED <<status, result, phase, code, cases, job, told, amended>>

\* Staff may cancel a seat until the session starts.
CancelSeat(m, s) ==
  /\ Serve /\ Quiet({s, <<"class", m>>})
  /\ phase[s] \in {"ahead", "open"} /\ seat[m][s] = "BOOKED"
  /\ seat' = [seat EXCEPT ![m][s] = "CANCELLED"]
  /\ UNCHANGED <<status, result, phase, code, cases, job, told, amended>>

CancelSession(s) ==
  /\ Serve /\ Quiet({s})
  /\ status[s] = "SCHEDULED"
  /\ status' = [status EXCEPT ![s] = "CANCELLED"]
  /\ seat' = [m \in Members |->
                [seat[m] EXCEPT ![s] = IF @ = "BOOKED" THEN "CANCELLED" ELSE @]]
  /\ UNCHANGED <<result, phase, code, cases, job, told, amended>>

-----------------------------------------------------------------------------
(* Codes: generateQrToken revokes the session's codes, then draws a new    *)
(* one, in two statements without a transaction.                           *)

Valid(s) == {c \in Codes : code[c] = [status |-> "VALID", session |-> s]}

IssueRevoke(q, s) ==
  /\ job[q].step = "idle" /\ Serve
  /\ Window(s)
  /\ code' = [c \in Codes |-> IF c \in Valid(s) THEN [code[c] EXCEPT !.status = "REVOKED"]
                              ELSE code[c]]
  /\ job' = [job EXCEPT ![q] = [Idle EXCEPT !.step = "issue", !.session = s]]
  /\ UNCHANGED <<roster, phase, cases, told, amended>>

IssueCreate(q, c) ==
  /\ job[q].step = "issue" /\ code[c] = NoCode
  /\ code' = [code EXCEPT ![c] = [status |-> "VALID", session |-> job[q].session]]
  /\ End(q)
  /\ UNCHANGED <<roster, cases, told, amended>>

\* After 90 seconds.
Expire(c) ==
  /\ code[c].status = "VALID"
  /\ code' = [code EXCEPT ![c].status = "EXPIRED"]
  /\ UNCHANGED <<roster, phase, cases, job, told, amended, ops>>

-----------------------------------------------------------------------------
(* The roster.                                                             *)

Enter(m, s, r) == result' = [result EXCEPT ![m][s] = r]

\* scanQr, with the code of a session or with a QR token, which is not stored.
\* A second scan of a member who is present changes the note only.
ScanRead(q, m, s, by) ==
  /\ by = "code" => Valid(s) # {}
  /\ Seated(m, s) /\ Window(s) /\ result[m][s] = "NONE"
  /\ Take(q, "scan", {<<"subscription", m>>}, m, s, {}, "PRESENT")

ScanWrite(q) ==
  LET m == job[q].member
      s == job[q].session IN
  /\ job[q].step = "scan" /\ result[m][s] = "NONE"
  /\ Enter(m, s, "PRESENT")
  /\ told' = told \cup {<<m, s>>}
  /\ End(q)
  /\ UNCHANGED <<status, seat, code, cases, amended>>

\* createAttendance by the coach or a manager.
EnterRead(q, m, s, r) ==
  /\ Seated(m, s) /\ Window(s)
  /\ Take(q, "enter", {}, m, s, {}, r)

EnterWrite(q) ==
  LET m == job[q].member
      s == job[q].session IN
  /\ job[q].step = "enter" /\ result[m][s] = "NONE"
  /\ Enter(m, s, job[q].what)
  /\ End(q)
  /\ UNCHANGED <<status, seat, code, cases, told, amended>>

\* updateAttendance: a manager corrects a row, whenever and whatever it says.
Correct(m, s, r) ==
  /\ Serve
  /\ result[m][s] # "NONE"
  /\ Enter(m, s, r)
  /\ amended' = amended \cup {<<m, s>>}
  /\ UNCHANGED <<status, seat, phase, code, cases, job, told>>

\* Leave of a member is approved: the sessions it meets are excused.
LeaveRead(q, m, S) ==
  Take(q, "excuse", {}, m, None, {s \in S : Seated(m, s)}, "EXCUSED")

\* Mutant: the row gets the status of the leave.
LeaveWriteItsStatus(q) ==
  LET m == job[q].member
      S == job[q].set IN
  /\ job[q].step = "excuse"
  /\ result' = [result EXCEPT ![m] = [s \in Sessions |-> IF s \in S THEN "APPROVED" ELSE @[s]]]
  /\ amended' = amended \cup ({m} \X S)
  /\ End(q)
  /\ UNCHANGED <<status, seat, code, cases, told>>

LeaveWrite(q) ==
  LET m == job[q].member
      S == job[q].set IN
  /\ job[q].step = "excuse"
  /\ result' = [result EXCEPT ![m] = [s \in Sessions |-> IF s \in S THEN "EXCUSED" ELSE @[s]]]
  /\ amended' = amended \cup ({m} \X S)
  /\ End(q)
  /\ UNCHANGED <<status, seat, code, cases, told>>

\* Mutant: members on the roster of any session count as marked.
CompleteReadAnyRow(q, s) ==
  /\ status[s] = "SCHEDULED" /\ phase[s] = "over"
  /\ Take(q, "complete", {s}, None, s,
          {m \in Members : seat[m][s] = "BOOKED" /\ \A t \in Sessions : result[m][t] = "NONE"},
          "ABSENT")

\* completeSchedule looks, under the session's lock, for members who are booked
\* and not on the roster, and marks them absent.
CompleteRead(q, s) ==
  /\ status[s] = "SCHEDULED" /\ phase[s] = "over"
  /\ Take(q, "complete", {s}, None, s,
          {m \in Members : seat[m][s] = "BOOKED" /\ result[m][s] = "NONE"}, "ABSENT")

\* Mutant: rows that appeared meanwhile are overwritten.
MissingAsRead(q) == job[q].set

\* The roster takes entries meanwhile: rows that are there are skipped.
Missing(q) == {m \in job[q].set : result[m][job[q].session] = "NONE"}

CompleteWrite(q) ==
  LET s == job[q].session IN
  /\ job[q].step = "complete"
  /\ result' = [m \in Members |->
                  [result[m] EXCEPT ![s] = IF m \in Missing(q) THEN "ABSENT" ELSE @]]
  /\ seat' = [m \in Members |->
                [seat[m] EXCEPT ![s] = IF @ = "BOOKED" THEN "COMPLETED" ELSE @]]
  /\ status' = [status EXCEPT ![s] = "COMPLETED"]
  /\ End(q)
  /\ UNCHANGED <<code, cases, told, amended>>

-----------------------------------------------------------------------------
(* Reception: warning, report, review.                                     *)

\* Sessions of the class that count for a member; a future one counts too.
Registered(m) == {s \in Sessions : Seated(m, s) /\ status[s] # "CANCELLED"}
Relevant(m)   == {s \in Registered(m) : phase[s] = "over" => result[m][s] # "EXCUSED"}
Absences(m)   == {s \in Registered(m) : phase[s] = "over" /\ result[m][s] = "ABSENT"}

Reaches(m, percent) ==
  /\ Relevant(m) # {}
  /\ Cardinality(Absences(m)) * 100 >= Cardinality(Relevant(m)) * percent

Live(i, m) == report[i].member = m /\ report[i].status \in {"OPEN", "RESOLVED"}

WarnRead(q, m) ==
  /\ Reaches(m, WarnAt) /\ warned[m] = 0
  /\ Take(q, "warn", {<<"pair", m>>}, m, None, {}, "NONE")

WarnWrite(q) ==
  /\ job[q].step = "warn"
  /\ warned' = [warned EXCEPT ![job[q].member] = @ + 1]
  /\ End(q)
  /\ UNCHANGED <<roster, code, report, answers, told, amended>>

\* Mutant: the pair of member and class is not locked.
SubmitReadUnlocked(q, m) ==
  /\ Reaches(m, ViolationAt) /\ \A i \in Reports : ~Live(i, m)
  /\ Take(q, "submit", {}, m, None, {}, "NONE")

SubmitRead(q, m) ==
  /\ Reaches(m, ViolationAt) /\ \A i \in Reports : ~Live(i, m)
  /\ Take(q, "submit", {<<"pair", m>>}, m, None, {}, "NONE")

SubmitWrite(q, i) ==
  /\ job[q].step = "submit" /\ report[i] = NoReport
  /\ report' = [report EXCEPT ![i] = [status |-> "OPEN", member |-> job[q].member]]
  /\ End(q)
  /\ UNCHANGED <<roster, code, warned, answers, told, amended>>

\* A manager removes the member from the class or rejects the report.  The
\* report and what it is about are read again under the locks.
ReviewRead(q, i, decision) ==
  LET m == report[i].member IN
  /\ report[i].status = "OPEN"
  /\ Registered(m) # {}
  /\ decision = "RESOLVED" => Reaches(m, ViolationAt)
  /\ Take(q, "review", {i, <<"class", m>>}, m, i,
          IF decision = "RESOLVED" THEN {s \in Sessions : seat[m][s] = "BOOKED" /\ Upcoming(s)}
                                   ELSE {},
          decision)

ReviewWrite(q) ==
  LET m == job[q].member
      i == job[q].session IN
  /\ job[q].step = "review"
  /\ seat' = [seat EXCEPT ![m] = [s \in Sessions |-> IF s \in job[q].set THEN "CANCELLED" ELSE @[s]]]
  /\ report' = [report EXCEPT ![i].status = job[q].what]
  /\ answers' = [answers EXCEPT ![i] = @ \cup {job[q].what}]
  /\ End(q)
  /\ UNCHANGED <<status, result, code, warned, told, amended>>

-----------------------------------------------------------------------------
Next ==
  \/ \E s \in Sessions : Tick(s) \/ CancelSession(s)
  \/ \E m \in Members, s \in Sessions : Book(m, s) \/ CancelSeat(m, s)
  \/ \E m \in Members, s \in Sessions, r \in Given : Correct(m, s, r)
  \/ \E c \in Codes : Expire(c)
  \/ \E q \in Jobs :
       \/ Fail(q)
       \/ \E s \in Sessions : IssueRevoke(q, s) \/ CompleteRead(q, s)
       \/ \E c \in Codes : IssueCreate(q, c)
       \/ \E m \in Members, s \in Sessions, by \in {"QR", "code"} : ScanRead(q, m, s, by)
       \/ \E m \in Members, s \in Sessions, r \in Given : EnterRead(q, m, s, r)
       \/ \E m \in Members, S \in SUBSET Sessions : LeaveRead(q, m, S)
       \/ ScanWrite(q) \/ EnterWrite(q) \/ LeaveWrite(q) \/ CompleteWrite(q)
       \/ \E m \in Members : WarnRead(q, m) \/ SubmitRead(q, m)
       \/ \E i \in Reports : SubmitWrite(q, i)
       \/ \E i \in Reports, d \in {"RESOLVED", "CLOSED"} : ReviewRead(q, i, d)
       \/ WarnWrite(q) \/ ReviewWrite(q)

Spec == Init /\ [][Next]_vars

-----------------------------------------------------------------------------
(* Properties.                                                             *)

Steps == {"idle", "issue", "scan", "enter", "excuse", "complete", "warn", "submit", "review"}
Locks == Sessions \cup Reports \cup ({"subscription", "class", "pair"} \X Members)

\* Every variable has the type of its table.
TypeOK ==
  /\ status \in [Sessions -> Status] /\ phase \in [Sessions -> Phase]
  /\ seat \in [Members -> [Sessions -> Seat]]
  /\ result \in [Members -> [Sessions -> Result]]
  /\ code \in [Codes -> [status: {"NONE", "VALID", "REVOKED", "EXPIRED"}, session: Sessions \cup {None}]]
  /\ report \in [Reports -> [status: {"NONE", "OPEN", "RESOLVED", "CLOSED"}, member: Members \cup {None}]]
  /\ warned \in [Members -> Nat]
  /\ job \in [Jobs -> [step: Steps, locks: SUBSET Locks, member: Members \cup {None},
                       session: Sessions \cup Reports \cup {None},
                       set: SUBSET (Members \cup Sessions),
                       what: Result \cup {"RESOLVED", "CLOSED"}]]
  /\ told \subseteq Members \X Sessions /\ amended \subseteq Members \X Sessions
  /\ answers \in [Reports -> SUBSET {"RESOLVED", "CLOSED"}]
  /\ ops \in Nat

\* A member whom scanQr told that the check-in succeeded stays present, also when
\* the session is completed in the same moment; only a manager's correction or
\* an approved leave changes the result.
CheckedInStays == \A p \in told : result[p[1]][p[2]] = "PRESENT" \/ p \in amended

\* When a session has been completed no seat in it is left open and everybody
\* who had one has a result, whoever wrote to the roster meanwhile.
EveryoneAnswered ==
  \A s \in Sessions : status[s] = "COMPLETED" =>
    \A m \in Members : /\ seat[m][s] # "BOOKED"
                       /\ seat[m][s] = "COMPLETED" => result[m][s] # "NONE"

\* Receptionists and managers at work on one member do not warn twice, have one
\* report open or approved at most, and announce one decision of a report.
OneCase ==
  /\ \A m \in Members :
       warned[m] <= 1 /\ \A i, j \in Reports : Live(i, m) /\ Live(j, m) => i = j
  /\ \A i \in Reports : \A a, b \in answers[i] : a = b

\* A review that removes a member leaves no seat ahead of its start, also none booked
\* while the manager decided, and takes no other; one that rejects the report takes none.
ReviewsTakeWhatIsAhead ==
  [][\A q \in Jobs : ReviewWrite(q) =>
       LET m == job[q].member IN
       /\ job[q].what = "RESOLVED" => \A s \in Sessions : Upcoming(s) => seat'[m][s] # "BOOKED"
       /\ \A s \in Sessions : seat'[m][s] # seat[m][s] =>
            job[q].what = "RESOLVED" /\ seat[m][s] = "BOOKED"]_vars

\* A session has at most as many valid codes as requests that draw one at the same
\* time, counting those that have still to draw: one, if they come one after the other.
Drawing(s) == {q \in Jobs : job[q].step = "issue" /\ job[q].session = s}
CodesByRequests ==
  \A s \in Sessions : Cardinality(Valid(s)) + Cardinality(Drawing(s)) <= Cardinality(Jobs)

-----------------------------------------------------------------------------
(* What the documentation says and the code does not do.                   *)

\* schema.prisma:788: at each moment there is one valid code for a session.
OneCode == \A s \in Sessions : Cardinality(Valid(s)) <= 1
=============================================================================
