--------------------------- MODULE AttendanceProofs ---------------------------
(***************************************************************************)
(* Proofs about Attendance.  The inductive invariant says what a request   *)
(* may rely on between its reads and its writes: its fields have the types *)
(* of its kind (Shape), no two requests hold one lock (Apart), and what it *)
(* read under its locks still holds (Listed, Vacant).                      *)
(***************************************************************************)
EXTENDS Attendance, FiniteSetTheorems, TLAPS

Fits(j) ==
  /\ j.step \in {"scan", "enter"} => j.member \in Members /\ j.session \in Sessions /\ j.what \in Given
  /\ j.step = "scan" => j.what = "PRESENT"
  /\ j.step = "issue" => j.session \in Sessions
  /\ j.step = "excuse" => j.member \in Members /\ j.set \subseteq Sessions
  /\ j.step = "complete" => j.session \in Sessions /\ j.set \subseteq Members
  /\ j.step \in {"warn", "submit"} => j.member \in Members
  /\ j.step = "review" => /\ j.member \in Members /\ j.session \in Reports
                         /\ j.what \in {"RESOLVED", "CLOSED"}

Shape == \A q \in Jobs : Fits(job[q])

Filed == \A i \in Reports : report[i].status # "NONE" => report[i].member \in Members

Request == [step: Steps, locks: SUBSET Locks, member: Members \cup {None},
            session: Sessions \cup Reports \cup {None},
            set: SUBSET (Members \cup Sessions),
            what: Result \cup {"RESOLVED", "CLOSED"}]

Apart == \A p, q \in Jobs : p # q => job[p].locks \cap job[q].locks = {}

Typed == TypeOK /\ Shape /\ Filed

\* Who is booked in a session that is being completed is on the request's list
\* or on the roster already.
Listed ==
  \A q \in Jobs : job[q].step = "complete" =>
    /\ job[q].session \in job[q].locks
    /\ \A m \in Members : seat[m][job[q].session] = "BOOKED" =>
         m \in job[q].set \/ result[m][job[q].session] # "NONE"

Answered ==
  \A m \in Members, s \in Sessions :
    /\ seat[m][s] = "COMPLETED" => result[m][s] # "NONE"
    /\ status[s] = "COMPLETED" => seat[m][s] # "BOOKED"

\* A member whom somebody is about to warn or report is not warned or reported,
\* a report under review is open, and one that nobody has decided has no answer.
Vacant ==
  /\ \A q \in Jobs :
       /\ job[q].step = "warn" => /\ <<"pair", job[q].member>> \in job[q].locks
                                  /\ warned[job[q].member] = 0
       /\ job[q].step = "submit" => /\ <<"pair", job[q].member>> \in job[q].locks
                                    /\ \A i \in Reports : ~Live(i, job[q].member)
       /\ job[q].step = "review" => /\ job[q].session \in job[q].locks
                                    /\ report[job[q].session].status = "OPEN"
  /\ \A i \in Reports : report[i].status \in {"NONE", "OPEN"} => answers[i] = {}

Inv == Typed /\ Apart /\ CheckedInStays /\ Listed /\ Answered /\ Vacant /\ OneCase

-----------------------------------------------------------------------------
(* What a step does to the requests.                                       *)

\* The idle request fits.
LEMMA IdleFits == Idle \in Request /\ Fits(Idle)
  BY DEF Idle, Request, Fits, Steps, Result, Given

\* A request is begun with fields of its kind.
LEMMA TakeTyped ==
  ASSUME Typed, NEW q \in Jobs, NEW step, NEW locks, NEW m, NEW s, NEW set, NEW what,
         Take(q, step, locks, m, s, set, what),
         [step |-> step, locks |-> locks, member |-> m, session |-> s,
          set |-> set, what |-> what] \in Request,
         Fits([step |-> step, locks |-> locks, member |-> m, session |-> s,
               set |-> set, what |-> what])
  PROVE  Typed'
<1> DEFINE j == [step |-> step, locks |-> locks, member |-> m, session |-> s,
                 set |-> set, what |-> what]
<1>1. job \in [Jobs -> Request] BY DEF Typed, TypeOK, Request
<1>2. job' = [job EXCEPT ![q] = j] BY DEF Take
<1>3. j \in Request /\ Fits(j) OBVIOUS
<1>4. job' \in [Jobs -> Request] BY <1>1, <1>2, <1>3 DEF j
<1>5. Shape' BY <1>1, <1>2, <1>3 DEF Typed, Shape, Fits
<1>6. ops' \in Nat BY DEF Take, Serve, Typed, TypeOK
<1> QED BY <1>4, <1>5, <1>6 DEF Typed, Filed, TypeOK, Take, roster, cases, Request

\* A request ends.
LEMMA EndTyped ==
  ASSUME Typed, NEW q \in Jobs, End(q)
  PROVE  /\ job' \in [Jobs -> Request] /\ Shape'
         /\ job'[q] = Idle /\ \A p \in Jobs : p # q => job'[p] = job[p]
<1>1. job \in [Jobs -> Request] BY DEF Typed, TypeOK, Request
<1>2. job' = [job EXCEPT ![q] = Idle] BY DEF End
<1>3. job'[q] = Idle /\ \A p \in Jobs : p # q => job'[p] = job[p] BY <1>1, <1>2
<1>4. \A p \in Jobs : Fits(job'[p]) BY <1>3, IdleFits DEF Typed, Shape
<1> QED BY <1>1, <1>2, <1>3, <1>4, IdleFits DEF Shape, Fits

\* The initial state has the types.
LEMMA InitTyped == Init => Typed
<1> SUFFICES ASSUME Init PROVE Typed OBVIOUS
<1>1. Idle \in Request /\ Fits(Idle) BY IdleFits
<1>2. job \in [Jobs -> Request] /\ Shape BY <1>1 DEF Init, Shape
<1> QED BY <1>2 DEF Init, Filed, Typed, TypeOK, Request, Status, Phase, Seat, Result, Given, NoCode, NoReport

\* Every action keeps the types.
LEMMA NextTyped == Typed /\ Vacant /\ Next => Typed'
<1> SUFFICES ASSUME Typed, Vacant, Next PROVE Typed' OBVIOUS
<1> USE DEF roster, cases, Filed
<1>1. TypeOK /\ Shape /\ Filed /\ job \in [Jobs -> Request] BY DEF Typed, TypeOK, Request
<1>2. ASSUME NEW s \in Sessions, Tick(s) PROVE Typed'
  BY <1>1, <1>2 DEF Typed, TypeOK, Tick, Shape, Phase
<1>3. ASSUME NEW s \in Sessions, CancelSession(s) PROVE Typed'
  <2>1. status' \in [Sessions -> Status] BY <1>1, <1>3 DEF TypeOK, CancelSession, Status
  <2>2. seat' \in [Members -> [Sessions -> Seat]]
    <3>1. \A m \in Members : [seat[m] EXCEPT ![s] = IF @ = "BOOKED" THEN "CANCELLED" ELSE @]
                               \in [Sessions -> Seat] BY <1>1 DEF TypeOK, Seat
    <3> QED BY <3>1, <1>3 DEF CancelSession
  <2> QED BY <1>1, <1>3, <2>1, <2>2 DEF Typed, TypeOK, CancelSession, Shape, Serve
<1>4. ASSUME NEW m \in Members, NEW s \in Sessions, Book(m, s) \/ CancelSeat(m, s) PROVE Typed'
  <2>1. PICK r \in Seat : seat' = [seat EXCEPT ![m][s] = r] BY <1>4 DEF Book, CancelSeat, Seat
  <2>2. seat' \in [Members -> [Sessions -> Seat]] BY <1>1, <2>1 DEF TypeOK
  <2> QED BY <1>1, <1>4, <2>2 DEF Typed, TypeOK, Book, CancelSeat, Shape, Serve
<1>5. ASSUME NEW m \in Members, NEW s \in Sessions, NEW r \in Given, Correct(m, s, r) PROVE Typed'
  BY <1>1, <1>5 DEF Typed, TypeOK, Correct, Enter, Shape, Result, Serve
<1>6. ASSUME NEW c \in Codes, Expire(c) PROVE Typed'
  <2>1. code' \in [Codes -> [status: {"NONE", "VALID", "REVOKED", "EXPIRED"}, session: Sessions \cup {None}]]
    BY <1>1, <1>6 DEF TypeOK, Expire
  <2> QED BY <1>1, <1>6, <2>1 DEF Typed, TypeOK, Expire, Shape
<1>7. ASSUME NEW q \in Jobs, Fail(q) PROVE Typed'
  BY <1>1, <1>7, EndTyped DEF Typed, TypeOK, Fail, End, Request
<1>8. ASSUME NEW q \in Jobs, NEW s \in Sessions, IssueRevoke(q, s) PROVE Typed'
  <2>1. code' \in [Codes -> [status: {"NONE", "VALID", "REVOKED", "EXPIRED"}, session: Sessions \cup {None}]]
    BY <1>1, <1>8 DEF TypeOK, IssueRevoke
  <2>2. [Idle EXCEPT !.step = "issue", !.session = s] \in Request
    BY IdleFits DEF Idle, Request, Steps
  <2>3. Fits([Idle EXCEPT !.step = "issue", !.session = s]) BY DEF Idle, Fits
  <2>4. job' = [job EXCEPT ![q] = [Idle EXCEPT !.step = "issue", !.session = s]] BY <1>8 DEF IssueRevoke
  <2>5. job' \in [Jobs -> Request] BY <1>1, <2>2, <2>4
  <2>6. Shape' BY <1>1, <2>3, <2>4 DEF Shape, Fits
  <2> QED BY <1>1, <1>8, <2>1, <2>5, <2>6 DEF Typed, TypeOK, IssueRevoke, Serve, Request
<1>9. ASSUME NEW q \in Jobs, NEW c \in Codes, IssueCreate(q, c) PROVE Typed'
  <2>1. job[q].session \in Sessions BY <1>1, <1>9 DEF Shape, Fits, IssueCreate
  <2> QED BY <1>1, <1>9, <2>1, EndTyped DEF Typed, TypeOK, IssueCreate, End, Request
<1>10. ASSUME NEW q \in Jobs, NEW s \in Sessions, CompleteRead(q, s) PROVE Typed'
  <2> DEFINE S == {m \in Members : seat[m][s] = "BOOKED" /\ result[m][s] = "NONE"}
  <2>1. Take(q, "complete", {s}, None, s, S, "ABSENT") BY <1>10 DEF CompleteRead
  <2>2. S \subseteq Members OBVIOUS
  <2> HIDE DEF S
  <2> QED BY <1>1, <2>1, <2>2, TakeTyped DEF Request, Fits, Steps, Locks, Result, Given, Typed
<1>11. ASSUME NEW q \in Jobs, NEW m \in Members, NEW s \in Sessions, NEW by, ScanRead(q, m, s, by)
       PROVE Typed'
  <2>1. Take(q, "scan", {<<"subscription", m>>}, m, s, {}, "PRESENT") BY <1>11 DEF ScanRead
  <2>2. {<<"subscription", m>>} \in SUBSET Locks BY DEF Locks
  <2> QED BY <1>1, <2>1, <2>2, TakeTyped DEF Request, Fits, Steps, Result, Given, Typed
<1>12. ASSUME NEW q \in Jobs, NEW m \in Members, NEW s \in Sessions, NEW r \in Given,
              EnterRead(q, m, s, r)
       PROVE Typed'
  <2>1. Take(q, "enter", {}, m, s, {}, r) BY <1>12 DEF EnterRead
  <2> QED BY <1>1, <2>1, TakeTyped DEF Request, Fits, Steps, Result, Typed
<1>13. ASSUME NEW q \in Jobs, NEW m \in Members, NEW S \in SUBSET Sessions, LeaveRead(q, m, S)
       PROVE Typed'
  <2> DEFINE T == {s \in S : Seated(m, s)}
  <2>1. Take(q, "excuse", {}, m, None, T, "EXCUSED") BY <1>13 DEF LeaveRead
  <2>2. T \subseteq Sessions OBVIOUS
  <2> HIDE DEF T
  <2> QED BY <1>1, <2>1, <2>2, TakeTyped DEF Request, Fits, Steps, Result, Given, Typed
<1>14. ASSUME NEW q \in Jobs, ScanWrite(q) \/ EnterWrite(q) PROVE Typed'
  <2>1. job[q].member \in Members /\ job[q].session \in Sessions /\ job[q].what \in Given
    BY <1>1, <1>14 DEF Shape, Fits, ScanWrite, EnterWrite
  <2>2. result' \in [Members -> [Sessions -> Result]]
    <3>1. PICK r \in Result : result' = [result EXCEPT ![job[q].member][job[q].session] = r]
      BY <1>14, <2>1 DEF ScanWrite, EnterWrite, Enter, Result, Given
    <3> QED BY <1>1, <2>1, <3>1 DEF TypeOK
  <2>3. End(q) BY <1>14 DEF ScanWrite, EnterWrite
  <2>4. told' \subseteq Members \X Sessions BY <1>1, <1>14, <2>1 DEF TypeOK, ScanWrite, EnterWrite
  <2> QED BY <1>1, <1>14, <2>2, <2>3, <2>4, EndTyped DEF Typed, TypeOK, ScanWrite, EnterWrite, End, Request
<1>15. ASSUME NEW q \in Jobs, LeaveWrite(q) PROVE Typed'
  <2>1. job[q].member \in Members /\ job[q].set \subseteq Sessions
    BY <1>1, <1>15 DEF Shape, Fits, LeaveWrite
  <2>2. result' \in [Members -> [Sessions -> Result]]
    BY <1>1, <1>15, <2>1 DEF TypeOK, LeaveWrite, Result, Given
  <2>3. amended' \subseteq Members \X Sessions BY <1>1, <1>15, <2>1 DEF TypeOK, LeaveWrite
  <2>4. End(q) BY <1>15 DEF LeaveWrite
  <2> QED BY <1>1, <1>15, <2>2, <2>3, <2>4, EndTyped DEF Typed, TypeOK, LeaveWrite, End, Request
<1>16. ASSUME NEW q \in Jobs, CompleteWrite(q) PROVE Typed'
  <2>1. job[q].session \in Sessions BY <1>1, <1>16 DEF Shape, Fits, CompleteWrite
  <2>2. result' \in [Members -> [Sessions -> Result]]
    BY <1>1, <1>16, <2>1 DEF TypeOK, CompleteWrite, Result, Given
  <2>3. seat' \in [Members -> [Sessions -> Seat]]
    BY <1>1, <1>16, <2>1 DEF TypeOK, CompleteWrite, Seat
  <2>4. status' \in [Sessions -> Status] BY <1>1, <1>16 DEF TypeOK, CompleteWrite, Status
  <2>5. End(q) BY <1>16 DEF CompleteWrite
  <2> QED BY <1>1, <1>16, <2>2, <2>3, <2>4, <2>5, EndTyped DEF Typed, TypeOK, CompleteWrite, End, Request
<1>17. ASSUME NEW q \in Jobs, NEW m \in Members, WarnRead(q, m) \/ SubmitRead(q, m) PROVE Typed'
  <2>1. \/ Take(q, "warn", {<<"pair", m>>}, m, None, {}, "NONE")
       \/ Take(q, "submit", {<<"pair", m>>}, m, None, {}, "NONE") BY <1>17 DEF WarnRead, SubmitRead
  <2>2. {<<"pair", m>>} \in SUBSET Locks BY DEF Locks
  <2> QED BY <1>1, <2>1, <2>2, TakeTyped DEF Request, Fits, Steps, Result, Typed
<1>18. ASSUME NEW q \in Jobs, NEW i \in Reports, SubmitWrite(q, i) PROVE Typed'
  <2>1. job[q].member \in Members BY <1>1, <1>18 DEF Shape, Fits, SubmitWrite
  <2> QED BY <1>1, <1>18, <2>1, EndTyped DEF Typed, TypeOK, SubmitWrite, End, Request
<1>19. ASSUME NEW q \in Jobs, NEW i \in Reports, NEW d \in {"RESOLVED", "CLOSED"}, ReviewRead(q, i, d)
       PROVE Typed'
  <2> DEFINE m == report[i].member
             S == IF d = "RESOLVED" THEN {s \in Sessions : seat[m][s] = "BOOKED" /\ Upcoming(s)} ELSE {}
  <2>1. Take(q, "review", {i, <<"class", m>>}, m, i, S, d) BY <1>19 DEF ReviewRead
  <2>2. S \subseteq Sessions OBVIOUS
  <2>3. m \in Members BY <1>1, <1>19 DEF Filed, ReviewRead
  <2>4. {i, <<"class", m>>} \in SUBSET Locks BY <2>3 DEF Locks
  <2> HIDE DEF S, m
  <2> QED BY <1>1, <2>1, <2>2, <2>3, <2>4, TakeTyped DEF Request, Fits, Steps, Typed
<1>20. ASSUME NEW q \in Jobs, WarnWrite(q) PROVE Typed'
  <2>1. job[q].member \in Members BY <1>1, <1>20 DEF Shape, Fits, WarnWrite
  <2>2. warned' \in [Members -> Nat] BY <1>1, <1>20, <2>1 DEF TypeOK, WarnWrite
  <2>3. End(q) BY <1>20 DEF WarnWrite
  <2> QED BY <1>1, <1>20, <2>2, <2>3, EndTyped DEF Typed, TypeOK, WarnWrite, End, Request
<1>21. ASSUME NEW q \in Jobs, ReviewWrite(q) PROVE Typed'
  <2>1. job[q].member \in Members /\ job[q].session \in Reports /\ job[q].what \in {"RESOLVED", "CLOSED"}
    BY <1>1, <1>21 DEF Shape, Fits, ReviewWrite
  <2>2. seat' \in [Members -> [Sessions -> Seat]] BY <1>1, <1>21, <2>1 DEF TypeOK, ReviewWrite, Seat
  <2> DEFINE i == job[q].session
             d == job[q].what
  <2>7. report' = [report EXCEPT ![i] = [report[i] EXCEPT !.status = d]] BY <1>21 DEF ReviewWrite
  <2>8. report[i] \in [status: {"NONE", "OPEN", "RESOLVED", "CLOSED"}, member: Members \cup {None}]
    BY <1>1, <2>1 DEF TypeOK
  <2>9. [report[i] EXCEPT !.status = d].member = report[i].member BY <2>8
  <2>3. report' \in [Reports -> [status: {"NONE", "OPEN", "RESOLVED", "CLOSED"}, member: Members \cup {None}]]
    BY <1>1, <2>1, <2>7, <2>8 DEF TypeOK
  <2>10. report[i].member \in Members BY <1>1, <1>21, <2>1 DEF Vacant, ReviewWrite
  <2>11. \A x \in Reports : report'[x].member = report[x].member
    BY <1>1, <2>1, <2>7, <2>9 DEF TypeOK
  <2>6. Filed'
    BY <1>1, <2>1, <2>7, <2>10, <2>11 DEF TypeOK
  <2>4. answers' \in [Reports -> SUBSET {"RESOLVED", "CLOSED"}] BY <1>1, <1>21, <2>1 DEF TypeOK, ReviewWrite
  <2>5. End(q) BY <1>21 DEF ReviewWrite
  <2> QED BY <1>1, <1>21, <2>2, <2>3, <2>4, <2>5, <2>6, EndTyped DEF Typed, TypeOK, ReviewWrite, End, Request
<1> QED
  BY <1>2, <1>3, <1>4, <1>5, <1>6, <1>7, <1>8, <1>9, <1>10, <1>11, <1>12, <1>13, <1>14, <1>15,
     <1>16, <1>17, <1>18, <1>19, <1>20, <1>21 DEF Next

-----------------------------------------------------------------------------
(* Locks.                                                                  *)

\* A step begins one request, whose locks nobody else holds, ends one or
\* leaves them all alone.
Begins(q) ==
  /\ job[q].step = "idle"
  /\ Free(q, job'[q].locks)
  /\ \A p \in Jobs : p # q => job'[p] = job[p]
Ends(q) ==
  /\ job'[q] = Idle
  /\ \A p \in Jobs : p # q => job'[p] = job[p]

\* A request that is begun has the fields it was given.
LEMMA TakeBegins ==
  ASSUME Typed, NEW q \in Jobs, NEW step, NEW locks, NEW m, NEW s, NEW set, NEW what,
         Take(q, step, locks, m, s, set, what)
  PROVE  /\ Begins(q)
         /\ job'[q].step = step /\ job'[q].locks = locks /\ job'[q].member = m
         /\ job'[q].session = s /\ job'[q].set = set /\ job'[q].what = what
<1>1. job' = [job EXCEPT ![q] = [step |-> step, locks |-> locks, member |-> m, session |-> s,
                                 set |-> set, what |-> what]] BY DEF Take
<1>2. job' = [p \in Jobs |-> IF p = q THEN [step |-> step, locks |-> locks, member |-> m, session |-> s,
                                 set |-> set, what |-> what] ELSE job[p]] BY <1>1 DEF Typed, TypeOK
<1>3. /\ job'[q] = [step |-> step, locks |-> locks, member |-> m, session |-> s,
                       set |-> set, what |-> what]
      /\ \A p \in Jobs : p # q => job'[p] = job[p] BY <1>2
<1>4. job'[q].locks = locks BY <1>3
<1> QED BY <1>3, <1>4 DEF Begins, Take

Simple == {"issue", "scan", "enter", "excuse"}

\* Every step begins a request of some kind, ends one or leaves them alone.
LEMMA Kinds ==
  ASSUME Typed, Next
  PROVE  \/ UNCHANGED job
         \/ \E q \in Jobs : Ends(q)
         \/ \E q \in Jobs :
              /\ Begins(q)
              /\ \/ job'[q].step \in Simple
                 \/ \E s \in Sessions : CompleteRead(q, s)
                 \/ \E m \in Members : WarnRead(q, m) \/ SubmitRead(q, m)
                 \/ \E i \in Reports, d \in {"RESOLVED", "CLOSED"} : ReviewRead(q, i, d)
<1>1. ASSUME NEW q \in Jobs, End(q) PROVE Ends(q) BY <1>1, EndTyped DEF Ends
<1>2. ASSUME NEW q \in Jobs, NEW s \in Sessions, IssueRevoke(q, s) PROVE Begins(q) /\ job'[q].step \in Simple
  <2>1. job' = [job EXCEPT ![q] = [Idle EXCEPT !.step = "issue", !.session = s]] BY <1>2 DEF IssueRevoke
  <2>2. job'[q].locks = {} /\ job'[q].step = "issue" BY <2>1 DEF Typed, TypeOK, Idle
  <2>3. \A p \in Jobs : p # q => job'[p] = job[p] BY <2>1 DEF Typed, TypeOK
  <2> QED BY <1>2, <2>2, <2>3 DEF Begins, Free, IssueRevoke, Simple
<1>3. ASSUME NEW q \in Jobs, NEW s \in Sessions, CompleteRead(q, s) PROVE Begins(q)
  BY <1>3, TakeBegins DEF CompleteRead
<1>4. ASSUME NEW q \in Jobs, NEW m \in Members, NEW s \in Sessions, NEW x,
             ScanRead(q, m, s, x) \/ EnterRead(q, m, s, x)
      PROVE Begins(q) /\ job'[q].step \in Simple
  BY <1>4, TakeBegins DEF ScanRead, EnterRead, Simple
<1>5. ASSUME NEW q \in Jobs, NEW m \in Members, NEW S \in SUBSET Sessions, LeaveRead(q, m, S)
      PROVE Begins(q) /\ job'[q].step \in Simple
  BY <1>5, TakeBegins DEF LeaveRead, Simple
<1>6. ASSUME NEW q \in Jobs, NEW m \in Members, WarnRead(q, m) \/ SubmitRead(q, m) PROVE Begins(q)
  BY <1>6, TakeBegins DEF WarnRead, SubmitRead
<1>7. ASSUME NEW q \in Jobs, NEW i \in Reports, NEW d, ReviewRead(q, i, d) PROVE Begins(q)
  BY <1>7, TakeBegins DEF ReviewRead
<1> QED
  BY <1>1, <1>2, <1>3, <1>4, <1>5, <1>6, <1>7
  DEF Next, Tick, CancelSession, Book, CancelSeat, Correct, Expire, Fail, IssueCreate, ScanWrite,
      EnterWrite, LeaveWrite, CompleteWrite, WarnWrite, SubmitWrite, ReviewWrite

\* Two requests never hold one lock.
LEMMA NextApart == Typed /\ Apart /\ Next => Apart'
<1> SUFFICES ASSUME Typed, Apart, Next PROVE Apart' OBVIOUS
<1>1. CASE UNCHANGED job BY <1>1 DEF Apart
<1>2. ASSUME NEW q \in Jobs, Begins(q) PROVE Apart' BY <1>2 DEF Apart, Begins, Free
<1>3. ASSUME NEW q \in Jobs, Ends(q) PROVE Apart' BY <1>3 DEF Apart, Ends, Idle
<1> QED BY <1>1, <1>2, <1>3, Kinds

-----------------------------------------------------------------------------
(* The roster.                                                             *)

\* A member who was told stays present, step by step.
LEMMA NextCheckedIn == Typed /\ CheckedInStays /\ Next => CheckedInStays'
<1> SUFFICES ASSUME Typed, CheckedInStays, Next PROVE CheckedInStays' OBVIOUS
<1>1. CASE UNCHANGED <<result, told, amended>> BY <1>1 DEF CheckedInStays
<1>2. result \in [Members -> [Sessions -> Result]] /\ told \subseteq Members \X Sessions
  BY DEF Typed, TypeOK
<1>3. ASSUME NEW m \in Members, NEW s \in Sessions, NEW r \in Given, Correct(m, s, r)
      PROVE CheckedInStays'
  BY <1>2, <1>3 DEF CheckedInStays, Correct, Enter
<1>4. ASSUME NEW q \in Jobs, ScanWrite(q) \/ EnterWrite(q) PROVE CheckedInStays'
  <2> DEFINE m == job[q].member
             s == job[q].session
  <2>1. m \in Members /\ s \in Sessions BY <1>4 DEF Typed, Shape, Fits, ScanWrite, EnterWrite
  <2>2. PICK r \in Result : result' = [result EXCEPT ![m][s] = r] /\ (told' # told => r = "PRESENT")
    BY <1>4 DEF ScanWrite, EnterWrite, Enter, Result, Given, Typed, Shape, Fits
  <2>3. told' \subseteq told \cup {<<m, s>>} /\ amended' = amended /\ result[m][s] = "NONE"
    BY <1>4 DEF ScanWrite, EnterWrite
  <2> HIDE DEF m, s
  <2>4. ASSUME NEW p \in told' PROVE result'[p[1]][p[2]] = "PRESENT" \/ p \in amended'
    <3>1. CASE p \in told /\ p # <<m, s>>
      <4>1. p[1] \in Members /\ p[2] \in Sessions /\ ~(p[1] = m /\ p[2] = s) BY <1>2, <3>1
      <4>2. result'[p[1]][p[2]] = result[p[1]][p[2]] BY <1>2, <2>1, <2>2, <4>1
      <4> QED BY <3>1, <4>2, <2>3 DEF CheckedInStays
    <3>2. CASE p = <<m, s>>
      <4>1. CASE p \in told BY <3>2, <4>1, <2>3 DEF CheckedInStays
      <4>2. CASE p \notin told BY <1>2, <2>1, <2>2, <3>2, <4>2
      <4> QED BY <4>1, <4>2
    <3> QED BY <2>3, <3>1, <3>2
  <2> QED BY <2>4 DEF CheckedInStays
<1>5. ASSUME NEW q \in Jobs, LeaveWrite(q) PROVE CheckedInStays'
  <2> DEFINE m == job[q].member
             S == job[q].set
  <2>1. /\ result' = [result EXCEPT ![m] = [s \in Sessions |-> IF s \in S THEN "EXCUSED" ELSE @[s]]]
        /\ amended' = amended \cup ({m} \X S) /\ told' = told
    BY <1>5 DEF LeaveWrite
  <2> HIDE DEF m, S
  <2> QED BY <1>2, <2>1 DEF CheckedInStays
<1>6. ASSUME NEW q \in Jobs, CompleteWrite(q) PROVE CheckedInStays'
  <2> DEFINE s == job[q].session
  <2>1. /\ result' = [m \in Members |->
                       [result[m] EXCEPT ![s] = IF m \in Missing(q) THEN "ABSENT" ELSE @]]
        /\ UNCHANGED <<amended, told>>
    BY <1>6 DEF CompleteWrite
  <2>2. \A m \in Missing(q) : result[m][s] = "NONE" BY DEF Missing
  <2> HIDE DEF s
  <2> QED BY <1>2, <2>1, <2>2 DEF CheckedInStays
<1> QED
  BY <1>1, <1>3, <1>4, <1>5, <1>6
  DEF Next, Tick, CancelSession, Book, CancelSeat, Expire, Fail, End, IssueRevoke, IssueCreate,
      CompleteRead, ScanRead, EnterRead, LeaveRead, WarnRead, SubmitRead, ReviewRead, Take,
      WarnWrite, SubmitWrite, ReviewWrite, roster, cases

\* A result that is on the roster is never taken off it.
LEMMA ResultsStay ==
  ASSUME Typed, Next, NEW m \in Members, NEW s \in Sessions, result[m][s] # "NONE"
  PROVE  result'[m][s] # "NONE"
<1>1. CASE UNCHANGED result BY <1>1
<1>2. result \in [Members -> [Sessions -> Result]] BY DEF Typed, TypeOK
<1>3. ASSUME NEW n \in Members, NEW t \in Sessions, NEW r \in Given, Correct(n, t, r)
      PROVE result'[m][s] # "NONE"
  BY <1>2, <1>3 DEF Correct, Enter, Given
<1>4. ASSUME NEW q \in Jobs, ScanWrite(q) \/ EnterWrite(q) PROVE result'[m][s] # "NONE"
  <2>1. job[q].member \in Members /\ job[q].session \in Sessions /\ job[q].what \in Given
    BY <1>4 DEF Typed, Shape, Fits, ScanWrite, EnterWrite
  <2>2. PICK r \in Given : result' = [result EXCEPT ![job[q].member][job[q].session] = r]
    BY <1>4, <2>1 DEF ScanWrite, EnterWrite, Enter, Given
  <2> QED BY <1>2, <2>1, <2>2 DEF Given
<1>5. ASSUME NEW q \in Jobs, LeaveWrite(q) PROVE result'[m][s] # "NONE"
  BY <1>2, <1>5 DEF LeaveWrite
<1>6. ASSUME NEW q \in Jobs, CompleteWrite(q) PROVE result'[m][s] # "NONE"
  BY <1>2, <1>6 DEF CompleteWrite
<1> QED
  BY <1>1, <1>3, <1>4, <1>5, <1>6
  DEF Next, Tick, CancelSession, Book, CancelSeat, Expire, Fail, End, IssueRevoke, IssueCreate,
      CompleteRead, ScanRead, EnterRead, LeaveRead, WarnRead, SubmitRead, ReviewRead, Take,
      WarnWrite, SubmitWrite, ReviewWrite, roster, cases

\* While a session is being completed nobody takes a seat in it.
LEMMA NoNewSeat ==
  ASSUME Typed, Listed, Next,
         NEW q \in Jobs, job[q].step = "complete",
         NEW m \in Members, seat'[m][job[q].session] = "BOOKED"
  PROVE  seat[m][job[q].session] = "BOOKED"
<1> DEFINE t == job[q].session
<1>1. t \in Sessions /\ t \in job[q].locks BY DEF Typed, Shape, Fits, Listed
<1>2. seat \in [Members -> [Sessions -> Seat]] BY DEF Typed, TypeOK
<1>3. CASE UNCHANGED seat BY <1>3
<1>4. ASSUME NEW s \in Sessions, CancelSession(s) PROVE seat[m][t] = "BOOKED"
  BY <1>1, <1>2, <1>4 DEF CancelSession
<1>5. ASSUME NEW n \in Members, NEW s \in Sessions, Book(n, s) PROVE seat[m][t] = "BOOKED"
  <2>1. t # s BY <1>1, <1>5 DEF Book, Quiet
  <2> QED BY <1>1, <1>2, <1>5, <2>1 DEF Book
<1>6. ASSUME NEW n \in Members, NEW s \in Sessions, CancelSeat(n, s) PROVE seat[m][t] = "BOOKED"
  BY <1>1, <1>2, <1>6 DEF CancelSeat
<1>7. ASSUME NEW p \in Jobs, CompleteWrite(p) PROVE seat[m][t] = "BOOKED"
  BY <1>1, <1>2, <1>7 DEF CompleteWrite
<1>8. ASSUME NEW p \in Jobs, ReviewWrite(p) PROVE seat[m][t] = "BOOKED"
  BY <1>1, <1>2, <1>8 DEF ReviewWrite
<1> QED
  BY <1>3, <1>4, <1>5, <1>6, <1>7, <1>8
  DEF Next, Tick, Correct, Expire, Fail, End, IssueRevoke, IssueCreate, ScanWrite, EnterWrite,
      LeaveWrite, CompleteRead, ScanRead, EnterRead, LeaveRead, WarnRead, SubmitRead, ReviewRead, Take,
      WarnWrite, SubmitWrite, roster, cases

\* The list of a completion stays complete.
LEMMA NextListed == Typed /\ Listed /\ Next => Listed'
<1> SUFFICES ASSUME Typed, Listed, Next,
                    NEW q \in Jobs, job'[q].step = "complete"
             PROVE  /\ job'[q].session \in job'[q].locks
                    /\ \A m \in Members : seat'[m][job'[q].session] = "BOOKED" =>
                         m \in job'[q].set \/ result'[m][job'[q].session] # "NONE"
  BY DEF Listed
<1>1. CASE job'[q] = job[q]
  <2>1. job[q].session \in Sessions BY <1>1 DEF Typed, Shape, Fits
  <2> QED BY <1>1, <2>1, NoNewSeat, ResultsStay DEF Listed
<1>2. ASSUME NEW s \in Sessions, CompleteRead(q, s)
      PROVE  /\ job'[q].session \in job'[q].locks
             /\ \A m \in Members : seat'[m][job'[q].session] = "BOOKED" =>
                  m \in job'[q].set \/ result'[m][job'[q].session] # "NONE"
  <2> DEFINE S == {m \in Members : seat[m][s] = "BOOKED" /\ result[m][s] = "NONE"}
  <2>1. Take(q, "complete", {s}, None, s, S, "ABSENT") BY <1>2 DEF CompleteRead
  <2> HIDE DEF S
  <2>2. job'[q].locks = {s} /\ job'[q].session = s /\ job'[q].set = S BY <2>1, TakeBegins
  <2>3. seat' = seat /\ result' = result BY <2>1 DEF Take, roster
  <2> QED BY <2>2, <2>3 DEF S
<1>3. ASSUME NEW p \in Jobs, Ends(p), p = q PROVE FALSE BY <1>3 DEF Ends, Idle
<1>4. ASSUME NEW p \in Jobs, p = q, job'[p].step \in Simple PROVE FALSE BY <1>4 DEF Simple
<1>5. ASSUME NEW m \in Members, WarnRead(q, m) \/ SubmitRead(q, m) PROVE FALSE
  BY <1>5, TakeBegins DEF WarnRead, SubmitRead
<1>6. ASSUME NEW i \in Reports, NEW d, ReviewRead(q, i, d) PROVE FALSE
  BY <1>6, TakeBegins DEF ReviewRead
<1>7. ASSUME NEW p \in Jobs, Begins(p) \/ Ends(p), p # q PROVE job'[q] = job[q]
  BY <1>7 DEF Begins, Ends
<1> QED BY <1>1, <1>2, <1>3, <1>4, <1>5, <1>6, <1>7, Kinds

\* Seats and results of a completed session stay answered.
LEMMA NextAnswered == Typed /\ Listed /\ Answered /\ Next => Answered'
<1> SUFFICES ASSUME Typed, Listed, Answered, Next,
                    NEW m \in Members, NEW t \in Sessions
             PROVE  /\ seat'[m][t] = "COMPLETED" => result'[m][t] # "NONE"
                    /\ status'[t] = "COMPLETED" => seat'[m][t] # "BOOKED"
  BY DEF Answered
<1> DEFINE Good == /\ seat'[m][t] = "COMPLETED" => result'[m][t] # "NONE"
                   /\ status'[t] = "COMPLETED" => seat'[m][t] # "BOOKED"
<1>1. /\ seat \in [Members -> [Sessions -> Seat]]
      /\ result \in [Members -> [Sessions -> Result]]
      /\ status \in [Sessions -> Status]
  BY DEF Typed, TypeOK
<1>2. CASE UNCHANGED <<seat, status>> BY <1>2, ResultsStay DEF Answered
<1>3. ASSUME NEW s \in Sessions, CancelSession(s) PROVE Good
  BY <1>1, <1>3 DEF CancelSession, Answered
<1>4. ASSUME NEW n \in Members, NEW s \in Sessions, Book(n, s) PROVE Good
  BY <1>1, <1>4 DEF Book, Upcoming, Answered
<1>5. ASSUME NEW n \in Members, NEW s \in Sessions, CancelSeat(n, s) PROVE Good
  BY <1>1, <1>5 DEF CancelSeat, Answered
<1>6. ASSUME NEW q \in Jobs, CompleteWrite(q) PROVE Good
  <2> DEFINE s == job[q].session
  <2>1. s \in Sessions BY <1>6 DEF CompleteWrite, Typed, Shape, Fits
  <2>2. seat[m][s] = "BOOKED" => m \in job[q].set \/ result[m][s] # "NONE"
    BY <1>6 DEF CompleteWrite, Listed
  <2>3. result'[m] = [result[m] EXCEPT ![s] = IF m \in Missing(q) THEN "ABSENT" ELSE @]
    BY <1>6 DEF CompleteWrite
  <2>4. seat'[m] = [seat[m] EXCEPT ![s] = IF @ = "BOOKED" THEN "COMPLETED" ELSE @]
    BY <1>6 DEF CompleteWrite
  <2>5. status' = [status EXCEPT ![s] = "COMPLETED"] BY <1>6 DEF CompleteWrite
  <2>6. CASE t = s
    <3>1. seat'[m][s] = IF seat[m][s] = "BOOKED" THEN "COMPLETED" ELSE seat[m][s] BY <1>1, <2>1, <2>4
    <3>2. result'[m][s] = IF m \in Missing(q) THEN "ABSENT" ELSE result[m][s] BY <1>1, <2>1, <2>3
    <3>3. seat[m][s] = "BOOKED" => m \in Missing(q) \/ result[m][s] # "NONE" BY <2>2 DEF Missing
    <3> QED BY <2>1, <2>6, <3>1, <3>2, <3>3 DEF Answered
  <2>7. CASE t # s BY <1>1, <2>1, <2>3, <2>4, <2>5, <2>7 DEF Answered
  <2> QED BY <2>6, <2>7
<1>7. ASSUME NEW q \in Jobs, ReviewWrite(q) PROVE Good
  <2>1. /\ seat' = [seat EXCEPT ![job[q].member] =
                      [s \in Sessions |-> IF s \in job[q].set THEN "CANCELLED" ELSE @[s]]]
        /\ UNCHANGED <<result, status>>
    BY <1>7 DEF ReviewWrite
  <2>2. seat'[m][t] = seat[m][t] \/ seat'[m][t] = "CANCELLED" BY <1>1, <2>1
  <2> QED BY <2>1, <2>2 DEF Answered
<1> QED
  BY <1>2, <1>3, <1>4, <1>5, <1>6, <1>7
  DEF Next, Tick, Correct, Expire, Fail, End, IssueRevoke, IssueCreate, ScanWrite, EnterWrite,
      LeaveWrite, CompleteRead, ScanRead, EnterRead, LeaveRead, WarnRead, SubmitRead, ReviewRead, Take,
      WarnWrite, SubmitWrite, roster, cases

-----------------------------------------------------------------------------
(* Warnings and reports.                                                   *)

\* Only the end of a request of reception's changes warnings and reports.
LEMMA CasesChange ==
  ASSUME Typed, Next
  PROVE  \/ UNCHANGED <<report, warned, answers>>
         \/ \E q \in Jobs : WarnWrite(q) \/ ReviewWrite(q) \/ \E i \in Reports : SubmitWrite(q, i)
<1>1. ASSUME NEW q \in Jobs, NEW step, NEW locks, NEW m, NEW s, NEW set, NEW what,
             Take(q, step, locks, m, s, set, what)
      PROVE  UNCHANGED <<report, warned, answers>>
  BY <1>1 DEF Take, cases
<1>2. ASSUME NEW q \in Jobs,
             \/ \E s \in Sessions : CompleteRead(q, s)
             \/ \E m \in Members, s \in Sessions, x \in Given \cup {"QR", "code"} :
                  ScanRead(q, m, s, x) \/ EnterRead(q, m, s, x)
             \/ \E m \in Members, S \in SUBSET Sessions : LeaveRead(q, m, S)
             \/ \E m \in Members : WarnRead(q, m) \/ SubmitRead(q, m)
             \/ \E i \in Reports, d \in {"RESOLVED", "CLOSED"} : ReviewRead(q, i, d)
      PROVE  UNCHANGED <<report, warned, answers>>
  BY <1>1, <1>2 DEF CompleteRead, ScanRead, EnterRead, LeaveRead, WarnRead, SubmitRead, ReviewRead
<1>3. ASSUME NEW q \in Jobs,
             \/ Fail(q) \/ ScanWrite(q) \/ EnterWrite(q) \/ LeaveWrite(q) \/ CompleteWrite(q)
             \/ \E s \in Sessions : IssueRevoke(q, s)
             \/ \E c \in Codes : IssueCreate(q, c)
      PROVE  UNCHANGED <<report, warned, answers>>
  BY <1>3 DEF Fail, ScanWrite, EnterWrite, LeaveWrite, CompleteWrite, IssueRevoke, IssueCreate, cases
<1>4. ASSUME \/ \E s \in Sessions : Tick(s) \/ CancelSession(s)
             \/ \E m \in Members, s \in Sessions : Book(m, s) \/ CancelSeat(m, s)
             \/ \E m \in Members, s \in Sessions, r \in Given : Correct(m, s, r)
             \/ \E c \in Codes : Expire(c)
      PROVE  UNCHANGED <<report, warned, answers>>
  BY <1>4 DEF Tick, CancelSession, Book, CancelSeat, Correct, Expire, cases
<1> QED BY <1>2, <1>3, <1>4 DEF Next

\* A warning is counted for the member of the request.
LEMMA WarnEffect ==
  ASSUME Typed, NEW q \in Jobs, WarnWrite(q)
  PROVE  /\ job[q].member \in Members
         /\ warned'[job[q].member] = warned[job[q].member] + 1
         /\ \A m \in Members : m # job[q].member => warned'[m] = warned[m]
         /\ UNCHANGED <<report, answers>> /\ Ends(q)
<1>1. job[q].member \in Members BY DEF Typed, Shape, Fits, WarnWrite
<1>2. warned \in [Members -> Nat] BY DEF Typed, TypeOK
<1>3. warned' = [warned EXCEPT ![job[q].member] = @ + 1] BY DEF WarnWrite
<1>4. warned'[job[q].member] = warned[job[q].member] + 1 BY <1>1, <1>2, <1>3
<1>5. \A m \in Members : m # job[q].member => warned'[m] = warned[m] BY <1>2, <1>3
<1>6. Ends(q) BY EndTyped DEF WarnWrite, Ends
<1> QED BY <1>1, <1>4, <1>5, <1>6 DEF WarnWrite

\* A submitted report is the member's, is open and takes a free row.
LEMMA SubmitEffect ==
  ASSUME Typed, NEW q \in Jobs, NEW i \in Reports, SubmitWrite(q, i)
  PROVE  /\ report[i].status = "NONE" /\ report'[i].status = "OPEN"
         /\ report'[i].member = job[q].member
         /\ \A x \in Reports : x # i => report'[x] = report[x]
         /\ UNCHANGED <<warned, answers>> /\ Ends(q)
<1>1. report' = [report EXCEPT ![i] = [status |-> "OPEN", member |-> job[q].member]]
  BY DEF SubmitWrite
<1>2. report'[i] = [status |-> "OPEN", member |-> job[q].member]
  BY <1>1 DEF Typed, TypeOK
<1>3. \A x \in Reports : x # i => report'[x] = report[x] BY <1>1 DEF Typed, TypeOK
<1>4. report[i].status = "NONE" BY DEF SubmitWrite, NoReport
<1>5. Ends(q) BY EndTyped DEF SubmitWrite, Ends
<1> QED BY <1>2, <1>3, <1>4, <1>5 DEF SubmitWrite

\* A review writes the decision on its report only.
LEMMA ReviewEffect ==
  ASSUME Typed, Vacant, NEW q \in Jobs, ReviewWrite(q)
  PROVE  /\ job[q].session \in Reports /\ job[q].what \in {"RESOLVED", "CLOSED"}
         /\ report[job[q].session].status = "OPEN"
         /\ report'[job[q].session].status = job[q].what
         /\ report'[job[q].session].member = report[job[q].session].member
         /\ \A x \in Reports : x # job[q].session => report'[x] = report[x]
         /\ answers' = [answers EXCEPT ![job[q].session] = {job[q].what}]
         /\ UNCHANGED warned /\ Ends(q)
<1> DEFINE i == job[q].session
           d == job[q].what
<1>1. i \in Reports /\ d \in {"RESOLVED", "CLOSED"} BY DEF Typed, Shape, Fits, ReviewWrite
<1>2. report[i].status = "OPEN" BY DEF Vacant, ReviewWrite
<1>3. report' = [report EXCEPT ![i] = [report[i] EXCEPT !.status = d]] BY DEF ReviewWrite
<1>4. report[i] \in [status: {"NONE", "OPEN", "RESOLVED", "CLOSED"}, member: Members \cup {None}]
  BY <1>1 DEF Typed, TypeOK
<1>5. [report[i] EXCEPT !.status = d].status = d /\ [report[i] EXCEPT !.status = d].member = report[i].member
  BY <1>4
<1>6. report'[i] = [report[i] EXCEPT !.status = d] BY <1>1, <1>3 DEF Typed, TypeOK
<1>7. \A x \in Reports : x # i => report'[x] = report[x] BY <1>3 DEF Typed, TypeOK
<1>8. answers[i] = {} BY <1>1, <1>2 DEF Vacant
<1>9. answers' = [answers EXCEPT ![i] = {d}] BY <1>8 DEF ReviewWrite
<1>10. Ends(q) BY EndTyped DEF ReviewWrite, Ends
<1> QED BY <1>1, <1>2, <1>5, <1>6, <1>7, <1>9, <1>10 DEF ReviewWrite

\* A report that counts after a review counted before it.
LEMMA ReviewLive ==
  ASSUME Typed, Vacant, NEW q \in Jobs, ReviewWrite(q), NEW x \in Reports, NEW m, Live(x, m)'
  PROVE  Live(x, m)
<1>1. CASE x = job[q].session BY <1>1, ReviewEffect DEF Live
<1>2. CASE x # job[q].session BY <1>2, ReviewEffect DEF Live
<1> QED BY <1>1, <1>2

\* What a request of reception's relies on.
Relies(q) ==
  /\ job[q].step = "warn" => /\ <<"pair", job[q].member>> \in job[q].locks
                             /\ warned[job[q].member] = 0
  /\ job[q].step = "submit" => /\ <<"pair", job[q].member>> \in job[q].locks
                               /\ \A i \in Reports : ~Live(i, job[q].member)
  /\ job[q].step = "review" => /\ job[q].session \in job[q].locks
                               /\ report[job[q].session].status = "OPEN"
Unanswered == \A i \in Reports : report[i].status \in {"NONE", "OPEN"} => answers[i] = {}

\* A request that goes on can rely on what it read, whatever others wrote.
LEMMA StillRelies ==
  ASSUME Typed, Apart, Vacant, Next, NEW q \in Jobs, job'[q] = job[q]
  PROVE  Relies(q)'
<1>1. Relies(q) BY DEF Vacant, Relies
<1>2. CASE UNCHANGED <<report, warned, answers>> BY <1>1, <1>2 DEF Relies, Live
<1>3. ASSUME NEW p \in Jobs, Ends(p), p = q PROVE Relies(q)' BY <1>3 DEF Ends, Idle, Relies
<1>4. ASSUME NEW p \in Jobs, p # q PROVE job[p].locks \cap job[q].locks = {} BY <1>4 DEF Apart
<1>5. ASSUME NEW p \in Jobs, p # q, WarnWrite(p) PROVE Relies(q)'
  <2>1. <<"pair", job[p].member>> \in job[p].locks BY <1>5 DEF Vacant, WarnWrite
  <2>2. job[q].step = "warn" => job[q].member # job[p].member /\ job[q].member \in Members
    BY <1>1, <1>4, <1>5, <2>1 DEF Relies, Typed, Shape, Fits
  <2>3. report' = report BY <1>5, WarnEffect
  <2>4. job[q].step = "warn" => warned'[job[q].member] = warned[job[q].member]
    BY <1>5, <2>2, WarnEffect
  <2> QED BY <1>1, <2>3, <2>4 DEF Relies, Live
<1>6. ASSUME NEW p \in Jobs, p # q, NEW i \in Reports, SubmitWrite(p, i) PROVE Relies(q)'
  <2>1. <<"pair", job[p].member>> \in job[p].locks BY <1>6 DEF Vacant, SubmitWrite
  <2>2. job[q].step = "submit" => job[q].member # job[p].member
    BY <1>1, <1>4, <1>6, <2>1 DEF Relies
  <2>3. job[q].step = "submit" => \A x \in Reports : ~Live(x, job[q].member)'
    <3> SUFFICES ASSUME job[q].step = "submit", NEW x \in Reports PROVE ~Live(x, job[q].member)'
      OBVIOUS
    <3>1. CASE x = i BY <1>6, <2>2, <3>1, SubmitEffect DEF Live
    <3>2. CASE x # i BY <1>1, <1>6, <3>2, SubmitEffect DEF Live, Relies
    <3> QED BY <3>1, <3>2
  <2>4. job[q].step = "review" => report'[job[q].session] = report[job[q].session]
    <3> HAVE job[q].step = "review"
    <3>1. job[q].session \in Reports /\ job[q].session # i
      BY <1>1, <1>6, SubmitEffect DEF Relies, Typed, Shape, Fits
    <3> QED BY <1>6, <3>1, SubmitEffect
  <2>5. warned' = warned BY <1>6, SubmitEffect
  <2> QED BY <1>1, <2>3, <2>4, <2>5 DEF Relies
<1>7. ASSUME NEW p \in Jobs, p # q, ReviewWrite(p) PROVE Relies(q)'
  <2>1. job[p].session \in job[p].locks BY <1>7 DEF Vacant, ReviewWrite
  <2>2. job[q].step = "review" => report'[job[q].session] = report[job[q].session]
    <3> HAVE job[q].step = "review"
    <3>1. job[q].session \in Reports /\ job[q].session # job[p].session
      BY <1>1, <1>4, <1>7, <2>1 DEF Relies, Typed, Shape, Fits
    <3> QED BY <1>7, <3>1, ReviewEffect
  <2>3. job[q].step = "submit" => \A x \in Reports : ~Live(x, job[q].member)'
    BY <1>1, <1>7, ReviewLive DEF Relies
  <2>4. warned' = warned BY <1>7, ReviewEffect
  <2> QED BY <1>1, <2>2, <2>3, <2>4 DEF Relies
<1> QED BY <1>2, <1>3, <1>5, <1>6, <1>7, CasesChange, WarnEffect, SubmitEffect, ReviewEffect

\* Requests of reception's can rely on what they read, and a report that
\* nobody has decided has no answer.
LEMMA NextVacant == Typed /\ Apart /\ Vacant /\ Next => Vacant'
<1> SUFFICES ASSUME Typed, Apart, Vacant, Next PROVE Vacant' OBVIOUS
<1>1. ASSUME NEW q \in Jobs PROVE Relies(q)'
  <2>1. CASE job'[q] = job[q] BY <2>1, StillRelies
  <2>2. ASSUME NEW p \in Jobs, Begins(p) \/ Ends(p), p # q PROVE job'[q] = job[q]
    BY <2>2 DEF Begins, Ends
  <2>3. CASE Ends(q) BY <2>3 DEF Ends, Idle, Relies
  <2>4. CASE job'[q].step \in Simple BY <2>4 DEF Simple, Relies
  <2>5. ASSUME NEW s \in Sessions, CompleteRead(q, s) PROVE Relies(q)'
    <3>1. job'[q].step = "complete" BY <2>5, TakeBegins DEF CompleteRead
    <3> QED BY <3>1 DEF Relies
  <2>6. ASSUME NEW m \in Members, WarnRead(q, m) PROVE Relies(q)'
    <3>1. /\ job'[q].step = "warn" /\ job'[q].locks = {<<"pair", m>>} /\ job'[q].member = m
      BY <2>6, TakeBegins DEF WarnRead
    <3>2. warned' = warned /\ warned[m] = 0 BY <2>6 DEF WarnRead, Take, cases
    <3> QED BY <3>1, <3>2 DEF Relies
  <2>7. ASSUME NEW m \in Members, SubmitRead(q, m) PROVE Relies(q)'
    <3>1. /\ job'[q].step = "submit" /\ job'[q].locks = {<<"pair", m>>} /\ job'[q].member = m
      BY <2>7, TakeBegins DEF SubmitRead
    <3>2. report' = report /\ \A i \in Reports : ~Live(i, m) BY <2>7 DEF SubmitRead, Take, cases
    <3> QED BY <3>1, <3>2 DEF Relies, Live
  <2>8. ASSUME NEW i \in Reports, NEW d \in {"RESOLVED", "CLOSED"}, ReviewRead(q, i, d)
        PROVE Relies(q)'
    <3>1. job'[q].step = "review" /\ i \in job'[q].locks /\ job'[q].session = i
      BY <2>8, TakeBegins DEF ReviewRead
    <3>2. report' = report /\ report[i].status = "OPEN" BY <2>8 DEF ReviewRead, Take, cases
    <3> QED BY <3>1, <3>2 DEF Relies
  <2> QED BY <2>1, <2>2, <2>3, <2>4, <2>5, <2>6, <2>7, <2>8, Kinds
<1>2. Unanswered'
  <2>1. Unanswered BY DEF Vacant, Unanswered
  <2>2. CASE UNCHANGED <<report, warned, answers>> BY <2>1, <2>2 DEF Unanswered
  <2>3. ASSUME NEW p \in Jobs, WarnWrite(p) PROVE Unanswered'
    BY <2>1, <2>3, WarnEffect DEF Unanswered
  <2>4. ASSUME NEW p \in Jobs, NEW i \in Reports, SubmitWrite(p, i) PROVE Unanswered'
    <3> SUFFICES ASSUME NEW x \in Reports, report'[x].status \in {"NONE", "OPEN"} PROVE answers'[x] = {}
      BY DEF Unanswered
    <3> QED BY <2>1, <2>4, SubmitEffect DEF Unanswered
  <2>5. ASSUME NEW p \in Jobs, ReviewWrite(p) PROVE Unanswered'
    <3> SUFFICES ASSUME NEW x \in Reports, report'[x].status \in {"NONE", "OPEN"} PROVE answers'[x] = {}
      BY DEF Unanswered
    <3>1. x # job[p].session BY <2>5, ReviewEffect
    <3>2. report'[x] = report[x] BY <2>5, <3>1, ReviewEffect
    <3>3. answers'[x] = answers[x] BY <2>5, <3>1, ReviewEffect DEF Typed, TypeOK
    <3> QED BY <2>1, <3>2, <3>3 DEF Unanswered
  <2> QED BY <2>2, <2>3, <2>4, <2>5, CasesChange
<1> QED BY <1>1, <1>2 DEF Vacant, Relies, Unanswered

\* A member is warned once, has one report that counts, and a report one answer.
LEMMA NextOneCase == Typed /\ Vacant /\ OneCase /\ Next => OneCase'
<1> SUFFICES ASSUME Typed, Vacant, OneCase, Next PROVE OneCase' OBVIOUS
<1>1. CASE UNCHANGED <<report, warned, answers>> BY <1>1 DEF OneCase, Live
<1>2. ASSUME NEW p \in Jobs, WarnWrite(p) PROVE OneCase'
  <2>1. warned[job[p].member] = 0 BY <1>2 DEF Vacant, WarnWrite
  <2>2. \A m \in Members : warned'[m] <= 1 BY <1>2, <2>1, WarnEffect DEF OneCase
  <2>3. UNCHANGED <<report, answers>> BY <1>2, WarnEffect
  <2> QED BY <2>2, <2>3 DEF OneCase, Live
<1>3. ASSUME NEW p \in Jobs, NEW i \in Reports, SubmitWrite(p, i) PROVE OneCase'
  <2>1. \A x \in Reports : ~Live(x, job[p].member) BY <1>3 DEF Vacant, SubmitWrite
  <2>2. ASSUME NEW m \in Members, NEW x \in Reports, NEW y \in Reports, Live(x, m)', Live(y, m)'
        PROVE  x = y
    <3>1. CASE m = job[p].member
      <4>1. \A z \in Reports : z # i => ~Live(z, m)' BY <1>3, <2>1, <3>1, SubmitEffect DEF Live
      <4> QED BY <2>2, <4>1
    <3>2. CASE m # job[p].member
      <4>1. ~Live(i, m)' BY <1>3, <3>2, SubmitEffect DEF Live
      <4>2. Live(x, m) /\ Live(y, m) BY <1>3, <2>2, <4>1, SubmitEffect DEF Live
      <4> QED BY <4>2 DEF OneCase
    <3> QED BY <3>1, <3>2
  <2>3. UNCHANGED <<warned, answers>> BY <1>3, SubmitEffect
  <2> QED BY <2>2, <2>3 DEF OneCase
<1>4. ASSUME NEW p \in Jobs, ReviewWrite(p) PROVE OneCase'
  <2>1. ASSUME NEW m \in Members, NEW x \in Reports, NEW y \in Reports, Live(x, m)', Live(y, m)'
        PROVE  x = y
    <3>1. Live(x, m) /\ Live(y, m) BY <1>4, <2>1, ReviewLive
    <3> QED BY <3>1 DEF OneCase
  <2>2. ASSUME NEW x \in Reports, NEW c \in answers'[x], NEW d \in answers'[x] PROVE c = d
    <3>1. answers'[x] = answers[x] \/ answers'[x] = {job[p].what}
      BY <1>4, ReviewEffect DEF Typed, TypeOK
    <3> QED BY <2>2, <3>1 DEF OneCase
  <2>3. UNCHANGED warned BY <1>4, ReviewEffect
  <2> QED BY <2>1, <2>2, <2>3 DEF OneCase
<1> QED BY <1>1, <1>2, <1>3, <1>4, CasesChange

-----------------------------------------------------------------------------
(* The theorems.                                                           *)

\* The inductive invariant holds initially.
LEMMA InitInv == Init => Inv
<1> SUFFICES ASSUME Init PROVE Inv OBVIOUS
<1>1. Typed BY InitTyped
<1>2. \A q \in Jobs : job[q] = Idle BY DEF Init
<1>3. Apart /\ Listed BY <1>2 DEF Apart, Listed, Idle
<1>4. CheckedInStays /\ Answered BY DEF Init, CheckedInStays, Answered
<1>5. Vacant BY <1>2 DEF Init, Vacant, Idle
<1>6. OneCase BY DEF Init, OneCase, Live, NoReport
<1> QED BY <1>1, <1>3, <1>4, <1>5, <1>6 DEF Inv

\* Every step keeps it.
LEMMA NextInv == Inv /\ [Next]_vars => Inv'
<1> SUFFICES ASSUME Inv, [Next]_vars PROVE Inv' OBVIOUS
<1>1. CASE Next
  BY <1>1, NextTyped, NextApart, NextCheckedIn, NextListed, NextAnswered, NextVacant, NextOneCase DEF Inv
<1>2. CASE UNCHANGED vars
  <2> USE <1>2 DEF vars, roster, cases
  <2>1. Typed' BY DEF Inv, Typed, TypeOK, Shape, Filed
  <2>2. Apart' /\ CheckedInStays' BY DEF Inv, Apart, CheckedInStays
  <2>3. Listed' /\ Answered' BY DEF Inv, Listed, Answered
  <2>4. Vacant' /\ OneCase' BY DEF Inv, Vacant, OneCase, Live
  <2> QED BY <2>1, <2>2, <2>3, <2>4 DEF Inv
<1> QED BY <1>1, <1>2

\* Every reachable state satisfies the inductive invariant.
THEOREM Invariant == Spec => []Inv
<1>1. Init => Inv BY InitInv
<1>2. Inv /\ [Next]_vars => Inv' BY NextInv
<1> QED BY <1>1, <1>2, PTL DEF Spec

\* Every variable keeps its type.
THEOREM Types == Spec => []TypeOK
<1>1. Inv => TypeOK BY DEF Inv, Typed
<1> QED BY <1>1, Invariant, PTL

\* For any number of members, sessions and requests: a check-in that scanQr has
\* confirmed is still on the roster, also when the session is completed or the
\* coach enters the roster at the same time.
THEOREM CheckInsStay == Spec => []CheckedInStays
<1>1. Inv => CheckedInStays BY DEF Inv
<1> QED BY <1>1, Invariant, PTL

\* Everybody who had a seat in a completed session has a result: completeSchedule
\* reads who has none under the session's lock, which bookings take as well.
THEOREM CompletedIsAnswered == Spec => []EveryoneAnswered
<1>1. Inv => EveryoneAnswered BY DEF Inv, Answered, EveryoneAnswered
<1> QED BY <1>1, Invariant, PTL

\* One warning, one report that counts and one decision for a member in a class,
\* however many receptionists and managers work on it at a time.
THEOREM CasesAreOne == Spec => []OneCase
<1>1. Inv => OneCase BY DEF Inv
<1> QED BY <1>1, Invariant, PTL

-----------------------------------------------------------------------------
(* Reviews.                                                                *)

\* A review that removes a member has on its list every seat the member has ahead, and
\* none on it was attended; a session is being completed only when it is over.
Ahead(q) ==
  /\ job[q].step = "complete" => phase[job[q].session] = "over"
  /\ job[q].step = "review" =>
       /\ <<"class", job[q].member>> \in job[q].locks
       /\ job[q].what = "CLOSED" => job[q].set = {}
       /\ \A s \in Sessions :
            /\ job[q].what = "RESOLVED" /\ seat[job[q].member][s] = "BOOKED" /\ Upcoming(s) =>
                 s \in job[q].set
            /\ s \in job[q].set => /\ seat[job[q].member][s] \in {"BOOKED", "CANCELLED"}
                                   /\ phase[s] # "over"

Unattended == \A q \in Jobs : Ahead(q)

\* Seats, sessions and the clock change in six ways.
LEMMA SeatsChange ==
  ASSUME Next
  PROVE  \/ UNCHANGED <<status, phase, seat>>
         \/ \E s \in Sessions : Tick(s) \/ CancelSession(s)
         \/ \E m \in Members, s \in Sessions : Book(m, s) \/ CancelSeat(m, s)
         \/ \E q \in Jobs : CompleteWrite(q) \/ ReviewWrite(q)
<1>1. ASSUME NEW q \in Jobs,
             \/ Fail(q)
             \/ \E s \in Sessions : IssueRevoke(q, s)
             \/ \E c \in Codes : IssueCreate(q, c)
             \/ ScanWrite(q) \/ EnterWrite(q) \/ LeaveWrite(q) \/ WarnWrite(q)
             \/ \E i \in Reports : SubmitWrite(q, i)
      PROVE UNCHANGED <<status, phase, seat>>
  BY <1>1 DEF Fail, End, IssueRevoke, IssueCreate, ScanWrite, EnterWrite, LeaveWrite, WarnWrite,
              SubmitWrite, roster
<1>2. ASSUME NEW q, NEW step, NEW locks, NEW m, NEW s, NEW set, NEW what,
             Take(q, step, locks, m, s, set, what)
      PROVE UNCHANGED <<status, phase, seat>>
  BY <1>2 DEF Take, roster
<1>3. ASSUME NEW q \in Jobs,
             \/ \E s \in Sessions : CompleteRead(q, s)
             \/ \E m \in Members, s \in Sessions, by \in {"QR", "code"} : ScanRead(q, m, s, by)
             \/ \E m \in Members, s \in Sessions, r \in Given : EnterRead(q, m, s, r)
             \/ \E m \in Members, S \in SUBSET Sessions : LeaveRead(q, m, S)
             \/ \E m \in Members : WarnRead(q, m) \/ SubmitRead(q, m)
             \/ \E i \in Reports, d \in {"RESOLVED", "CLOSED"} : ReviewRead(q, i, d)
      PROVE UNCHANGED <<status, phase, seat>>
  BY <1>2, <1>3 DEF CompleteRead, ScanRead, EnterRead, LeaveRead, WarnRead, SubmitRead, ReviewRead
<1>4. ASSUME \/ \E m \in Members, s \in Sessions, r \in Given : Correct(m, s, r)
             \/ \E c \in Codes : Expire(c)
      PROVE UNCHANGED <<status, phase, seat>>
  BY <1>4 DEF Correct, Expire, roster
<1> QED BY <1>1, <1>3, <1>4 DEF Next

\* Whatever moves meanwhile, the list of a review is right until it is written.
LEMMA StillAhead ==
  ASSUME Typed, Apart, Unattended, Next, NEW q \in Jobs, job'[q] = job[q]
  PROVE  Ahead(q)'
<1>1. Ahead(q) BY DEF Unattended
<1>2. /\ status \in [Sessions -> Status] /\ phase \in [Sessions -> Phase]
      /\ seat \in [Members -> [Sessions -> Seat]]
      /\ job[q].step = "complete" => job[q].session \in Sessions
      /\ job[q].step = "review" => job[q].member \in Members
  BY DEF Typed, TypeOK, Shape, Fits
<1>3. CASE UNCHANGED <<status, phase, seat>> BY <1>1, <1>3 DEF Ahead, Upcoming
<1>4. ASSUME NEW s \in Sessions, Tick(s) PROVE Ahead(q)'
  <2>1. \A t \in Sessions : Upcoming(t)' => Upcoming(t)
    BY <1>2, <1>4 DEF Tick, Upcoming, Phase, roster
  <2>2. \A t \in Sessions : phase[t] = "over" => phase'[t] = "over"
    BY <1>2, <1>4 DEF Tick
  <2>3. job[q].step = "review" => \A t \in job[q].set : phase[t] # "over" => phase'[t] # "over"
    BY <1>2, <1>4 DEF Tick, Phase
  <2>4. seat' = seat BY <1>4 DEF Tick, roster
  <2> QED BY <1>1, <1>2, <2>1, <2>2, <2>3, <2>4 DEF Ahead
<1>5. ASSUME NEW s \in Sessions, CancelSession(s) PROVE Ahead(q)'
  BY <1>1, <1>2, <1>5 DEF CancelSession, Ahead, Upcoming
<1>6. ASSUME NEW m \in Members, NEW s \in Sessions, Book(m, s) \/ CancelSeat(m, s) PROVE Ahead(q)'
  <2>1. job[q].step = "review" => job[q].member # m
    BY <1>1, <1>6 DEF Ahead, Book, CancelSeat, Quiet
  <2>2. \A n \in Members : n # m => seat'[n] = seat[n]
    BY <1>2, <1>6 DEF Book, CancelSeat
  <2>3. UNCHANGED <<status, phase>>
    BY <1>6 DEF Book, CancelSeat
  <2> QED BY <1>1, <1>2, <2>1, <2>2, <2>3 DEF Ahead, Upcoming
<1>7. ASSUME NEW p \in Jobs, CompleteWrite(p) PROVE Ahead(q)'
  <2>1. phase[job[p].session] = "over" /\ phase' = phase
    BY <1>7 DEF Unattended, Ahead, CompleteWrite, End
  <2>2. ASSUME NEW m \in Members, NEW t \in Sessions, t # job[p].session
        PROVE  seat'[m][t] = seat[m][t] /\ status'[t] = status[t]
    BY <1>2, <1>7, <2>2 DEF CompleteWrite
  <2>3. ASSUME NEW t \in Sessions, t = job[p].session
        PROVE  ~Upcoming(t)' /\ (job[q].step = "review" => t \notin job[q].set)
    BY <1>1, <2>1, <2>3 DEF Ahead, Upcoming
  <2>4. CASE job[q].step = "review"
    <3>1. job[q].member \in Members
      BY <1>2, <2>4
    <3>2. ASSUME NEW t \in Sessions
          PROVE /\ job[q].what = "RESOLVED" /\ seat'[job[q].member][t] = "BOOKED" /\ Upcoming(t)' =>
                     t \in job[q].set
                /\ t \in job[q].set => /\ seat'[job[q].member][t] \in {"BOOKED", "CANCELLED"}
                                       /\ phase'[t] # "over"
      <4>1. CASE t = job[p].session
        <5>1. ~Upcoming(t)' /\ t \notin job[q].set BY <2>3, <2>4, <4>1
        <5> QED BY <5>1
      <4>2. CASE t # job[p].session
        <5>1. seat'[job[q].member][t] = seat[job[q].member][t] /\ (Upcoming(t)' => Upcoming(t))
          BY <2>1, <2>2, <3>1, <4>2 DEF Upcoming
        <5> QED BY <1>1, <2>1, <2>4, <5>1 DEF Ahead
      <4> QED BY <4>1, <4>2
    <3> QED BY <1>1, <2>4, <3>2 DEF Ahead
  <2>5. CASE job[q].step # "review"
    BY <1>1, <2>1, <2>5 DEF Ahead
  <2> QED BY <2>4, <2>5
<1>8. ASSUME NEW p \in Jobs, ReviewWrite(p) PROVE Ahead(q)'
  <2>1. CASE p = q
    <3>1. job'[q] = Idle BY <1>8, <2>1, EndTyped DEF ReviewWrite
    <3> QED BY <3>1 DEF Ahead, Idle
  <2>2. CASE p # q
    <3>1. job[q].step = "review" => job[q].member # job[p].member
      BY <1>1, <1>8, <2>2 DEF Apart, Unattended, Ahead, ReviewWrite
    <3>2. \A n \in Members : n # job[p].member => seat'[n] = seat[n]
      BY <1>2, <1>8 DEF ReviewWrite
    <3>3. UNCHANGED <<status, phase>>
      BY <1>8 DEF ReviewWrite, End
    <3> QED BY <1>1, <1>2, <3>1, <3>2, <3>3 DEF Ahead, Upcoming
  <2> QED BY <2>1, <2>2
<1> QED BY <1>3, <1>4, <1>5, <1>6, <1>7, <1>8, SeatsChange

\* Every step keeps the lists of the reviews right.
LEMMA NextUnattended == Typed /\ Apart /\ Unattended /\ Next => Unattended'
<1> SUFFICES ASSUME Typed, Apart, Unattended, Next, NEW q \in Jobs PROVE Ahead(q)' BY DEF Unattended
<1>1. CASE job'[q] = job[q] BY <1>1, StillAhead
<1>2. ASSUME NEW p \in Jobs, Begins(p) \/ Ends(p), p # q PROVE job'[q] = job[q]
  BY <1>2 DEF Begins, Ends
<1>3. CASE Ends(q) BY <1>3 DEF Ends, Idle, Ahead
<1>4. CASE job'[q].step \in Simple BY <1>4 DEF Simple, Ahead
<1>5. ASSUME NEW s \in Sessions, CompleteRead(q, s) PROVE Ahead(q)'
  <2>1. job'[q].step = "complete" /\ job'[q].session = s /\ phase[s] = "over"
    BY <1>5, TakeBegins DEF CompleteRead
  <2> QED BY <1>5, <2>1 DEF Ahead, CompleteRead, Take
<1>6. ASSUME NEW m \in Members, WarnRead(q, m) \/ SubmitRead(q, m) PROVE Ahead(q)'
  <2>1. job'[q].step \in {"warn", "submit"} BY <1>6, TakeBegins DEF WarnRead, SubmitRead
  <2> QED BY <2>1 DEF Ahead
<1>7. ASSUME NEW i \in Reports, NEW d \in {"RESOLVED", "CLOSED"}, ReviewRead(q, i, d) PROVE Ahead(q)'
  <2> DEFINE m == report[i].member
             S == IF d = "RESOLVED" THEN {s \in Sessions : seat[m][s] = "BOOKED" /\ Upcoming(s)} ELSE {}
  <2>1. Take(q, "review", {i, <<"class", m>>}, m, i, S, d) BY <1>7 DEF ReviewRead
  <2>2. /\ job'[q].step = "review" /\ job'[q].locks = {i, <<"class", m>>} /\ job'[q].member = m
        /\ job'[q].set = S /\ job'[q].what = d
    BY <2>1, TakeBegins
  <2>3. UNCHANGED <<status, phase, seat>> BY <2>1 DEF Take, roster
  <2>4. \A s \in S : d = "RESOLVED" /\ seat[m][s] = "BOOKED" /\ Upcoming(s)
    OBVIOUS
  <2>5. d = "RESOLVED" => \A s \in Sessions : seat[m][s] = "BOOKED" /\ Upcoming(s) => s \in S
    OBVIOUS
  <2>6. d = "CLOSED" => S = {}
    OBVIOUS
  <2> HIDE DEF m, S
  <2> QED BY <2>2, <2>3, <2>4, <2>5, <2>6 DEF Ahead, Upcoming
<1> QED BY <1>1, <1>2, <1>3, <1>4, <1>5, <1>6, <1>7, Kinds

\* A review takes the seats on its list, and the list is what is ahead.
LEMMA ReviewTakes ==
  ASSUME Typed, Unattended, NEW q \in Jobs, ReviewWrite(q)
  PROVE  LET m == job[q].member IN
         /\ job[q].what = "RESOLVED" => \A s \in Sessions : Upcoming(s) => seat'[m][s] # "BOOKED"
         /\ \A s \in Sessions : seat'[m][s] # seat[m][s] =>
              job[q].what = "RESOLVED" /\ seat[m][s] = "BOOKED"
<1> DEFINE m == job[q].member
<1>1. m \in Members /\ job[q].what \in {"RESOLVED", "CLOSED"} /\ job[q].step = "review"
  BY DEF Typed, Shape, Fits, ReviewWrite
<1>2. \A s \in Sessions : seat'[m][s] = IF s \in job[q].set THEN "CANCELLED" ELSE seat[m][s]
  BY <1>1 DEF ReviewWrite, Typed, TypeOK
<1>3. Ahead(q) BY DEF Unattended
<1> QED BY <1>1, <1>2, <1>3 DEF Ahead

\* A manager's removal of a member leaves no seat ahead of its start, and nothing that was
\* attended or that a rejected report names is taken, for any number of managers at work.
THEOREM ReviewsTakeTheRightSeats == Spec => ReviewsTakeWhatIsAhead
<1>1. Init => Unattended
  BY DEF Init, Unattended, Ahead, Idle
<1>2. Inv /\ Unattended /\ [Next]_vars => Unattended'
  <2>1. Inv /\ Unattended /\ Next => Unattended' BY NextUnattended DEF Inv
  <2>2. Unattended /\ UNCHANGED vars => Unattended'
    BY DEF vars, roster, cases, Unattended, Ahead, Upcoming
  <2> QED BY <2>1, <2>2
<1>3. Inv /\ Unattended /\ [Next]_vars =>
        [\A q \in Jobs : ReviewWrite(q) =>
           LET m == job[q].member IN
           /\ job[q].what = "RESOLVED" => \A s \in Sessions : Upcoming(s) => seat'[m][s] # "BOOKED"
           /\ \A s \in Sessions : seat'[m][s] # seat[m][s] =>
                job[q].what = "RESOLVED" /\ seat[m][s] = "BOOKED"]_vars
  BY ReviewTakes DEF Inv
<1> QED BY <1>1, <1>2, <1>3, Invariant, PTL DEF Spec, ReviewsTakeWhatIsAhead

-----------------------------------------------------------------------------
(* Codes.                                                                  *)

\* No two requests are drawing a code of one session.
OneDraws == \A s \in Sessions : \A p, q \in Drawing(s) : p = q

\* What a step does to the codes of a session and to who draws one.
LEMMA CodesChange ==
  ASSUME Typed, Next, NEW s \in Sessions
  PROVE  \/ Valid(s)' \subseteq Valid(s) /\ Drawing(s)' \subseteq Drawing(s)
         \/ \E q \in Jobs : Valid(s)' = {} /\ Drawing(s)' = Drawing(s) \cup {q}
         \/ \E q \in Drawing(s), c \in Codes :
              Valid(s)' = Valid(s) \cup {c} /\ Drawing(s)' = Drawing(s) \ {q}
<1>1. job \in [Jobs -> Request] /\ code \in [Codes -> [status: {"NONE", "VALID", "REVOKED", "EXPIRED"},
                                                       session: Sessions \cup {None}]]
  BY DEF Typed, TypeOK, Request
<1>2. ASSUME NEW q \in Jobs, NEW t \in Sessions, IssueRevoke(q, t)
      PROVE \/ Valid(s)' \subseteq Valid(s) /\ Drawing(s)' \subseteq Drawing(s)
            \/ Valid(s)' = {} /\ Drawing(s)' = Drawing(s) \cup {q}
  <2>1. job' = [job EXCEPT ![q] = [Idle EXCEPT !.step = "issue", !.session = t]] BY <1>2 DEF IssueRevoke
  <2>2. job'[q].step = "issue" /\ job'[q].session = t /\ job[q].step = "idle"
    BY <1>1, <1>2, <2>1 DEF Idle, IssueRevoke
  <2>3. \A p \in Jobs : p # q => job'[p] = job[p] BY <1>1, <2>1
  <2>4. \A c \in Codes : code'[c] = IF c \in Valid(t) THEN [code[c] EXCEPT !.status = "REVOKED"] ELSE code[c]
    BY <1>2 DEF IssueRevoke
  <2>5. \A c \in Codes : c \in Valid(t) => code'[c].status = "REVOKED"
    BY <1>1, <2>4
  <2>6. ASSUME NEW c \in Codes, code'[c] = [status |-> "VALID", session |-> s]
        PROVE  c \notin Valid(t) /\ code[c] = code'[c]
    <3>1. code'[c].status = "VALID" BY <2>6
    <3>2. c \notin Valid(t) BY <2>5, <3>1
    <3> QED BY <2>4, <3>2
  <2>7. CASE s = t
    <3>1. \A c \in Codes : code'[c] # [status |-> "VALID", session |-> s]
      BY <2>7, <2>6 DEF Valid
    <3>2. Valid(s)' = {} BY <3>1 DEF Valid
    <3>3. Drawing(s)' = Drawing(s) \cup {q} BY <2>2, <2>3, <2>7 DEF Drawing
    <3> QED BY <3>2, <3>3
  <2>8. CASE s # t
    <3>1. \A c \in Codes : code'[c] = [status |-> "VALID", session |-> s] => code[c] = code'[c]
      BY <2>6
    <3>2. Valid(s)' \subseteq Valid(s) BY <3>1 DEF Valid
    <3>3. Drawing(s)' \subseteq Drawing(s) BY <2>2, <2>3, <2>8 DEF Drawing
    <3> QED BY <3>2, <3>3
  <2> QED BY <2>7, <2>8
<1>3. ASSUME NEW q \in Jobs, NEW c \in Codes, IssueCreate(q, c)
      PROVE \/ Valid(s)' \subseteq Valid(s) /\ Drawing(s)' \subseteq Drawing(s)
            \/ q \in Drawing(s) /\ Valid(s)' = Valid(s) \cup {c} /\ Drawing(s)' = Drawing(s) \ {q}
  <2>1. code' = [code EXCEPT ![c] = [status |-> "VALID", session |-> job[q].session]] BY <1>3 DEF IssueCreate
  <2>2. code'[c] = [status |-> "VALID", session |-> job[q].session] /\ \A d \in Codes : d # c => code'[d] = code[d]
    BY <1>1, <2>1
  <2>3. job'[q].step = "idle" /\ (\A p \in Jobs : p # q => job'[p] = job[p])
    BY <1>3, EndTyped DEF IssueCreate, Idle
  <2>4. job[q].step = "issue" BY <1>3 DEF IssueCreate
  <2>5. Drawing(s)' = Drawing(s) \ {q} BY <2>3 DEF Drawing
  <2>6. CASE job[q].session = s
    <3>1. Valid(s)' = Valid(s) \cup {c} BY <2>2, <2>6 DEF Valid
    <3>2. q \in Drawing(s) BY <2>4, <2>6 DEF Drawing
    <3> QED BY <2>5, <3>1, <3>2
  <2>7. CASE job[q].session # s
    <3>1. code'[c] # [status |-> "VALID", session |-> s] BY <2>2, <2>7
    <3>2. Valid(s)' \subseteq Valid(s) BY <2>2, <3>1 DEF Valid
    <3> QED BY <2>5, <3>2
  <2> QED BY <2>6, <2>7
<1>4. ASSUME NEW c \in Codes, Expire(c)
      PROVE Valid(s)' \subseteq Valid(s) /\ Drawing(s)' \subseteq Drawing(s)
  <2>1. code'[c].status = "EXPIRED" /\ \A d \in Codes : d # c => code'[d] = code[d]
    BY <1>1, <1>4 DEF Expire
  <2>2. Valid(s)' \subseteq Valid(s) BY <2>1 DEF Valid
  <2>3. Drawing(s)' = Drawing(s) BY <1>4 DEF Expire, Drawing
  <2> QED BY <2>2, <2>3
<1>5. CASE UNCHANGED code /\ ~\E q \in Jobs : job[q].step # "issue" /\ job'[q].step = "issue"
  <2>1. Valid(s)' = Valid(s) BY <1>5 DEF Valid
  <2>2. CASE UNCHANGED job BY <2>1, <2>2 DEF Drawing
  <2>3. ASSUME NEW q \in Jobs, Ends(q) PROVE Drawing(s)' \subseteq Drawing(s)
    BY <2>3 DEF Drawing, Ends, Idle
  <2>4. ASSUME NEW q \in Jobs, Begins(q) PROVE Drawing(s)' \subseteq Drawing(s)
    BY <1>5, <2>4 DEF Drawing, Begins
  <2> QED BY <2>1, <2>2, <2>3, <2>4, Kinds
<1>6. \/ UNCHANGED code /\ ~\E q \in Jobs : job[q].step # "issue" /\ job'[q].step = "issue"
      \/ \E q \in Jobs, t \in Sessions : IssueRevoke(q, t)
      \/ \E q \in Jobs, c \in Codes : IssueCreate(q, c)
      \/ \E c \in Codes : Expire(c)
  <2>1. ASSUME NEW q \in Jobs, NEW step, NEW locks, NEW m, NEW t, NEW set, NEW what,
               Take(q, step, locks, m, t, set, what), step # "issue"
        PROVE  UNCHANGED code /\ ~\E p \in Jobs : job[p].step # "issue" /\ job'[p].step = "issue"
    BY <2>1, TakeBegins DEF Take, Begins
  <2>2. ASSUME NEW q \in Jobs,
               \/ \E t \in Sessions : CompleteRead(q, t)
               \/ \E m \in Members, t \in Sessions, by \in {"QR", "code"} : ScanRead(q, m, t, by)
               \/ \E m \in Members, t \in Sessions, r \in Given : EnterRead(q, m, t, r)
               \/ \E m \in Members, S \in SUBSET Sessions : LeaveRead(q, m, S)
               \/ \E m \in Members : WarnRead(q, m) \/ SubmitRead(q, m)
               \/ \E i \in Reports, d \in {"RESOLVED", "CLOSED"} : ReviewRead(q, i, d)
        PROVE  UNCHANGED code /\ ~\E p \in Jobs : job[p].step # "issue" /\ job'[p].step = "issue"
    BY <2>1, <2>2 DEF CompleteRead, ScanRead, EnterRead, LeaveRead, WarnRead, SubmitRead, ReviewRead
  <2>3. ASSUME NEW q \in Jobs, End(q)
        PROVE  ~\E p \in Jobs : job[p].step # "issue" /\ job'[p].step = "issue"
    BY <2>3, EndTyped DEF Idle
  <2>4. ASSUME NEW q \in Jobs,
               \/ Fail(q) \/ ScanWrite(q) \/ EnterWrite(q) \/ LeaveWrite(q) \/ CompleteWrite(q)
               \/ WarnWrite(q) \/ ReviewWrite(q) \/ \E i \in Reports : SubmitWrite(q, i)
        PROVE  UNCHANGED code /\ ~\E p \in Jobs : job[p].step # "issue" /\ job'[p].step = "issue"
    BY <2>3, <2>4 DEF Fail, ScanWrite, EnterWrite, LeaveWrite, CompleteWrite, WarnWrite, ReviewWrite,
                      SubmitWrite
  <2>5. ASSUME \/ \E t \in Sessions : Tick(t) \/ CancelSession(t)
               \/ \E m \in Members, t \in Sessions : Book(m, t) \/ CancelSeat(m, t)
               \/ \E m \in Members, t \in Sessions, r \in Given : Correct(m, t, r)
        PROVE  UNCHANGED <<code, job>>
    BY <2>5 DEF Tick, CancelSession, Book, CancelSeat, Correct
  <2> QED BY <2>2, <2>4, <2>5 DEF Next
<1> QED BY <1>2, <1>3, <1>4, <1>5, <1>6

\* A session whose code is being drawn has no valid one.
Revoked ==
  \A s \in Sessions : /\ \A c, d \in Valid(s) : c = d
                      /\ Drawing(s) # {} => Valid(s) = {}

LEMMA NextRevoked == Typed /\ Revoked /\ OneDraws /\ Next => Revoked'
<1> SUFFICES ASSUME Typed, Revoked, OneDraws, Next, NEW s \in Sessions
             PROVE  /\ \A c, d \in Valid(s)' : c = d
                    /\ Drawing(s)' # {} => Valid(s)' = {}
  BY DEF Revoked
<1>1. CASE Valid(s)' \subseteq Valid(s) /\ Drawing(s)' \subseteq Drawing(s) BY <1>1 DEF Revoked
<1>2. CASE Valid(s)' = {} BY <1>2
<1>3. ASSUME NEW q \in Drawing(s), NEW c \in Codes,
             Valid(s)' = Valid(s) \cup {c}, Drawing(s)' = Drawing(s) \ {q}
      PROVE  (\A x, y \in Valid(s)' : x = y) /\ Drawing(s)' = {}
  BY <1>3 DEF Revoked, OneDraws
<1> QED BY <1>1, <1>2, <1>3, CodesChange

\* There is one valid code for a session, as the schema says, as long as its codes are drawn
\* one after the other; the race of two requests is the only way to a second one.
THEOREM OneCodeIfOneDraws == Spec /\ []OneDraws => []OneCode
<1>1. Init => Revoked
  BY DEF Init, Revoked, Valid, Drawing, Idle, NoCode
<1>2. Inv /\ Revoked /\ OneDraws /\ [Next]_vars => Revoked'
  <2>1. Inv /\ Revoked /\ OneDraws /\ Next => Revoked' BY NextRevoked DEF Inv
  <2>2. Revoked /\ UNCHANGED vars => Revoked' BY DEF vars, Revoked, Valid, Drawing
  <2> QED BY <2>1, <2>2
<1>3. Revoked => OneCode
  <2> SUFFICES ASSUME Revoked, NEW s \in Sessions PROVE Cardinality(Valid(s)) <= 1 BY DEF OneCode
  <2>1. CASE Valid(s) = {} BY <2>1, FS_EmptySet
  <2>2. ASSUME NEW c \in Valid(s) PROVE Cardinality(Valid(s)) = 1
    <3>1. Valid(s) = {c} BY <2>2 DEF Revoked
    <3> QED BY <3>1, FS_Singleton
  <2> QED BY <2>1, <2>2
<1> QED BY <1>1, <1>2, <1>3, Invariant, PTL DEF Spec

\* Codes and requests that draw one are finitely many.
Counted ==
  \A s \in Sessions :
    /\ IsFiniteSet(Valid(s))
    /\ Cardinality(Valid(s)) + Cardinality(Drawing(s)) <= Cardinality(Jobs)

LEMMA NextCounted ==
  ASSUME IsFiniteSet(Jobs), Typed, Counted, Next
  PROVE  Counted'
<1> SUFFICES ASSUME NEW s \in Sessions
             PROVE  /\ IsFiniteSet(Valid(s)')
                    /\ Cardinality(Valid(s)') + Cardinality(Drawing(s)') <= Cardinality(Jobs)
  BY DEF Counted
<1> DEFINE V == Valid(s)
           D == Drawing(s)
<1>1. D \subseteq Jobs /\ D' \subseteq Jobs BY DEF Drawing
<1>2. IsFiniteSet(V) /\ Cardinality(V) + Cardinality(D) <= Cardinality(Jobs) BY DEF Counted
<1>3. IsFiniteSet(D) /\ IsFiniteSet(D') /\ Cardinality(D') <= Cardinality(Jobs) BY <1>1, FS_Subset
<1>4. \/ V' \subseteq V /\ D' \subseteq D
      \/ V' = {}
      \/ \E q \in D, c \in Codes : V' = V \cup {c} /\ D' = D \ {q}
  BY CodesChange
<1> HIDE DEF V, D
<1>5. /\ Cardinality(V) \in Nat /\ Cardinality(D) \in Nat /\ Cardinality(D') \in Nat
      /\ Cardinality(Jobs) \in Nat
  BY <1>2, <1>3, FS_CardinalityType
<1>6. CASE V' \subseteq V /\ D' \subseteq D
  <2>1. IsFiniteSet(V') /\ Cardinality(V') <= Cardinality(V) BY <1>2, <1>6, FS_Subset
  <2>2. Cardinality(D') <= Cardinality(D) BY <1>3, <1>6, FS_Subset
  <2>3. Cardinality(V') \in Nat BY <2>1, FS_CardinalityType
  <2> QED BY <1>2, <1>5, <2>1, <2>2, <2>3 DEF V, D
<1>7. CASE V' = {}
  <2>1. IsFiniteSet(V') /\ Cardinality(V') = 0 BY <1>7, FS_EmptySet
  <2> QED BY <1>3, <1>5, <2>1 DEF V, D
<1>8. ASSUME NEW q \in D, NEW c \in Codes, V' = V \cup {c}, D' = D \ {q}
      PROVE  IsFiniteSet(V') /\ Cardinality(V') + Cardinality(D') <= Cardinality(Jobs)
  <2>1. IsFiniteSet(V') BY <1>2, <1>8, FS_AddElement
  <2>2. Cardinality(V') = Cardinality(V) \/ Cardinality(V') = Cardinality(V) + 1
    BY <1>2, <1>8, FS_AddElement
  <2>3. Cardinality(D') = Cardinality(D) - 1 BY <1>3, <1>8, FS_RemoveElement
  <2> QED BY <1>2, <1>5, <2>1, <2>2, <2>3
<1> QED BY <1>4, <1>6, <1>7, <1>8 DEF V, D

\* However many requests race, a session has no more valid codes than there are requests.
THEOREM CodesAreBounded ==
  ASSUME IsFiniteSet(Jobs)
  PROVE  Spec => []CodesByRequests
<1>1. Init => Counted
  <2> SUFFICES ASSUME Init, NEW s \in Sessions
               PROVE  /\ IsFiniteSet(Valid(s))
                      /\ Cardinality(Valid(s)) + Cardinality(Drawing(s)) <= Cardinality(Jobs)
    BY DEF Counted
  <2>1. Valid(s) = {} /\ Drawing(s) = {} BY DEF Init, Valid, Drawing, Idle, NoCode
  <2>2. Cardinality(Jobs) \in Nat BY FS_CardinalityType
  <2> QED BY <2>1, <2>2, FS_EmptySet
<1>2. Inv /\ Counted /\ [Next]_vars => Counted'
  <2>1. Inv /\ Counted /\ Next => Counted' BY NextCounted DEF Inv
  <2>2. Counted /\ UNCHANGED vars => Counted' BY DEF vars, Counted, Valid, Drawing
  <2> QED BY <2>1, <2>2
<1>3. Counted => CodesByRequests BY DEF Counted, CodesByRequests
<1> QED BY <1>1, <1>2, <1>3, Invariant, PTL DEF Spec
=============================================================================
