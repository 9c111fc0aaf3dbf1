------------------------ MODULE SessionBookingRuleProofs ------------------------
(***************************************************************************)
(* Theorems about SessionBooking beside its capacity: its types, the order *)
(* of its queues, and the rules a seat depends on.                         *)
(***************************************************************************)
EXTENDS SessionBookingProofs

(* The queue of one session: q gives the ranks of its members.             *)

Line(q) == {m \in Member : q[m] > 0}

\* Ranks are different and leave the next rank free.
InLine(q) ==
  /\ \A x, y \in Line(q) : q[x] = q[y] => x = y
  /\ \A x \in Line(q) : q[x] <= Cardinality(Line(q))

Ahead(q, ms, m) == {x \in ms : 0 < q[x] /\ q[x] < q[m]}

\* The queue after ms have left it.
Left(q, ms) ==
  [m \in Member |-> IF m \in ms THEN 0 ELSE q[m] - Cardinality(Ahead(q, ms, m))]

LEMMA LineFinite ==
  ASSUME NEW q, NEW ms \in SUBSET Member
  PROVE  /\ IsFiniteSet(ms) /\ Cardinality(ms) \in Nat
         /\ IsFiniteSet(Line(q)) /\ Cardinality(Line(q)) \in Nat
BY BookingConstants, FS_Subset, FS_CardinalityType DEF Line

\* Between two ranks there are as many members as ranks, at most.
LEMMA Between ==
  ASSUME NEW q \in [Member -> Nat], NEW S \in SUBSET Member, NEW a \in Nat, NEW b \in Nat, a < b,
         \A x, y \in S : q[x] = q[y] => x = y,
         \A x \in S : a < q[x] /\ q[x] < b
  PROVE  Cardinality(S) \in Nat /\ Cardinality(S) <= b - a - 1
<1> DEFINE f == [x \in S |-> q[x]]
           T == (a + 1) .. (b - 1)
<1>1. f \in Injection(S, T)
  <2>1. \A x \in S : q[x] \in Nat /\ q[x] \in T OBVIOUS
  <2>2. f \in [S -> T] BY <2>1
  <2> HIDE DEF T
  <2>3. QED BY <2>2 DEF Injection, IsInjective
<1>2. IsFiniteSet(T) /\ Cardinality(T) = b - a - 1
  BY FS_Interval
<1> HIDE DEF f, T
<1>3. Cardinality(S) <= Cardinality(T)
  BY <1>1, <1>2, FS_Injection
<1>4. QED BY <1>2, <1>3, LineFinite

LEMMA LeftInLine ==
  ASSUME NEW q \in [Member -> Nat], InLine(q), NEW ms \in SUBSET Line(q)
  PROVE  /\ Left(q, ms) \in [Member -> Nat]
         /\ Line(Left(q, ms)) = Line(q) \ ms
         /\ InLine(Left(q, ms))
<1> DEFINE n == Cardinality(Line(q))
           ahead(m) == Ahead(q, ms, m)
<1>0. ms \subseteq Member /\ n \in Nat
  BY LineFinite DEF Line
<1>1. \A m \in Member : /\ ahead(m) \in SUBSET ms
                        /\ IsFiniteSet(ahead(m))
                        /\ Cardinality(ahead(m)) \in Nat
  BY <1>0, LineFinite, FS_Subset DEF Ahead
<1>2. ASSUME NEW m \in Line(q) PROVE Cardinality(ahead(m)) <= q[m] - 1
  <2>1. m \in Member /\ q[m] \in Nat /\ 0 < q[m]
    BY DEF Line
  <2>2. ahead(m) \in SUBSET Member /\ \A x \in ahead(m) : x \in Line(q) /\ 0 < q[x] /\ q[x] < q[m]
    BY <1>0 DEF Ahead, Line
  <2> HIDE DEF ahead
  <2>3. \A x, y \in ahead(m) : q[x] = q[y] => x = y
    BY <2>2 DEF InLine
  <2>4. Cardinality(ahead(m)) <= q[m] - 0 - 1
    BY <2>1, <2>2, <2>3, Between
  <2>5. QED BY <2>1, <2>4, <1>1
<1>3. ASSUME NEW m \in Member \ Line(q) PROVE ahead(m) = {} /\ q[m] = 0
  BY <1>0 DEF Ahead, Line
<1>4. \A m \in Line(q) \ ms : Left(q, ms)[m] = q[m] - Cardinality(ahead(m)) /\ Left(q, ms)[m] >= 1
  BY <1>1, <1>2 DEF Left, Line
<1>5. \A m \in Member : m \in ms \/ m \notin Line(q) => Left(q, ms)[m] = 0
  <2>1. \A m \in Member : m \in ms => Left(q, ms)[m] = 0
    BY DEF Left
  <2>2. ASSUME NEW m \in Member, m \notin ms, m \notin Line(q) PROVE Left(q, ms)[m] = 0
    <3>1. Cardinality(ahead(m)) = 0 /\ q[m] = 0
      BY <1>3, <2>2, FS_EmptySet
    <3>2. Left(q, ms)[m] = q[m] - Cardinality(ahead(m))
      BY <2>2 DEF Left
    <3>3. QED BY <3>1, <3>2
  <2>3. QED BY <2>1, <2>2
<1>6. Left(q, ms) \in [Member -> Nat]
  <2> SUFFICES ASSUME NEW m \in Member PROVE Left(q, ms)[m] \in Nat
    BY DEF Left
  <2>1. CASE m \in ms \/ m \notin Line(q) BY <1>5, <2>1
  <2>2. CASE m \in Line(q) \ ms
    <3>1. q[m] \in Nat /\ Cardinality(ahead(m)) \in Nat BY <1>1
    <3> HIDE DEF ahead
    <3>2. QED BY <1>4, <2>2, <3>1
  <2>3. QED BY <2>1, <2>2
<1>7. Line(Left(q, ms)) = Line(q) \ ms
  <2> SUFFICES ASSUME NEW m \in Member PROVE Left(q, ms)[m] > 0 <=> m \in Line(q) \ ms
    BY DEF Line
  <2>1. CASE m \in Line(q) \ ms
    BY <1>4, <1>6, <2>1
  <2>2. CASE m \notin Line(q) \ ms
    BY <1>5, <2>2
  <2>3. QED BY <2>1, <2>2
\* Who was behind stays behind.
<1>8. ASSUME NEW x \in Line(q) \ ms, NEW y \in Line(q) \ ms, q[x] < q[y]
      PROVE  Left(q, ms)[x] < Left(q, ms)[y]
  <2> DEFINE mid == {z \in ms : q[x] < q[z] /\ q[z] < q[y]}
  <2>1. x \in Member /\ y \in Member /\ q[x] \in Nat /\ q[y] \in Nat
    BY DEF Line
  <2>2. mid \in SUBSET Member /\ \A z \in mid : z \in Line(q) /\ q[x] < q[z] /\ q[z] < q[y]
    BY <1>0
  <2>3. ahead(y) \subseteq ahead(x) \cup mid
    <3> SUFFICES ASSUME NEW z \in ahead(y) PROVE z \in ahead(x) \cup mid
      OBVIOUS
    <3>1. z \in ms /\ z # x /\ z \in Line(q) /\ 0 < q[z] /\ q[z] < q[y] /\ q[z] \in Nat
      BY DEF Ahead, Line
    <3>2. q[z] # q[x]
      BY <3>1 DEF InLine
    <3>3. QED BY <2>1, <3>1, <3>2 DEF Ahead
  <2> HIDE DEF mid
  <2>4. \A z, w \in mid : q[z] = q[w] => z = w
    BY <2>2 DEF InLine
  <2>5. Cardinality(mid) \in Nat /\ Cardinality(mid) <= q[y] - q[x] - 1
    BY <1>8, <2>1, <2>2, <2>4, Between
  <2>6. Cardinality(ahead(y)) <= Cardinality(ahead(x)) + Cardinality(mid)
    <3> HIDE DEF ahead
    <3>1. IsFiniteSet(mid) /\ IsFiniteSet(ahead(x)) /\ Cardinality(ahead(x)) \in Nat
      BY <1>1, <2>1, <2>2, LineFinite
    <3>2. /\ IsFiniteSet(ahead(x) \cup mid)
          /\ Cardinality(ahead(x) \cup mid) = Cardinality(ahead(x)) + Cardinality(mid) - Cardinality(ahead(x) \cap mid)
      BY <3>1, FS_Union
    <3>3. Cardinality(ahead(x) \cap mid) \in Nat
      BY <3>1, FS_Intersection, FS_CardinalityType
    <3>4. Cardinality(ahead(y)) <= Cardinality(ahead(x) \cup mid)
      BY <2>3, <3>2, FS_Subset
    <3>5. Cardinality(ahead(y)) \in Nat
      BY <1>1, <2>1
    <3>6. QED BY <2>5, <3>1, <3>2, <3>3, <3>4, <3>5
  <2>7. /\ Left(q, ms)[x] = q[x] - Cardinality(ahead(x))
        /\ Left(q, ms)[y] = q[y] - Cardinality(ahead(y))
    BY <1>4
  <2>8. Cardinality(ahead(x)) \in Nat /\ Cardinality(ahead(y)) \in Nat
    BY <1>1, <2>1
  <2> HIDE DEF ahead
  <2>9. QED BY <2>1, <2>5, <2>6, <2>7, <2>8
<1>9. \A x, y \in Line(q) \ ms : Left(q, ms)[x] = Left(q, ms)[y] => x = y
  <2> SUFFICES ASSUME NEW x \in Line(q) \ ms, NEW y \in Line(q) \ ms,
                      Left(q, ms)[x] = Left(q, ms)[y]
               PROVE  x = y
    OBVIOUS
  <2>1. x \in Member /\ y \in Member /\ q[x] \in Nat /\ q[y] \in Nat
    BY DEF Line
  <2>2. Left(q, ms)[x] \in Nat
    BY <1>6, <2>1
  <2>3. ~(q[x] < q[y]) /\ ~(q[y] < q[x])
    BY <1>8, <2>2
  <2>4. q[x] = q[y] BY <2>1, <2>3
  <2>5. QED BY <2>4 DEF InLine
<1>10. ASSUME NEW m \in Line(q) \ ms PROVE Left(q, ms)[m] <= Cardinality(Line(q) \ ms)
  <2> DEFINE behind == {z \in ms : q[m] < q[z]}
  <2>1. m \in Member /\ q[m] \in Nat /\ q[m] <= n
    BY DEF Line, InLine
  <2>2. behind \in SUBSET Member /\ \A z \in behind : z \in Line(q) /\ q[m] < q[z] /\ q[z] < n + 1
    <3> SUFFICES ASSUME NEW z \in ms, q[m] < q[z] PROVE z \in Line(q) /\ q[z] < n + 1
      BY <1>0
    <3>1. z \in Line(q) /\ q[z] \in Nat /\ q[z] <= n
      BY DEF Line, InLine
    <3>2. QED BY <1>0, <3>1
  <2>3. ms \subseteq ahead(m) \cup behind
    <3> SUFFICES ASSUME NEW z \in ms PROVE z \in ahead(m) \cup behind
      OBVIOUS
    <3>1. z # m /\ z \in Line(q) /\ 0 < q[z] /\ q[z] \in Nat
      BY DEF Line
    <3>2. q[z] # q[m]
      BY <3>1 DEF InLine
    <3>3. QED BY <2>1, <3>1, <3>2 DEF Ahead
  <2> HIDE DEF behind
  <2>4. \A z, w \in behind : q[z] = q[w] => z = w
    BY <2>2 DEF InLine
  <2> HIDE DEF n
  <2>5. Cardinality(behind) \in Nat /\ Cardinality(behind) <= n + 1 - q[m] - 1
    BY <1>0, <2>1, <2>2, <2>4, Between
  <2>6. Cardinality(ms) <= Cardinality(ahead(m)) + Cardinality(behind)
    <3> HIDE DEF ahead
    <3>1. IsFiniteSet(behind) /\ IsFiniteSet(ahead(m)) /\ Cardinality(ahead(m)) \in Nat
      BY <1>1, <2>1, <2>2, LineFinite
    <3>2. /\ IsFiniteSet(ahead(m) \cup behind)
          /\ Cardinality(ahead(m) \cup behind)
               = Cardinality(ahead(m)) + Cardinality(behind) - Cardinality(ahead(m) \cap behind)
      BY <3>1, FS_Union
    <3>3. Cardinality(ahead(m) \cap behind) \in Nat
      BY <3>1, FS_Intersection, FS_CardinalityType
    <3>4. Cardinality(ms) <= Cardinality(ahead(m) \cup behind)
      BY <2>3, <3>2, FS_Subset
    <3>5. Cardinality(ms) \in Nat
      BY <1>0, LineFinite
    <3>6. QED BY <2>5, <3>1, <3>2, <3>3, <3>4, <3>5
  <2>7. Cardinality(Line(q) \ ms) = n - Cardinality(ms)
    <3>1. Line(q) \cap ms = ms OBVIOUS
    <3>2. QED BY <3>1, LineFinite, FS_Difference DEF n
  <2>8. Left(q, ms)[m] = q[m] - Cardinality(ahead(m)) /\ Cardinality(ahead(m)) \in Nat
    BY <1>1, <1>4, <2>1
  <2>9. Cardinality(ms) \in Nat
    BY <1>0, LineFinite
  <2> HIDE DEF ahead
  <2>10. QED BY <1>0, <2>1, <2>5, <2>6, <2>7, <2>8, <2>9
<1>11. QED BY <1>6, <1>7, <1>9, <1>10 DEF InLine

LEMMA JoinInLine ==
  ASSUME NEW q \in [Member -> Nat], InLine(q), NEW m \in Member \ Line(q), NEW p,
         p = [q EXCEPT ![m] = Cardinality(Line(q)) + 1]
  PROVE  p \in [Member -> Nat] /\ Line(p) = Line(q) \cup {m} /\ InLine(p)
<1> DEFINE n == Cardinality(Line(q))
<1>1. n \in Nat /\ IsFiniteSet(Line(q))
  BY LineFinite
<1>2. p[m] = n + 1 /\ \A x \in Member \ {m} : p[x] = q[x]
  OBVIOUS
<1> HIDE DEF n
<1>3. p \in [Member -> Nat] BY <1>1 DEF n
<1>4. Line(p) = Line(q) \cup {m}
  BY <1>1, <1>2 DEF Line
<1>5. Cardinality(Line(p)) = n + 1
  BY <1>1, <1>4, FS_AddElement DEF n
<1>6. \A x \in Line(q) : q[x] \in Nat /\ q[x] <= n /\ p[x] = q[x]
  BY <1>2 DEF InLine, Line, n
<1>7. \A x, y \in Line(p) : p[x] = p[y] => x = y
  BY <1>1, <1>2, <1>4, <1>6 DEF InLine
<1>8. ASSUME NEW x \in Line(p) PROVE p[x] <= Cardinality(Line(p))
  <2>1. CASE x = m BY <1>1, <1>2, <1>5, <2>1
  <2>2. CASE x \in Line(q)
    <3>1. p[x] \in Nat /\ p[x] <= n BY <1>6, <2>2
    <3>2. QED BY <1>1, <1>5, <3>1
  <2>3. QED BY <1>4, <2>1, <2>2
<1>9. QED BY <1>3, <1>4, <1>7, <1>8 DEF InLine

--------------------------------------------------------------------------------
(* What the steps do to queues, seats, rights and sessions.                *)

QueuesInLine == \A s \in Session : InLine(place[s])

\* A request in progress is one the run allows, about a member and a session; a course
\* is of one class.
Known ==
  \A r \in Request : req[r].pc # "idle" =>
    /\ req[r].kind \in Kinds /\ req[r].member \in Member /\ req[r].session \in Session
    /\ req[r].pc = "read" => req[r].kind = "restore"
    /\ req[r].kind = "course" =>
         \A q \in req[r].slots : ClassOf[q] = ClassOf[req[r].session]

BookInv == SeatsFit /\ TypeOK /\ QueuesInLine /\ Known

LEMMA NextCases ==
  ASSUME [Next]_vars
  PROVE  \/ UNCHANGED <<seats, session, rights>>
         \/ \E r \in Request :
              \/ Book(r) \/ Course(r) \/ Join(r) \/ Cancel(r) \/ Transfer(r)
              \/ Revoke(r) \/ Restore(r)
         \/ \E m \in Member :
              \/ Subscribe(m) \/ Lapse(m) \/ \E b \in 1 .. MaxSubs : EndSubscription(m, b)
              \/ \E c \in Class : ApplyPenalty(m, c) \/ PenaltyEnds(m, c)
              \/ \E s \in Session : LeaveQueue(m, s)
         \/ \E s \in Session : Worker(s) \/ CancelSession(s) \/ CompleteSession(s) \/ Pass(s)
<1>1. ASSUME NEW r \in Request, Arrive(r) PROVE UNCHANGED <<seats, session, rights>>
  <2>1. ASSUME NEW row, Start(r, row) PROVE UNCHANGED <<seats, session, rights>>
    BY <2>1 DEF Start
  <2>2. ASSUME NEW k, NEW m, NEW s, StartLocked(r, k, m, s) PROVE UNCHANGED <<seats, session, rights>>
    BY <2>2 DEF StartLocked
  <2>3. QED BY <1>1, <2>1, <2>2 DEF Arrive, StartBook, StartCourse, StartJoin, StartCancel,
                                       StartRevoke, StartTransfer
<1>2. ASSUME NEW r \in Request, Lock(r) \/ RestoreRead(r) \/ Refuse(r)
      PROVE  UNCHANGED <<seats, session, rights>>
  BY <1>2 DEF Lock, RestoreRead, Refuse
<1>3. CASE Next BY <1>1, <1>2, <1>3 DEF Next, RequestStep, MemberStep, SessionStep
<1>4. CASE UNCHANGED vars BY <1>4 DEF vars
<1>5. QED BY <1>3, <1>4

\* A queue stays, members leave it who get the seat or gave up, or one joins.
QueueMoves(s) ==
  \/ place'[s] = place[s]
  \/ \E ms \in SUBSET Line(place[s]) :
       /\ place'[s] = Left(place[s], ms)
       /\ \A m \in ms : seat'[m][s] = "BOOKED" \/ LeaveQueue(m, s)
  \/ \E m \in Member \ Line(place[s]) :
       place'[s] = [place[s] EXCEPT ![m] = Cardinality(Line(place[s])) + 1]
QueueStep == place' = [s \in Session |-> place'[s]] /\ \A s \in Session : QueueMoves(s)

LEMMA WithoutIsLeft ==
  ASSUME TypeOK, NEW ms, NEW s \in Session
  PROVE  Without(place, ms, s) = [place EXCEPT ![s] = Left(place[s], ms)]
BY DEF TypeOK, SeatsTyped, Without, Left, Ahead

\* Who leaves the queue of one session for its seats.
LEMMA PromotionMoves ==
  ASSUME TypeOK, NEW s \in Session, NEW ms \in SUBSET Waiting(s), NEW st,
         st \in [Member -> [Session -> EnrollmentStatus]],
         seat' = Seated(st, ms, s), place' = Without(place, ms, s)
  PROVE  QueueStep
<1>1. place' = [place EXCEPT ![s] = Left(place[s], ms)]
  BY WithoutIsLeft
<1>2. ms \in SUBSET Line(place[s]) BY DEF Waiting, Line
<1>3. \A m \in ms : seat'[m][s] = "BOOKED" BY DEF Seated, Waiting
<1>4. place \in [Session -> [Member -> Nat]] BY DEF TypeOK, SeatsTyped
<1>5. QED BY <1>1, <1>2, <1>3, <1>4 DEF QueueStep, QueueMoves

LEMMA EndSubscriptionMoves ==
  ASSUME TypeOK, NEW m \in Member, NEW b, EndSubscription(m, b)
  PROVE  QueueStep
<1> DEFINE ss == PaidBy(m, b)
           out == Busy(NoRequest) \cup (IF sub[m] = b THEN {m} ELSE {})
<1>1. PICK picks \in [ss -> SUBSET Member] :
        /\ \A s \in ss :
             IF Open(s)
             THEN Promotable(picks[s], Reseated(m, ss, picks, {q \in ss : q < s}), s, out, 1)
             ELSE picks[s] = {}
        /\ seat' = Reseated(m, ss, picks, ss)
        /\ place' = [s \in Session |->
                       IF s \in ss THEN Without(place, picks[s], s)[s] ELSE place[s]]
  BY DEF EndSubscription
<1> HIDE DEF ss, out
<1>2. place \in [Session -> [Member -> Nat]] BY DEF TypeOK, SeatsTyped
<1>3. ASSUME NEW s \in Session, s \in ss PROVE QueueMoves(s)
  <2>1. picks[s] \in SUBSET Line(place[s])
    BY <1>1, <1>3 DEF Promotable, Candidates, Waiting, Line
  <2>2. place'[s] = Left(place[s], picks[s])
    BY <1>1, <1>2, <1>3, WithoutIsLeft
  <2>3. \A x \in picks[s] : seat'[x][s] = "BOOKED"
    BY <1>1, <1>3, <2>1 DEF Reseated, Line
  <2>4. QED BY <2>1, <2>2, <2>3 DEF QueueMoves
<1>4. ASSUME NEW s \in Session, s \notin ss PROVE QueueMoves(s)
  BY <1>1, <1>4 DEF QueueMoves
<1>5. place' = [s \in Session |-> place'[s]] BY <1>1
<1>6. QED BY <1>3, <1>4, <1>5 DEF QueueStep

LEMMA QueuesMove ==
  ASSUME BookInv, [Next]_vars
  PROVE  QueueStep
<1>0. /\ TypeOK /\ seat \in [Member -> [Session -> EnrollmentStatus]]
      /\ place \in [Session -> [Member -> Nat]]
  BY DEF BookInv, TypeOK, SeatsTyped
<1>1. CASE UNCHANGED place BY <1>0, <1>1 DEF QueueStep, QueueMoves
<1>2. ASSUME NEW r \in Request, Join(r) PROVE QueueStep
  <2>1. req[r].member \in Member /\ req[r].session \in Session
    BY <1>2 DEF BookInv, Known, Join, Holding
  <2>2. req[r].member \notin Line(place[req[r].session])
    BY <1>2, <2>1 DEF Join, Waiting, Line
  <2>3. place' = [place EXCEPT ![req[r].session] =
                    [place[req[r].session] EXCEPT ![req[r].member] =
                       Cardinality(Line(place[req[r].session])) + 1]]
    BY <1>0, <1>2, <2>1 DEF Join, Waiting, Line
  <2>4. QED BY <1>0, <2>1, <2>2, <2>3 DEF QueueStep, QueueMoves
<1>3. ASSUME NEW r \in Request, Cancel(r) PROVE QueueStep
  <2> DEFINE m == req[r].member  s == req[r].session
  <2>1. s \in Session
    BY <1>3 DEF BookInv, Known, Cancel, Holding
  <2>2. Vacated(m, s) \in [Member -> [Session -> EnrollmentStatus]]
    BY <1>0, VacatedTakers DEF SeatTyped
  <2>3. QED BY <1>0, <1>3, <2>1, <2>2, PromotionMoves DEF Cancel
<1>4. ASSUME NEW m \in Member, NEW s \in Session, LeaveQueue(m, s) PROVE QueueStep
  <2>1. place' = [place EXCEPT ![s] = Left(place[s], {m})]
    BY <1>0, <1>4, WithoutIsLeft DEF LeaveQueue
  <2>2. {m} \in SUBSET Line(place[s]) BY <1>4 DEF LeaveQueue, Waiting, Line
  <2>3. place'[s] = Left(place[s], {m}) BY <1>0, <2>1
  <2>4. QueueMoves(s) BY <1>4, <2>2, <2>3 DEF QueueMoves
  <2>5. \A q \in Session \ {s} : QueueMoves(q) BY <1>0, <2>1 DEF QueueMoves
  <2>6. QED BY <1>0, <2>1, <2>4, <2>5 DEF QueueStep
<1>5. ASSUME NEW s \in Session, Worker(s) PROVE QueueStep
  BY <1>0, <1>5, PromotionMoves DEF Worker
<1>6. ASSUME NEW m \in Member, NEW b, EndSubscription(m, b) PROVE QueueStep
  BY <1>0, <1>6, EndSubscriptionMoves
<1>7. \/ UNCHANGED place
      \/ \E r \in Request : Join(r) \/ Cancel(r)
      \/ \E m \in Member : \/ \E b \in 1 .. MaxSubs : EndSubscription(m, b)
                           \/ \E s \in Session : LeaveQueue(m, s)
      \/ \E s \in Session : Worker(s)
  <2>1. \A r \in Request :
          Book(r) \/ Course(r) \/ Transfer(r) \/ Revoke(r) \/ Restore(r) => UNCHANGED place
    BY DEF Book, Course, Transfer, Revoke, Restore, seats
  <2>2. \A m \in Member, c \in Class :
          Subscribe(m) \/ Lapse(m) \/ ApplyPenalty(m, c) \/ PenaltyEnds(m, c) => UNCHANGED place
    BY DEF Subscribe, Lapse, ApplyPenalty, PenaltyEnds, seats
  <2>3. \A s \in Session : CancelSession(s) \/ CompleteSession(s) \/ Pass(s) => UNCHANGED place
    BY DEF CancelSession, CompleteSession, Pass, seats
  <2>4. \A m \in Member : Subscribe(m) \/ Lapse(m) => UNCHANGED place
    BY DEF Subscribe, Lapse, seats
  <2>5. QED BY <2>1, <2>2, <2>3, <2>4, NextCases DEF seats
<1>8. QED BY <1>1, <1>2, <1>3, <1>4, <1>5, <1>6, <1>7

\* The queues stay in line.
LEMMA QueuesStay ==
  ASSUME BookInv, [Next]_vars
  PROVE  QueuesInLine' /\ place' \in [Session -> [Member -> Nat]]
<1>1. QueueStep BY QueuesMove
<1>2. ASSUME NEW s \in Session PROVE place'[s] \in [Member -> Nat] /\ InLine(place'[s])
  <2>1. place[s] \in [Member -> Nat] /\ InLine(place[s])
    BY DEF BookInv, TypeOK, SeatsTyped, QueuesInLine
  <2>2. QueueMoves(s) BY <1>1 DEF QueueStep
  <2>3. CASE place'[s] = place[s] BY <2>1, <2>3
  <2>4. ASSUME NEW ms \in SUBSET Line(place[s]), place'[s] = Left(place[s], ms)
        PROVE  place'[s] \in [Member -> Nat] /\ InLine(place'[s])
    BY <2>1, <2>4, LeftInLine
  <2>5. ASSUME NEW m \in Member \ Line(place[s]),
               place'[s] = [place[s] EXCEPT ![m] = Cardinality(Line(place[s])) + 1]
        PROVE  place'[s] \in [Member -> Nat] /\ InLine(place'[s])
    BY <2>1, <2>5, JoinInLine
  <2>6. QED BY <2>2, <2>3, <2>4, <2>5 DEF QueueMoves
<1>3. QED BY <1>1, <1>2 DEF QueueStep, QueuesInLine, InLine, Line

\* The other rows stay well-typed.
LEMMA RightsStay ==
  ASSUME BookInv, [Next]_vars
  PROVE  RightsTyped'
<1>0. RightsTyped BY DEF BookInv, TypeOK
<1>1. ASSUME NEW r \in Request, Revoke(r) \/ Restore(r) PROVE RightsTyped'
  <2>1. UNCHANGED <<session, sub, bought, revoked>> /\ penalty' = Revoked(r)
    BY <1>1 DEF Revoke, Restore
  <2>2. Revoked(r) \in [Member \X Class -> Penalty]
    BY <1>0 DEF RightsTyped, Revoked, Penalty
  <2>3. QED BY <1>0, <2>1, <2>2 DEF RightsTyped
<1>2. ASSUME NEW m \in Member, NEW b \in 1 .. MaxSubs, EndSubscription(m, b) PROVE RightsTyped'
  BY <1>0, <1>2 DEF RightsTyped, EndSubscription
<1>3. ASSUME NEW m \in Member, Subscribe(m) \/ Lapse(m) PROVE RightsTyped'
  BY <1>0, <1>3 DEF RightsTyped, Subscribe, Lapse
<1>4. ASSUME NEW m \in Member, NEW c \in Class, ApplyPenalty(m, c) PROVE RightsTyped'
  <2>1. PICK ss \in SUBSET Session :
          penalty' = [penalty EXCEPT ![<<m, c>>] =
            [status |-> "APPLIED", number |-> penalty[<<m, c>>].number + 1, released |-> ss]]
    BY <1>4 DEF ApplyPenalty
  <2>2. penalty[<<m, c>>].number \in Nat BY <1>0 DEF RightsTyped, Penalty
  <2>3. penalty' \in [Member \X Class -> Penalty] BY <1>0, <2>1, <2>2 DEF RightsTyped, Penalty
  <2>4. QED BY <1>0, <1>4, <2>3 DEF RightsTyped, ApplyPenalty
<1>5. ASSUME NEW m \in Member, NEW c \in Class, PenaltyEnds(m, c) PROVE RightsTyped'
  <2>1. penalty' \in [Member \X Class -> Penalty]
    BY <1>0, <1>5 DEF RightsTyped, PenaltyEnds, Penalty
  <2>2. QED BY <1>0, <1>5, <2>1 DEF RightsTyped, PenaltyEnds
<1>6. ASSUME NEW s \in Session, CancelSession(s) \/ CompleteSession(s) \/ Pass(s) PROVE RightsTyped'
  BY <1>0, <1>6 DEF RightsTyped, CancelSession, CompleteSession, Pass, Phase, Scheduled, rights
<1>7. CASE UNCHANGED <<session, rights>> BY <1>0, <1>7 DEF RightsTyped, rights
<1>8. \/ UNCHANGED <<session, rights>>
      \/ \E r \in Request : Revoke(r) \/ Restore(r)
      \/ \E m \in Member :
           \/ Subscribe(m) \/ Lapse(m) \/ \E b \in 1 .. MaxSubs : EndSubscription(m, b)
           \/ \E c \in Class : ApplyPenalty(m, c) \/ PenaltyEnds(m, c)
      \/ \E s \in Session : CancelSession(s) \/ CompleteSession(s) \/ Pass(s)
  <2>1. \A r \in Request :
          Book(r) \/ Course(r) \/ Join(r) \/ Cancel(r) \/ Transfer(r) => UNCHANGED <<session, rights>>
    BY DEF Book, Course, Join, Cancel, Transfer
  <2>2. \A m \in Member, s \in Session : LeaveQueue(m, s) \/ Worker(s) => UNCHANGED <<session, rights>>
    BY DEF LeaveQueue, Worker
  <2>3. \A s \in Session : Worker(s) => UNCHANGED <<session, rights>>
    BY DEF Worker
  <2>4. QED BY <2>1, <2>2, <2>3, NextCases
<1>9. QED BY <1>1, <1>2, <1>3, <1>4, <1>5, <1>6, <1>7, <1>8

LEMMA FundsStay ==
  ASSUME BookInv, [Next]_vars
  PROVE  funds' \in [Member -> [Session -> Nat]]
<1>0. funds \in [Member -> [Session -> Nat]] /\ sub \in [Member -> Nat]
  BY DEF BookInv, TypeOK, SeatsTyped, RightsTyped
<1>1. \A ms, s : Funded(funds, ms, s) \in [Member -> [Session -> Nat]]
  BY <1>0 DEF Funded
<1>2. \A r \in Request : Book(r) \/ Cancel(r) \/ Transfer(r) => \E ms, s : funds' = Funded(funds, ms, s)
  BY DEF Book, Cancel, Transfer
<1>3. \A s \in Session : Worker(s) => \E ms : funds' = Funded(funds, ms, s)
  BY DEF Worker
<1>4. ASSUME NEW m \in Member, NEW b, EndSubscription(m, b) PROVE funds' \in [Member -> [Session -> Nat]]
  <2>1. PICK picks : funds' = [x \in Member |-> [s \in Session |->
                                 IF s \in PaidBy(m, b) /\ x \in picks[s] THEN sub[x] ELSE funds[x][s]]]
    BY <1>4 DEF EndSubscription
  <2>2. QED BY <1>0, <2>1
<1>5. \A r \in Request : Join(r) \/ Revoke(r) \/ Restore(r) => UNCHANGED funds
  BY DEF Join, Revoke, Restore, seats
<1>6. \A m \in Member : /\ Subscribe(m) \/ Lapse(m) => UNCHANGED funds
                        /\ \A c \in Class : ApplyPenalty(m, c) \/ PenaltyEnds(m, c) => UNCHANGED funds
                        /\ \A s \in Session : LeaveQueue(m, s) => UNCHANGED funds
  BY DEF Subscribe, Lapse, ApplyPenalty, PenaltyEnds, LeaveQueue, seats
<1>7. \A s \in Session : CancelSession(s) \/ CompleteSession(s) \/ Pass(s) => UNCHANGED funds
  BY DEF CancelSession, CompleteSession, Pass, seats
<1>8. UNCHANGED <<seats, session, rights>> => UNCHANGED funds BY DEF seats
<1>9. UNCHANGED funds => funds' \in [Member -> [Session -> Nat]] BY <1>0
<1>10. ASSUME NEW r \in Request, Course(r) PROVE funds' \in [Member -> [Session -> Nat]]
  <2>1. PICK ss : funds' = [funds EXCEPT ![req[r].member] =
                    [q \in Session |-> IF q \in ss THEN sub[req[r].member] ELSE funds[req[r].member][q]]]
    BY <1>10 DEF Course
  <2>2. req[r].member \in Member BY <1>10 DEF BookInv, Known, Course, Holding
  <2>3. QED BY <1>0, <2>1, <2>2
<1>11. QED BY <1>1, <1>2, <1>3, <1>4, <1>5, <1>6, <1>7, <1>8, <1>9, <1>10, NextCases

LEMMA RequestsStay ==
  ASSUME BookInv, [Next]_vars
  PROVE  RequestsTyped' /\ Known'
<1>0. RequestsTyped /\ Known /\ RightsTyped BY DEF BookInv, TypeOK
<1>1. ASSUME UNCHANGED requests PROVE RequestsTyped' /\ Known'
  BY <1>0, <1>1 DEF RequestsTyped, Known, requests
<1>2. Idle \in RequestRow BY DEF Idle, RequestRow, Kind
<1>3. ASSUME NEW r \in Request, Done(r) PROVE RequestsTyped' /\ Known'
  <2>1. req' = [req EXCEPT ![r] = Idle] /\ Idle.pc = "idle" BY <1>3 DEF Done, Idle
  <2>2. Known' BY <1>0, <2>1 DEF Known, RequestsTyped
  <2>3. RequestsTyped' BY <1>0, <1>2, <1>3, <2>1 DEF RequestsTyped, Done
  <2>4. QED BY <2>2, <2>3
<1>4. ASSUME NEW r \in Request, NEW row \in RequestRow, req' = [req EXCEPT ![r] = row],
             row.kind \in Kinds, row.member \in Member, row.session \in Session,
             row.pc = "read" => row.kind = "restore",
             row.kind = "course" => \A q \in row.slots : ClassOf[q] = ClassOf[row.session],
             holder' \in [Member -> Request \cup {NoRequest}]
      PROVE  RequestsTyped' /\ Known'
  BY <1>0, <1>4 DEF RequestsTyped, Known
<1>5. ASSUME NEW r \in Request, Arrive(r) PROVE RequestsTyped' /\ Known'
  <2>1. PICK m \in Member, s \in Session :
          \/ StartBook(r, m, s) \/ StartJoin(r, m, s) \/ StartCancel(r, m, s)
          \/ StartCourse(r, m, s) \/ StartRevoke(r, m, s)
          \/ \E f \in Session : StartTransfer(r, m, f, s)
    BY <1>5 DEF Arrive
  <2>2. ASSUME NEW k, StartLocked(r, k, m, s) PROVE RequestsTyped' /\ Known'
    <3> DEFINE row == [Idle EXCEPT !.pc = "holding", !.kind = k, !.member = m, !.session = s]
    <3>1. k \in Kinds /\ k \in Kind BY <2>2, BookingConstants DEF StartLocked
    <3>2. row \in RequestRow BY <3>1 DEF Idle, RequestRow
    <3>3. /\ row.kind = k /\ row.member = m /\ row.session = s /\ row.pc = "holding"
          /\ row.slots = {}
      BY DEF Idle
    <3>4. req' = [req EXCEPT ![r] = row] /\ holder' \in [Member -> Request \cup {NoRequest}]
      BY <1>0, <2>2 DEF StartLocked, RequestsTyped
    <3> HIDE DEF row
    <3>5. QED BY <1>4, <3>1, <3>2, <3>3, <3>4
  <2>3. CASE StartRevoke(r, m, s)
    <3> DEFINE n == penalty[<<m, ClassOf[s]>>].number
               ss == penalty[<<m, ClassOf[s]>>].released
    <3>1. PICK k \in {"revoke", "restore"} :
            Start(r, [Idle EXCEPT !.pc = "checked", !.kind = k, !.member = m, !.session = s,
                                  !.number = n, !.slots = ss])
      BY <2>3 DEF StartRevoke
    <3> DEFINE row == [Idle EXCEPT !.pc = "checked", !.kind = k, !.member = m, !.session = s,
                                   !.number = n, !.slots = ss]
    <3>2. <<m, ClassOf[s]>> \in Member \X Class BY BookingConstants
    <3>3. n \in Nat /\ ss \in SUBSET Session BY <1>0, <3>1, <3>2 DEF RightsTyped, Penalty
    <3>4. row \in RequestRow BY <3>1, <3>3 DEF Idle, RequestRow, Kind
    <3>5. row.kind = k /\ row.member = m /\ row.session = s /\ row.pc = "checked" BY DEF Idle
    <3>6. Start(r, row) BY <3>1
    <3> HIDE DEF row
    <3>7. k \in Kinds /\ req' = [req EXCEPT ![r] = row] /\ UNCHANGED holder
      BY <3>5, <3>6 DEF Start
    <3>8. QED BY <1>0, <1>4, <3>4, <3>5, <3>7 DEF RequestsTyped
  <2>4. ASSUME NEW f \in Session, StartTransfer(r, m, f, s) PROVE RequestsTyped' /\ Known'
    <3> DEFINE row == [Idle EXCEPT !.pc = "checked", !.kind = "transfer", !.member = m,
                                   !.session = s, !.from = f]
    <3>1. row \in RequestRow BY DEF Idle, RequestRow, Kind
    <3>2. row.kind = "transfer" /\ row.member = m /\ row.session = s /\ row.pc = "checked" BY DEF Idle
    <3>3. Start(r, row) BY <2>4 DEF StartTransfer
    <3> HIDE DEF row
    <3>4. "transfer" \in Kinds /\ req' = [req EXCEPT ![r] = row] /\ UNCHANGED holder
      BY <3>2, <3>3 DEF Start
    <3>5. QED BY <1>0, <1>4, <3>1, <3>2, <3>4 DEF RequestsTyped
  <2>5. CASE StartCourse(r, m, s)
    <3>1. PICK ss \in SUBSET {q \in Session : ClassOf[q] = ClassOf[s] /\ Open(q)} :
            Start(r, [Idle EXCEPT !.pc = "checked", !.kind = "course", !.member = m,
                                  !.session = s, !.slots = ss])
      BY <2>5 DEF StartCourse
    <3> DEFINE row == [Idle EXCEPT !.pc = "checked", !.kind = "course", !.member = m,
                                   !.session = s, !.slots = ss]
    <3>2. row \in RequestRow BY <3>1 DEF Idle, RequestRow, Kind
    <3>3. /\ row.kind = "course" /\ row.member = m /\ row.session = s /\ row.pc = "checked"
          /\ row.slots = ss
      BY DEF Idle
    <3>4. Start(r, row) BY <3>1
    <3> HIDE DEF row
    <3>5. "course" \in Kinds /\ req' = [req EXCEPT ![r] = row] /\ UNCHANGED holder
      BY <3>3, <3>4 DEF Start
    <3>6. \A q \in row.slots : ClassOf[q] = ClassOf[row.session] BY <3>1, <3>3
    <3>7. QED BY <1>0, <1>4, <3>2, <3>3, <3>5, <3>6 DEF RequestsTyped
  <2>6. QED BY <2>1, <2>2, <2>3, <2>4, <2>5 DEF StartBook, StartJoin, StartCancel
<1>6. ASSUME NEW r \in Request, Lock(r) PROVE RequestsTyped' /\ Known'
  <2> DEFINE row == [req[r] EXCEPT !.pc = "holding"]
  <2>1. row \in RequestRow /\ req[r] \in RequestRow BY <1>0 DEF RequestsTyped, RequestRow
  <2>2. row.kind = req[r].kind /\ row.member = req[r].member /\ row.session = req[r].session
        /\ row.pc = "holding" /\ row.slots = req[r].slots
    BY <2>1 DEF RequestRow
  <2>3. req' = [req EXCEPT ![r] = row] BY <1>0, <1>6 DEF Lock, RequestsTyped
  <2>4. /\ req[r].kind \in Kinds /\ req[r].member \in Member /\ req[r].session \in Session
        /\ req[r].kind = "course" =>
             \A q \in req[r].slots : ClassOf[q] = ClassOf[req[r].session]
    BY <1>0, <1>6 DEF Lock, Known
  <2>5. holder' \in [Member -> Request \cup {NoRequest}] BY <1>0, <1>6 DEF Lock, RequestsTyped
  <2> HIDE DEF row
  <2>6. QED BY <1>4, <2>1, <2>2, <2>3, <2>4, <2>5
<1>7. ASSUME NEW r \in Request, RestoreRead(r) PROVE RequestsTyped' /\ Known'
  <2>1. PICK ss \in SUBSET Session :
          req' = [req EXCEPT ![r] = [@ EXCEPT !.pc = "read", !.slots = ss]]
    <3>1. req[r] \in RequestRow BY <1>0 DEF RequestsTyped
    <3>2. req[r].slots \in SUBSET Session BY <3>1 DEF RequestRow
    <3>3. QED BY <1>7, <3>2 DEF RestoreRead
  <2> DEFINE row == [req[r] EXCEPT !.pc = "read", !.slots = ss]
  <2>2. row \in RequestRow /\ req[r] \in RequestRow BY <1>0 DEF RequestsTyped, RequestRow
  <2>3. row.kind = req[r].kind /\ row.member = req[r].member /\ row.session = req[r].session
        /\ row.pc = "read"
    BY <2>2 DEF RequestRow
  <2>4. req' = [req EXCEPT ![r] = row] BY <1>0, <2>1 DEF RequestsTyped
  <2>5. /\ req[r].kind \in Kinds /\ req[r].member \in Member /\ req[r].session \in Session
        /\ req[r].kind = "restore"
    BY <1>0, <1>7 DEF RestoreRead, Holding, Known
  <2>6. holder' \in [Member -> Request \cup {NoRequest}] BY <1>0, <1>7 DEF RestoreRead, RequestsTyped
  <2> HIDE DEF row
  <2>7. QED BY <1>4, <2>2, <2>3, <2>4, <2>5, <2>6
<1>8. \A r \in Request :
        \/ Book(r) \/ Course(r) \/ Join(r) \/ Cancel(r) \/ Transfer(r) \/ Revoke(r) \/ Restore(r)
        \/ Refuse(r)
        => Done(r)
  BY DEF Book, Course, Join, Cancel, Transfer, Revoke, Restore, Refuse
<1>9. \A m \in Member : MemberStep(m) => UNCHANGED requests
  <2>1. \A m \in Member : \A b : EndSubscription(m, b) => UNCHANGED requests BY DEF EndSubscription
  <2>2. QED BY <2>1 DEF MemberStep, Subscribe, Lapse, ApplyPenalty, PenaltyEnds, LeaveQueue
<1>10. \A s \in Session : SessionStep(s) => UNCHANGED requests
  BY DEF SessionStep, Worker, CancelSession, CompleteSession, Pass
<1>11. UNCHANGED vars => UNCHANGED requests BY DEF vars
<1>12. \/ UNCHANGED requests
       \/ \E r \in Request : Arrive(r) \/ Lock(r) \/ RestoreRead(r) \/ Done(r)
  BY <1>8, <1>9, <1>10, <1>11 DEF Next, RequestStep
<1>13. QED BY <1>1, <1>3, <1>5, <1>6, <1>7, <1>12

LEMMA BookInit == Init => BookInv
<1> SUFFICES ASSUME Init PROVE BookInv
  OBVIOUS
<1>1. SeatsFit BY InitFits
<1>2. SeatsTyped BY DEF Init, SeatsTyped, EnrollmentStatus
<1>3. RightsTyped BY DEF Init, RightsTyped, Phase, Scheduled, Penalty, NoPenalty
<1>4. Idle \in RequestRow /\ Idle.pc = "idle" BY DEF Idle, RequestRow, Kind
<1>5. RequestsTyped /\ Known BY <1>4 DEF Init, RequestsTyped, Known
<1>6. QueuesInLine BY DEF Init, QueuesInLine, InLine, Line
<1>7. QED BY <1>1, <1>2, <1>3, <1>5, <1>6 DEF BookInv, TypeOK

LEMMA BookNext == BookInv /\ [Next]_vars => BookInv'
<1> SUFFICES ASSUME BookInv, [Next]_vars PROVE BookInv'
  OBVIOUS
<1>1. SeatsFit' BY NextFits DEF BookInv
<1>2. SeatsTyped' BY <1>1, QueuesStay, FundsStay DEF SeatsFit, SeatTyped, SeatsTyped
<1>3. QED BY <1>1, <1>2, QueuesStay, RightsStay, RequestsStay DEF BookInv, TypeOK

\* Ranks, statuses, penalties and requests stay in their ranges, for any number of
\* members: a promotion never takes a rank below zero.
THEOREM BookingIsTyped == Spec => []TypeOK
<1>1. BookInv => TypeOK BY DEF BookInv
<1>2. QED BY BookInit, BookNext, <1>1, PTL DEF Spec

\* A member leaves the queue of a session by giving up or by getting the seat, in every
\* step: the ranks are in line, so moving up never brings anybody to zero.
THEOREM QueueIsKept == Spec => QueueKept
<1>1. BookInv /\ [Next]_vars =>
        [\A m \in Member, s \in Session :
           place[s][m] > 0 /\ place'[s][m] = 0 => seat'[m][s] = "BOOKED" \/ LeaveQueue(m, s)]_vars
  <2> SUFFICES ASSUME BookInv, [Next]_vars, NEW m \in Member, NEW s \in Session,
                      place[s][m] > 0, place'[s][m] = 0
               PROVE  seat'[m][s] = "BOOKED" \/ LeaveQueue(m, s)
    OBVIOUS
  <2>1. QueueMoves(s) BY QueuesMove DEF QueueStep
  <2>2. place[s] \in [Member -> Nat] /\ InLine(place[s]) /\ m \in Line(place[s])
    BY DEF BookInv, TypeOK, SeatsTyped, QueuesInLine, Line
  <2>3. CASE place'[s] = place[s] BY <2>3
  <2>4. ASSUME NEW ms \in SUBSET Line(place[s]), place'[s] = Left(place[s], ms), m \notin ms PROVE FALSE
    <3>1. m \in Line(place'[s]) BY <2>2, <2>4, LeftInLine
    <3>2. QED BY <3>1 DEF Line
  <2>5. ASSUME NEW x \in Member \ Line(place[s]),
               place'[s] = [place[s] EXCEPT ![x] = Cardinality(Line(place[s])) + 1]
        PROVE  FALSE
    <3>1. m \in Line(place'[s]) BY <2>2, <2>5, JoinInLine
    <3>2. QED BY <3>1 DEF Line
  <2>6. QED BY <2>1, <2>3, <2>4, <2>5 DEF QueueMoves
<1>2. QED BY BookInit, BookNext, <1>1, PTL DEF Spec, QueueKept

--------------------------------------------------------------------------------
(* The rules a seat depends on.                                            *)

\* A seat that is new, or funded anew.
New(m, s) == seat'[m][s] = "BOOKED" /\ (seat[m][s] # "BOOKED" \/ funds'[m][s] # funds[m][s])

\* What the booking rules saw when they granted it; a course is not compared with its
\* own class.
Granted(m, s) ==
  /\ sub[m] # 0 /\ funds'[m][s] = sub[m] /\ <<m, sub[m]>> \notin revoked' \ revoked
  /\ ~Barred(m, ClassOf[s])
  /\ \A q \in Session \ {s} :
       <<q, s>> \in Overlapping /\ session[q] \in Scheduled =>
         \/ ~Takes(seat'[m][q])
         \/ ClassOf[q] = ClassOf[s] /\ \E r \in Request : Course(r) /\ req[r].member = m
  /\ Open(s) \/ \E r \in Request : Moves(r, m, s)
  /\ UNCHANGED <<session, penalty>>

\* Seats of a member in other sessions than the one it is promoted or moved to are
\* those it held, or fewer.
Fewer(st) ==
  /\ st \in [Member -> [Session -> EnrollmentStatus]]
  /\ \A m \in Member, s \in Session : Takes(st[m][s]) => st[m][s] = seat[m][s]

LEMMA VacatedFewer ==
  ASSUME SeatTyped, NEW m, NEW s
  PROVE  Fewer(Vacated(m, s))
BY DEF SeatTyped, Vacated, Fewer, Takes, EnrollmentStatus

LEMMA SeatedGranted ==
  ASSUME TypeOK, NEW st, Fewer(st), NEW ms \in SUBSET Member, NEW s \in Session,
         seat' = Seated(st, ms, s), funds' = Funded(funds, ms, s),
         \A m \in ms : MayAttend(st, m, s),
         UNCHANGED <<session, penalty, revoked>>,
         Open(s) \/ \A m \in ms : \E r \in Request : Moves(r, m, s)
  PROVE  \A m \in Member, q \in Session : New(m, q) => Granted(m, q)
<1>0. funds \in [Member -> [Session -> Nat]] BY DEF TypeOK, SeatsTyped
<1> SUFFICES ASSUME NEW m \in Member, NEW q \in Session, New(m, q) PROVE Granted(m, q)
  OBVIOUS
<1>1. CASE m \in ms /\ q = s
  <2>1. \A p \in Session \ {s} : seat'[m][p] = st[m][p] BY <1>1 DEF Seated, Fewer
  <2>2. funds'[m][s] = sub[m] BY <1>0, <1>1 DEF Funded
  <2>3. sub[m] # 0 /\ ~Barred(m, ClassOf[s]) /\ ~Clashes(st, m, s) BY <1>1 DEF MayAttend
  <2>4. Open(s) \/ \E r \in Request : Moves(r, m, s) BY <1>1
  <2>5. QED BY <1>1, <2>1, <2>2, <2>3, <2>4 DEF Granted, Clashes
<1>2. CASE ~(m \in ms /\ q = s)
  <2>1. seat'[m][q] = st[m][q] BY <1>2 DEF Seated, Fewer
  <2>2. funds'[m][q] = funds[m][q] BY <1>0, <1>2 DEF Funded
  <2>3. QED BY <2>1, <2>2 DEF New, Fewer, Takes
<1>3. QED BY <1>1, <1>2

\* The order of the sessions in which seats are offered makes no difference: of two
\* overlapping ones, the later is checked against the earlier.
LEMMA EndSubscriptionGranted ==
  ASSUME TypeOK, NEW m \in Member, NEW b, EndSubscription(m, b)
  PROVE  \A x \in Member, s \in Session : New(x, s) => Granted(x, s)
<1> DEFINE ss == PaidBy(m, b)
           out == Busy(NoRequest) \cup (IF sub[m] = b THEN {m} ELSE {})
<1>1. PICK picks \in [ss -> SUBSET Member] :
        /\ \A s \in ss :
             IF Open(s)
             THEN Promotable(picks[s], Reseated(m, ss, picks, {q \in ss : q < s}), s, out, 1)
             ELSE picks[s] = {}
        /\ seat' = Reseated(m, ss, picks, ss)
        /\ funds' = [x \in Member |-> [s \in Session |->
                       IF s \in ss /\ x \in picks[s] THEN sub[x] ELSE funds[x][s]]]
  BY DEF EndSubscription
<1>2. ss \subseteq Session BY DEF PaidBy
<1>3. revoked' = revoked \cup {<<m, b>>} /\ UNCHANGED <<session, penalty>>
  BY DEF EndSubscription
<1>4. \A x : sub[m] = b /\ x \notin out => x # m OBVIOUS
<1> HIDE DEF ss, out
<1>5. ASSUME NEW s \in ss, NEW x \in picks[s]
      PROVE  /\ Open(s) /\ x \in Member \ out /\ sub[x] # 0 /\ ~Barred(x, ClassOf[s])
             /\ ~Clashes(Reseated(m, ss, picks, {q \in ss : q < s}), x, s)
  <2>1. Open(s) BY <1>1
  <2>2. x \in Candidates(Reseated(m, ss, picks, {q \in ss : q < s}), s, out)
    BY <1>1, <2>1 DEF Promotable
  <2>3. QED BY <2>1, <2>2 DEF Candidates, Waiting, Eligible, MayAttend
<1> SUFFICES ASSUME NEW x \in Member, NEW s \in Session, New(x, s) PROVE Granted(x, s)
  OBVIOUS
<1>6. s \in ss /\ x \in picks[s]
  <2> SUFFICES ASSUME ~(s \in ss /\ x \in picks[s]) PROVE FALSE
    OBVIOUS
  <2>1. funds'[x][s] = funds[x][s] BY <1>1
  <2>2. seat'[x][s] \in {"CANCELLED", seat[x][s]} BY <1>1 DEF Reseated
  <2>3. QED BY <2>1, <2>2 DEF New
<1>7. funds'[x][s] = sub[x] BY <1>1, <1>6
<1>8. <<x, sub[x]>> \notin revoked' \ revoked BY <1>3, <1>4, <1>5, <1>6
<1>9. ASSUME NEW q \in Session \ {s}, <<q, s>> \in Overlapping, session[q] \in Scheduled,
             Takes(seat'[x][q])
      PROVE  FALSE
  <2>1. q \in Nat /\ s \in Nat /\ q # s /\ <<s, q>> \in Overlapping BY <1>9, BookingConstants
  <2>2. seat'[x][q] = Reseated(m, ss, picks, ss)[x][q] BY <1>1
  <2>3. session[s] \in Scheduled BY <1>5, <1>6 DEF Open, Scheduled
  <2>4. CASE q \in ss /\ x \in picks[q] /\ s < q
    <3> DEFINE st == Reseated(m, ss, picks, {p \in ss : p < q})
    <3>1. st[x][s] = "BOOKED" BY <1>2, <1>6, <2>4 DEF Reseated
    <3> HIDE DEF st
    <3>2. Clashes(st, x, q) BY <2>1, <2>3, <3>1 DEF Clashes, Takes
    <3>3. QED BY <1>5, <2>4, <3>2 DEF st
  <2>5. CASE ~(q \in ss /\ x \in picks[q] /\ s < q)
    <3> DEFINE st == Reseated(m, ss, picks, {p \in ss : p < s})
    <3>1. st[x][q] = seat'[x][q] BY <2>1, <2>2, <2>5 DEF Reseated
    <3> HIDE DEF st
    <3>2. Clashes(st, x, s) BY <1>9, <3>1 DEF Clashes
    <3>3. QED BY <1>5, <1>6, <3>2 DEF st
  <2>6. QED BY <2>4, <2>5
<1>10. QED BY <1>3, <1>5, <1>6, <1>7, <1>8, <1>9 DEF Granted

LEMMA CourseGranted ==
  ASSUME BookInv, NEW r \in Request, Course(r)
  PROVE  \A m \in Member, q \in Session : New(m, q) => Granted(m, q)
<1> DEFINE x == req[r].member
           ss == {q \in req[r].slots : ~Takes(seat[x][q])}
<1>0. /\ seat \in [Member -> [Session -> EnrollmentStatus]] /\ funds \in [Member -> [Session -> Nat]]
      /\ x \in Member /\ \A q \in ss : ClassOf[q] = ClassOf[req[r].session]
  BY DEF BookInv, TypeOK, SeatsTyped, Known, Course, Holding
<1>1. /\ \A q \in ss : Open(q) /\ ~ClashesElsewhere(x, q)
      /\ sub[x] # 0 /\ ~Barred(x, ClassOf[req[r].session])
      /\ seat' = [seat EXCEPT ![x] = [q \in Session |-> IF q \in ss THEN "BOOKED" ELSE seat[x][q]]]
      /\ funds' = [funds EXCEPT ![x] = [q \in Session |-> IF q \in ss THEN sub[x] ELSE funds[x][q]]]
      /\ UNCHANGED <<session, penalty, revoked>>
  BY DEF Course, rights
<1>2. req[r].member = x OBVIOUS
<1> HIDE DEF x, ss
<1> SUFFICES ASSUME NEW m \in Member, NEW q \in Session, New(m, q) PROVE Granted(m, q)
  OBVIOUS
<1>3. m = x /\ q \in ss
  <2>1. ~(m = x /\ q \in ss) => seat'[m][q] = seat[m][q] /\ funds'[m][q] = funds[m][q]
    BY <1>0, <1>1
  <2>2. QED BY <2>1 DEF New
<1>4. funds'[m][q] = sub[m] BY <1>0, <1>1, <1>3
<1>5. ASSUME NEW p \in Session \ {q}, <<p, q>> \in Overlapping, session[p] \in Scheduled,
             Takes(seat'[m][p])
      PROVE  ClassOf[p] = ClassOf[q]
  <2>1. CASE p \in ss BY <1>0, <1>3, <2>1
  <2>2. CASE p \notin ss
    <3>1. seat'[m][p] = seat[m][p] BY <1>0, <1>1, <1>3, <2>2
    <3>2. QED BY <1>1, <1>3, <1>5, <3>1 DEF ClashesElsewhere
  <2>3. QED BY <2>1, <2>2
<1>6. QED BY <1>0, <1>1, <1>2, <1>3, <1>4, <1>5 DEF Granted

\* Whoever gets a seat has passed the booking rules, but for a restoration of that seat.
LEMMA NewIsGranted ==
  ASSUME BookInv, [Next]_vars, NEW m \in Member, NEW s \in Session, New(m, s)
  PROVE  Granted(m, s) \/ \E r \in Request : Restores(r, m, s)
<1>0. TypeOK /\ SeatTyped /\ Known BY DEF BookInv, SeatsFit
<1>1. Fewer(seat) BY <1>0 DEF Fewer, SeatTyped
<1>2. ASSUME NEW r \in Request, Book(r) PROVE Granted(m, s)
  <2>1. req[r].member \in Member /\ req[r].session \in Session
    BY <1>0, <1>2 DEF Known, Book, Holding
  <2>2. /\ Open(req[r].session) /\ MayAttend(seat, req[r].member, req[r].session)
        /\ seat' = Seated(seat, {req[r].member}, req[r].session)
        /\ funds' = Funded(funds, {req[r].member}, req[r].session)
        /\ UNCHANGED <<session, penalty, revoked>>
    BY <1>2 DEF Book, CanBook, Eligible, rights
  <2>3. QED BY <1>0, <1>1, <2>1, <2>2, SeatedGranted
<1>3. ASSUME NEW r \in Request, Transfer(r) PROVE Granted(m, s)
  <2> DEFINE st == Vacated(req[r].member, req[r].from)
  <2>1. req[r].member \in Member /\ req[r].session \in Session
    BY <1>0, <1>3 DEF Known, Transfer, Holding
  <2>2. /\ MayAttend(st, req[r].member, req[r].session)
        /\ seat' = Seated(st, {req[r].member}, req[r].session)
        /\ funds' = Funded(funds, {req[r].member}, req[r].session)
        /\ UNCHANGED <<session, penalty, revoked>>
    BY <1>3 DEF Transfer, rights
  <2>3. Fewer(st) BY <1>0, VacatedFewer
  <2> HIDE DEF st
  <2>4. \A x \in {req[r].member} : \E y \in Request : Moves(y, x, req[r].session)
    BY <1>3 DEF Moves
  <2>5. QED BY <1>0, <2>1, <2>2, <2>3, <2>4, SeatedGranted
<1>4. ASSUME NEW r \in Request, Cancel(r) PROVE Granted(m, s)
  <2> DEFINE q == req[r].session
             st == Vacated(req[r].member, q)
  <2>1. q \in Session BY <1>0, <1>4 DEF Known, Cancel, Holding
  <2>2. PICK ms \in SUBSET Waiting(q) :
          /\ IF Open(q) THEN Promotable(ms, st, q, Busy(r), 1) ELSE ms = {}
          /\ seat' = Seated(st, ms, q) /\ funds' = Funded(funds, ms, q)
    BY <1>4 DEF Cancel
  <2>3. UNCHANGED <<session, penalty, revoked>> BY <1>4 DEF Cancel, rights
  <2>4. Fewer(st) BY <1>0, VacatedFewer
  <2> HIDE DEF q, st
  <2>5. ms \in SUBSET Member BY DEF Waiting
  <2>6. CASE Open(q)
    <3>1. \A x \in ms : MayAttend(st, x, q) BY <2>2, <2>6 DEF Promotable, Candidates, Eligible
    <3>2. QED BY <1>0, <2>1, <2>2, <2>3, <2>4, <2>5, <2>6, <3>1, SeatedGranted
  <2>7. CASE ~Open(q)
    <3>1. seat'[m][s] = st[m][s] /\ funds'[m][s] = funds[m][s]
      BY <1>0, <2>2, <2>4, <2>7 DEF Seated, Funded, Fewer, TypeOK, SeatsTyped
    <3>2. QED BY <2>4, <3>1 DEF New, Fewer, Takes
  <2>8. QED BY <2>6, <2>7
<1>5. ASSUME NEW q \in Session, Worker(q) PROVE Granted(m, s)
  <2>1. PICK ms \in SUBSET Waiting(q) :
          /\ Promotable(ms, seat, q, Busy(NoRequest), Capacity)
          /\ seat' = Seated(seat, ms, q) /\ funds' = Funded(funds, ms, q)
    BY <1>5 DEF Worker
  <2>2. Open(q) /\ UNCHANGED <<session, penalty, revoked>> BY <1>5 DEF Worker, rights
  <2>3. ms \in SUBSET Member BY DEF Waiting
  <2>4. \A x \in ms : MayAttend(seat, x, q) BY <2>1 DEF Promotable, Candidates, Eligible
  <2>5. QED BY <1>0, <1>1, <2>1, <2>2, <2>3, <2>4, SeatedGranted
<1>6. ASSUME NEW x \in Member, NEW b, EndSubscription(x, b) PROVE Granted(m, s)
  BY <1>0, <1>6, EndSubscriptionGranted
\* The other steps take seats away or leave them.
<1>7. ASSUME UNCHANGED funds, seat'[m][s] = "BOOKED" => seat[m][s] = "BOOKED" PROVE FALSE
  BY <1>7 DEF New
<1>8. ~UNCHANGED <<seat, funds>> BY <1>7
<1>9. \A r \in Request : ~Join(r) /\ ~Revoke(r) BY <1>8 DEF Join, Revoke, seats
<1>10. \A x \in Member : /\ ~Subscribe(x) /\ ~Lapse(x)
                         /\ \A c \in Class : ~PenaltyEnds(x, c)
                         /\ \A q \in Session : ~LeaveQueue(x, q)
  BY <1>8 DEF Subscribe, Lapse, PenaltyEnds, LeaveQueue, seats
<1>11. \A x \in Member, c \in Class : ~ApplyPenalty(x, c)
  <2> SUFFICES ASSUME NEW x \in Member, NEW c \in Class, ApplyPenalty(x, c) PROVE FALSE
    OBVIOUS
  <2>1. PICK ss : seat' = [seat EXCEPT ![x] =
                    [q \in Session |-> IF q \in ss THEN "CANCELLED" ELSE seat[x][q]]]
    BY DEF ApplyPenalty
  <2>2. UNCHANGED funds BY DEF ApplyPenalty
  <2>3. QED BY <1>0, <1>7, <2>1, <2>2 DEF SeatTyped
<1>12. \A q \in Session : ~CancelSession(q) /\ ~CompleteSession(q) /\ ~Pass(q)
  <2>1. \A q \in Session : ~Pass(q) BY <1>8 DEF Pass, seats
  <2>2. ASSUME NEW q \in Session, NEW status \in {"CANCELLED", "COMPLETED"},
               seat' = BookedTo(q, status), UNCHANGED funds
        PROVE  FALSE
    BY <1>0, <1>7, <2>2 DEF BookedTo, SeatTyped
  <2>3. QED BY <2>1, <2>2 DEF CancelSession, CompleteSession
<1>13. ASSUME NEW r \in Request, Course(r) PROVE Granted(m, s)
  BY <1>13, CourseGranted
<1>14. ASSUME NEW r \in Request, Restore(r) PROVE Restores(r, m, s)
  <2>1. PICK ss \in SUBSET req[r].slots :
          seat' = [seat EXCEPT ![req[r].member] =
                    [q \in Session |-> IF q \in ss THEN "BOOKED" ELSE seat[req[r].member][q]]]
    BY <1>14 DEF Restore
  <2>2. UNCHANGED funds BY <1>14 DEF Restore
  <2>3. m = req[r].member /\ s \in ss
    BY <1>0, <1>7, <2>1, <2>2 DEF SeatTyped
  <2>4. QED BY <1>14, <2>1, <2>3 DEF Restores
<1>15. QED
  BY <1>2, <1>3, <1>4, <1>5, <1>6, <1>8, <1>9, <1>10, <1>11, <1>12, <1>13, <1>14, NextCases
     DEF seats

\* A session only goes on, and ends without BOOKED seats.
LEMMA SessionMoves ==
  ASSUME BookInv, [Next]_vars, NEW s \in Session
  PROVE  \/ session'[s] = session[s]
         \/ session[s] = "AHEAD" /\ session'[s] = "RUNNING"
         \/ session[s] = "RUNNING" /\ session'[s] = "OVER"
         \/ /\ session[s] \in Scheduled /\ session'[s] \in {"CANCELLED", "COMPLETED"}
            /\ \A m \in Member : seat'[m][s] # "BOOKED"
<1>0. session \in [Session -> Phase] /\ SeatTyped
  BY DEF BookInv, TypeOK, RightsTyped, SeatsFit
<1>1. ASSUME NEW q \in Session, Pass(q)
      PROVE  \/ session'[s] = session[s]
             \/ session[s] = "AHEAD" /\ session'[s] = "RUNNING"
             \/ session[s] = "RUNNING" /\ session'[s] = "OVER"
  BY <1>0, <1>1 DEF Pass
<1>2. ASSUME NEW q \in Session, NEW status \in {"CANCELLED", "COMPLETED"}, session[q] \in Scheduled,
             session' = [session EXCEPT ![q] = status], seat' = BookedTo(q, status)
      PROVE  \/ session'[s] = session[s]
             \/ /\ session[s] \in Scheduled /\ session'[s] \in {"CANCELLED", "COMPLETED"}
                /\ \A m \in Member : seat'[m][s] # "BOOKED"
  BY <1>0, <1>2 DEF BookedTo, SeatTyped
<1>3. \A q \in Session : CancelSession(q) \/ CompleteSession(q) =>
        \E status \in {"CANCELLED", "COMPLETED"} :
          /\ session[q] \in Scheduled /\ session' = [session EXCEPT ![q] = status]
          /\ seat' = BookedTo(q, status)
  BY DEF CancelSession, CompleteSession, Scheduled
<1>4. \A r \in Request :
        Book(r) \/ Course(r) \/ Join(r) \/ Cancel(r) \/ Transfer(r) \/ Revoke(r) \/ Restore(r) =>
          UNCHANGED session
  BY DEF Book, Course, Join, Cancel, Transfer, Revoke, Restore
<1>5. \A m \in Member : /\ Subscribe(m) \/ Lapse(m) => UNCHANGED session
                        /\ \A b \in 1 .. MaxSubs : EndSubscription(m, b) => UNCHANGED session
                        /\ \A c \in Class : ApplyPenalty(m, c) \/ PenaltyEnds(m, c) => UNCHANGED session
                        /\ \A q \in Session : LeaveQueue(m, q) => UNCHANGED session
  BY DEF Subscribe, Lapse, EndSubscription, ApplyPenalty, PenaltyEnds, LeaveQueue
<1>6. \A q \in Session : Worker(q) => UNCHANGED session BY DEF Worker
<1>7. QED BY <1>1, <1>2, <1>3, <1>4, <1>5, <1>6, NextCases

\* A COMPLETED seat was one before, or was BOOKED.
LEMMA CompletedWas ==
  ASSUME BookInv, [Next]_vars, NEW m \in Member, NEW s \in Session, seat'[m][s] = "COMPLETED"
  PROVE  Takes(seat[m][s])
<1>0. SeatTyped BY DEF BookInv, SeatsFit
<1>1. CASE seat'[m][s] = seat[m][s] BY <1>1 DEF Takes
<1>2. ASSUME NEW st, NEW ms, NEW q, Fewer(st), seat' = Seated(st, ms, q) PROVE Takes(seat[m][s])
  BY <1>2 DEF Seated, Fewer, Takes
<1>3. Fewer(seat) BY <1>0 DEF Fewer, SeatTyped
<1>4. \A x, q : Fewer(Vacated(x, q)) BY <1>0, VacatedFewer
<1>5. ASSUME NEW r \in Request, Book(r) \/ Cancel(r) \/ Transfer(r) PROVE Takes(seat[m][s])
  <2>1. \E st, ms, q : Fewer(st) /\ seat' = Seated(st, ms, q)
    BY <1>3, <1>4, <1>5 DEF Book, Cancel, Transfer
  <2>2. QED BY <1>2, <2>1
<1>6. ASSUME NEW q \in Session, Worker(q) PROVE Takes(seat[m][s])
  <2>1. \E ms : seat' = Seated(seat, ms, q) BY <1>6 DEF Worker
  <2>2. QED BY <1>2, <1>3, <2>1
<1>7. ASSUME NEW r \in Request, Restore(r) PROVE Takes(seat[m][s])
  <2>1. PICK ss : seat' = [seat EXCEPT ![req[r].member] =
                    [q \in Session |-> IF q \in ss THEN "BOOKED" ELSE seat[req[r].member][q]]]
    BY <1>7 DEF Restore
  <2>2. QED BY <1>0, <1>1, <2>1 DEF SeatTyped
<1>8. ASSUME NEW x \in Member, NEW b, EndSubscription(x, b) PROVE Takes(seat[m][s])
  <2>1. PICK ss, picks : seat' = Reseated(x, ss, picks, ss) BY <1>8 DEF EndSubscription
  <2>2. QED BY <1>1, <2>1 DEF Reseated
<1>9. ASSUME NEW x \in Member, NEW c \in Class, ApplyPenalty(x, c) PROVE Takes(seat[m][s])
  <2>1. PICK ss : seat' = [seat EXCEPT ![x] =
                    [q \in Session |-> IF q \in ss THEN "CANCELLED" ELSE seat[x][q]]]
    BY <1>9 DEF ApplyPenalty
  <2>2. QED BY <1>0, <1>1, <2>1 DEF SeatTyped
<1>10. ASSUME NEW q \in Session, CancelSession(q) \/ CompleteSession(q) PROVE Takes(seat[m][s])
  <2>1. \E status : seat' = BookedTo(q, status) BY <1>10 DEF CancelSession, CompleteSession
  <2>2. QED BY <1>0, <1>1, <2>1 DEF BookedTo, SeatTyped, Takes
<1>11. UNCHANGED seat => seat'[m][s] = seat[m][s] OBVIOUS
<1>12. \A r \in Request : Join(r) \/ Revoke(r) => UNCHANGED seat BY DEF Join, Revoke, seats
<1>13. \A x \in Member : /\ Subscribe(x) \/ Lapse(x) => UNCHANGED seat
                         /\ \A c \in Class : PenaltyEnds(x, c) => UNCHANGED seat
                         /\ \A q \in Session : LeaveQueue(x, q) => UNCHANGED seat
  BY DEF Subscribe, Lapse, PenaltyEnds, LeaveQueue, seats
<1>14. \A q \in Session : Pass(q) => UNCHANGED seat BY DEF Pass, seats
<1>15. UNCHANGED <<seats, session, rights>> => UNCHANGED seat BY DEF seats
<1>16. ASSUME NEW r \in Request, Course(r) PROVE Takes(seat[m][s])
  <2>1. PICK ss : seat' = [seat EXCEPT ![req[r].member] =
                    [q \in Session |-> IF q \in ss THEN "BOOKED" ELSE seat[req[r].member][q]]]
    BY <1>16 DEF Course
  <2>2. QED BY <1>0, <1>1, <2>1 DEF SeatTyped
<1>17. QED
  BY <1>1, <1>5, <1>6, <1>7, <1>8, <1>9, <1>10, <1>11, <1>12, <1>13, <1>14, <1>15, <1>16, NextCases

LEMMA TakerWas ==
  ASSUME BookInv, [Next]_vars, NEW m \in Member, NEW s \in Session, Takes(seat'[m][s])
  PROVE  Takes(seat[m][s]) \/ New(m, s)
BY CompletedWas DEF Takes, New

\* What a restoration gives back: no two overlapping seats, and none that clashes with
\* the seats the member has.
LEMMA RestoredApart ==
  ASSUME BookInv, NEW r \in Request, Restore(r),
         NEW x \in Member, NEW s \in Session, NEW q \in Session, Twice(x, s, q)'
  PROVE  Twice(x, s, q)
<1> DEFINE m == req[r].member
<1>1. PICK ss \in SUBSET req[r].slots :
        /\ RestoredSlots(m, req[r].slots, ss)
        /\ seat' = [seat EXCEPT ![m] = [p \in Session |-> IF p \in ss THEN "BOOKED" ELSE seat[m][p]]]
  BY DEF Restore
<1>2. UNCHANGED session /\ SeatTyped BY DEF Restore, BookInv, SeatsFit
<1> HIDE DEF m
<1>3. \A p \in ss : ~Clashes(seat, m, p) BY <1>1 DEF RestoredSlots, Restorable
<1>4. \A p, y \in ss : p # y => ~BothOn(p, y) BY <1>1 DEF RestoredSlots
<1>5. s # q /\ BothOn(s, q) /\ Takes(seat'[x][s]) /\ Takes(seat'[x][q])
  BY <1>2 DEF Twice, BothOn, Takes
<1>6. CASE x # m BY <1>1, <1>2, <1>5, <1>6 DEF SeatTyped, Twice
<1>7. CASE x = m
  <2>1. \A p \in Session : p \notin ss => seat'[x][p] = seat[x][p] BY <1>1, <1>2, <1>7 DEF SeatTyped
  <2>2. /\ <<s, q>> \in Overlapping /\ <<q, s>> \in Overlapping
        /\ session[s] \in Scheduled /\ session[q] \in Scheduled
    BY <1>5, BookingConstants DEF BothOn
  <2>3. CASE s \in ss /\ q \in ss BY <1>4, <1>5, <2>3
  <2>4. CASE s \in ss /\ q \notin ss BY <1>3, <1>5, <1>7, <2>1, <2>2, <2>4 DEF Clashes
  <2>5. CASE s \notin ss /\ q \in ss BY <1>3, <1>5, <1>7, <2>1, <2>2, <2>5 DEF Clashes
  <2>6. CASE s \notin ss /\ q \notin ss BY <1>5, <2>1, <2>6 DEF Twice
  <2>7. QED BY <2>3, <2>4, <2>5, <2>6
<1>8. QED BY <1>6, <1>7

\* A step that seats a member twice is a course that seats the member in two sessions of
\* its class.
LEMMA TwiceByCourse ==
  ASSUME BookInv, [Next]_vars, NEW m \in Member, NEW s \in Session, NEW q \in Session,
         Twice(m, s, q)', ~Twice(m, s, q)
  PROVE  ClassOf[s] = ClassOf[q] /\ \E r \in Request : Course(r) /\ req[r].member = m
<1>1. /\ s # q /\ <<s, q>> \in Overlapping /\ <<q, s>> \in Overlapping
      /\ session'[s] \in Scheduled /\ session'[q] \in Scheduled
      /\ Takes(seat'[m][s]) /\ Takes(seat'[m][q])
  BY BookingConstants DEF Twice, BothOn, Takes
<1>2. session[s] \in Scheduled /\ session[q] \in Scheduled
  BY <1>1, SessionMoves DEF Scheduled
<1>3. ~(Takes(seat[m][s]) /\ Takes(seat[m][q]))
  BY <1>1, <1>2 DEF Twice, BothOn
<1>4. New(m, s) \/ New(m, q)
  BY <1>1, <1>3, TakerWas
<1>5. ~\E r \in Request : Restore(r)
  BY RestoredApart
<1>6. (New(m, s) => Granted(m, s)) /\ (New(m, q) => Granted(m, q))
  BY <1>5, NewIsGranted DEF Restores
<1>7. QED BY <1>1, <1>2, <1>4, <1>6 DEF Granted

\* A member gets a second session at the same time only from a course, in its own class,
\* for any number of requests, promotions, moves and restorations beside each other.
THEOREM OverlapOnlyByCourse == Spec => OnlyCoursesOverlap
<1>1. BookInv /\ [Next]_vars =>
        [\A m \in Member : \A s, q \in Session :
           Twice(m, s, q)' =>
             \/ Twice(m, s, q)
             \/ ClassOf[s] = ClassOf[q] /\ \E r \in Request : Course(r) /\ req[r].member = m]_vars
  BY TwiceByCourse
<1>2. QED BY BookInit, BookNext, <1>1, PTL DEF Spec, OnlyCoursesOverlap

\* So a member never holds two sessions at overlapping times where no course has sessions
\* that overlap each other.
THEOREM NobodyIsTwice ==
  ASSUME "course" \in Kinds =>
           \A s, q \in Session : s # q /\ ClassOf[s] = ClassOf[q] => <<s, q>> \notin Overlapping
  PROVE  Spec => []NoTimeConflict
<1>1. Init => NoTimeConflict BY DEF Init, NoTimeConflict, Twice, Takes
<1>2. BookInv /\ NoTimeConflict /\ [Next]_vars => NoTimeConflict'
  <2> SUFFICES ASSUME BookInv, NoTimeConflict, [Next]_vars,
                      NEW m \in Member, NEW s \in Session, NEW q \in Session, Twice(m, s, q)'
               PROVE  FALSE
    BY DEF NoTimeConflict
  <2>1. ~Twice(m, s, q) BY DEF NoTimeConflict
  <2>2. s # q /\ <<s, q>> \in Overlapping BY DEF Twice, BothOn
  <2>3. \A r \in Request : Course(r) => "course" \in Kinds
    BY DEF BookInv, Known, Course, Holding
  <2>4. QED BY <2>1, <2>2, <2>3, TwiceByCourse
<1>3. QED BY BookInit, BookNext, <1>1, <1>2, PTL DEF Spec

\* A member whose penalty is in force gets no seat in the class by booking, moving or
\* promotion, whatever they read before the penalty; only a restoration of it gives one.
THEOREM PenaltyAlwaysBars == Spec => PenaltyBars
<1>1. BookInv /\ [Next]_vars =>
        [\A m \in Member, s \in Session :
           BarredSeat(m, s)' => BarredSeat(m, s) \/ \E r \in Request : Restores(r, m, s)]_vars
  <2> SUFFICES ASSUME BookInv, [Next]_vars, NEW m \in Member, NEW s \in Session,
                      BarredSeat(m, s)', ~\E r \in Request : Restores(r, m, s)
               PROVE  BarredSeat(m, s)
    OBVIOUS
  <2> DEFINE mc == <<m, ClassOf[s]>>
  <2>0. /\ mc \in Member \X Class /\ penalty \in [Member \X Class -> Penalty]
        /\ seat \in [Member -> [Session -> EnrollmentStatus]]
    BY BookingConstants DEF BookInv, TypeOK, RightsTyped, SeatsTyped
  <2>1. penalty'[mc].status = "APPLIED" /\ session'[s] = "AHEAD" /\ seat'[m][s] = "BOOKED"
    BY DEF BarredSeat, Barred, Open
  <2>2. Open(s) BY <2>1, SessionMoves DEF Open
  <2>3. penalty[mc].status = "APPLIED" \/ \E x \in Member, c \in Class : ApplyPenalty(x, c) /\ <<x, c>> = mc
    <3>1. CASE UNCHANGED penalty BY <2>1, <3>1
    <3>2. ASSUME NEW r \in Request, Revoke(r) \/ Restore(r) PROVE penalty[mc].status = "APPLIED"
      <4>1. penalty' = Revoked(r) BY <3>2 DEF Revoke, Restore
      <4>2. QED BY <2>0, <2>1, <4>1 DEF Revoked, Penalty
    <3>3. ASSUME NEW x \in Member, NEW c \in Class, PenaltyEnds(x, c) PROVE penalty[mc].status = "APPLIED"
      BY <2>0, <2>1, <3>3 DEF PenaltyEnds, Penalty
    <3>4. ASSUME NEW x \in Member, NEW c \in Class, ApplyPenalty(x, c), <<x, c>> # mc
          PROVE  penalty[mc].status = "APPLIED"
      <4>1. \E row : penalty' = [penalty EXCEPT ![<<x, c>>] = row] BY <3>4 DEF ApplyPenalty
      <4>2. QED BY <2>0, <2>1, <3>4, <4>1
    <3>5. \A r \in Request :
            Book(r) \/ Course(r) \/ Join(r) \/ Cancel(r) \/ Transfer(r) => UNCHANGED penalty
      BY DEF Book, Course, Join, Cancel, Transfer, rights
    <3>6. \A x \in Member : /\ Subscribe(x) \/ Lapse(x) => UNCHANGED penalty
                            /\ \A b \in 1 .. MaxSubs : EndSubscription(x, b) => UNCHANGED penalty
                            /\ \A q \in Session : LeaveQueue(x, q) => UNCHANGED penalty
      BY DEF Subscribe, Lapse, EndSubscription, LeaveQueue, rights
    <3>7. \A q \in Session : Worker(q) \/ CancelSession(q) \/ CompleteSession(q) \/ Pass(q) => UNCHANGED penalty
      BY DEF Worker, CancelSession, CompleteSession, Pass, rights
    <3>8. UNCHANGED <<seats, session, rights>> => UNCHANGED penalty BY DEF rights
    <3> HIDE DEF mc
    <3>9. QED BY <3>1, <3>2, <3>3, <3>4, <3>5, <3>6, <3>7, <3>8, NextCases
  <2>4. ASSUME NEW x \in Member, NEW c \in Class, ApplyPenalty(x, c), <<x, c>> = mc PROVE FALSE
    <3>1. x = m /\ c = ClassOf[s] BY <2>4
    <3>2. /\ UNCHANGED session
          /\ seat' = [seat EXCEPT ![m] =
               [q \in Session |-> IF ClassOf[q] = c /\ seat[m][q] = "BOOKED" /\ Open(q)
                                  THEN "CANCELLED" ELSE seat[m][q]]]
      BY <2>4, <3>1 DEF ApplyPenalty
    <3>3. QED BY <2>0, <2>1, <2>2, <3>1, <3>2
  <2>5. penalty[mc].status = "APPLIED" BY <2>3, <2>4
  <2>6. ~New(m, s) BY <2>5, NewIsGranted DEF Granted, Barred
  <2>7. QED BY <2>1, <2>2, <2>5, <2>6 DEF New, BarredSeat, Barred
<1>2. QED BY BookInit, BookNext, <1>1, PTL DEF Spec, PenaltyBars

--------------------------------------------------------------------------------
(* What moves and restorations alone can do, which do not look again.      *)

\* A seat comes into a cancelled session only by a move to it or a restoration of the
\* seat, although bookings and promotions read the session while it was being cancelled.
LEMMA CancelledFilled ==
  ASSUME BookInv, [Next]_vars, NEW m \in Member, NEW s \in Session, SeatInCancelled(m, s)'
  PROVE  \/ SeatInCancelled(m, s)
         \/ \E r \in Request : Moves(r, m, s) \/ Restores(r, m, s)
<1>1. session'[s] = "CANCELLED" /\ seat'[m][s] = "BOOKED" BY DEF SeatInCancelled
<1>2. session[s] = "CANCELLED" BY <1>1, SessionMoves
<1>3. CASE New(m, s) BY <1>2, <1>3, NewIsGranted DEF Granted, Open
<1>4. CASE ~New(m, s) BY <1>1, <1>2, <1>4 DEF New, SeatInCancelled
<1>5. QED BY <1>3, <1>4

\* The same of every run: only a stale move or restoration books a cancelled session.
THEOREM CancelledOnlyByStale == Spec => OnlyStaleFillsCancelled
<1>1. BookInv /\ [Next]_vars =>
        [\A m \in Member, s \in Session :
           SeatInCancelled(m, s)' =>
             \/ SeatInCancelled(m, s)
             \/ \E r \in Request : Moves(r, m, s) \/ Restores(r, m, s)]_vars
  BY CancelledFilled
<1>2. QED BY BookInit, BookNext, <1>1, PTL DEF Spec, OnlyStaleFillsCancelled

\* Without moves and restorations, then, a cancelled session keeps no BOOKED seat (A12).
THEOREM CancelledStaysEmpty ==
  ASSUME Kinds \cap {"transfer", "restore"} = {}
  PROVE  Spec => []CancelledIsEmpty
<1>1. Init => CancelledIsEmpty BY DEF Init, CancelledIsEmpty
<1>2. BookInv /\ CancelledIsEmpty /\ [Next]_vars => CancelledIsEmpty'
  <2> SUFFICES ASSUME BookInv, CancelledIsEmpty, [Next]_vars, NEW m \in Member, NEW s \in Session,
                      SeatInCancelled(m, s)'
               PROVE  FALSE
    BY DEF CancelledIsEmpty, SeatInCancelled
  <2>1. \A r \in Request : ~Transfer(r) /\ ~Restore(r)
    BY DEF BookInv, Known, Transfer, Restore, Holding
  <2>2. ~SeatInCancelled(m, s) BY DEF CancelledIsEmpty, SeatInCancelled
  <2>3. QED BY <2>1, <2>2, CancelledFilled DEF Moves, Restores
<1>3. QED BY BookInit, BookNext, <1>1, <1>2, PTL DEF Spec

\* The effective subscription is one that was bought and not revoked.
SubsLive ==
  /\ \A m \in Member : sub[m] <= bought[m] /\ (sub[m] # 0 => <<m, sub[m]>> \notin revoked)
  /\ \A m \in Member, b \in Nat : <<m, b>> \in revoked => b <= bought[m]

LEMMA SubsStayLive ==
  ASSUME BookInv, SubsLive, [Next]_vars
  PROVE  SubsLive'
<1>0. sub \in [Member -> Nat] /\ bought \in [Member -> Nat] /\ revoked \subseteq Member \X Nat
  BY DEF BookInv, TypeOK, RightsTyped
<1>1. CASE UNCHANGED <<sub, bought, revoked>> BY <1>1 DEF SubsLive
<1>2. ASSUME NEW m \in Member, Subscribe(m) PROVE SubsLive'
  <2>1. /\ bought' = [bought EXCEPT ![m] = bought[m] + 1]
        /\ sub' = [sub EXCEPT ![m] = bought[m] + 1] /\ revoked' = revoked
    BY <1>0, <1>2 DEF Subscribe
  <2>2. bought[m] \in Nat /\ <<m, bought[m] + 1>> \notin revoked BY <1>0 DEF SubsLive
  <2>3. \A x \in Member : /\ bought'[x] = IF x = m THEN bought[m] + 1 ELSE bought[x]
                          /\ sub'[x] = IF x = m THEN bought[m] + 1 ELSE sub[x]
    BY <1>0, <2>1
  <2>4. \A x \in Member : sub'[x] <= bought'[x] /\ (sub'[x] # 0 => <<x, sub'[x]>> \notin revoked')
    BY <1>0, <2>1, <2>2, <2>3 DEF SubsLive
  <2>5. \A x \in Member, b \in Nat : <<x, b>> \in revoked' => b <= bought'[x]
    BY <1>0, <2>1, <2>2, <2>3 DEF SubsLive
  <2>6. QED BY <2>4, <2>5 DEF SubsLive
<1>3. ASSUME NEW m \in Member, Lapse(m) PROVE SubsLive'
  BY <1>0, <1>3 DEF Lapse, SubsLive
<1>4. ASSUME NEW m \in Member, NEW b \in 1 .. MaxSubs, EndSubscription(m, b) PROVE SubsLive'
  <2>1. /\ revoked' = revoked \cup {<<m, b>>} /\ bought' = bought /\ b <= bought[m]
        /\ sub' = [sub EXCEPT ![m] = IF sub[m] = b THEN 0 ELSE sub[m]]
    BY <1>0, <1>4 DEF EndSubscription
  <2>2. \A x \in Member : sub'[x] = IF x = m /\ sub[m] = b THEN 0 ELSE sub[x] BY <1>0, <2>1
  <2>3. ASSUME NEW x \in Member PROVE sub'[x] <= bought'[x]
    <3>1. sub[x] \in Nat /\ bought[x] \in Nat /\ sub[x] <= bought[x] BY <1>0 DEF SubsLive
    <3>2. sub'[x] \in {0, sub[x]} /\ bought'[x] = bought[x] BY <2>1, <2>2
    <3>3. QED BY <3>1, <3>2
  <2>4. \A x \in Member : sub'[x] # 0 => <<x, sub'[x]>> \notin revoked' BY <2>1, <2>2 DEF SubsLive
  <2>5. \A x \in Member, n \in Nat : <<x, n>> \in revoked' => n <= bought'[x] BY <2>1 DEF SubsLive
  <2>6. QED BY <2>3, <2>4, <2>5 DEF SubsLive
<1>5. \A r \in Request :
        Book(r) \/ Course(r) \/ Join(r) \/ Cancel(r) \/ Transfer(r) \/ Revoke(r) \/ Restore(r) =>
          UNCHANGED <<sub, bought, revoked>>
  BY DEF Book, Course, Join, Cancel, Transfer, Revoke, Restore, rights
<1>6. \A m \in Member : /\ \A c \in Class : ApplyPenalty(m, c) \/ PenaltyEnds(m, c) =>
                             UNCHANGED <<sub, bought, revoked>>
                        /\ \A s \in Session : LeaveQueue(m, s) => UNCHANGED <<sub, bought, revoked>>
  BY DEF ApplyPenalty, PenaltyEnds, LeaveQueue, rights
<1>7. \A s \in Session : Worker(s) \/ CancelSession(s) \/ CompleteSession(s) \/ Pass(s) =>
        UNCHANGED <<sub, bought, revoked>>
  BY DEF Worker, CancelSession, CompleteSession, Pass, rights
<1>8. UNCHANGED <<seats, session, rights>> => UNCHANGED <<sub, bought, revoked>> BY DEF rights
<1>9. QED BY <1>1, <1>2, <1>3, <1>4, <1>5, <1>6, <1>7, <1>8, NextCases

\* A subscription is revoked together with the seats it funds.
LEMMA RevokedTogether ==
  ASSUME BookInv, SubsLive, [Next]_vars, NEW m \in Member, NEW s \in Session,
         <<m, funds[m][s]>> \in revoked' \ revoked, seat[m][s] = "BOOKED", session[s] # "OVER",
         ~New(m, s), seat'[m][s] = "BOOKED"
  PROVE  FALSE
<1>1. PICK x \in Member, b \in 1 .. MaxSubs : EndSubscription(x, b)
  <2>1. \A r \in Request :
          Book(r) \/ Course(r) \/ Join(r) \/ Cancel(r) \/ Transfer(r) \/ Revoke(r) \/ Restore(r) =>
            UNCHANGED revoked
    BY DEF Book, Course, Join, Cancel, Transfer, Revoke, Restore, rights
  <2>2. \A x \in Member : /\ Subscribe(x) \/ Lapse(x) => UNCHANGED revoked
                          /\ \A c \in Class : ApplyPenalty(x, c) \/ PenaltyEnds(x, c) => UNCHANGED revoked
                          /\ \A q \in Session : LeaveQueue(x, q) => UNCHANGED revoked
    BY DEF Subscribe, Lapse, ApplyPenalty, PenaltyEnds, LeaveQueue, rights
  <2>3. \A q \in Session : Worker(q) \/ CancelSession(q) \/ CompleteSession(q) \/ Pass(q) => UNCHANGED revoked
    BY DEF Worker, CancelSession, CompleteSession, Pass, rights
  <2>4. UNCHANGED <<seats, session, rights>> => UNCHANGED revoked BY DEF rights
  <2>5. QED BY <2>1, <2>2, <2>3, <2>4, NextCases
<1> DEFINE ss == PaidBy(x, b)
           out == Busy(NoRequest) \cup (IF sub[x] = b THEN {x} ELSE {})
<1>2. PICK picks \in [ss -> SUBSET Member] :
        /\ \A q \in ss :
             IF Open(q)
             THEN Promotable(picks[q], Reseated(x, ss, picks, {p \in ss : p < q}), q, out, 1)
             ELSE picks[q] = {}
        /\ seat' = Reseated(x, ss, picks, ss)
        /\ funds' = [y \in Member |-> [q \in Session |->
                       IF q \in ss /\ y \in picks[q] THEN sub[y] ELSE funds[y][q]]]
  BY <1>1 DEF EndSubscription
<1>3. x = m /\ b = funds[m][s] BY <1>1 DEF EndSubscription
<1>4. s \in ss BY <1>3 DEF PaidBy
<1>5. m \in picks[s] BY <1>2, <1>3, <1>4 DEF Reseated
<1>6. sub[m] # b
  <2> DEFINE st == Reseated(x, ss, picks, {p \in ss : p < s})
  <2>1. picks[s] \subseteq Candidates(st, s, out) BY <1>2, <1>4, <1>5 DEF Promotable
  <2>2. m \notin out BY <1>5, <2>1 DEF Candidates
  <2>3. QED BY <1>3, <2>2
<1>7. funds'[m][s] = sub[m] BY <1>2, <1>4, <1>5
<1>8. QED BY <1>3, <1>6, <1>7 DEF New

\* A usable seat comes under a revoked subscription only by a restoration of the seat.
LEMMA RevokedFunds ==
  ASSUME BookInv, SubsLive, [Next]_vars, NEW m \in Member, NEW s \in Session, SeatOfRevoked(m, s)'
  PROVE  SeatOfRevoked(m, s) \/ \E r \in Request : Restores(r, m, s)
<1>1. seat'[m][s] = "BOOKED" /\ session'[s] # "OVER" /\ <<m, funds'[m][s]>> \in revoked'
  BY DEF SeatOfRevoked
<1>2. CASE New(m, s) BY <1>1, <1>2, NewIsGranted DEF Granted, SubsLive
<1>3. CASE ~New(m, s)
  <2>1. seat[m][s] = "BOOKED" /\ funds'[m][s] = funds[m][s] BY <1>1, <1>3 DEF New
  <2>2. session[s] # "OVER" BY <1>1, SessionMoves
  <2>3. <<m, funds[m][s]>> \in revoked BY <1>1, <1>3, <2>1, <2>2, RevokedTogether
  <2>4. QED BY <2>1, <2>2, <2>3 DEF SeatOfRevoked
<1>4. QED BY <1>2, <1>3

\* A cancelled or refunded subscription gets a usable seat back only by a restoration,
\* whatever bookings, moves and promotions ran beside revokeSubscriptionBookings.
THEOREM RevokedOnlyByRestore == Spec => OnlyRestoresRevoked
<1>1. Init => SubsLive BY DEF Init, SubsLive
<1>2. BookInv /\ SubsLive /\ [Next]_vars => SubsLive' BY SubsStayLive
<1>3. BookInv /\ SubsLive /\ [Next]_vars =>
        [\A m \in Member, s \in Session :
           SeatOfRevoked(m, s)' => SeatOfRevoked(m, s) \/ \E r \in Request : Restores(r, m, s)]_vars
  BY RevokedFunds
<1>4. QED BY BookInit, BookNext, <1>1, <1>2, <1>3, PTL DEF Spec, OnlyRestoresRevoked

\* Without restorations, then, it funds no seat that can still be used.
THEOREM RevokedFundsNoSeat ==
  ASSUME "restore" \notin Kinds
  PROVE  Spec => []RevokedFundsNothing
<1>1. Init => SubsLive /\ RevokedFundsNothing BY DEF Init, SubsLive, RevokedFundsNothing
<1>2. BookInv /\ SubsLive /\ RevokedFundsNothing /\ [Next]_vars => RevokedFundsNothing'
  <2> SUFFICES ASSUME BookInv, SubsLive, RevokedFundsNothing, [Next]_vars,
                      NEW m \in Member, NEW s \in Session, SeatOfRevoked(m, s)'
               PROVE  FALSE
    BY DEF RevokedFundsNothing, SeatOfRevoked
  <2>1. \A r \in Request : ~Restore(r) BY DEF BookInv, Known, Restore
  <2>2. ~SeatOfRevoked(m, s) BY DEF RevokedFundsNothing, SeatOfRevoked
  <2>3. QED BY <2>1, <2>2, RevokedFunds DEF Restores
<1>3. BookInv /\ SubsLive /\ [Next]_vars => SubsLive' BY SubsStayLive
<1>4. QED BY BookInit, BookNext, <1>1, <1>2, <1>3, PTL DEF Spec

--------------------------------------------------------------------------------
(* The quota.                                                              *)

LEMMA HeldFinite ==
  ASSUME NEW st, NEW m
  PROVE  IsFiniteSet(ClassesHeld(st, m)) /\ Cardinality(ClassesHeld(st, m)) \in Nat
<1> DEFINE S == {q \in Session : st[m][q] = "BOOKED" /\ Open(q)}
           f == [s \in S |-> ClassOf[s]]
<1>1. IsFiniteSet(S) BY BookingConstants, FS_Subset
<1>2. f \in Surjection(S, ClassesHeld(st, m)) BY DEF Surjection, ClassesHeld
<1> HIDE DEF S, f
<1>3. IsFiniteSet(ClassesHeld(st, m)) BY <1>1, <1>2, FS_Surjection
<1>4. QED BY <1>3, FS_CardinalityType

\* In every state, so after every step.
LEMMA HeldCount == \A m \in Member : HeldClasses(m) \in Nat
BY HeldFinite DEF HeldClasses

LEMMA HeldCountNext == (\A m \in Member : HeldClasses(m) \in Nat)'
BY HeldCount, PTL

\* Bounds of the classes a member holds: the quota, or more where a move went beyond it.
Bound == {N \in Nat : N >= Quota}

LEMMA FewerHeld ==
  ASSUME NEW st, NEW m, NEW N \in Bound, Cardinality(ClassesHeld(st, m)) <= N,
         NEW C \in SUBSET ClassesHeld(st, m)
  PROVE  Cardinality(C) <= N
<1>1. /\ IsFiniteSet(ClassesHeld(st, m)) /\ Cardinality(ClassesHeld(st, m)) \in Nat
      /\ IsFiniteSet(C) /\ Cardinality(C) \in Nat
  BY HeldFinite, FS_Subset, FS_CardinalityType
<1>2. Cardinality(C) <= Cardinality(ClassesHeld(st, m)) BY <1>1, FS_Subset
<1>3. QED BY <1>1, <1>2 DEF Bound

\* A seat that was counted against the quota.
LEMMA OneMoreHeld ==
  ASSUME NEW st, NEW m, NEW s, WithinQuota(st, m, s),
         NEW N \in Bound, Cardinality(ClassesHeld(st, m)) <= N,
         NEW C \in SUBSET (ClassesHeld(st, m) \cup {ClassOf[s]})
  PROVE  Cardinality(C) <= N
<1> DEFINE H == ClassesHeld(st, m)
<1>1. IsFiniteSet(H) /\ Cardinality(H) \in Nat BY HeldFinite
<1>2. CASE ClassOf[s] \in H BY <1>2, FewerHeld
<1>3. CASE ClassOf[s] \notin H
  <2>1. Cardinality(H) < Quota BY <1>3 DEF WithinQuota
  <2> HIDE DEF H
  <2>2. /\ IsFiniteSet(H \cup {ClassOf[s]})
        /\ Cardinality(H \cup {ClassOf[s]}) = Cardinality(H) + 1
    BY <1>1, <1>3, FS_AddElement
  <2>3. /\ Cardinality(C) <= Cardinality(H \cup {ClassOf[s]}) /\ IsFiniteSet(C)
        /\ Cardinality(C) \in Nat
    BY <2>2, FS_Subset, FS_CardinalityType DEF H
  <2>4. QED BY <1>1, <2>1, <2>2, <2>3, BookingConstants DEF Bound
<1>4. QED BY <1>2, <1>3

\* Sets of sessions have a smallest, sets of session ids a greatest.
LEMMA SmallestSet ==
  ASSUME NEW F \in SUBSET SUBSET Session, F # {}
  PROVE  \E U \in F : \A V \in F : ~(V \subseteq U /\ V # U)
<1>1. IsWellFoundedOn(StrictSubsetOrdering(Session), FiniteSubsetsOf(Session))
  BY FS_StrictSubsetOrderingWellFounded
<1>2. FiniteSubsetsOf(Session) = SUBSET Session BY BookingConstants, FS_FiniteSubsetsOfFinite
<1>3. \E U \in F : \A V \in F : ~ (<<V, U>> \in StrictSubsetOrdering(Session))
  BY <1>1, <1>2, WFMin
<1>4. QED BY <1>3 DEF StrictSubsetOrdering

LEMMA GreatestSession ==
  ASSUME NEW T \in SUBSET Session, T # {}
  PROVE  \E x \in T : \A y \in T : y <= x
<1> DEFINE Above(x) == {q \in Session : q > x}
           F == {Above(x) : x \in T}
<1>1. PICK U \in F : \A V \in F : ~(V \subseteq U /\ V # U)
  <2>1. F \in SUBSET SUBSET Session /\ F # {} OBVIOUS
  <2> HIDE DEF F
  <2>2. QED BY <2>1, SmallestSet
<1>2. PICK x \in T : U = Above(x) BY <1>1
<1>3. ASSUME NEW y \in T, y > x PROVE FALSE
  <2>1. x \in Nat /\ y \in Nat /\ y \in Session BY BookingConstants
  <2>2. y \in Above(x) /\ y \notin Above(y) BY <1>3, <2>1
  <2>3. ASSUME NEW q \in Session, q > y PROVE q > x
    <3>1. q \in Nat BY BookingConstants
    <3>2. QED BY <1>3, <2>1, <2>3, <3>1
  <2>4. Above(y) \subseteq Above(x) BY <2>3
  <2>5. Above(y) \in F OBVIOUS
  <2>6. QED BY <1>1, <1>2, <2>2, <2>4, <2>5
<1>4. x \in Nat /\ \A y \in T : y \in Nat BY BookingConstants
<1>5. QED BY <1>3, <1>4

\* While the seats of an ended subscription are offered, session after session, nobody
\* gets more classes than the quota, or than before: the last seat a member got was
\* counted with all the others.
LEMMA ReseatedWithin ==
  ASSUME NEW m, NEW ss \in SUBSET Session, NEW picks, NEW out,
         \A s \in ss : picks[s] # {} =>
           Promotable(picks[s], Reseated(m, ss, picks, {q \in ss : q < s}), s, out, 1),
         NEW x \in Member, NEW N \in Bound, Cardinality(ClassesHeld(seat, x)) <= N,
         NEW U \in SUBSET ss, \A s \in U, q \in ss : q < s => q \in U
  PROVE  Cardinality(ClassesHeld(Reseated(m, ss, picks, U), x)) <= N
<1> DEFINE Initial(V) == \A s \in V, q \in ss : q < s => q \in V
           Within(V) == Cardinality(ClassesHeld(Reseated(m, ss, picks, V), x)) <= N
           F == {V \in SUBSET ss : Initial(V) /\ ~Within(V)}
<1> SUFFICES ASSUME F # {} PROVE FALSE
  OBVIOUS
<1>1. PICK V \in F : \A W \in F : ~(W \subseteq V /\ W # V)
  <2>1. F \in SUBSET SUBSET Session OBVIOUS
  <2> HIDE DEF F
  <2>2. QED BY <2>1, SmallestSet
<1>2. V \in SUBSET ss /\ Initial(V) /\ ~Within(V) BY <1>1
<1> DEFINE T == {s \in V : x \in picks[s]}
           C == ClassesHeld(Reseated(m, ss, picks, V), x)
<1>3. CASE T = {}
  <2>1. \A s \in Session : Reseated(m, ss, picks, V)[x][s] = "BOOKED" => seat[x][s] = "BOOKED"
    BY <1>3 DEF Reseated
  <2>2. C \subseteq ClassesHeld(seat, x) BY <2>1 DEF ClassesHeld
  <2>3. QED BY <1>2, <2>2, FewerHeld
<1>4. CASE T # {}
  <2>1. PICK s \in T : \A q \in T : q <= s BY <1>2, <1>4, GreatestSession
  <2> DEFINE W == {q \in ss : q < s}
             st == Reseated(m, ss, picks, W)
  <2>2. s \in ss /\ s \in Session /\ s \in V /\ s \in Nat /\ x \in picks[s]
    BY <1>2, <2>1, BookingConstants
  <2>3. \A q \in ss : q \in Nat BY BookingConstants
  <2>4. W \subseteq V /\ s \notin W /\ Initial(W)
    <3>1. W \subseteq V BY <1>2, <2>2
    <3>2. s \notin W BY <2>2
    <3>3. ASSUME NEW p \in W, NEW q \in ss, q < p PROVE q < s
      <4>1. p \in Nat /\ q \in Nat /\ p < s BY <2>3
      <4>2. QED BY <2>2, <3>3, <4>1
    <3>4. QED BY <3>1, <3>2, <3>3
  <2>5. Cardinality(ClassesHeld(st, x)) <= N
    <3>1. W \in SUBSET ss /\ W # V BY <2>2, <2>4
    <3>2. W \notin F BY <1>1, <2>4, <3>1
    <3> HIDE DEF W, Initial
    <3>3. Within(W)
      <4> HIDE DEF Within
      <4>1. QED BY <2>4, <3>1, <3>2
    <3>4. QED BY <3>3
  <2>6. WithinQuota(st, x, s)
    <3>1. Promotable(picks[s], st, s, out, 1) BY <2>2
    <3> HIDE DEF st
    <3>2. QED BY <2>2, <3>1 DEF Promotable, Candidates, Eligible
  <2>7. \A q \in Session \ {s} : Reseated(m, ss, picks, V)[x][q] = "BOOKED" => st[x][q] = "BOOKED"
    <3> SUFFICES ASSUME NEW q \in Session \ {s}, Reseated(m, ss, picks, V)[x][q] = "BOOKED"
                 PROVE  st[x][q] = "BOOKED"
      OBVIOUS
    <3>1. CASE q \in T
      <4>1. q \in ss /\ q <= s /\ q # s /\ x \in picks[q]
        <5> HIDE DEF Within, Initial
        <5>1. QED BY <1>2, <2>1, <3>1
      <4>2. q \in W BY <2>2, <2>3, <4>1
      <4>3. QED BY <4>1, <4>2 DEF Reseated
    <3>2. CASE q \notin T
      <4>1. ~(q \in V /\ x \in picks[q]) BY <3>2
      <4>2. QED BY <2>4, <4>1 DEF Reseated
    <3>3. QED BY <3>1, <3>2
  <2>8. C \subseteq ClassesHeld(st, x) \cup {ClassOf[s]}
    <3> HIDE DEF st
    <3>1. QED BY <2>7 DEF ClassesHeld
  <2> HIDE DEF st
  <2>9. Cardinality(C) <= N BY <2>5, <2>6, <2>8, OneMoreHeld
  <2>10. QED BY <1>2, <2>9
<1>5. QED BY <1>3, <1>4

\* A booking, or promotions, in one session.
LEMMA SeatedWithin ==
  ASSUME NEW st, Fewer(st), NEW ms, NEW s, \A m \in ms : WithinQuota(st, m, s),
         NEW x \in Member, NEW N \in Bound, Cardinality(ClassesHeld(seat, x)) <= N
  PROVE  Cardinality(ClassesHeld(Seated(st, ms, s), x)) <= N
<1>1. ClassesHeld(st, x) \subseteq ClassesHeld(seat, x) BY DEF Fewer, ClassesHeld, Takes
<1>2. Cardinality(ClassesHeld(st, x)) <= N BY <1>1, FewerHeld
<1>3. CASE x \in ms
  <2>1. ClassesHeld(Seated(st, ms, s), x) \subseteq ClassesHeld(st, x) \cup {ClassOf[s]}
    BY <1>3 DEF Seated, ClassesHeld, Fewer
  <2>2. QED BY <1>2, <1>3, <2>1, OneMoreHeld
<1>4. CASE x \notin ms
  <2>1. ClassesHeld(Seated(st, ms, s), x) \subseteq ClassesHeld(st, x) BY <1>4 DEF Seated, ClassesHeld
  <2>2. QED BY <1>2, <2>1, FewerHeld
<1>5. QED BY <1>3, <1>4

\* Whom no move and no restoration is about holds no more classes after a step than
\* before, or than the quota.
LEMMA HeldWithin ==
  ASSUME BookInv, [Next]_vars, NEW x \in Member,
         ~\E r \in Request, s \in Session : Moves(r, x, s) \/ Restores(r, x, s),
         NEW N \in Bound, HeldClasses(x) <= N
  PROVE  HeldClasses(x)' <= N
<1>0. /\ TypeOK /\ SeatTyped /\ Known /\ Cardinality(ClassesHeld(seat, x)) <= N
  BY DEF BookInv, SeatsFit, HeldClasses
<1>1. ASSUME UNCHANGED session, Cardinality(ClassesHeld(seat', x)) <= N PROVE HeldClasses(x)' <= N
  BY <1>1 DEF HeldClasses, ClassesHeld, Open
<1>2. Fewer(seat) BY <1>0 DEF Fewer, SeatTyped
<1>3. ASSUME NEW r \in Request, Book(r) PROVE HeldClasses(x)' <= N
  <2>1. /\ WithinQuota(seat, req[r].member, req[r].session) /\ UNCHANGED session
        /\ seat' = Seated(seat, {req[r].member}, req[r].session)
    BY <1>3 DEF Book, CanBook, Eligible
  <2>2. QED BY <1>0, <1>1, <1>2, <2>1, SeatedWithin
<1>4. ASSUME NEW r \in Request, Cancel(r) PROVE HeldClasses(x)' <= N
  <2> DEFINE q == req[r].session
             st == Vacated(req[r].member, q)
  <2>1. PICK ms \in SUBSET Waiting(q) :
          /\ IF Open(q) THEN Promotable(ms, st, q, Busy(r), 1) ELSE ms = {}
          /\ seat' = Seated(st, ms, q)
    BY <1>4 DEF Cancel
  <2>2. Fewer(st) /\ UNCHANGED session BY <1>0, <1>4, VacatedFewer DEF Cancel
  <2> HIDE DEF q, st
  <2>3. \A m \in ms : WithinQuota(st, m, q) BY <2>1 DEF Promotable, Candidates, Eligible
  <2>4. QED BY <1>0, <1>1, <2>1, <2>2, <2>3, SeatedWithin
<1>5. ASSUME NEW q \in Session, Worker(q) PROVE HeldClasses(x)' <= N
  <2>1. PICK ms : /\ Promotable(ms, seat, q, Busy(NoRequest), Capacity)
                  /\ seat' = Seated(seat, ms, q)
    BY <1>5 DEF Worker
  <2>2. \A m \in ms : WithinQuota(seat, m, q) BY <2>1 DEF Promotable, Candidates, Eligible
  <2>3. UNCHANGED session BY <1>5 DEF Worker
  <2>4. QED BY <1>0, <1>1, <1>2, <2>1, <2>2, <2>3, SeatedWithin
<1>6. ASSUME NEW m \in Member, NEW b, EndSubscription(m, b) PROVE HeldClasses(x)' <= N
  <2> DEFINE ss == PaidBy(m, b)
             out == Busy(NoRequest) \cup (IF sub[m] = b THEN {m} ELSE {})
  <2>1. PICK picks \in [ss -> SUBSET Member] :
          /\ \A s \in ss :
               IF Open(s)
               THEN Promotable(picks[s], Reseated(m, ss, picks, {q \in ss : q < s}), s, out, 1)
               ELSE picks[s] = {}
          /\ seat' = Reseated(m, ss, picks, ss)
    BY <1>6 DEF EndSubscription
  <2>2. ss \in SUBSET Session /\ UNCHANGED session BY <1>6 DEF PaidBy, EndSubscription
  <2> HIDE DEF ss, out
  <2>3. Cardinality(ClassesHeld(seat', x)) <= N
    <3>1. \A s \in ss : picks[s] # {} =>
            Promotable(picks[s], Reseated(m, ss, picks, {q \in ss : q < s}), s, out, 1)
      BY <2>1
    <3>2. Cardinality(ClassesHeld(Reseated(m, ss, picks, ss), x)) <= N
      BY <1>0, <2>2, <3>1, ReseatedWithin
    <3>3. QED BY <2>1, <3>2
  <2>4. QED BY <1>1, <2>2, <2>3
\* A course; the sessions it books are of one class, which was counted.
<1>7. ASSUME NEW r \in Request, Course(r) PROVE HeldClasses(x)' <= N
  <2> DEFINE y == req[r].member  s == req[r].session
  <2>1. PICK ss \in SUBSET req[r].slots :
          seat' = [seat EXCEPT ![y] = [q \in Session |-> IF q \in ss THEN "BOOKED" ELSE seat[y][q]]]
    BY <1>7 DEF Course
  <2>2. /\ WithinQuota(seat, y, s) /\ UNCHANGED session
        /\ \A q \in ss : ClassOf[q] = ClassOf[s]
    BY <1>0, <1>7, <2>1 DEF Course, Known, Holding
  <2> HIDE DEF y, s
  <2>3. CASE x = y
    <3>1. ClassesHeld(seat', x) \subseteq ClassesHeld(seat, x) \cup {ClassOf[s]}
      BY <1>0, <2>1, <2>2, <2>3 DEF ClassesHeld, SeatTyped
    <3>2. QED BY <1>0, <1>1, <2>2, <2>3, <3>1, OneMoreHeld
  <2>4. CASE x # y
    <3>1. ClassesHeld(seat', x) \subseteq ClassesHeld(seat, x)
      BY <1>0, <2>1, <2>4 DEF ClassesHeld, SeatTyped
    <3>2. QED BY <1>0, <1>1, <2>2, <3>1, FewerHeld
  <2>5. QED BY <2>3, <2>4
\* The other steps give the member no seat.
<1>8. ASSUME \A s \in Session : seat'[x][s] = "BOOKED" => seat[x][s] = "BOOKED"
      PROVE  HeldClasses(x)' <= N
  <2>1. \A s \in Session : session'[s] = "AHEAD" => session[s] = "AHEAD" BY SessionMoves
  <2>2. ClassesHeld(seat, x)' \subseteq ClassesHeld(seat, x) BY <1>8, <2>1 DEF ClassesHeld, Open
  <2>3. QED BY <1>0, <2>2, FewerHeld DEF HeldClasses
<1>9. ASSUME NEW r \in Request, Transfer(r) PROVE HeldClasses(x)' <= N
  <2>1. /\ seat' = Seated(Vacated(req[r].member, req[r].from), {req[r].member}, req[r].session)
        /\ req[r].session \in Session /\ req[r].member # x
    BY <1>0, <1>9 DEF Transfer, Holding, Known, Moves
  <2>2. seat'[x] = seat[x] BY <1>0, <2>1 DEF Seated, Vacated, SeatTyped
  <2>3. QED BY <1>8, <2>2
<1>10. ASSUME NEW r \in Request, Restore(r) PROVE HeldClasses(x)' <= N
  <2>1. PICK ss \in SUBSET req[r].slots :
          seat' = [seat EXCEPT ![req[r].member] =
                    [q \in Session |-> IF q \in ss THEN "BOOKED" ELSE seat[req[r].member][q]]]
    BY <1>10 DEF Restore
  <2>2. req[r].member = x => \A s \in Session : s \notin ss BY <1>10, <2>1 DEF Restores
  <2>3. QED BY <1>0, <1>8, <2>1, <2>2 DEF SeatTyped
<1>11. ASSUME NEW m \in Member, NEW c \in Class, ApplyPenalty(m, c) PROVE HeldClasses(x)' <= N
  <2>1. PICK ss : seat' = [seat EXCEPT ![m] =
                    [q \in Session |-> IF q \in ss THEN "CANCELLED" ELSE seat[m][q]]]
    BY <1>11 DEF ApplyPenalty
  <2>2. QED BY <1>0, <1>8, <2>1 DEF SeatTyped
<1>12. ASSUME NEW s \in Session, CancelSession(s) \/ CompleteSession(s) PROVE HeldClasses(x)' <= N
  <2>1. PICK status \in {"CANCELLED", "COMPLETED"} : seat' = BookedTo(s, status)
    BY <1>12 DEF CancelSession, CompleteSession
  <2>2. QED BY <1>0, <1>8, <2>1 DEF BookedTo, SeatTyped
<1>13. UNCHANGED seat => HeldClasses(x)' <= N BY <1>8
<1>14. \A r \in Request : Join(r) \/ Revoke(r) => UNCHANGED seat BY DEF Join, Revoke, seats
<1>15. \A m \in Member : /\ Subscribe(m) \/ Lapse(m) => UNCHANGED seat
                         /\ \A c \in Class : PenaltyEnds(m, c) => UNCHANGED seat
                         /\ \A s \in Session : LeaveQueue(m, s) => UNCHANGED seat
  BY DEF Subscribe, Lapse, PenaltyEnds, LeaveQueue, seats
<1>16. \A s \in Session : Pass(s) => UNCHANGED seat BY DEF Pass, seats
<1>17. UNCHANGED <<seats, session, rights>> => UNCHANGED seat BY DEF seats
<1>18. QED
  BY <1>3, <1>4, <1>5, <1>6, <1>7, <1>9, <1>10, <1>11, <1>12, <1>13, <1>14, <1>15, <1>16, <1>17,
     NextCases

\* Beyond the quota only a move or a restoration of the member's own seat brings it,
\* whatever bookings, courses and promotions run beside each other.
THEOREM QuotaOnlyByMoves == Spec => OnlyMovesPassQuota
<1>1. BookInv /\ [Next]_vars =>
        [\A m \in Member :
           HeldClasses(m)' > Quota =>
             \/ HeldClasses(m)' <= HeldClasses(m)
             \/ \E r \in Request, s \in Session : Moves(r, m, s) \/ Restores(r, m, s)]_vars
  <2> SUFFICES ASSUME BookInv, [Next]_vars, NEW m \in Member, HeldClasses(m)' > Quota,
                      ~\E r \in Request, s \in Session : Moves(r, m, s) \/ Restores(r, m, s)
               PROVE  HeldClasses(m)' <= HeldClasses(m)
    OBVIOUS
  <2>1. HeldClasses(m) \in Nat /\ HeldClasses(m)' \in Nat
    BY HeldCount, HeldCountNext
  <2>2. CASE HeldClasses(m) >= Quota
    BY <2>1, <2>2, HeldWithin DEF Bound
  <2>3. CASE HeldClasses(m) < Quota
    <3>1. Quota \in Bound /\ HeldClasses(m) <= Quota BY <2>1, <2>3, BookingConstants DEF Bound
    <3>2. HeldClasses(m)' <= Quota BY <3>1, HeldWithin
    <3>3. QED BY <2>1, <3>2, BookingConstants
  <2>4. QED BY <2>1, <2>2, <2>3, BookingConstants
<1>2. QED BY BookInit, BookNext, <1>1, PTL DEF Spec, OnlyMovesPassQuota

\* Without moves and restorations, then, a member never holds future seats in more classes
\* than the plan allows.
THEOREM QuotaIsKept ==
  ASSUME Kinds \cap {"transfer", "restore"} = {}
  PROVE  Spec => []QuotaKept
<1>1. Init => QuotaKept
  <2> SUFFICES ASSUME Init, NEW m \in Member PROVE Cardinality(ClassesHeld(seat, m)) <= Quota
    BY DEF QuotaKept
  <2>1. ClassesHeld(seat, m) = {} BY DEF Init, ClassesHeld
  <2>2. QED BY <2>1, FS_EmptySet, BookingConstants
<1>2. BookInv /\ QuotaKept /\ [Next]_vars => QuotaKept'
  <2> SUFFICES ASSUME BookInv, QuotaKept, [Next]_vars, NEW m \in Member
               PROVE  HeldClasses(m)' <= Quota
    BY DEF QuotaKept, HeldClasses
  <2>1. ~\E r \in Request, s \in Session : Moves(r, m, s) \/ Restores(r, m, s)
    BY DEF BookInv, Known, Moves, Restores, Transfer, Restore, Holding
  <2>2. Quota \in Bound /\ HeldClasses(m) <= Quota
    BY BookingConstants DEF Bound, QuotaKept, HeldClasses
  <2>3. QED BY <2>1, <2>2, HeldWithin
<1>3. QED BY BookInit, BookNext, <1>1, <1>2, PTL DEF Spec

================================================================================
