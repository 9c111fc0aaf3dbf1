-------------------------- MODULE SessionBookingProofs --------------------------
(* No session is overbooked: theorems about SessionBooking, for any number of *)
(* members, sessions and requests.                                             *)
EXTENDS SessionBooking, FiniteSetTheorems, TLAPS

\* The part of TypeOK the argument needs.
SeatTyped == seat \in [Member -> [Session -> EnrollmentStatus]]

\* NotOverbooked as a statement about any assignment of seats.
Fits(st, s) == Cardinality(Takers(st, s)) <= Capacity

--------------------------------------------------------------------------------
(* Counting.                                                               *)

\* The members in a session are finitely many, so assertCanBook can count them.
LEMMA TakersFinite ==
  ASSUME NEW st, NEW s
  PROVE  /\ IsFiniteSet(Takers(st, s))
         /\ Cardinality(Takers(st, s)) \in Nat
         /\ Takers(st, s) \subseteq Member
BY BookingConstants, FS_Subset, FS_CardinalityType DEF Takers

\* A session that loses members, and gains none, still fits.
LEMMA FewerFit ==
  ASSUME NEW st, NEW tt, NEW s, Takers(tt, s) \subseteq Takers(st, s), Fits(st, s)
  PROVE  Fits(tt, s)
<1>1. Cardinality(Takers(tt, s)) <= Cardinality(Takers(st, s))
  BY TakersFinite, FS_Subset
<1>2. QED BY <1>1, TakersFinite, BookingConstants DEF Fits

\* Members that were counted against the free seats fit.
LEMMA MoreFit ==
  ASSUME NEW st, NEW tt, NEW s, NEW ms, IsFiniteSet(ms),
         Cardinality(Takers(st, s)) + Cardinality(ms) <= Capacity,
         Takers(tt, s) \subseteq Takers(st, s) \cup ms
  PROVE  Fits(tt, s)
<1> DEFINE A == Takers(st, s)
<1>1. IsFiniteSet(A) /\ Cardinality(A) \in Nat
  BY TakersFinite
<1>2. Cardinality(ms) \in Nat
  BY FS_CardinalityType
<1>3. /\ IsFiniteSet(A \cup ms)
      /\ Cardinality(A \cup ms) = Cardinality(A) + Cardinality(ms) - Cardinality(A \cap ms)
  BY <1>1, FS_Union
<1>4. IsFiniteSet(A \cap ms)
  BY <1>1, FS_Subset
<1>5. Cardinality(A \cap ms) \in Nat
  BY <1>4, FS_CardinalityType
<1>6. Cardinality(Takers(tt, s)) <= Cardinality(A \cup ms)
  BY <1>3, FS_Subset
<1>7. Cardinality(Takers(tt, s)) \in Nat
  BY TakersFinite
<1> HIDE DEF A
<1>8. Cardinality(A) + Cardinality(ms) <= Capacity
  BY DEF A
<1>9. Cardinality(Takers(tt, s)) <= Capacity
  BY <1>1, <1>2, <1>3, <1>5, <1>6, <1>7, <1>8, BookingConstants
<1>10. QED BY <1>9 DEF Fits

\* One more member fits into a session that is not full.
LEMMA OneMoreFits ==
  ASSUME NEW st, NEW tt, NEW s, NEW m, ~Full(st, s),
         Takers(tt, s) \subseteq Takers(st, s) \cup {m}
  PROVE  Fits(tt, s)
<1>1. IsFiniteSet({m}) /\ Cardinality({m}) = 1
  BY FS_Singleton
<1>2. Cardinality(Takers(st, s)) + 1 <= Capacity
  BY TakersFinite, BookingConstants DEF Full
<1>3. QED BY <1>1, <1>2, MoreFit

\* Whom promoteNextEligible promotes fits, whatever the queue and the busy members.
LEMMA PromotedFit ==
  ASSUME NEW st, NEW tt, NEW s, NEW ms, NEW busy, NEW k,
         Promotable(ms, st, s, busy, k), Fits(st, s),
         Takers(tt, s) \subseteq Takers(st, s) \cup ms
  PROVE  Fits(tt, s)
<1>1. CASE ms = {}
  BY <1>1, FewerFit
<1>2. CASE ms # {}
  <2>1. ms \subseteq Member
    BY DEF Promotable, Candidates, Waiting
  <2>2. IsFiniteSet(ms)
    BY <2>1, BookingConstants, FS_Subset
  <2>3. Cardinality(Takers(st, s)) + Cardinality(ms) <= Capacity
    BY <1>2 DEF Promotable
  <2>4. QED BY <2>2, <2>3, MoreFit
<1>3. QED BY <1>1, <1>2

\* Seating ms in a session adds ms there and nobody anywhere else.
LEMMA SeatedTakers ==
  ASSUME NEW st \in [Member -> [Session -> EnrollmentStatus]], NEW ms, NEW s
  PROVE  /\ Seated(st, ms, s) \in [Member -> [Session -> EnrollmentStatus]]
         /\ Takers(Seated(st, ms, s), s) \subseteq Takers(st, s) \cup ms
         /\ \A q \in Session \ {s} : Takers(Seated(st, ms, s), q) = Takers(st, q)
BY DEF Seated, Takers, Takes, EnrollmentStatus

\* Seating members who fit keeps every session within its capacity.
LEMMA SeatedFits ==
  ASSUME NEW st \in [Member -> [Session -> EnrollmentStatus]],
         NEW ms, NEW s, NEW tt, tt = Seated(st, ms, s),
         \A q \in Session : Fits(st, q), Fits(tt, s)
  PROVE  \A q \in Session : Fits(tt, q)
<1> SUFFICES ASSUME NEW q \in Session, q # s PROVE Fits(tt, q)
  OBVIOUS
<1>1. Takers(tt, q) = Takers(st, q)
  BY SeatedTakers
<1>2. QED BY <1>1, FewerFit

\* Taking seats back seats nobody.
LEMMA VacatedTakers ==
  ASSUME SeatTyped, NEW m, NEW s
  PROVE  /\ Vacated(m, s) \in [Member -> [Session -> EnrollmentStatus]]
         /\ \A q \in Session : Takers(Vacated(m, s), q) \subseteq Takers(seat, q)
BY DEF SeatTyped, Vacated, Takers, Takes, EnrollmentStatus

LEMMA VacatedFits ==
  ASSUME SeatTyped, NotOverbooked, NEW m, NEW s
  PROVE  \A q \in Session : Fits(Vacated(m, s), q)
BY VacatedTakers, FewerFit DEF NotOverbooked, Fits

--------------------------------------------------------------------------------
(* Every step keeps every session within its capacity.                     *)

SeatsFit == SeatTyped /\ NotOverbooked

LEMMA UnchangedFits ==
  ASSUME SeatsFit, UNCHANGED seat
  PROVE  SeatsFit'
BY DEF SeatsFit, SeatTyped, NotOverbooked, Takers

\* The worker, the only step that promotes without a request.
LEMMA WorkerFits ==
  ASSUME SeatsFit, NEW s \in Session, Worker(s)
  PROVE  SeatsFit'
<1> USE DEF SeatsFit, SeatTyped
<1>1. PICK ms : /\ Promotable(ms, seat, s, Busy(NoRequest), Capacity)
                /\ seat' = Seated(seat, ms, s)
  BY DEF Worker
<1>2. Takers(seat', s) \subseteq Takers(seat, s) \cup ms
  BY <1>1, SeatedTakers
<1>3. \A q \in Session : Fits(seat, q)
  BY DEF NotOverbooked, Fits
<1>4. Fits(seat', s)
  BY <1>1, <1>2, <1>3, PromotedFit
<1>5. \A q \in Session : Fits(seat', q)
  BY <1>1, <1>3, <1>4, SeatedFits
<1>6. seat' \in [Member -> [Session -> EnrollmentStatus]]
  BY <1>1, SeatedTakers
<1>7. QED BY <1>5, <1>6 DEF NotOverbooked, Fits, Takers

\* A booking of one member on the seats st, which all fit.
LEMMA OneSeatFits ==
  ASSUME NEW st \in [Member -> [Session -> EnrollmentStatus]],
         \A q \in Session : Fits(st, q),
         NEW m, NEW s, ~Full(st, s), seat' = Seated(st, {m}, s)
  PROVE  SeatsFit'
<1>1. Takers(seat', s) \subseteq Takers(st, s) \cup {m}
  BY SeatedTakers
<1>2. Fits(seat', s)
  BY <1>1, OneMoreFits
<1>3. \A q \in Session : Fits(seat', q)
  BY <1>2, SeatedFits
<1>4. seat' \in [Member -> [Session -> EnrollmentStatus]]
  BY SeatedTakers
<1>5. QED BY <1>3, <1>4 DEF SeatsFit, SeatTyped, NotOverbooked, Fits, Takers

LEMMA BookFits ==
  ASSUME SeatsFit, NEW r \in Request, Book(r)
  PROVE  SeatsFit'
<1>1. seat \in [Member -> [Session -> EnrollmentStatus]] /\ \A q \in Session : Fits(seat, q)
  BY DEF SeatsFit, SeatTyped, NotOverbooked, Fits
<1>2. /\ ~Full(seat, req[r].session)
      /\ seat' = Seated(seat, {req[r].member}, req[r].session)
  BY DEF Book, CanBook
<1>3. QED BY <1>1, <1>2, OneSeatFits

LEMMA TransferFits ==
  ASSUME SeatsFit, NEW r \in Request, Transfer(r)
  PROVE  SeatsFit'
<1> DEFINE st == Vacated(req[r].member, req[r].from)
<1>1. SeatTyped /\ NotOverbooked
  BY DEF SeatsFit
<1>2. st \in [Member -> [Session -> EnrollmentStatus]]
  BY <1>1, VacatedTakers
<1>3. \A q \in Session : Fits(st, q)
  BY <1>1, VacatedFits
<1>4. /\ ~Full(st, req[r].session)
      /\ seat' = Seated(st, {req[r].member}, req[r].session)
  BY DEF Transfer
<1> HIDE DEF st
<1>5. QED BY <1>2, <1>3, <1>4, OneSeatFits

\* The cancelled seat is given to the first of the queue in the same transaction.
LEMMA CancelFits ==
  ASSUME SeatsFit, NEW r \in Request, Cancel(r)
  PROVE  SeatsFit'
<1> DEFINE s == req[r].session
           st == Vacated(req[r].member, s)
<1>1. SeatTyped /\ NotOverbooked
  BY DEF SeatsFit
<1>2. st \in [Member -> [Session -> EnrollmentStatus]]
  BY <1>1, VacatedTakers
<1>3. \A q \in Session : Fits(st, q)
  BY <1>1, VacatedFits
<1>4. PICK ms : /\ IF Open(s) THEN Promotable(ms, st, s, Busy(r), 1) ELSE ms = {}
                /\ seat' = Seated(st, ms, s)
  BY DEF Cancel
<1> HIDE DEF s, st
<1>5. Takers(seat', s) \subseteq Takers(st, s) \cup ms
  BY <1>2, <1>4, SeatedTakers
<1>6. seat' \in [Member -> [Session -> EnrollmentStatus]]
  BY <1>2, <1>4, SeatedTakers
<1>7. CASE s \in Session
  <2>1. Fits(seat', s)
    <3>1. CASE Open(s)
      BY <1>3, <1>4, <1>5, <1>7, <3>1, PromotedFit
    <3>2. CASE ~Open(s)
      BY <1>3, <1>4, <1>5, <1>7, <3>2, FewerFit
    <3>3. QED BY <3>1, <3>2
  <2>2. \A q \in Session : Fits(seat', q)
    BY <1>2, <1>3, <1>4, <2>1, SeatedFits
  <2>3. QED BY <1>6, <2>2 DEF SeatsFit, SeatTyped, NotOverbooked, Fits, Takers
<1>8. CASE s \notin Session
  <2>1. \A q \in Session : Takers(seat', q) = Takers(st, q)
    BY <1>2, <1>4, <1>8, SeatedTakers
  <2>2. \A q \in Session : Fits(seat', q)
    BY <1>3, <2>1 DEF Fits
  <2>3. QED BY <1>6, <2>2 DEF SeatsFit, SeatTyped, NotOverbooked, Fits, Takers
<1>9. QED BY <1>7, <1>8

\* A revocation gives back only seats that are free (restoreSlots).
LEMMA RestoreFits ==
  ASSUME SeatsFit, NEW r \in Request, Restore(r)
  PROVE  SeatsFit'
<1> DEFINE m == req[r].member
<1>1. seat \in [Member -> [Session -> EnrollmentStatus]] /\ \A q \in Session : Fits(seat, q)
  BY DEF SeatsFit, SeatTyped, NotOverbooked, Fits
<1>2. PICK ss : /\ RestoredSlots(m, req[r].slots, ss)
                /\ seat' = [seat EXCEPT ![m] =
                      [s \in Session |-> IF s \in ss THEN "BOOKED" ELSE seat[m][s]]]
  BY DEF Restore
<1> HIDE DEF m
<1>3. \A q \in ss : ~Full(seat, q)
  BY <1>2 DEF RestoredSlots, Restorable
<1>4. seat' \in [Member -> [Session -> EnrollmentStatus]]
  BY <1>1, <1>2 DEF EnrollmentStatus
<1>5. \A q \in Session : Fits(seat', q)
  <2> SUFFICES ASSUME NEW q \in Session PROVE Fits(seat', q)
    OBVIOUS
  <2>1. CASE q \in ss
    <3>1. Takers(seat', q) \subseteq Takers(seat, q) \cup {m}
      BY <1>1, <1>2 DEF Takers
    <3>2. QED BY <1>3, <2>1, <3>1, OneMoreFits
  <2>2. CASE q \notin ss
    <3>1. Takers(seat', q) \subseteq Takers(seat, q)
      BY <1>1, <1>2, <2>2 DEF Takers
    <3>2. QED BY <1>1, <3>1, FewerFit
  <2>3. QED BY <2>1, <2>2
<1>6. QED BY <1>4, <1>5 DEF SeatsFit, SeatTyped, NotOverbooked, Fits, Takers

\* A course is booked in sessions that have a seat left, each.
LEMMA CourseFits ==
  ASSUME SeatsFit, NEW r \in Request, Course(r)
  PROVE  SeatsFit'
<1> DEFINE m == req[r].member
<1>1. seat \in [Member -> [Session -> EnrollmentStatus]] /\ \A q \in Session : Fits(seat, q)
  BY DEF SeatsFit, SeatTyped, NotOverbooked, Fits
<1>2. PICK ss : /\ \A q \in ss : ~Full(seat, q)
                /\ seat' = [seat EXCEPT ![m] =
                      [s \in Session |-> IF s \in ss THEN "BOOKED" ELSE seat[m][s]]]
  BY DEF Course
<1> HIDE DEF m
<1>3. seat' \in [Member -> [Session -> EnrollmentStatus]]
  BY <1>1, <1>2 DEF EnrollmentStatus
<1>4. \A q \in Session : Fits(seat', q)
  <2> SUFFICES ASSUME NEW q \in Session PROVE Fits(seat', q)
    OBVIOUS
  <2>1. CASE q \in ss
    <3>1. Takers(seat', q) \subseteq Takers(seat, q) \cup {m}
      BY <1>1, <1>2 DEF Takers
    <3>2. QED BY <1>2, <2>1, <3>1, OneMoreFits
  <2>2. CASE q \notin ss
    <3>1. Takers(seat', q) \subseteq Takers(seat, q)
      BY <1>1, <1>2, <2>2 DEF Takers
    <3>2. QED BY <1>1, <3>1, FewerFit
  <2>3. QED BY <2>1, <2>2
<1>5. QED BY <1>3, <1>4 DEF SeatsFit, SeatTyped, NotOverbooked, Fits, Takers

\* revokeSubscriptionBookings: while it goes through the sessions of the member, the
\* ones it has not reached yet have lost the member and gained nobody.
LEMMA EndSubscriptionFits ==
  ASSUME SeatsFit, NEW m \in Member, NEW b, EndSubscription(m, b)
  PROVE  SeatsFit'
<1> DEFINE ss == PaidBy(m, b)
           out == Busy(NoRequest) \cup (IF sub[m] = b THEN {m} ELSE {})
<1>1. seat \in [Member -> [Session -> EnrollmentStatus]] /\ \A q \in Session : Fits(seat, q)
  BY DEF SeatsFit, SeatTyped, NotOverbooked, Fits
<1>2. PICK picks \in [ss -> SUBSET Member] :
        /\ \A s \in ss :
             IF Open(s)
             THEN Promotable(picks[s], Reseated(m, ss, picks, {q \in ss : q < s}), s, out, 1)
             ELSE picks[s] = {}
        /\ seat' = Reseated(m, ss, picks, ss)
  BY DEF EndSubscription
<1>3. ss \subseteq Session
  BY DEF PaidBy
<1> HIDE DEF ss, out
<1>4. seat' \in [Member -> [Session -> EnrollmentStatus]]
  BY <1>1, <1>2 DEF Reseated, EnrollmentStatus
<1>5. \A s \in Session : Fits(seat', s)
  <2> SUFFICES ASSUME NEW s \in Session PROVE Fits(seat', s)
    OBVIOUS
  <2>1. CASE s \notin ss
    <3>1. Takers(seat', s) \subseteq Takers(seat, s)
      BY <1>1, <1>2, <2>1 DEF Reseated, Takers
    <3>2. QED BY <1>1, <3>1, FewerFit
  <2>2. CASE s \in ss
    <3> DEFINE before == {q \in ss : q < s}
               st == Reseated(m, ss, picks, before)
    <3>1. s \notin before
      BY BookingConstants
    <3> HIDE DEF before
    <3>2. Takers(st, s) \subseteq Takers(seat, s)
      BY <1>1, <2>2, <3>1 DEF Reseated, Takers, Takes
    <3>3. Fits(st, s)
      BY <1>1, <3>2, FewerFit
    <3>4. Takers(seat', s) \subseteq Takers(st, s) \cup picks[s]
      BY <1>1, <1>2, <2>2, <3>1 DEF Reseated, Takers, Takes
    <3>5. CASE Open(s)
      <4>1. Promotable(picks[s], st, s, out, 1)
        BY <1>2, <2>2, <3>5 DEF before
      <4> HIDE DEF st
      <4>2. QED BY <3>3, <3>4, <4>1, PromotedFit
    <3>6. CASE ~Open(s)
      <4>1. picks[s] = {}
        BY <1>2, <2>2, <3>6
      <4> HIDE DEF st
      <4>2. QED BY <3>3, <3>4, <4>1, FewerFit
    <3>7. QED BY <3>5, <3>6
  <2>3. QED BY <2>1, <2>2
<1>6. QED BY <1>4, <1>5 DEF SeatsFit, SeatTyped, NotOverbooked, Fits, Takers

\* applyPenalty only takes seats back.
LEMMA ApplyPenaltyFits ==
  ASSUME SeatsFit, NEW m \in Member, NEW c, ApplyPenalty(m, c)
  PROVE  SeatsFit'
<1>1. seat \in [Member -> [Session -> EnrollmentStatus]] /\ \A q \in Session : Fits(seat, q)
  BY DEF SeatsFit, SeatTyped, NotOverbooked, Fits
<1>2. PICK ss : seat' = [seat EXCEPT ![m] =
                  [s \in Session |-> IF s \in ss THEN "CANCELLED" ELSE seat[m][s]]]
  BY DEF ApplyPenalty
<1>3. seat' \in [Member -> [Session -> EnrollmentStatus]]
  BY <1>1, <1>2 DEF EnrollmentStatus
<1>4. \A q \in Session : Takers(seat', q) \subseteq Takers(seat, q)
  BY <1>1, <1>2 DEF Takers, Takes
<1>5. \A q \in Session : Fits(seat', q)
  BY <1>1, <1>4, FewerFit
<1>6. QED BY <1>3, <1>5 DEF SeatsFit, SeatTyped, NotOverbooked, Fits, Takers

\* Cancelling a session empties it; completing it keeps its members.
LEMMA BookedToFits ==
  ASSUME SeatsFit, NEW s \in Session, NEW status \in {"CANCELLED", "COMPLETED"},
         seat' = BookedTo(s, status)
  PROVE  SeatsFit'
<1>1. seat \in [Member -> [Session -> EnrollmentStatus]] /\ \A q \in Session : Fits(seat, q)
  BY DEF SeatsFit, SeatTyped, NotOverbooked, Fits
<1>2. seat' \in [Member -> [Session -> EnrollmentStatus]]
  BY <1>1 DEF BookedTo, EnrollmentStatus
<1>3. \A q \in Session : Takers(seat', q) \subseteq Takers(seat, q)
  BY <1>1 DEF BookedTo, Takers, Takes
<1>4. \A q \in Session : Fits(seat', q)
  BY <1>1, <1>3, FewerFit
<1>5. QED BY <1>2, <1>4 DEF SeatsFit, SeatTyped, NotOverbooked, Fits, Takers

--------------------------------------------------------------------------------

LEMMA InitFits == Init => SeatsFit
<1> SUFFICES ASSUME Init PROVE SeatsFit
  OBVIOUS
<1>1. SeatTyped
  BY DEF Init, SeatTyped, EnrollmentStatus
<1>2. \A s \in Session : Takers(seat, s) = {}
  BY DEF Init, Takers, Takes
<1>3. NotOverbooked
  BY <1>2, FS_EmptySet, BookingConstants DEF NotOverbooked
<1>4. QED BY <1>1, <1>3 DEF SeatsFit

LEMMA NextFits == SeatsFit /\ [Next]_vars => SeatsFit'
<1> SUFFICES ASSUME SeatsFit, [Next]_vars PROVE SeatsFit'
  OBVIOUS
<1>1. ASSUME NEW r \in Request, Arrive(r) PROVE SeatsFit'
  <2>1. ASSUME NEW row, Start(r, row) PROVE UNCHANGED seat
    BY <2>1 DEF Start, seats
  <2>2. ASSUME NEW k, NEW m, NEW s, StartLocked(r, k, m, s) PROVE UNCHANGED seat
    BY <2>2 DEF StartLocked, seats
  <2>3. PICK m \in Member, s \in Session :
          \/ StartBook(r, m, s) \/ StartJoin(r, m, s) \/ StartCancel(r, m, s)
          \/ StartCourse(r, m, s) \/ StartRevoke(r, m, s)
          \/ \E f \in Session : StartTransfer(r, m, f, s)
    BY <1>1 DEF Arrive
  <2>4. CASE StartBook(r, m, s) \/ StartJoin(r, m, s) \/ StartCancel(r, m, s)
    BY <2>2, <2>4, UnchangedFits DEF StartBook, StartJoin, StartCancel
  <2>5. CASE StartRevoke(r, m, s) \/ \E f \in Session : StartTransfer(r, m, f, s)
    BY <2>1, <2>5, UnchangedFits DEF StartRevoke, StartTransfer
  <2>6. CASE StartCourse(r, m, s)
    BY <2>1, <2>6, UnchangedFits DEF StartCourse
  <2>7. QED BY <2>3, <2>4, <2>5, <2>6
<1>2. ASSUME NEW r \in Request, RequestStep(r) PROVE SeatsFit'
  <2>1. CASE Lock(r)
    BY <2>1, UnchangedFits DEF Lock, seats
  <2>2. CASE Book(r)
    BY <2>2, BookFits
  <2>3. CASE Join(r)
    BY <2>3, UnchangedFits DEF Join
  <2>4. CASE Cancel(r)
    BY <2>4, CancelFits
  <2>5. CASE Transfer(r)
    BY <2>5, TransferFits
  <2>6. CASE Revoke(r)
    BY <2>6, UnchangedFits DEF Revoke, seats
  <2>7. CASE RestoreRead(r)
    BY <2>7, UnchangedFits DEF RestoreRead, seats
  <2>8. CASE Restore(r)
    BY <2>8, RestoreFits
  <2>9. CASE Refuse(r)
    BY <2>9, UnchangedFits DEF Refuse, seats
  <2>10. CASE Course(r)
    BY <2>10, CourseFits
  <2>11. QED
    BY <1>2, <2>1, <2>2, <2>3, <2>4, <2>5, <2>6, <2>7, <2>8, <2>9, <2>10 DEF RequestStep
<1>3. ASSUME NEW m \in Member, MemberStep(m) PROVE SeatsFit'
  <2>1. CASE Subscribe(m) \/ Lapse(m)
    BY <2>1, UnchangedFits DEF Subscribe, Lapse, seats
  <2>2. ASSUME NEW b, EndSubscription(m, b) PROVE SeatsFit'
    BY <2>2, EndSubscriptionFits
  <2>3. ASSUME NEW c, ApplyPenalty(m, c) PROVE SeatsFit'
    BY <2>3, ApplyPenaltyFits
  <2>4. ASSUME NEW c, PenaltyEnds(m, c) PROVE SeatsFit'
    BY <2>4, UnchangedFits DEF PenaltyEnds, seats
  <2>5. ASSUME NEW s, LeaveQueue(m, s) PROVE SeatsFit'
    BY <2>5, UnchangedFits DEF LeaveQueue
  <2>6. QED BY <1>3, <2>1, <2>2, <2>3, <2>4, <2>5 DEF MemberStep
<1>4. ASSUME NEW s \in Session, SessionStep(s) PROVE SeatsFit'
  <2>1. CASE Worker(s)
    BY <2>1, WorkerFits
  <2>2. CASE CancelSession(s) \/ CompleteSession(s)
    BY <2>2, BookedToFits DEF CancelSession, CompleteSession
  <2>3. CASE Pass(s)
    BY <2>3, UnchangedFits DEF Pass, seats
  <2>4. QED BY <1>4, <2>1, <2>2, <2>3 DEF SessionStep
<1>5. CASE UNCHANGED vars
  BY <1>5, UnchangedFits DEF vars, seats
<1>6. QED BY <1>1, <1>2, <1>3, <1>4, <1>5 DEF Next

\* No session is ever overbooked, for any number of members, sessions, requests in
\* progress and subscriptions.
THEOREM NeverOverbooked == Spec => []NotOverbooked
<1>1. SeatsFit => NotOverbooked
  BY DEF SeatsFit
<1>2. QED BY InitFits, NextFits, <1>1, PTL DEF Spec

================================================================================
