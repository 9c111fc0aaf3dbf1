------------------------ MODULE NotificationOutboxProofs ------------------------
(***************************************************************************)
(* Proofs about NotificationOutbox, for any number of rows, flushes and    *)
(* crashes.  The invariant Owned says who may write a row: a flush past    *)
(* its claim, and then the row is SENDING; Counted says what its send and  *)
(* attempt counts are at each stage of that flush.                         *)
(***************************************************************************)
EXTENDS NotificationOutbox, FiniteSetTheorems, TLAPS

Busy == {"claimed", "checked", "sent", "failed"}

\* A flush past its claim has a row, which is SENDING.
Owned == \A w \in Worker : stage[w] \in Busy => current[w] \in Row /\ status[current[w]] = "SENDING"

\* No other flush has it.
Alone == \A v, w \in Worker : stage[v] \in Busy /\ stage[w] \in Busy /\ current[v] = current[w] => v = w

\* Sends that were not marked: one more than those that threw only while the owner is
\* about to mark it, or after it stopped there.
Counted ==
  /\ \A r \in Row : status[r] \in {"NONE", "PENDING", "FAILED"} => sends[r] = unacked[r]
  /\ \A r \in Row : status[r] = "SENT" => sends[r] = unacked[r] + 1
  /\ \A r \in Row : sends[r] <= unacked[r] + 1
  /\ \A w \in Worker : stage[w] \in Busy =>
       sends[current[w]] = unacked[current[w]] + (IF stage[w] = "sent" THEN 1 ELSE 0)

\* No count that a flush reads or writes runs ahead of the tries.
Tried ==
  /\ \A r \in Row : attempts[r] <= tries[r]
  /\ \A w \in Worker, r \in Row : read[w][r] <= tries[r]
  /\ \A w \in Worker : stage[w] \in Busy => read[w][current[w]] < tries[current[w]]
  /\ GivesUpLate

Inv == TypeOK /\ Owned /\ Alone /\ Counted /\ Tried

USE OutboxConstants DEF Busy

LEMMA InitInv == Init => Inv
  BY DEF Init, Inv, TypeOK, Owned, Alone, Counted, Tried, GivesUpLate, Row, NoRow, OutboxStatus,
         Stage, Nowhere

\* Every step keeps the types.
LEMMA TypeStep == TypeOK /\ Owned /\ [Next]_vars => TypeOK'
<1> SUFFICES ASSUME TypeOK, Owned, [Next]_vars PROVE TypeOK'
  OBVIOUS
<1> USE DEF TypeOK, OutboxStatus, Stage
<1>1. ASSUME NEW r \in Row, Enqueue(r) \/ BackoffEnds(r) \/ UserDeleted(r) PROVE TypeOK'
  BY <1>1 DEF Enqueue, BackoffEnds, UserDeleted, flush, history
<1>2. ASSUME NEW w \in Worker, Read(w) PROVE TypeOK'
  BY <1>2 DEF Read, Oldest, Pending, history
<1>3. ASSUME NEW w \in Worker, NEW r \in Row, Claim(w, r) PROVE TypeOK'
  <2>1. batch' \in [Worker -> SUBSET Row]
    BY <1>3 DEF Claim
  <2>2. CASE Claimable(r)
    <3>1. status' \in [Row -> OutboxStatus]
      BY <1>3, <2>2 DEF Claim
    <3>2. tries' \in [Row -> Nat]
      <4>1. tries' = [tries EXCEPT ![r] = tries[r] + 1] /\ tries[r] + 1 \in Nat
        BY <1>3, <2>2 DEF Claim
      <4> QED BY <4>1
    <3>3. stage' \in [Worker -> Stage]
      BY <1>3, <2>2 DEF Claim
    <3>4. current' \in [Worker -> Row \cup {NoRow}]
      BY <1>3, <2>2 DEF Claim
    <3> QED BY <1>3, <2>1, <3>1, <3>2, <3>3, <3>4 DEF Claim
  <2>3. CASE ~Claimable(r)
    BY <1>3, <2>1, <2>3 DEF Claim
  <2> QED BY <2>2, <2>3
<1>4. ASSUME NEW w \in Worker, Finish(w) PROVE TypeOK'
  <2>1. read' \in [Worker -> [Row -> Nat]]
    BY <1>4 DEF Finish, Nowhere
  <2> QED BY <1>4, <2>1 DEF Finish, history
<1>5. ASSUME NEW w \in Worker, Stop(w) PROVE TypeOK'
  <2>1. stage' \in [Worker -> Stage] /\ batch' \in [Worker -> SUBSET Row] /\ stopped' \in Nat
    BY <1>5 DEF Stop
  <2>2. current' \in [Worker -> Row \cup {NoRow}] /\ read' \in [Worker -> [Row -> Nat]]
    BY <1>5 DEF Stop, Nowhere
  <2> QED BY <1>5, <2>1, <2>2 DEF Stop, history
<1>6. ASSUME NEW w \in Worker, CheckUser(w) PROVE TypeOK'
  BY <1>6 DEF CheckUser, Continue, GoTo, Owned, history
<1>7. ASSUME NEW w \in Worker, Send(w) PROVE TypeOK'
  BY <1>7 DEF Send, GoTo, Owned
<1>8. ASSUME NEW w \in Worker, MarkSent(w) PROVE TypeOK'
  BY <1>8 DEF MarkSent, Continue, Owned, history
<1>9. ASSUME NEW w \in Worker, Throw(w) PROVE TypeOK'
  BY <1>9 DEF Throw, GoTo, Owned
<1>10. ASSUME NEW w \in Worker, Catch(w) PROVE TypeOK'
  <2>1. PICK r \in Row : current[w] = r
    BY <1>10 DEF Catch, Owned
  <2>2. Attempted(w) \in Nat /\ HandBack(w) \in {"FAILED", "PENDING"}
    BY <2>1 DEF Attempted, HandBack
  <2>3. status' \in [Row -> OutboxStatus] /\ attempts' \in [Row -> Nat] /\ due' \subseteq Row
    BY <1>10, <2>1, <2>2 DEF Catch
  <2>4. stage' \in [Worker -> Stage] /\ current' \in [Worker -> Row \cup {NoRow}]
    BY <1>10 DEF Catch, Continue
  <2> QED BY <1>10, <2>3, <2>4 DEF Catch, Continue, history
<1>11. CASE UNCHANGED vars
  BY <1>11 DEF vars, flush, history
<1> QED
  BY <1>1, <1>2, <1>3, <1>4, <1>5, <1>6, <1>7, <1>8, <1>9, <1>10, <1>11 DEF Next, Flush

\* Every step keeps the ownership of rows and the counts.
LEMMA OwnerStep == Inv /\ [Next]_vars => Owned' /\ Alone' /\ Counted' /\ Tried'
<1> SUFFICES ASSUME Inv, [Next]_vars PROVE Owned' /\ Alone' /\ Counted' /\ Tried'
  OBVIOUS
<1> USE DEF Inv
<1>1. ASSUME NEW r \in Row, Enqueue(r) \/ BackoffEnds(r) \/ UserDeleted(r)
      PROVE Owned' /\ Alone' /\ Counted' /\ Tried'
  BY <1>1 DEF Enqueue, BackoffEnds, UserDeleted, TypeOK, Owned, Alone, Counted, Tried, GivesUpLate,
              flush, history
<1>2. ASSUME NEW w \in Worker, Read(w) PROVE Owned' /\ Alone' /\ Counted' /\ Tried'
  BY <1>2 DEF Read, TypeOK, Owned, Alone, Counted, Tried, GivesUpLate, history
<1>3. ASSUME NEW w \in Worker, NEW r \in Row, Claim(w, r) PROVE Owned' /\ Alone' /\ Counted' /\ Tried'
  <2>1. CASE Claimable(r)
    <3>0. \A v \in Worker : stage[v] \in Busy => current[v] # r
      BY <2>1 DEF Claimable, Owned
    <3>1. Owned' /\ Alone'
      <4>1. /\ stage'[w] = "claimed" /\ current'[w] = r /\ status'[r] = "SENDING"
            /\ \A v \in Worker : v # w => stage'[v] = stage[v] /\ current'[v] = current[v]
            /\ \A q \in Row : q # r => status'[q] = status[q]
        BY <1>3, <2>1 DEF Claim, TypeOK
      <4> QED BY <3>0, <4>1 DEF Owned, Alone
    <3>2. Counted'
      <4>1. UNCHANGED <<sends, unacked>> /\ status[r] = "PENDING"
        BY <1>3, <2>1 DEF Claim, Claimable
      <4>2. /\ stage'[w] = "claimed" /\ current'[w] = r /\ status'[r] = "SENDING"
            /\ \A v \in Worker : v # w => stage'[v] = stage[v] /\ current'[v] = current[v]
            /\ \A q \in Row : q # r => status'[q] = status[q]
        BY <1>3, <2>1 DEF Claim, TypeOK
      <4>3. sends[r] = unacked[r] /\ sends[r] \in Nat /\ unacked[r] \in Nat
        BY <4>1 DEF Counted, TypeOK
      <4> QED BY <4>1, <4>2, <4>3 DEF Counted
    <3>3. Tried'
      <4>1. /\ UNCHANGED <<attempts, gone, read>>
            /\ stage' = [stage EXCEPT ![w] = "claimed"] /\ current' = [current EXCEPT ![w] = r]
            /\ status' = [status EXCEPT ![r] = "SENDING"]
            /\ tries' = [tries EXCEPT ![r] = tries[r] + 1]
        BY <1>3, <2>1 DEF Claim
      <4>2. \A q \in Row : /\ tries[q] \in Nat /\ tries'[q] \in Nat /\ tries[q] <= tries'[q]
                           /\ attempts[q] \in Nat
        BY <4>1 DEF TypeOK
      <4>3. \A v \in Worker, q \in Row : read[v][q] \in Nat
        BY DEF TypeOK
      <4>4. tries'[r] = tries[r] + 1 /\ read[w][r] <= tries[r]
        BY <4>1 DEF TypeOK, Tried
      <4>5. /\ stage'[w] = "claimed" /\ current'[w] = r
            /\ \A v \in Worker : v # w => stage'[v] = stage[v] /\ current'[v] = current[v]
        BY <4>1 DEF TypeOK
      <4>6. (\A q \in Row : attempts'[q] <= tries'[q])
            /\ (\A v \in Worker, q \in Row : read'[v][q] <= tries'[q])
        BY <4>1, <4>2, <4>3 DEF Tried
      <4>7. \A v \in Worker : stage'[v] \in Busy => read'[v][current'[v]] < tries'[current'[v]]
        <5> SUFFICES ASSUME NEW v \in Worker, stage'[v] \in Busy
                     PROVE read[v][current'[v]] < tries'[current'[v]]
          BY <4>1
        <5>1. CASE v = w
          BY <5>1, <4>2, <4>3, <4>4, <4>5
        <5>2. CASE v # w
          <6>1. current[v] \in Row /\ read[v][current[v]] < tries[current[v]]
            BY <5>2, <4>5 DEF Owned, Tried
          <6> QED BY <5>2, <6>1, <4>2, <4>3, <4>5
        <5> QED BY <5>1, <5>2
      <4>8. GivesUpLate'
        <5> SUFFICES ASSUME NEW q \in Row, status'[q] = "FAILED"
                     PROVE q \in gone \/ tries'[q] >= MaxAttempts
          BY <4>1 DEF GivesUpLate
        <5>1. status[q] = "FAILED"
          BY <4>1 DEF TypeOK
        <5> QED BY <5>1, <4>2 DEF Tried, GivesUpLate
      <4> QED BY <4>6, <4>7, <4>8 DEF Tried
    <3> QED BY <3>1, <3>2, <3>3
  <2>2. CASE ~Claimable(r)
    BY <1>3, <2>2 DEF Claim, TypeOK, Owned, Alone, Counted, Tried, GivesUpLate
  <2> QED BY <2>1, <2>2
<1>4. ASSUME NEW w \in Worker, Finish(w) \/ Stop(w) PROVE Owned' /\ Alone' /\ Counted' /\ Tried'
  <2>1. /\ UNCHANGED <<status, attempts, gone, history>>
        /\ \A v \in Worker : stage'[v] \in Busy => stage'[v] = stage[v] /\ current'[v] = current[v]
    BY <1>4 DEF Finish, Stop, TypeOK
  <2>5. /\ \A v \in Worker, r \in Row : read'[v][r] \in {0, read[v][r]}
        /\ \A v \in Worker : stage'[v] \in Busy => read'[v] = read[v]
    BY <1>4 DEF Finish, Stop, TypeOK, Nowhere
  <2>2. Owned' /\ Alone'
    BY <2>1 DEF Owned, Alone
  <2>3. Counted'
    BY <2>1 DEF Counted, history
  <2>4. Tried'
    <3>1. GivesUpLate' /\ \A r \in Row : attempts'[r] <= tries'[r]
      BY <2>1 DEF Tried, GivesUpLate, history
    <3>2. \A v \in Worker, r \in Row : read'[v][r] <= tries'[r]
      <4> SUFFICES ASSUME NEW v \in Worker, NEW r \in Row PROVE read'[v][r] <= tries'[r]
        OBVIOUS
      <4>1. tries'[r] = tries[r] /\ tries[r] \in Nat
        BY <2>1 DEF TypeOK, history
      <4>2. read'[v][r] \in {0, read[v][r]} /\ read[v][r] <= tries[r]
        BY <2>5 DEF Tried
      <4> QED BY <4>1, <4>2
    <3>3. \A v \in Worker : stage'[v] \in Busy => read'[v][current'[v]] < tries'[current'[v]]
      BY <2>1, <2>5 DEF Tried, history
    <3> QED BY <3>1, <3>2, <3>3 DEF Tried
  <2> QED BY <2>2, <2>3, <2>4
<1>5. ASSUME NEW w \in Worker, CheckUser(w) PROVE Owned' /\ Alone' /\ Counted' /\ Tried'
  <2>1. Owned' /\ Alone'
    <3>1. \A v \in Worker : v # w => stage'[v] = stage[v] /\ current'[v] = current[v]
      BY <1>5 DEF CheckUser, Continue, GoTo, TypeOK
    <3>2. stage'[w] \in Busy => current'[w] = current[w] /\ UNCHANGED status
      BY <1>5 DEF CheckUser, Continue, GoTo, TypeOK
    <3>3. stage[w] \in Busy /\ \A q \in Row : q # current[w] => status'[q] = status[q]
      BY <1>5 DEF CheckUser, TypeOK
    <3> QED BY <3>1, <3>2, <3>3 DEF Owned, Alone
  <2>2. Counted'
    BY <1>5 DEF CheckUser, Continue, GoTo, TypeOK, Owned, Alone, Counted, history
  <2>3. Tried'
    BY <1>5 DEF CheckUser, Continue, GoTo, TypeOK, Owned, Tried, GivesUpLate, history
  <2> QED BY <2>1, <2>2, <2>3
<1>6. ASSUME NEW w \in Worker, Send(w) PROVE Owned' /\ Alone' /\ Counted' /\ Tried'
  BY <1>6 DEF Send, GoTo, TypeOK, Owned, Alone, Counted, Tried, GivesUpLate
<1>7. ASSUME NEW w \in Worker, MarkSent(w) PROVE Owned' /\ Alone' /\ Counted' /\ Tried'
  BY <1>7 DEF MarkSent, Continue, TypeOK, Owned, Alone, Counted, Tried, GivesUpLate, history
<1>8. ASSUME NEW w \in Worker, Throw(w) PROVE Owned' /\ Alone' /\ Counted' /\ Tried'
  BY <1>8 DEF Throw, GoTo, TypeOK, Owned, Alone, Counted, Tried, GivesUpLate
<1>9. ASSUME NEW w \in Worker, Catch(w) PROVE Owned' /\ Alone' /\ Counted' /\ Tried'
  <2>1. Owned' /\ Alone'
    BY <1>9 DEF Catch, Continue, TypeOK, Owned, Alone
  <2>2. Counted'
    BY <1>9 DEF Catch, HandBack, Continue, TypeOK, Owned, Alone, Counted, history
  <2>3. Tried'
    BY <1>9 DEF Catch, HandBack, GivesUp, Attempted, Continue, TypeOK, Owned, Tried, GivesUpLate,
                history
  <2> QED BY <2>1, <2>2, <2>3
<1>10. CASE UNCHANGED vars
  BY <1>10 DEF vars, flush, history, Owned, Alone, Counted, Tried, GivesUpLate
<1> QED
  BY <1>1, <1>2, <1>3, <1>4, <1>5, <1>6, <1>7, <1>8, <1>9, <1>10 DEF Next, Flush

LEMMA Invariance == Spec => []Inv
<1>1. Inv /\ [Next]_vars => Inv'
  BY TypeStep, OwnerStep DEF Inv
<1> QED
  BY InitInv, <1>1, PTL DEF Spec

\* Every reachable state is well typed, for any number of rows and flushes.
THEOREM OutboxTyped == Spec => []TypeOK
<1>1. Inv => TypeOK
  BY DEF Inv
<1> QED
  BY Invariance, <1>1, PTL

\* Two flushes never work on one row, whatever batches they have read.
THEOREM OneSenderAlways == Spec => []OneSender
<1>1. Inv => OneSender
  BY DEF Inv, Alone, OneSender, Holds
<1> QED
  BY Invariance, <1>1, PTL

\* A notification is repeated only for a send whose bookkeeping threw.
THEOREM SendsAccountedAlways == Spec => []SendsAccounted
<1>1. Inv => SendsAccounted
  BY DEF Inv, Counted, SendsAccounted
<1> QED
  BY Invariance, <1>1, PTL

\* A row is given up only after MaxAttempts tries or when its user is gone.
THEOREM GivesUpLateAlways == Spec => []GivesUpLate
<1>1. Inv => GivesUpLate
  BY DEF Inv, Tried
<1> QED
  BY Invariance, <1>1, PTL

\* A SENT or FAILED row stays so: only a flush that owns a SENDING row writes it.
THEOREM HandledStays == Spec => HandledIsFinal
<1>1. Inv /\ [Next]_vars =>
        [\A r \in Row : status[r] \in {"SENT", "FAILED"} => status'[r] = status[r]]_vars
  <2> SUFFICES ASSUME Inv, Next, NEW r \in Row, status[r] \in {"SENT", "FAILED"}
               PROVE status'[r] = status[r]
    OBVIOUS
  <2> USE DEF Inv, TypeOK
  <2>1. ASSUME NEW q \in Row, Enqueue(q) \/ BackoffEnds(q) \/ UserDeleted(q) PROVE status'[r] = status[r]
    BY <2>1 DEF Enqueue, BackoffEnds, UserDeleted
  <2>2. ASSUME NEW w \in Worker, NEW q \in Row, Claim(w, q) PROVE status'[r] = status[r]
    BY <2>2 DEF Claim, Claimable
  <2>3. ASSUME NEW w \in Worker, Read(w) \/ Finish(w) \/ Send(w) \/ Throw(w) \/ Stop(w)
        PROVE status'[r] = status[r]
    BY <2>3 DEF Read, Finish, Send, Throw, Stop
  <2>4. ASSUME NEW w \in Worker, CheckUser(w) \/ MarkSent(w) \/ Catch(w) PROVE status'[r] = status[r]
    BY <2>4 DEF CheckUser, MarkSent, Catch, Owned
  <2> QED
    BY <2>1, <2>2, <2>3, <2>4 DEF Next, Flush
<1> QED
  BY Invariance, <1>1, PTL DEF Spec, HandledIsFinal

--------------------------------------------------------------------------------
(* Flushes that stop half-way.                                                *)

\* A row that is not SENDING after a step, or that a flush has then, is not stranded.
LEMMA StrandedBy ==
  ASSUME Inv, Next, NEW r \in Row, Stranded(r)', ~Stranded(r)
  PROVE  \E w \in Worker : Stop(w) /\ Holds(w, r)
<1> USE DEF Inv, TypeOK
<1>1. status'[r] = "SENDING" /\ \A v \in Worker : ~Holds(v, r)'
  BY DEF Stranded
<1>2. ASSUME NEW w \in Worker, NEW q \in Row, Claim(w, q), status[r] # "SENDING" PROVE FALSE
  <2>1. Claimable(q) /\ q = r
    BY <1>1, <1>2 DEF Claim
  <2>2. Holds(w, r)'
    BY <1>2, <2>1 DEF Claim, Holds
  <2> QED BY <1>1, <2>2
<1>3. ASSUME status[r] # "SENDING" PROVE FALSE
  BY <1>1, <1>2, <1>3
  DEF Next, Flush, Enqueue, BackoffEnds, UserDeleted, Read, Finish, CheckUser, Send, MarkSent,
      Throw, Catch, HandBack, Stop
<1>4. PICK v \in Worker : Holds(v, r)
  BY <1>3 DEF Stranded
<1>5. stage[v] \in Busy /\ current[v] = r /\ (stage'[v] \notin Busy \/ current'[v] # r)
  BY <1>1, <1>4 DEF Holds
<1>6. ASSUME NEW w \in Worker, w # v, Flush(w) \/ Stop(w) PROVE FALSE
  BY <1>5, <1>6
  DEF Flush, Read, Claim, Finish, CheckUser, Send, MarkSent, Throw, Catch, Stop, Continue, GoTo
<1>7. ASSUME NEW q \in Row, Enqueue(q) \/ BackoffEnds(q) \/ UserDeleted(q) PROVE FALSE
  BY <1>5, <1>7 DEF Enqueue, BackoffEnds, UserDeleted, flush
<1>8. ASSUME Flush(v) PROVE FALSE
  <2>1. CASE Read(v) \/ Finish(v) \/ \E q \in Row : Claim(v, q)
    BY <1>5, <2>1 DEF Read, Finish, Claim
  <2>2. CASE Send(v) \/ Throw(v)
    BY <1>5, <2>2 DEF Send, Throw, GoTo
  <2>3. CASE CheckUser(v)
    BY <1>1, <1>5, <2>3 DEF CheckUser, GoTo
  <2>4. CASE MarkSent(v)
    BY <1>1, <1>5, <2>4 DEF MarkSent
  <2>5. CASE Catch(v)
    BY <1>1, <1>5, <2>5 DEF Catch, HandBack
  <2> QED BY <1>8, <2>1, <2>2, <2>3, <2>4, <2>5 DEF Flush
<1> QED
  BY <1>4, <1>6, <1>7, <1>8 DEF Next

\* A row is left SENDING by nothing but the end of the flush that is working on it.
THEOREM StrandedOnlyByStop == Spec => OnlyStopsStrand
<1>1. Inv /\ [Next]_vars =>
        [\A r \in Row : Stranded(r)' => Stranded(r) \/ \E w \in Worker : Stop(w) /\ Holds(w, r)]_vars
  BY StrandedBy
<1> QED
  BY Invariance, <1>1, PTL DEF Spec, OnlyStopsStrand

Left == {r \in Row : Stranded(r)}

\* Two flushes do not stop in one step.
LEMMA OneStop ==
  ASSUME TypeOK, NEW v \in Worker, NEW w \in Worker, Stop(v), Stop(w)
  PROVE  v = w
BY DEF TypeOK, Stop

\* Each flush that stops half-way costs one notification at most, for any number of
\* flushes, rows and crashes.
THEOREM OneLostPerStop == Spec => []StrandedByStops
<1>1. IsFiniteSet(Left) /\ IsFiniteSet(Left')
  <2>1. IsFiniteSet(Row)
    BY OutboxConstants, FS_Interval DEF Row
  <2>2. Left \subseteq Row /\ Left' \subseteq Row
    BY DEF Left
  <2> QED BY <2>1, <2>2, FS_Subset
<1>2. Init => StrandedByStops
  <2> SUFFICES ASSUME Init PROVE Cardinality(Left) <= stopped
    BY DEF StrandedByStops, Left
  <2>1. Left = {}
    BY DEF Init, Left, Stranded
  <2> QED BY <2>1, FS_EmptySet DEF Init
<1>3. Inv /\ StrandedByStops /\ [Next]_vars => StrandedByStops'
  <2> SUFFICES ASSUME Inv, Cardinality(Left) <= stopped, Next PROVE Cardinality(Left') <= stopped'
    <3>1. UNCHANGED vars /\ StrandedByStops => StrandedByStops'
      BY DEF vars, flush, StrandedByStops, Stranded, Holds
    <3> QED BY <3>1 DEF StrandedByStops, Left
  <2>1. Cardinality(Left) \in Nat /\ Cardinality(Left') \in Nat /\ stopped \in Nat
    BY <1>1, FS_CardinalityType DEF Inv, TypeOK
  <2>2. CASE \E w \in Worker : Stop(w)
    <3>1. PICK w \in Worker : Stop(w)
      BY <2>2
    <3>2. \A r \in Left' : r \in Left \/ r = current[w]
      BY <3>1, StrandedBy, OneStop DEF Left, Holds, Inv
    <3>3. Left' \subseteq Left \cup {current[w]}
      BY <3>2
    <3>4. Cardinality(Left') <= Cardinality(Left) + 1
      <4> DEFINE more == Left \cup {current[w]}
      <4>1. IsFiniteSet(more) /\ Cardinality(more) <= Cardinality(Left) + 1
        <5>1. Cardinality(more) = Cardinality(Left) \/ Cardinality(more) = Cardinality(Left) + 1
          BY <1>1, FS_AddElement
        <5>2. IsFiniteSet(more)
          BY <1>1, FS_AddElement
        <5> QED BY <2>1, <5>1, <5>2
      <4>2. Cardinality(Left') <= Cardinality(more)
        BY <3>3, <4>1, FS_Subset
      <4>3. Cardinality(more) \in Nat
        BY <4>1, FS_CardinalityType
      <4> QED BY <2>1, <4>1, <4>2, <4>3
    <3>5. stopped' = stopped + 1
      BY <3>1 DEF Stop
    <3> QED BY <2>1, <3>4, <3>5
  <2>3. CASE ~\E w \in Worker : Stop(w)
    <3>1. Left' \subseteq Left
      BY <2>3, StrandedBy DEF Left
    <3>2. Cardinality(Left') <= Cardinality(Left)
      BY <1>1, <3>1, FS_Subset
    <3>3. stopped' = stopped
      BY <2>3
      DEF Next, Flush, Enqueue, BackoffEnds, UserDeleted, Read, Claim, Finish, CheckUser, Send,
          MarkSent, Throw, Catch
    <3> QED BY <2>1, <3>2, <3>3
  <2> QED BY <2>2, <2>3
<1> QED
  BY Invariance, <1>2, <1>3, PTL DEF Spec

--------------------------------------------------------------------------------
(* One flush at a time.                                                       *)

\* What a single flush knows of the rows is never stale: the attempts it has read are
\* those of the row, and the column has counted every claim but the one in progress.
Paced ==
  /\ \A r \in Row :
       /\ status[r] = "NONE" => attempts[r] = 0 /\ tries[r] = 0
       /\ status[r] = "PENDING" => tries[r] = attempts[r] /\ attempts[r] < MaxAttempts
       /\ tries[r] <= MaxAttempts
  /\ \A w \in Worker :
       /\ stage[w] = "idle" => batch[w] = {}
       /\ \A r \in batch[w] : read[w][r] = attempts[r]
       /\ stage[w] \in Busy =>
            /\ current[w] \notin batch[w]
            /\ read[w][current[w]] = attempts[current[w]]
            /\ tries[current[w]] = attempts[current[w]] + 1

LEMMA PacedInit == Init => Paced
BY OutboxConstants DEF Init, Nowhere, Paced, Busy

LEMMA PacedStep ==
  ASSUME \A v, w \in Worker : v = w, Inv, Paced, [Next]_vars
  PROVE  Paced'
<1> USE OutboxConstants DEF Inv, TypeOK, Busy
<1>1. ASSUME NEW r \in Row, Enqueue(r) PROVE Paced'
  BY <1>1 DEF Enqueue, Paced, flush, history, Owned
<1>2. ASSUME NEW r \in Row, BackoffEnds(r) \/ UserDeleted(r) PROVE Paced'
  BY <1>2 DEF BackoffEnds, UserDeleted, Paced, flush, history
<1>3. ASSUME NEW w \in Worker, Read(w) PROVE Paced'
  BY <1>3 DEF Read, Paced, history, Oldest, Pending
<1>4. ASSUME NEW w \in Worker, NEW r \in Row, Claim(w, r) PROVE Paced'
  <2>1. CASE Claimable(r)
    BY <1>4, <2>1 DEF Claim, First, Claimable, Paced
  <2>2. CASE ~Claimable(r)
    BY <1>4, <2>2 DEF Claim, First, Paced
  <2> QED BY <2>1, <2>2
<1>5. ASSUME NEW w \in Worker, Finish(w) PROVE Paced'
  BY <1>5 DEF Finish, Paced, history
<1>6. ASSUME NEW w \in Worker, CheckUser(w) PROVE Paced'
  BY <1>6 DEF CheckUser, Continue, GoTo, Paced, history, Owned
<1>7. ASSUME NEW w \in Worker, Send(w) \/ Throw(w) PROVE Paced'
  BY <1>7 DEF Send, Throw, GoTo, Paced
<1>8. ASSUME NEW w \in Worker, MarkSent(w) PROVE Paced'
  BY <1>8 DEF MarkSent, Continue, Paced, history
<1>9. ASSUME NEW w \in Worker, Catch(w) PROVE Paced'
  BY <1>9 DEF Catch, Continue, HandBack, GivesUp, Attempted, Paced, history, Owned
<1>10. ASSUME NEW w \in Worker, Stop(w) PROVE Paced'
  BY <1>10 DEF Stop, Paced, history
<1>11. CASE UNCHANGED vars
  BY <1>11 DEF vars, flush, history, Paced
<1> QED
  BY <1>1, <1>2, <1>3, <1>4, <1>5, <1>6, <1>7, <1>8, <1>9, <1>10, <1>11 DEF Next, Flush

\* Where no two flushes overlap, no row is tried more often than OUTBOX_MAX_ATTEMPTS: the
\* stale count of an overlapping flush is the only way past the limit.
THEOREM OneFlushKeepsTheLimit ==
  ASSUME \A v, w \in Worker : v = w
  PROVE  Spec => []AttemptsBounded
<1>1. Inv /\ Paced /\ [Next]_vars => Paced'
  BY PacedStep
<1>2. Paced => AttemptsBounded
  BY DEF Paced, AttemptsBounded
<1> QED
  BY Invariance, PacedInit, <1>1, <1>2, PTL DEF Spec

================================================================================
