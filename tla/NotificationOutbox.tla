--------------------------- MODULE NotificationOutbox ---------------------------
(***************************************************************************)
(* The transactional outbox of notifications.  A business transaction      *)
(* inserts a row; flushNotificationOutbox, started after every commit and  *)
(* by a timer of the server, reads a batch of due rows and sends them one  *)
(* by one.  Every await of the flush is a step, so two flushes interleave. *)
(*                                                                         *)
(* Rows are numbered in the order of createdAt.  sends, unacked and tries  *)
(* are history: Notification rows created for the row, sends whose         *)
(* bookkeeping failed, and claims.                                         *)
(***************************************************************************)
EXTENDS Naturals, FiniteSets

CONSTANTS
  Rows,         \* number of rows
  Worker,       \* flushes that may run at the same time
  Batch,        \* OUTBOX_BATCH_SIZE
  MaxAttempts,  \* OUTBOX_MAX_ATTEMPTS
  Stops         \* bound on flushes that stop half-way: a crash, or an error while
                \* the catch block itself writes

ASSUME OutboxConstants ==
  /\ Rows \in Nat /\ Batch \in Nat \ {0} /\ MaxAttempts \in Nat \ {0} /\ Stops \in Nat

Row == 1 .. Rows
NoRow == 0
OutboxStatus == {"NONE", "PENDING", "SENDING", "SENT", "FAILED"}
Stage == {"idle", "next", "claimed", "checked", "sent", "failed"}

VARIABLES
  status,     \* OutboxStatus of a row, "NONE" is no row yet
  attempts,   \* the attempts column
  due,        \* rows with availableAt <= now
  gone,       \* rows whose user no longer exists
  stage,      \* where each flush is
  batch,      \* rows a flush has read and not handled yet
  read,       \* the attempts column as each flush read it
  current,    \* the row a flush has claimed
  stopped,    \* flushes that stopped half-way
  sends, unacked, tries

flush == <<stage, batch, read, current>>
history == <<sends, unacked, tries>>
vars == <<status, attempts, due, gone, flush, stopped, history>>

TypeOK ==
  /\ status \in [Row -> OutboxStatus]
  /\ attempts \in [Row -> Nat]
  /\ due \subseteq Row /\ gone \subseteq Row
  /\ stage \in [Worker -> Stage]
  /\ batch \in [Worker -> SUBSET Row]
  /\ read \in [Worker -> [Row -> Nat]]
  /\ current \in [Worker -> Row \cup {NoRow}]
  /\ stopped \in Nat
  /\ sends \in [Row -> Nat] /\ unacked \in [Row -> Nat] /\ tries \in [Row -> Nat]

Nowhere == [r \in Row |-> 0]

Init ==
  /\ status = [r \in Row |-> "NONE"]
  /\ attempts = Nowhere
  /\ due = {} /\ gone = {}
  /\ stage = [w \in Worker |-> "idle"]
  /\ batch = [w \in Worker |-> {}]
  /\ read = [w \in Worker |-> Nowhere]
  /\ current = [w \in Worker |-> NoRow]
  /\ stopped = 0
  /\ sends = Nowhere /\ unacked = Nowhere /\ tries = Nowhere

--------------------------------------------------------------------------------

\* enqueueNotification commits together with the business transaction.
Enqueue(r) ==
  /\ status[r] = "NONE"
  /\ status' = [status EXCEPT ![r] = "PENDING"]
  /\ due' = due \cup {r}
  /\ UNCHANGED <<attempts, gone, flush, stopped, history>>

\* The backoff of a row ends.
BackoffEnds(r) ==
  /\ status[r] = "PENDING" /\ r \notin due
  /\ due' = due \cup {r}
  /\ UNCHANGED <<status, attempts, gone, flush, stopped, history>>

\* The row's user is deleted; the application itself never does.
UserDeleted(r) ==
  /\ r \notin gone /\ status[r] \in {"PENDING", "SENDING"}
  /\ gone' = gone \cup {r}
  /\ UNCHANGED <<status, attempts, due, flush, stopped, history>>

\* findMany: the oldest due rows, at most Batch of them.
Pending == {r \in due : status[r] = "PENDING"}
Oldest == {r \in Pending : Cardinality({q \in Pending : q <= r}) <= Batch}

Read(w) ==
  /\ stage[w] = "idle"
  /\ Pending # {}
  /\ stage' = [stage EXCEPT ![w] = "next"]
  /\ batch' = [batch EXCEPT ![w] = Oldest]
  /\ read' = [read EXCEPT ![w] = [r \in Row |-> IF r \in Oldest THEN attempts[r] ELSE 0]]
  /\ UNCHANGED <<status, attempts, due, gone, current, stopped, history>>

\* The rows of a batch are handled in the order they were read.
First(w, r) == r \in batch[w] /\ \A q \in batch[w] : r <= q

\* Mutant: a row is claimed without comparing its status.
ClaimableAlways(r) == TRUE

\* The WHERE of the claim: status = PENDING.
Claimable(r) == status[r] = "PENDING"

Claim(w, r) ==
  /\ stage[w] = "next"
  /\ First(w, r)
  /\ batch' = [batch EXCEPT ![w] = @ \ {r}]
  /\ IF Claimable(r)
     THEN /\ status' = [status EXCEPT ![r] = "SENDING"]
          /\ stage' = [stage EXCEPT ![w] = "claimed"]
          /\ current' = [current EXCEPT ![w] = r]
          /\ tries' = [tries EXCEPT ![r] = @ + 1]
     ELSE UNCHANGED <<status, stage, current, tries>>
  /\ UNCHANGED <<attempts, due, gone, read, stopped, sends, unacked>>

\* The loop ends.
Finish(w) ==
  /\ stage[w] = "next"
  /\ batch[w] = {}
  /\ stage' = [stage EXCEPT ![w] = "idle"]
  /\ read' = [read EXCEPT ![w] = Nowhere]
  /\ UNCHANGED <<status, attempts, due, gone, batch, current, stopped, history>>

Continue(w) ==
  /\ stage' = [stage EXCEPT ![w] = "next"]
  /\ current' = [current EXCEPT ![w] = NoRow]
  /\ UNCHANGED <<batch, read>>

GoTo(w, s) ==
  /\ stage' = [stage EXCEPT ![w] = s]
  /\ UNCHANGED <<batch, read, current>>

\* Mutant: the row is marked SENT before the notification is created.
CheckUserMarksSent(w) ==
  /\ stage[w] = "claimed"
  /\ status' = [status EXCEPT ![current[w]] = IF current[w] \in gone THEN "FAILED" ELSE "SENT"]
  /\ IF current[w] \in gone THEN Continue(w) ELSE GoTo(w, "checked")
  /\ UNCHANGED <<attempts, due, gone, stopped, history>>

\* user.findUnique.
CheckUser(w) ==
  /\ stage[w] = "claimed"
  /\ IF current[w] \in gone
     THEN /\ status' = [status EXCEPT ![current[w]] = "FAILED"]
          /\ Continue(w)
     ELSE GoTo(w, "checked") /\ UNCHANGED status
  /\ UNCHANGED <<attempts, due, gone, stopped, history>>

\* createNotification.
Send(w) ==
  /\ stage[w] = "checked"
  /\ current[w] \notin gone
  /\ sends' = [sends EXCEPT ![current[w]] = @ + 1]
  /\ GoTo(w, "sent")
  /\ UNCHANGED <<status, attempts, due, gone, stopped, unacked, tries>>

MarkSent(w) ==
  /\ stage[w] = "sent"
  /\ status' = [status EXCEPT ![current[w]] = "SENT"]
  /\ Continue(w)
  /\ UNCHANGED <<attempts, due, gone, stopped, history>>

\* A statement of the try block throws; the foreign key of a deleted user does.
Throw(w) ==
  /\ stage[w] \in {"claimed", "checked", "sent"}
  /\ GoTo(w, "failed")
  /\ unacked' = [unacked EXCEPT ![current[w]] =
                   IF stage[w] = "sent" THEN @ + 1 ELSE @]
  /\ UNCHANGED <<status, attempts, due, gone, stopped, sends, tries>>

\* Mutants: a row is given up one attempt early; a failed row is not handed back.
GivesUpEarly(w) == current[w] \in gone \/ read[w][current[w]] + 2 >= MaxAttempts
HandBackForgotten(w) == "SENDING"

\* Mutant: the count goes down instead of up.
AttemptedDown(w) == read[w][current[w]] - 1

\* The catch block counts from the attempts it read with the batch.
Attempted(w) == read[w][current[w]] + 1
GivesUp(w) == current[w] \in gone \/ Attempted(w) >= MaxAttempts
HandBack(w) == IF GivesUp(w) THEN "FAILED" ELSE "PENDING"

Catch(w) ==
  /\ stage[w] = "failed"
  /\ status' = [status EXCEPT ![current[w]] = HandBack(w)]
  /\ attempts' = [attempts EXCEPT ![current[w]] = Attempted(w)]
  /\ due' = due \ {current[w]}
  /\ Continue(w)
  /\ UNCHANGED <<gone, stopped, history>>

\* The process dies, or the catch block's own update throws: the flush ends here.
Stop(w) ==
  /\ stage[w] # "idle"
  /\ stopped < Stops
  /\ stopped' = stopped + 1
  /\ stage' = [stage EXCEPT ![w] = "idle"]
  /\ batch' = [batch EXCEPT ![w] = {}]
  /\ read' = [read EXCEPT ![w] = Nowhere]
  /\ current' = [current EXCEPT ![w] = NoRow]
  /\ UNCHANGED <<status, attempts, due, gone, history>>

Flush(w) ==
  \/ Read(w) \/ (\E r \in Row : Claim(w, r)) \/ Finish(w)
  \/ CheckUser(w) \/ Send(w) \/ MarkSent(w) \/ Throw(w) \/ Catch(w)

Next ==
  \/ \E r \in Row : Enqueue(r) \/ BackoffEnds(r) \/ UserDeleted(r)
  \/ \E w \in Worker : Flush(w) \/ Stop(w)

Spec == Init /\ [][Next]_vars

\* The timer starts a flush again and again, a flush goes on until it ends, and
\* the clock passes availableAt.
FairSpec ==
  /\ Spec
  /\ \A w \in Worker : WF_vars(Flush(w))
  /\ \A r \in Row : WF_vars(BackoffEnds(r))

--------------------------------------------------------------------------------

Holds(w, r) == stage[w] \in {"claimed", "checked", "sent", "failed"} /\ current[w] = r

\* outbox.service.ts: "only one worker handles a row": two flushes never work on
\* the same row, however old the batch they read it in.
OneSender ==
  \A r \in Row : \A v, w \in Worker : Holds(v, r) /\ Holds(w, r) => v = w

\* A member is notified again only when the bookkeeping of a send failed, and a row
\* marked SENT was sent.
SendsAccounted ==
  \A r \in Row :
    /\ sends[r] <= unacked[r] + 1
    /\ status[r] = "SENT" => sends[r] = unacked[r] + 1

\* A notification is given up only after MaxAttempts tries, unless its user is gone,
\* although the attempts column is written from stale reads.
GivesUpLate ==
  \A r \in Row : status[r] = "FAILED" => r \in gone \/ tries[r] >= MaxAttempts

\* A row that is SENT or FAILED is never taken up again by a flush with an old batch.
HandledIsFinal ==
  [][\A r \in Row : status[r] \in {"SENT", "FAILED"} => status'[r] = status[r]]_vars

\* Every notification is sent or given up.  With Stops > 0 this is what server.ts:46
\* says of the worker ("retry after crash / transient error").
Handled == \A r \in Row : status[r] = "PENDING" ~> status[r] \in {"SENT", "FAILED"}

\* A row that a stopped flush left SENDING: no flush reads it.
Stranded(r) == status[r] = "SENDING" /\ ~\E w \in Worker : Holds(w, r)

\* A row is left SENDING by nothing but the end of the flush that is working on it, and a
\* flush that ends takes no other row along: there are no more such rows than flushes that
\* stopped half-way.
OnlyStopsStrand ==
  [][\A r \in Row : Stranded(r)' => Stranded(r) \/ \E w \in Worker : Stop(w) /\ Holds(w, r)]_vars
StrandedByStops == Cardinality({r \in Row : Stranded(r)}) <= stopped

\* Every notification is sent or given up, also those in the batch of a flush that
\* stopped, but for the one row that flush was working on.
HandledOrStranded ==
  \A r \in Row :
    status[r] = "PENDING" ~> status[r] \in {"SENT", "FAILED"} \/ (Stranded(r) /\ stopped > 0)

\* outbox.service.ts:49: the worker retries at most OUTBOX_MAX_ATTEMPTS times.
AttemptsBounded == \A r \in Row : tries[r] <= MaxAttempts

================================================================================
