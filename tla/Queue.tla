-------------------------------- MODULE Queue --------------------------------
(***************************************************************************)
(* Queues (src/bindings/queue.ts): rows of the tables queue_messages and   *)
(* queue_leases, shared through SQLite by                                  *)
(*   - the push consumers (QueueConsumer), one per consumed queue in every *)
(*     worker thread of the worker's generations,                          *)
(*   - the pull endpoint (QueuePullConsumer), on the main thread,          *)
(*   - the dashboard (src/api/handlers/queue.ts) and the CLI.              *)
(* An action is one SQL statement or transaction with the code around it:  *)
(* statements of different threads interleave.                             *)
(*                                                                         *)
(* Time is abstracted to what the queries compare: whether visible_at has  *)
(* passed and in which order, whether a lease has expired, whether a row   *)
(* is older than the retention period.                                     *)
(***************************************************************************)
EXTENDS Naturals, FiniteSets

CONSTANTS
  Msgs,        \* message ids
  Queues,      \* queue names
  None,        \* deadLetterQueue is null
  Consumed,    \* queues the worker's config has a push consumer for
  Pulled,      \* queues a client pulls from over HTTP
  DeadLetter,  \* the consumer's deadLetterQueue
  Threads,     \* worker threads (one per generation)
  MaxBatch,    \* max_batch_size, and the largest batch_size a client asks for
  MaxRetries,  \* max_retries
  V8,          \* messages of content type v8
  Poison,      \* messages whose stored body decodeBody cannot parse
  Touched,     \* messages the dashboard or the CLI may requeue or delete
  Aging,       \* messages that may outlive the retention period
  MaxAttempts, \* bound: deliveries of a message
  MaxLeases    \* bound: leases made for a message

ASSUME QueueAssumption ==
  /\ IsFiniteSet(Msgs)
  /\ Consumed \subseteq Queues
  /\ Pulled \subseteq Queues
  /\ DeadLetter \in [Consumed -> Queues \cup {None}]
  /\ None \notin Queues
  /\ MaxBatch \in Nat \ {0}
  /\ MaxRetries \in Nat
  /\ V8 \cup Poison \cup Touched \cup Aging \subseteq Msgs

VARIABLES
  status,   \* queue_messages.status; "none" not sent, "gone" deleted
  queue,    \* queue_messages.queue
  attempts, \* queue_messages.attempts
  due,      \* pending messages whose visible_at has passed
  earlier,  \* for each due message, the due ones with an earlier visible_at
  old,      \* messages whose created_at is beyond the retention period
  life,     \* each worker thread
  phase,    \* each push consumer: between two polls, rows selected, handler running
  rows,     \* the rows of the batch that are not settled yet
  snap,     \* row.attempts as the SELECT of the batch read it
  leases,   \* rows of queue_leases that have not expired
  issued,   \* leases made for a message so far (the freshness of randomUUID)
  given     \* history: deliveries of a message since it entered its queue

rowVars      == <<status, queue, attempts>>
timeVars     == <<due, earlier, old>>
consumerVars == <<life, phase, rows, snap>>
leaseVars    == <<leases, issued>>
vars == <<rowVars, timeVars, consumerVars, leaseVars, given>>

Lease == [msg : Msgs, queue : Queues, no : Nat]

TypeOK ==
  /\ status \in [Msgs -> {"none", "pending", "acked", "failed", "gone"}]
  /\ queue \in [Msgs -> Queues \cup {None}]
  /\ attempts \in [Msgs -> Nat]
  /\ due \subseteq {m \in Msgs : status[m] = "pending"}
  /\ earlier \in [Msgs -> SUBSET due]
  /\ old \subseteq Msgs
  /\ life \in [Threads -> {"off", "on", "stopped", "dead"}]
  /\ phase \in [Threads -> [Consumed -> {"idle", "selected", "delivered"}]]
  /\ rows \in [Threads -> [Consumed -> SUBSET Msgs]]
  /\ snap \in [Threads -> [Consumed -> [Msgs -> Nat]]]
  /\ leases \subseteq Lease
  /\ issued \in [Msgs -> Nat]
  /\ given \in [Msgs -> Nat]
  /\ \A m \in Msgs : status[m] # "none" => queue[m] \in Queues

Init ==
  /\ status = [m \in Msgs |-> "none"]
  /\ queue = [m \in Msgs |-> None]
  /\ attempts = [m \in Msgs |-> 0]
  /\ due = {}
  /\ earlier = [m \in Msgs |-> {}]
  /\ old = {}
  /\ life = [t \in Threads |-> "off"]
  /\ phase = [t \in Threads |-> [q \in Consumed |-> "idle"]]
  /\ rows = [t \in Threads |-> [q \in Consumed |-> {}]]
  /\ snap = [t \in Threads |-> [q \in Consumed |-> [m \in Msgs |-> 0]]]
  /\ leases = {}
  /\ issued = [m \in Msgs |-> 0]
  /\ given = [m \in Msgs |-> 0]

-----------------------------------------------------------------------------
(* Rows and visible_at.                                                    *)

Exists(m) == status[m] \notin {"none", "gone"}

\* visible_at = now: m is due, behind everything that is due already.
VisibleNow(m) ==
  /\ due' = due \cup {m}
  /\ earlier' = [k \in Msgs |-> IF k = m THEN due \ {m} ELSE earlier[k] \ {m}]

\* The messages of S are not due: visible_at is in the future, or they are no
\* longer pending and the queries pass over them.
NotVisible(S) ==
  /\ due' = due \ S
  /\ earlier' = [k \in Msgs |-> IF k \in S THEN {} ELSE earlier[k] \ S]

\* ORDER BY visible_at LIMIT n over the due messages of S.
First(n, S) == {m \in S : Cardinality(earlier[m] \cap S) < n}

\* An UPDATE of visible_at for a retry, at once or after a delay.  It leaves the
\* status alone, so it only matters for a row that is still pending.
RetryLater(m) ==
  IF status[m] = "pending"
    THEN /\ VisibleNow(m) \/ NotVisible({m})
         /\ UNCHANGED old
    ELSE UNCHANGED timeVars

\* send(), one message of sendBatch(), the dashboard's publishMessage and
\* `queues message send`: with a delay or without.  A call that fails its
\* validation inserts nothing.
Send(m, q) ==
  /\ status[m] = "none"
  /\ status' = [status EXCEPT ![m] = "pending"]
  /\ queue' = [queue EXCEPT ![m] = q]
  /\ VisibleNow(m) \/ UNCHANGED <<due, earlier>>
  /\ UNCHANGED <<attempts, old, consumerVars, leaseVars, given>>

\* visible_at passes.
Due(m) ==
  /\ status[m] = "pending"
  /\ m \notin due
  /\ VisibleNow(m)
  /\ UNCHANGED <<rowVars, old, consumerVars, leaseVars, given>>

\* created_at falls behind the retention period.
Age(m) ==
  /\ m \in Aging \ old
  /\ Exists(m)
  /\ old' = old \cup {m}
  /\ UNCHANGED <<rowVars, due, earlier, consumerVars, leaseVars, given>>

-----------------------------------------------------------------------------
(* Push consumers.                                                         *)

\* startThreadQueueConsumers, when a generation's thread has loaded the worker.
\* The thread of the previous generation may still be running.
StartThread(t) ==
  /\ life[t] = "off"
  /\ life' = [life EXCEPT ![t] = "on"]
  /\ UNCHANGED <<rowVars, timeVars, phase, rows, snap, leaseVars, given>>

\* stop-queue-consumers: the poll timers are cleared, batches go on.
StopThread(t) ==
  /\ life[t] = "on"
  /\ life' = [life EXCEPT ![t] = "stopped"]
  /\ UNCHANGED <<rowVars, timeVars, phase, rows, snap, leaseVars, given>>

\* What the thread held in memory is lost with it.
Lost(t) ==
  /\ life' = [life EXCEPT ![t] = "dead"]
  /\ phase' = [phase EXCEPT ![t] = [q \in Consumed |-> "idle"]]
  /\ rows' = [rows EXCEPT ![t] = [q \in Consumed |-> {}]]
  /\ snap' = [snap EXCEPT ![t] = [q \in Consumed |-> [m \in Msgs |-> 0]]]

\* The thread is terminated: its generation is stopped, user code crashed it,
\* or the process exits.
KillThread(t) ==
  /\ life[t] \in {"on", "stopped"}
  /\ Lost(t)
  /\ UNCHANGED <<rowVars, timeVars, leaseVars, given>>

\* The rows the SELECT of poll() sees, after the retention DELETE.
Selectable(q, expired) ==
  {m \in due \ expired : queue[m] = q /\ status[m] = "pending"}

\* Mutant: the SELECT does not look at the status.
Poll_AnyStatus(t, q) ==
  LET batch == {m \in Msgs : Exists(m) /\ queue[m] = q}
  IN /\ life[t] = "on"
     /\ phase[t][q] = "idle"
     /\ batch # {}
     /\ rows' = [rows EXCEPT ![t][q] = batch]
     /\ snap' = [snap EXCEPT ![t][q] = [m \in Msgs |-> IF m \in batch THEN attempts[m] ELSE 0]]
     /\ phase' = [phase EXCEPT ![t][q] = "selected"]
     /\ UNCHANGED <<rowVars, timeVars, life, leaseVars, given>>

\* poll() up to its SELECT.  The polling flag (phase) lets one batch of a
\* consumer run at a time, so the max_concurrency gate never closes.
Poll(t, q) ==
  LET expired == {m \in old : Exists(m) /\ queue[m] = q}
      batch   == First(MaxBatch, Selectable(q, expired))
  IN /\ life[t] = "on"
     /\ phase[t][q] = "idle"
     /\ expired # {} \/ batch # {}
     /\ status' = [m \in Msgs |-> IF m \in expired THEN "gone" ELSE status[m]]
     /\ NotVisible(expired)
     /\ rows' = [rows EXCEPT ![t][q] = batch]
     /\ snap' = [snap EXCEPT ![t][q] = [m \in Msgs |-> IF m \in batch THEN attempts[m] ELSE 0]]
     /\ phase' = [phase EXCEPT ![t][q] = IF batch = {} THEN "idle" ELSE "selected"]
     /\ UNCHANGED <<queue, attempts, old, life, leaseVars, given>>

\* UPDATE ... SET attempts = attempts + 1 of deliverBatch.
CountAttempts(S) ==
  /\ \A m \in S : attempts[m] < MaxAttempts
  /\ attempts' = [m \in Msgs |-> IF m \in S /\ Exists(m) THEN attempts[m] + 1 ELSE attempts[m]]

\* deliverBatch up to the call of the handler.  A body that does not decode
\* throws out of poll(), which nobody awaits: the unhandled rejection reaches
\* executor.onerror, which terminates the thread.
Deliver(t, q) ==
  /\ phase[t][q] = "selected"
  /\ CountAttempts(rows[t][q])
  /\ IF rows[t][q] \cap Poison # {}
       THEN /\ Lost(t)
            /\ UNCHANGED given
       ELSE /\ phase' = [phase EXCEPT ![t][q] = "delivered"]
            /\ given' = [m \in Msgs |-> IF m \in rows[t][q] /\ queue[m] = q
                                          THEN given[m] + 1 ELSE given[m]]
            /\ UNCHANGED <<life, rows, snap>>
  /\ UNCHANGED <<status, queue, timeVars, leaseVars>>

\* Mutants of Exhausted: one delivery too few; the bound must be hit exactly.
Exhausted_OneShort(attempt) == attempt + 1 >= MaxRetries
Exhausted_Exactly(attempt) == attempt = MaxRetries

\* currentAttempts >= this.config.maxRetries
Exhausted(attempt) == attempt >= MaxRetries

\* The handler acked the row, or decided nothing.
AckRow(m) ==
  /\ status' = [status EXCEPT ![m] = IF Exists(m) THEN "acked" ELSE @]
  /\ NotVisible({m})
  /\ UNCHANGED <<queue, attempts, old, given>>

\* Mutant: a consumer without a dead letter queue moves the row all the same.
GiveUp_NullQueue(m, q) ==
  /\ queue' = [queue EXCEPT ![m] = DeadLetter[q]]
  /\ status' = [status EXCEPT ![m] = "pending"]
  /\ VisibleNow(m)
  /\ UNCHANGED <<attempts, old, given>>

\* The handler retried the row, or threw, and max_retries is used up: the row
\* moves to the dead letter queue, with its attempts, or is marked failed.
GiveUp(m, q) ==
  IF ~Exists(m) THEN UNCHANGED <<rowVars, timeVars, given>>
  ELSE IF DeadLetter[q] # None
    THEN /\ queue' = [queue EXCEPT ![m] = DeadLetter[q]]
         /\ status' = [status EXCEPT ![m] = "pending"]
         /\ VisibleNow(m)
         /\ given' = [given EXCEPT ![m] = IF queue[m] = DeadLetter[q] THEN @ ELSE 0]
         /\ UNCHANGED <<attempts, old>>
    ELSE /\ status' = [status EXCEPT ![m] = "failed"]
         /\ NotVisible({m})
         /\ UNCHANGED <<queue, attempts, old, given>>

\* The outcome of one row once the handler and its waitUntil promises are done.
\* The rows of a batch are settled by statements of their own, in any order as
\* far as visible_at can tell.
Settle(t, q, m) ==
  /\ phase[t][q] = "delivered"
  /\ m \in rows[t][q]
  /\ \/ AckRow(m)
     \/ /\ Exhausted(snap[t][q][m] + 1)
        /\ GiveUp(m, q)
     \/ /\ ~Exhausted(snap[t][q][m] + 1)
        /\ RetryLater(m)
        /\ UNCHANGED <<rowVars, given>>
  /\ rows' = [rows EXCEPT ![t][q] = @ \ {m}]
  /\ snap' = [snap EXCEPT ![t][q][m] = 0]
  /\ phase' = [phase EXCEPT ![t][q] = IF rows[t][q] = {m} THEN "idle" ELSE @]
  /\ UNCHANGED <<life, leaseVars>>

-----------------------------------------------------------------------------
(* The pull endpoint.                                                      *)

Leased(m, q) == \E l \in leases : l.msg = m /\ l.queue = q

\* Mutant: the SELECT does not exclude leased messages.
Pullable_Leased(q) == {m \in due : queue[m] = q /\ status[m] = "pending"}

Pullable(q) == {m \in due : queue[m] = q /\ status[m] = "pending" /\ ~Leased(m, q)}

\* QueuePullConsumer.pull: v8 messages are dropped from the rows after the
\* LIMIT; a body that does not decode rolls the transaction back, so such a
\* pull changes nothing.
Pull(q, n) ==
  LET valid == First(n, Pullable(q)) \ V8
  IN /\ valid # {}
     /\ valid \cap Poison = {}
     /\ \A m \in valid : issued[m] < MaxLeases
     /\ CountAttempts(valid)
     /\ leases' = leases \cup {[msg |-> m, queue |-> q, no |-> issued[m] + 1] : m \in valid}
     /\ issued' = [m \in Msgs |-> IF m \in valid THEN issued[m] + 1 ELSE issued[m]]
     /\ given' = [m \in Msgs |-> IF m \in valid THEN given[m] + 1 ELSE given[m]]
     /\ UNCHANGED <<status, queue, timeVars, consumerVars>>

\* expires_at passes; the row itself is removed by the next pull.
LeaseExpires(l) ==
  /\ leases' = leases \ {l}
  /\ UNCHANGED <<rowVars, timeVars, consumerVars, issued, given>>

\* ack() for a lease that has not expired; others are ignored.
PullAck(l) ==
  /\ AckRow(l.msg)
  /\ leases' = leases \ {l}
  /\ UNCHANGED <<consumerVars, issued>>

\* A retry in ack(): visible_at only.  max_retries is not applied to pulls.
PullRetry(l) ==
  /\ RetryLater(l.msg)
  /\ leases' = leases \ {l}
  /\ UNCHANGED <<rowVars, consumerVars, issued, given>>

-----------------------------------------------------------------------------
(* The dashboard and the CLI.                                              *)

\* queue.requeueMessage
Requeue(m) ==
  /\ m \in Touched
  /\ Exists(m)
  /\ status' = [status EXCEPT ![m] = "pending"]
  /\ attempts' = [attempts EXCEPT ![m] = 0]
  /\ given' = [given EXCEPT ![m] = 0]
  /\ VisibleNow(m)
  /\ UNCHANGED <<queue, old, consumerVars, leaseVars>>

\* queue.deleteMessage
DeleteMessage(m) ==
  /\ m \in Touched
  /\ Exists(m)
  /\ status' = [status EXCEPT ![m] = "gone"]
  /\ NotVisible({m})
  /\ UNCHANGED <<queue, attempts, old, consumerVars, leaseVars, given>>

\* queues message purge: the messages and the leases of one queue.
Purge(q) ==
  LET purged == {m \in Msgs : Exists(m) /\ queue[m] = q}
  IN /\ purged # {}
     /\ purged \subseteq Touched
     /\ status' = [m \in Msgs |-> IF m \in purged THEN "gone" ELSE status[m]]
     /\ NotVisible(purged)
     /\ leases' = {l \in leases : l.queue # q}
     /\ UNCHANGED <<queue, attempts, old, consumerVars, issued, given>>

-----------------------------------------------------------------------------
Next ==
  \/ \E m \in Msgs, q \in Queues : Send(m, q)
  \/ \E m \in Msgs : Due(m)
  \/ \E m \in Msgs : Age(m)
  \/ \E t \in Threads : StartThread(t)
  \/ \E t \in Threads : StopThread(t)
  \/ \E t \in Threads : KillThread(t)
  \/ \E t \in Threads, q \in Consumed : Poll(t, q)
  \/ \E t \in Threads, q \in Consumed : Deliver(t, q)
  \/ \E t \in Threads, q \in Consumed, m \in Msgs : Settle(t, q, m)
  \/ \E q \in Pulled, n \in 1..MaxBatch : Pull(q, n)
  \/ \E l \in leases : LeaseExpires(l)
  \/ \E l \in leases : PullAck(l)
  \/ \E l \in leases : PullRetry(l)
  \/ \E m \in Msgs : Requeue(m)
  \/ \E m \in Msgs : DeleteMessage(m)
  \/ \E q \in Queues : Purge(q)

Spec == Init /\ [][Next]_vars

(***************************************************************************)
(* Time passes, poll timers fire, and a handler ends with some decision    *)
(* for every row; a client that pulls keeps pulling.  Nothing restarts a   *)
(* thread that died: that takes a reload.                                  *)
(***************************************************************************)
Fairness ==
  /\ \A m \in Msgs : WF_vars(Due(m))
  /\ \A t \in Threads, q \in Consumed :
       /\ WF_vars(Poll(t, q))
       /\ WF_vars(Deliver(t, q))
       /\ \A m \in Msgs : WF_vars(Settle(t, q, m))
  /\ \A q \in Pulled, n \in 1..MaxBatch : WF_vars(Pull(q, n))

FairSpec == Spec /\ Fairness

-----------------------------------------------------------------------------
(* Properties.                                                             *)

HeldBy(t, m) == \E q \in Consumed : m \in rows[t][q]

\* Once a message is acked and no thread holds a copy of its row any more, it
\* stays acked until it is deleted: no poll, pull, timer, restart, expired lease
\* or late batch brings it back (queue.ts, poll / deliverBatch).
Unheld(m) == \A t \in Threads : ~HeldBy(t, m)
AckSticks ==
  \A m \in Msgs \ Touched :
    [](status[m] = "acked" /\ Unheld(m) => [](status[m] \in {"acked", "gone"}))

\* A consumer gives a message up (dead letter queue or 'failed') only after it
\* was delivered max_retries times from the queue it is leaving, whatever
\* threads delivered it and died, overlapped or raced (queue.ts, deliverBatch;
\* FEATURES.md 6.8 "Messages routed to DLQ after exhausting max_retries").
FullRetries ==
  [][\A m \in Msgs \ Touched :
       status[m] = "pending" /\ (status'[m] = "failed" \/ queue'[m] # queue[m])
         => given[m] >= MaxRetries]_vars

\* At most one unexpired lease names a message of a queue, through expiry,
\* retry, requeue, purge and redelivery (queue.ts, QueuePullConsumer.pull).
LeaseExclusive ==
  \A l1, l2 \in leases : l1.msg = l2.msg /\ l1.queue = l2.queue => l1 = l2

\* As long as a consumer thread is up, a message of a consumed queue is
\* eventually acked or given up, whatever threads died while holding it
\* (queue.ts, poll / deliverBatch).
MessageSettles ==
  \A m \in Msgs \ Touched, q \in Consumed :
    []<>(status[m] # "pending" \/ queue[m] # q \/ \A t \in Threads : life[t] # "on")
=============================================================================
