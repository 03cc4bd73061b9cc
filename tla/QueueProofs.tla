---------------------------- MODULE QueueProofs ----------------------------
(***************************************************************************)
(* Theorems about Queue, for any number of messages, queues, threads and   *)
(* leases.                                                                 *)
(***************************************************************************)
EXTENDS Queue, TLAPS

(* How the helpers on rows and on visible_at keep the types.               *)

\* A message whose visible_at becomes now joins the due messages.
LEMMA VisibleNowType ==
  ASSUME NEW m \in Msgs, due \subseteq Msgs, earlier \in [Msgs -> SUBSET due], VisibleNow(m)
  PROVE  due' = due \cup {m} /\ earlier' \in [Msgs -> SUBSET due']
BY DEF VisibleNow

\* Messages whose visible_at moves to the future leave the due messages.
LEMMA NotVisibleType ==
  ASSUME NEW S, due \subseteq Msgs, earlier \in [Msgs -> SUBSET due], NotVisible(S)
  PROVE  due' = due \ S /\ earlier' \in [Msgs -> SUBSET due']
BY DEF NotVisible

\* A retry keeps the row and the types of visible_at.
LEMMA RetryType ==
  ASSUME NEW m \in Msgs, TypeOK, RetryLater(m), status' = status
  PROVE  /\ due' \subseteq {k \in Msgs : status'[k] = "pending"}
         /\ earlier' \in [Msgs -> SUBSET due']
         /\ old' \subseteq Msgs
<1>0. due \subseteq Msgs /\ earlier \in [Msgs -> SUBSET due] /\ old \subseteq Msgs
  BY DEF TypeOK
<1>1. CASE status[m] = "pending" /\ VisibleNow(m)
  BY <1>0, <1>1, VisibleNowType, SMTT(30) DEF RetryLater, TypeOK
<1>2. CASE status[m] = "pending" /\ NotVisible({m})
  BY <1>0, <1>2, NotVisibleType DEF RetryLater, TypeOK
<1>3. CASE status[m] # "pending"
  BY <1>3 DEF RetryLater, TypeOK, timeVars
<1>4. QED
  BY <1>1, <1>2, <1>3 DEF RetryLater

\* An ack of a row keeps the types of rows and of visible_at.
LEMMA AckRowType ==
  ASSUME NEW m \in Msgs, TypeOK, AckRow(m)
  PROVE  /\ status' \in [Msgs -> {"none", "pending", "acked", "failed", "gone"}]
         /\ due' \subseteq {k \in Msgs : status'[k] = "pending"}
         /\ earlier' \in [Msgs -> SUBSET due']
         /\ \A k \in Msgs : status'[k] # "none" => queue[k] \in Queues
<1>1. due' = due \ {m} /\ earlier' \in [Msgs -> SUBSET due']
  BY NotVisibleType DEF AckRow, TypeOK
<1>2. QED
  BY <1>1 DEF AckRow, TypeOK, Exists

\* Giving a row up keeps the types of rows and of visible_at.
LEMMA GiveUpType ==
  ASSUME NEW m \in Msgs, NEW q \in Consumed, TypeOK, GiveUp(m, q)
  PROVE  /\ status' \in [Msgs -> {"none", "pending", "acked", "failed", "gone"}]
         /\ queue' \in [Msgs -> Queues \cup {None}]
         /\ attempts' \in [Msgs -> Nat]
         /\ due' \subseteq {k \in Msgs : status'[k] = "pending"}
         /\ earlier' \in [Msgs -> SUBSET due']
         /\ old' \subseteq Msgs
         /\ given' \in [Msgs -> Nat]
         /\ \A k \in Msgs : status'[k] # "none" => queue'[k] \in Queues
<1>0. due \subseteq Msgs /\ earlier \in [Msgs -> SUBSET due]
  BY DEF TypeOK
<1>1. CASE ~Exists(m)
  BY <1>1 DEF GiveUp, TypeOK, rowVars, timeVars
<1>2. CASE Exists(m) /\ DeadLetter[q] # None
  <2>1. due' = due \cup {m} /\ earlier' \in [Msgs -> SUBSET due']
    BY <1>0, <1>2, VisibleNowType DEF GiveUp
  <2>2. DeadLetter[q] \in Queues
    BY <1>2, QueueAssumption
  <2>3. /\ status' \in [Msgs -> {"none", "pending", "acked", "failed", "gone"}]
        /\ queue' \in [Msgs -> Queues \cup {None}]
        /\ \A k \in Msgs : status'[k] # "none" => queue'[k] \in Queues
    <3>1. /\ status' = [status EXCEPT ![m] = "pending"]
          /\ queue' = [queue EXCEPT ![m] = DeadLetter[q]]
      BY <1>2 DEF GiveUp
    <3>2. /\ status' \in [Msgs -> {"none", "pending", "acked", "failed", "gone"}]
          /\ queue' \in [Msgs -> Queues \cup {None}]
      BY <2>2, <3>1 DEF TypeOK
    <3>3. ASSUME NEW k \in Msgs, status'[k] # "none" PROVE queue'[k] \in Queues
      <4>1. CASE k = m
        BY <2>2, <3>1, <4>1 DEF TypeOK
      <4>2. CASE k # m
        BY <3>1, <3>3, <4>2 DEF TypeOK
      <4>3. QED
        BY <4>1, <4>2
    <3>4. QED
      BY <3>2, <3>3
  <2>4. \A k \in due \cup {m} : status'[k] = "pending"
    BY <1>2 DEF GiveUp, TypeOK
  <2>5. given' \in [Msgs -> Nat] /\ attempts' \in [Msgs -> Nat] /\ old' \subseteq Msgs
    BY <1>2 DEF GiveUp, TypeOK
  <2>6. QED
    BY <1>0, <2>1, <2>3, <2>4, <2>5
<1>3. CASE Exists(m) /\ DeadLetter[q] = None
  <2>1. due' = due \ {m} /\ earlier' \in [Msgs -> SUBSET due']
    BY <1>0, <1>3, NotVisibleType DEF GiveUp
  <2>2. QED
    BY <1>3, <2>1 DEF GiveUp, TypeOK, Exists
<1>4. QED
  BY <1>1, <1>2, <1>3

\* Counting a delivery keeps the type of attempts.
LEMMA CountType ==
  ASSUME NEW S, TypeOK, CountAttempts(S)
  PROVE  attempts' \in [Msgs -> Nat]
BY DEF CountAttempts, TypeOK

\* What a dead thread held is forgotten.
LEMMA LostType ==
  ASSUME NEW t \in Threads, TypeOK, Lost(t)
  PROVE  /\ life' \in [Threads -> {"off", "on", "stopped", "dead"}]
         /\ phase' \in [Threads -> [Consumed -> {"idle", "selected", "delivered"}]]
         /\ rows' \in [Threads -> [Consumed -> SUBSET Msgs]]
         /\ snap' \in [Threads -> [Consumed -> [Msgs -> Nat]]]
BY DEF Lost, TypeOK

\* Every variable of Queue keeps its type through every operation of the
\* consumers, the pull endpoint, the dashboard and the CLI; in particular only
\* pending messages are due, and a message that was sent is in a real queue,
\* also when it is given up without a dead letter queue.
THEOREM Typing == Spec => []TypeOK
<1>1. Init => TypeOK
  BY QueueAssumption DEF Init, TypeOK, Lease
<1>2. TypeOK /\ [Next]_vars => TypeOK'
  <2> SUFFICES ASSUME TypeOK, [Next]_vars PROVE TypeOK'
    OBVIOUS
  <2> USE QueueAssumption
  <2>0. /\ due \subseteq Msgs
        /\ earlier \in [Msgs -> SUBSET due]
    BY DEF TypeOK
  <2>1. ASSUME NEW m \in Msgs, NEW q \in Queues, Send(m, q) PROVE TypeOK'
    <3>1. (due' = due \cup {m} \/ due' = due) /\ earlier' \in [Msgs -> SUBSET due']
      BY <2>0, <2>1, VisibleNowType DEF Send
    <3>2. /\ status' \in [Msgs -> {"none", "pending", "acked", "failed", "gone"}]
          /\ queue' \in [Msgs -> Queues \cup {None}]
          /\ \A k \in Msgs : status'[k] # "none" => queue'[k] \in Queues
      BY <2>1 DEF Send, TypeOK
    <3>3. due' \subseteq {k \in Msgs : status'[k] = "pending"}
      BY <2>1, <3>1 DEF Send, TypeOK
    <3>4. QED
      BY <2>1, <3>1, <3>2, <3>3 DEF Send, TypeOK, consumerVars, leaseVars
  <2>2. ASSUME NEW m \in Msgs, Due(m) PROVE TypeOK'
    <3>1. due' = due \cup {m} /\ earlier' \in [Msgs -> SUBSET due']
      BY <2>0, <2>2, VisibleNowType DEF Due
    <3>2. QED
      BY <2>2, <3>1 DEF Due, TypeOK, rowVars, consumerVars, leaseVars
  <2>3. ASSUME NEW m \in Msgs, Age(m) PROVE TypeOK'
    BY <2>3 DEF Age, TypeOK, rowVars, consumerVars, leaseVars
  <2>4. ASSUME NEW t \in Threads, StartThread(t) PROVE TypeOK'
    BY <2>4 DEF StartThread, TypeOK, rowVars, timeVars, leaseVars
  <2>5. ASSUME NEW t \in Threads, StopThread(t) PROVE TypeOK'
    BY <2>5 DEF StopThread, TypeOK, rowVars, timeVars, leaseVars
  <2>6. ASSUME NEW t \in Threads, KillThread(t) PROVE TypeOK'
    BY <2>6, LostType DEF KillThread, TypeOK, rowVars, timeVars, leaseVars
  <2>7. ASSUME NEW t \in Threads, NEW q \in Consumed, Poll(t, q) PROVE TypeOK'
    <3> DEFINE expired == {m \in old : Exists(m) /\ queue[m] = q}
               batch   == First(MaxBatch, Selectable(q, expired))
    <3>1. batch \subseteq Msgs
      BY DEF First, Selectable, TypeOK
    <3>2. due' = due \ expired /\ earlier' \in [Msgs -> SUBSET due']
      BY <2>0, <2>7, NotVisibleType DEF Poll
    <3>3. /\ status' \in [Msgs -> {"none", "pending", "acked", "failed", "gone"}]
          /\ due' \subseteq {k \in Msgs : status'[k] = "pending"}
          /\ \A k \in Msgs : status'[k] # "none" => queue'[k] \in Queues
      BY <2>7, <3>2 DEF Poll, TypeOK, Exists
    <3>4. [m \in Msgs |-> IF m \in batch THEN attempts[m] ELSE 0] \in [Msgs -> Nat]
      BY DEF TypeOK
    <3> HIDE DEF batch
    <3>5. rows' \in [Threads -> [Consumed -> SUBSET Msgs]]
      BY <2>7, <3>1 DEF Poll, TypeOK, batch
    <3>6. snap' \in [Threads -> [Consumed -> [Msgs -> Nat]]]
      BY <2>7, <3>4 DEF Poll, TypeOK, batch
    <3>7. phase' \in [Threads -> [Consumed -> {"idle", "selected", "delivered"}]]
      BY <2>7 DEF Poll, TypeOK
    <3>8. QED
      BY <2>7, <3>2, <3>3, <3>5, <3>6, <3>7 DEF Poll, TypeOK, leaseVars
  <2>8. ASSUME NEW t \in Threads, NEW q \in Consumed, Deliver(t, q) PROVE TypeOK'
    <3>1. attempts' \in [Msgs -> Nat]
      BY <2>8, CountType DEF Deliver
    <3>2. CASE rows[t][q] \cap Poison # {}
      BY <2>8, <3>1, <3>2, LostType DEF Deliver, TypeOK, timeVars, leaseVars
    <3>3. CASE rows[t][q] \cap Poison = {}
      <4>1. /\ phase' = [phase EXCEPT ![t][q] = "delivered"]
            /\ given' = [m \in Msgs |-> IF m \in rows[t][q] /\ queue[m] = q
                                          THEN given[m] + 1 ELSE given[m]]
            /\ UNCHANGED <<life, rows, snap>>
        BY <2>8, <3>3, Zenon DEF Deliver
      <4>2. given' \in [Msgs -> Nat]
        BY <4>1 DEF TypeOK
      <4>3. phase' \in [Threads -> [Consumed -> {"idle", "selected", "delivered"}]]
        BY <4>1 DEF TypeOK
      <4>4. QED
        BY <2>8, <3>1, <4>1, <4>2, <4>3 DEF Deliver, TypeOK, timeVars, leaseVars
    <3>4. QED
      BY <3>2, <3>3
  <2>9. ASSUME NEW t \in Threads, NEW q \in Consumed, NEW m \in Msgs, Settle(t, q, m)
        PROVE  TypeOK'
    <3>1. /\ rows' \in [Threads -> [Consumed -> SUBSET Msgs]]
          /\ phase' \in [Threads -> [Consumed -> {"idle", "selected", "delivered"}]]
      BY <2>9 DEF Settle, TypeOK
    <3>2. snap' \in [Threads -> [Consumed -> [Msgs -> Nat]]]
      BY <2>9 DEF Settle, TypeOK
    <3>3. CASE AckRow(m)
      BY <2>9, <3>1, <3>2, <3>3, AckRowType DEF Settle, TypeOK, AckRow, leaseVars
    <3>4. CASE GiveUp(m, q)
      BY <2>9, <3>1, <3>2, <3>4, GiveUpType DEF Settle, TypeOK, leaseVars
    <3>5. CASE RetryLater(m) /\ UNCHANGED <<rowVars, given>>
      BY <2>9, <3>1, <3>2, <3>5, RetryType DEF Settle, TypeOK, rowVars, leaseVars
    <3>6. QED
      BY <2>9, <3>3, <3>4, <3>5 DEF Settle
  <2>10. ASSUME NEW q \in Pulled, NEW n \in 1..MaxBatch, Pull(q, n) PROVE TypeOK'
    <3> DEFINE valid == First(n, Pullable(q)) \ V8
    <3>1. valid \subseteq Msgs
      BY DEF First, Pullable, TypeOK
    <3> HIDE DEF valid
    <3>2. attempts' \in [Msgs -> Nat]
      BY <2>10, CountType DEF Pull, valid
    <3>3. leases' \subseteq Lease
      BY <2>10, <3>1 DEF Pull, TypeOK, Lease, valid
    <3>4. QED
      BY <2>10, <3>2, <3>3 DEF Pull, TypeOK, timeVars, consumerVars
  <2>11. ASSUME NEW l \in leases, LeaseExpires(l) PROVE TypeOK'
    BY <2>11 DEF LeaseExpires, TypeOK, rowVars, timeVars, consumerVars
  <2>12. ASSUME NEW l \in leases, PullAck(l) PROVE TypeOK'
    <3>1. l.msg \in Msgs
      BY DEF TypeOK, Lease
    <3>2. QED
      BY <2>12, <3>1, AckRowType DEF PullAck, AckRow, TypeOK, consumerVars
  <2>13. ASSUME NEW l \in leases, PullRetry(l) PROVE TypeOK'
    <3>1. l.msg \in Msgs
      BY DEF TypeOK, Lease
    <3>2. QED
      BY <2>13, <3>1, RetryType DEF PullRetry, TypeOK, rowVars, consumerVars
  <2>14. ASSUME NEW m \in Msgs, Requeue(m) PROVE TypeOK'
    <3>1. due' = due \cup {m} /\ earlier' \in [Msgs -> SUBSET due']
      BY <2>0, <2>14, VisibleNowType DEF Requeue
    <3>2. /\ status' = [status EXCEPT ![m] = "pending"]
          /\ status[m] # "none"
      BY <2>14 DEF Requeue, Exists
    <3>3. status' \in [Msgs -> {"none", "pending", "acked", "failed", "gone"}]
      BY <3>2 DEF TypeOK
    <3>4. due' \subseteq {k \in Msgs : status'[k] = "pending"}
      BY <3>1, <3>2 DEF TypeOK
    <3>5. /\ queue' \in [Msgs -> Queues \cup {None}]
          /\ \A k \in Msgs : status'[k] # "none" => queue'[k] \in Queues
      BY <2>14, <3>2 DEF Requeue, TypeOK
    <3>6. attempts' \in [Msgs -> Nat] /\ given' \in [Msgs -> Nat]
      BY <2>14 DEF Requeue, TypeOK
    <3>7. /\ old' \subseteq Msgs
          /\ life' \in [Threads -> {"off", "on", "stopped", "dead"}]
          /\ phase' \in [Threads -> [Consumed -> {"idle", "selected", "delivered"}]]
          /\ rows' \in [Threads -> [Consumed -> SUBSET Msgs]]
          /\ snap' \in [Threads -> [Consumed -> [Msgs -> Nat]]]
          /\ leases' \subseteq Lease
          /\ issued' \in [Msgs -> Nat]
      BY <2>14 DEF Requeue, TypeOK, consumerVars, leaseVars, Lease
    <3>8. QED
      BY <3>1, <3>3, <3>4, <3>5, <3>6, <3>7 DEF TypeOK
  <2>15. ASSUME NEW m \in Msgs, DeleteMessage(m) PROVE TypeOK'
    <3>1. due' = due \ {m} /\ earlier' \in [Msgs -> SUBSET due']
      BY <2>0, <2>15, NotVisibleType DEF DeleteMessage
    <3>2. QED
      BY <2>15, <3>1 DEF DeleteMessage, TypeOK, Exists, consumerVars, leaseVars
  <2>16. ASSUME NEW q \in Queues, Purge(q) PROVE TypeOK'
    <3> DEFINE purged == {m \in Msgs : Exists(m) /\ queue[m] = q}
    <3>1. due' = due \ purged /\ earlier' \in [Msgs -> SUBSET due']
      BY <2>0, <2>16, NotVisibleType DEF Purge
    <3>2. QED
      BY <2>16, <3>1 DEF Purge, TypeOK, Exists, consumerVars
  <2>17. CASE UNCHANGED vars
    BY <2>17 DEF vars, rowVars, timeVars, consumerVars, leaseVars, TypeOK
  <2>18. QED
    BY <2>1, <2>2, <2>3, <2>4, <2>5, <2>6, <2>7, <2>8, <2>9, <2>10, <2>11, <2>12,
       <2>13, <2>14, <2>15, <2>16, <2>17 DEF Next
<1>3. QED
  BY <1>1, <1>2, PTL DEF Spec

-----------------------------------------------------------------------------
\* Leases appear only in a pull.
LEMMA OnlyPullLeases ==
  ASSUME [Next]_vars, ~\E q \in Pulled, n \in 1..MaxBatch : Pull(q, n)
  PROVE  leases' \subseteq leases
BY DEF Next, vars, leaseVars, Send, Due, Age, StartThread, StopThread, KillThread, Poll,
       Deliver, Settle, LeaseExpires, PullAck, PullRetry, Requeue, DeleteMessage, Purge

\* No two unexpired leases name the same message of the same queue, however
\* pulls, acks, retries, expiries, purges, requeues and push consumers of the
\* same queue follow one another.
THEOREM LeaseExclusion == Spec => []LeaseExclusive
<1>1. Init => LeaseExclusive
  BY DEF Init, LeaseExclusive
<1>2. LeaseExclusive /\ [Next]_vars => LeaseExclusive'
  <2> SUFFICES ASSUME LeaseExclusive, [Next]_vars PROVE LeaseExclusive'
    OBVIOUS
  <2>1. CASE leases' \subseteq leases
    BY <2>1 DEF LeaseExclusive
  <2>2. ASSUME NEW q \in Pulled, NEW n \in 1..MaxBatch, Pull(q, n) PROVE LeaseExclusive'
    <3> DEFINE valid == First(n, Pullable(q)) \ V8
               new   == {[msg |-> m, queue |-> q, no |-> issued[m] + 1] : m \in valid}
    <3>1. leases' = leases \cup new
      BY <2>2 DEF Pull
    <3>2. \A m \in valid : ~Leased(m, q)
      BY DEF First, Pullable
    <3> HIDE DEF valid
    <3>3. \A l \in new : l.queue = q /\ l.msg \in valid /\ l.no = issued[l.msg] + 1
      OBVIOUS
    <3>4. \A l1, l2 \in new : l1.msg = l2.msg => l1 = l2
      OBVIOUS
    <3>5. \A l1 \in leases, l2 \in new : ~(l1.msg = l2.msg /\ l1.queue = l2.queue)
      BY <3>2, <3>3 DEF Leased
    <3> HIDE DEF new
    <3>6. QED
      BY <3>1, <3>4, <3>5 DEF LeaseExclusive
  <2>3. QED
    BY <2>1, <2>2, OnlyPullLeases
<1>3. QED
  BY <1>1, <1>2, PTL DEF Spec

-----------------------------------------------------------------------------
\* The row of m is closed and no thread has a copy of it.
Closed(m) == status[m] \in {"acked", "gone"} /\ Unheld(m)

\* Nothing but the dashboard reopens a closed row.
LEMMA ClosedStable ==
  ASSUME TypeOK, NEW m \in Msgs \ Touched, Closed(m), [Next]_vars
  PROVE  Closed(m)'
<1> USE DEF Closed
<1>0. \A t \in Threads, q \in Consumed : m \notin rows[t][q]
  BY DEF Unheld, HeldBy
<1>1. SUFFICES /\ status'[m] \in {"acked", "gone"}
               /\ \A t \in Threads, q \in Consumed : m \notin rows'[t][q]
  BY DEF Unheld, HeldBy
<1>2. CASE UNCHANGED <<status, rows>>
  BY <1>0, <1>2
<1>3. ASSUME NEW k \in Msgs, NEW q \in Queues, Send(k, q) PROVE <1>1!1
  BY <1>0, <1>3 DEF Send, TypeOK, consumerVars
<1>4. ASSUME NEW t \in Threads, KillThread(t) PROVE <1>1!1
  BY <1>0, <1>4 DEF KillThread, Lost, TypeOK, rowVars
<1>5. ASSUME NEW t \in Threads, NEW q \in Consumed, Poll(t, q) PROVE <1>1!1
  <2> DEFINE expired == {k \in old : Exists(k) /\ queue[k] = q}
             batch   == First(MaxBatch, Selectable(q, expired))
  <2>1. m \notin batch
    BY DEF First, Selectable
  <2> HIDE DEF batch
  <2>2. rows' = [rows EXCEPT ![t][q] = batch]
    BY <1>5 DEF Poll, batch
  <2>3. status'[m] \in {"acked", "gone"}
    BY <1>5 DEF Poll
  <2>4. QED
    BY <1>0, <2>1, <2>2, <2>3 DEF TypeOK
<1>6. ASSUME NEW t \in Threads, NEW q \in Consumed, Deliver(t, q) PROVE <1>1!1
  <2>1. status' = status /\ (rows' = rows \/ Lost(t))
    BY <1>6 DEF Deliver
  <2>2. CASE rows' = rows
    BY <1>0, <2>1, <2>2
  <2>3. CASE Lost(t)
    <3>1. \A u \in Threads, p \in Consumed : rows'[u][p] \subseteq rows[u][p]
      BY <2>3 DEF Lost, TypeOK
    <3>2. QED
      BY <1>0, <2>1, <3>1
  <2>4. QED
    BY <2>1, <2>2, <2>3
<1>7. ASSUME NEW t \in Threads, NEW q \in Consumed, NEW k \in Msgs, Settle(t, q, k)
      PROVE  <1>1!1
  <2>1. k # m
    BY <1>0, <1>7 DEF Settle
  <2>2. status'[m] = status[m]
    BY <1>7, <2>1 DEF Settle, AckRow, GiveUp, rowVars, TypeOK
  <2>3. \A u \in Threads, p \in Consumed : rows'[u][p] \subseteq rows[u][p]
    BY <1>7 DEF Settle, TypeOK
  <2>4. QED
    BY <1>0, <2>2, <2>3
<1>8. ASSUME NEW l \in leases, PullAck(l) PROVE <1>1!1
  BY <1>0, <1>8 DEF PullAck, AckRow, Exists, TypeOK, Lease, consumerVars
<1>9. ASSUME NEW k \in Msgs, Requeue(k) PROVE <1>1!1
  BY <1>0, <1>9 DEF Requeue, TypeOK, consumerVars
<1>10. ASSUME NEW k \in Msgs, DeleteMessage(k) PROVE <1>1!1
  BY <1>0, <1>10 DEF DeleteMessage, TypeOK, consumerVars
<1>11. ASSUME NEW q \in Queues, Purge(q) PROVE <1>1!1
  BY <1>0, <1>11 DEF Purge, TypeOK, consumerVars
<1>12. QED
  BY <1>2, <1>3, <1>4, <1>5, <1>6, <1>7, <1>8, <1>9, <1>10, <1>11
  DEF Next, vars, rowVars, consumerVars, Due, Age, StartThread, StopThread, Pull,
      LeaseExpires, PullRetry

\* An ack is final for every number of generations that overlap, crash and
\* redeliver: once it is written and no thread holds the row, no poll, late
\* batch, move to a dead letter queue, pull or expired lease reopens it.
THEOREM AckFinal == Spec => AckSticks
<1>1. SUFFICES ASSUME NEW m \in Msgs \ Touched
               PROVE  Spec => [](status[m] = "acked" /\ Unheld(m)
                                   => [](status[m] \in {"acked", "gone"}))
  BY DEF AckSticks
<1>2. TypeOK /\ Closed(m) /\ [Next]_vars => Closed(m)'
  BY ClosedStable
<1>3. status[m] = "acked" /\ Unheld(m) => Closed(m)
  BY DEF Closed
<1>4. Closed(m) => status[m] \in {"acked", "gone"}
  BY DEF Closed
<1>5. QED
  BY <1>2, <1>3, <1>4, Typing, PTL DEF Spec

-----------------------------------------------------------------------------
(***************************************************************************)
(* FullRetries rests on what a batch knows about its rows: while a row is  *)
(* still in the queue it was selected from, the attempts the batch read    *)
(* have all been deliveries from that queue.  It needs two assumptions,    *)
(* each of which a run shows to be necessary: dead letter queues have no   *)
(* consumer, and every body decodes.                                       *)
(***************************************************************************)
Counted(m) ==
  queue[m] \in Consumed \/ status[m] = "none" => attempts[m] <= given[m]

Backed(t, q, m) ==
  m \in rows[t][q] =>
    /\ status[m] # "none"
    /\ phase[t][q] # "idle"
    /\ queue[m] = q \/ queue[m] = DeadLetter[q]
    /\ queue[m] = q => snap[t][q][m] + (IF phase[t][q] = "delivered" THEN 1 ELSE 0) <= given[m]

CountInv ==
  \A m \in Msgs \ Touched :
    /\ Counted(m)
    /\ \A t \in Threads, q \in Consumed : Backed(t, q, m)

PlainDelivery ==
  /\ Poison = {}
  /\ \A q \in Consumed : DeadLetter[q] \notin Consumed

\* CountInv is inductive.
LEMMA CountStep ==
  ASSUME PlainDelivery, TypeOK, CountInv, [Next]_vars
  PROVE  CountInv'
<1> USE QueueAssumption
<1> SUFFICES ASSUME NEW m \in Msgs \ Touched
             PROVE  /\ Counted(m)'
                    /\ \A t \in Threads, q \in Consumed : Backed(t, q, m)'
  BY DEF CountInv
<1>0. /\ Counted(m)
      /\ \A t \in Threads, q \in Consumed : Backed(t, q, m)
  BY DEF CountInv
<1> DEFINE Goal == /\ Counted(m)'
                   /\ \A t \in Threads, q \in Consumed : Backed(t, q, m)'
           Same == /\ status'[m] = status[m] \/ (status[m] # "none" /\ status'[m] # "none")
                   /\ queue'[m] = queue[m]
                   /\ attempts'[m] = attempts[m]
                   /\ given'[m] = given[m]
<1>1. CASE Same /\ UNCHANGED <<phase, rows, snap>>
  BY <1>0, <1>1 DEF Counted, Backed
<1>2. ASSUME NEW k \in Msgs, NEW q \in Queues, Send(k, q) PROVE Goal
  <2>1. CASE k = m
    <3>1. status[m] = "none" /\ attempts[m] <= given[m]
      BY <1>0, <1>2, <2>1 DEF Send, Counted
    <3>2. \A t \in Threads, p \in Consumed : m \notin rows[t][p]
      BY <1>0, <3>1 DEF Backed
    <3>3. QED
      BY <1>2, <3>1, <3>2 DEF Send, Counted, Backed, consumerVars
  <2>2. CASE k # m
    BY <1>1, <1>2, <2>2 DEF Send, TypeOK, consumerVars
  <2>3. QED
    BY <2>1, <2>2
<1>3. ASSUME NEW t \in Threads, Lost(t), Same PROVE Goal
  <2>1. ASSUME NEW u \in Threads, NEW q \in Consumed, m \in rows'[u][q]
        PROVE  /\ u # t
               /\ rows'[u][q] = rows[u][q]
               /\ phase'[u][q] = phase[u][q]
               /\ snap'[u][q] = snap[u][q]
    BY <1>3, <2>1 DEF Lost, TypeOK
  <2>2. QED
    BY <1>0, <1>3, <2>1 DEF Counted, Backed
<1>4. ASSUME NEW t \in Threads, NEW q \in Consumed, Poll(t, q) PROVE Goal
  <2> DEFINE expired == {k \in old : Exists(k) /\ queue[k] = q}
             batch   == First(MaxBatch, Selectable(q, expired))
  <2>1. m \in batch => queue[m] = q /\ status[m] = "pending" /\ m \notin expired
    BY DEF First, Selectable
  <2>2. Same
    BY <1>4 DEF Poll, Exists
  <2> HIDE DEF batch
  <2>3. /\ rows' = [rows EXCEPT ![t][q] = batch]
        /\ snap' = [snap EXCEPT ![t][q] = [k \in Msgs |-> IF k \in batch THEN attempts[k] ELSE 0]]
        /\ phase' = [phase EXCEPT ![t][q] = IF batch = {} THEN "idle" ELSE "selected"]
    BY <1>4 DEF Poll, batch
  <2>4. Counted(m)'
    BY <1>0, <2>2 DEF Counted
  <2>5. Backed(t, q, m)'
    <3> SUFFICES ASSUME m \in rows'[t][q] PROVE Backed(t, q, m)'
      BY DEF Backed
    <3>1. m \in batch
      BY <2>3 DEF TypeOK
    <3>2. phase'[t][q] = "selected" /\ snap'[t][q][m] = attempts[m]
      BY <2>3, <3>1 DEF TypeOK
    <3>3. attempts[m] <= given[m]
      BY <1>0, <2>1, <3>1 DEF Counted
    <3>4. attempts[m] \in Nat
      BY DEF TypeOK
    <3>5. QED
      BY <2>1, <2>2, <3>1, <3>2, <3>3, <3>4 DEF Backed
  <2>6. ASSUME NEW u \in Threads, NEW p \in Consumed, u # t \/ p # q PROVE Backed(u, p, m)'
    <3>1. /\ rows'[u][p] = rows[u][p]
          /\ snap'[u][p] = snap[u][p]
          /\ phase'[u][p] = phase[u][p]
      BY <2>3, <2>6 DEF TypeOK
    <3>2. QED
      BY <1>0, <2>2, <3>1 DEF Backed
  <2>7. QED
    BY <2>4, <2>5, <2>6
<1>5. ASSUME NEW t \in Threads, NEW q \in Consumed, Deliver(t, q) PROVE Goal
  <2>1. rows[t][q] \cap Poison = {}
    BY DEF PlainDelivery
  <2>2. /\ phase' = [phase EXCEPT ![t][q] = "delivered"]
        /\ given' = [k \in Msgs |-> IF k \in rows[t][q] /\ queue[k] = q
                                      THEN given[k] + 1 ELSE given[k]]
        /\ UNCHANGED <<life, rows, snap>>
    BY <1>5, <2>1, Zenon DEF Deliver
  <2>3. /\ status' = status /\ queue' = queue
        /\ attempts' = [k \in Msgs |-> IF k \in rows[t][q] /\ Exists(k)
                                         THEN attempts[k] + 1 ELSE attempts[k]]
        /\ phase[t][q] = "selected"
    BY <1>5 DEF Deliver, CountAttempts
  <2>4. /\ given[m] \in Nat /\ attempts[m] \in Nat
        /\ given'[m] \in Nat /\ given'[m] >= given[m]
    BY <2>2 DEF TypeOK
  <2>5. Counted(m)'
    <3>1. CASE m \notin rows[t][q] \/ ~Exists(m)
      BY <1>0, <2>3, <2>4, <3>1 DEF Counted
    <3>2. CASE m \in rows[t][q] /\ Exists(m)
      <4>1. queue[m] = q \/ queue[m] \notin Consumed
        BY <1>0, <3>2 DEF Backed, PlainDelivery
      <4>2. CASE queue[m] = q
        BY <1>0, <2>2, <2>3, <2>4, <3>2, <4>2 DEF Counted
      <4>3. CASE queue[m] \notin Consumed
        BY <2>3, <3>2, <4>3 DEF Counted, Exists
      <4>4. QED
        BY <4>1, <4>2, <4>3
    <3>3. QED
      BY <3>1, <3>2
  <2>6. Backed(t, q, m)'
    <3> SUFFICES ASSUME m \in rows[t][q] PROVE Backed(t, q, m)'
      BY <2>2 DEF Backed
    <3>1. phase'[t][q] = "delivered"
      BY <2>2 DEF TypeOK
    <3>2. snap[t][q][m] \in Nat
      BY DEF TypeOK
    <3>3. queue[m] = q => snap[t][q][m] <= given[m] /\ given'[m] = given[m] + 1
      BY <1>0, <2>2, <2>3, <3>2 DEF Backed
    <3>4. QED
      BY <1>0, <2>2, <2>3, <2>4, <3>1, <3>2, <3>3 DEF Backed
  <2>7. ASSUME NEW u \in Threads, NEW p \in Consumed, u # t \/ p # q PROVE Backed(u, p, m)'
    <3>1. phase'[u][p] = phase[u][p]
      BY <2>2, <2>7 DEF TypeOK
    <3>2. snap[u][p][m] \in Nat
      BY DEF TypeOK
    <3>3. QED
      BY <1>0, <2>2, <2>3, <2>4, <3>1, <3>2 DEF Backed
  <2>8. QED
    BY <2>5, <2>6, <2>7
<1>6. ASSUME NEW t \in Threads, NEW q \in Consumed, NEW k \in Msgs, Settle(t, q, k) PROVE Goal
  <2>1. ASSUME NEW u \in Threads, NEW p \in Consumed, m \in rows'[u][p]
        PROVE  /\ m \in rows[u][p]
               /\ snap'[u][p][m] = snap[u][p][m]
               /\ phase'[u][p] = phase[u][p]
    <3>1. /\ rows' = [rows EXCEPT ![t][q] = @ \ {k}]
          /\ snap' = [snap EXCEPT ![t][q][k] = 0]
          /\ phase' = [phase EXCEPT ![t][q] = IF rows[t][q] = {k} THEN "idle" ELSE @]
      BY <1>6 DEF Settle
    <3>2. CASE u = t /\ p = q
      <4>1. m \in rows[t][q] /\ m # k
        BY <2>1, <3>1, <3>2 DEF TypeOK
      <4>2. rows[t][q] # {k}
        BY <4>1
      <4>3. QED
        BY <3>1, <3>2, <4>1, <4>2 DEF TypeOK
    <3>3. CASE u # t \/ p # q
      BY <2>1, <3>1, <3>3 DEF TypeOK
    <3>4. QED
      BY <3>2, <3>3
  <2>2. CASE Same
    BY <1>0, <2>1, <2>2 DEF Counted, Backed
  <2>3. CASE ~Same
    <3>1. k = m /\ GiveUp(m, q) /\ Exists(m) /\ DeadLetter[q] # None
      BY <1>6, <2>3 DEF Settle, AckRow, GiveUp, Exists, rowVars, TypeOK
    <3>2. queue'[m] = DeadLetter[q] /\ status'[m] = "pending"
      BY <3>1 DEF GiveUp, TypeOK
    <3>3. Counted(m)'
      BY <3>2 DEF Counted, PlainDelivery
    <3>4. m \in rows[t][q]
      BY <1>6, <3>1 DEF Settle
    <3>5. ASSUME NEW u \in Threads, NEW p \in Consumed, m \in rows'[u][p]
          PROVE  DeadLetter[p] = DeadLetter[q]
      <4>1. m \in rows[u][p]
        BY <2>1, <3>5
      <4>2. /\ queue[m] = q \/ queue[m] = DeadLetter[q]
            /\ queue[m] = p \/ queue[m] = DeadLetter[p]
        BY <1>0, <3>4, <4>1 DEF Backed
      <4>3. DeadLetter[q] # p /\ DeadLetter[p] # q
        BY DEF PlainDelivery
      <4>4. QED
        BY <4>2, <4>3
    <3>6. QED
      BY <1>0, <2>1, <3>2, <3>3, <3>5 DEF Backed, PlainDelivery
  <2>4. QED
    BY <2>2, <2>3
<1>7. ASSUME NEW q \in Pulled, NEW n \in 1..MaxBatch, Pull(q, n) PROVE Goal
  <2> DEFINE valid == First(n, Pullable(q)) \ V8
  <2>1. \A k \in valid : Exists(k)
    BY DEF First, Pullable, Exists
  <2> HIDE DEF valid
  <2>2. /\ attempts' = [k \in Msgs |-> IF k \in valid /\ Exists(k)
                                         THEN attempts[k] + 1 ELSE attempts[k]]
        /\ given' = [k \in Msgs |-> IF k \in valid THEN given[k] + 1 ELSE given[k]]
        /\ UNCHANGED <<status, queue, phase, rows, snap>>
    BY <1>7 DEF Pull, CountAttempts, consumerVars, valid
  <2>3. /\ given[m] \in Nat /\ attempts[m] \in Nat
        /\ \A t \in Threads, p \in Consumed : snap[t][p][m] \in Nat
    BY DEF TypeOK
  <2>4. CASE m \notin valid
    BY <1>1, <2>2, <2>4
  <2>5. CASE m \in valid
    <3>1. attempts'[m] = attempts[m] + 1 /\ given'[m] = given[m] + 1
      BY <2>1, <2>2, <2>5
    <3>2. QED
      BY <1>0, <2>2, <2>3, <3>1 DEF Counted, Backed
  <2>6. QED
    BY <2>4, <2>5
<1>8. ASSUME NEW l \in leases, PullAck(l) PROVE Goal
  BY <1>1, <1>8 DEF PullAck, AckRow, Exists, TypeOK, consumerVars
<1>9. ASSUME NEW k \in Msgs, Requeue(k) PROVE Goal
  BY <1>1, <1>9 DEF Requeue, TypeOK, consumerVars
<1>10. ASSUME NEW k \in Msgs, DeleteMessage(k) PROVE Goal
  BY <1>1, <1>10 DEF DeleteMessage, Exists, TypeOK, consumerVars
<1>11. ASSUME NEW q \in Queues, Purge(q) PROVE Goal
  BY <1>1, <1>11 DEF Purge, Exists, TypeOK, consumerVars
<1>12. ASSUME NEW t \in Threads, KillThread(t) PROVE Goal
  BY <1>3, <1>12 DEF KillThread, rowVars
<1>13. CASE UNCHANGED <<status, queue, attempts, given, phase, rows, snap>>
  BY <1>1, <1>13
<1>14. QED
  BY <1>2, <1>4, <1>5, <1>6, <1>7, <1>8, <1>9, <1>10, <1>11, <1>12, <1>13
  DEF Next, vars, rowVars, consumerVars, Due, Age, StartThread, StopThread,
      LeaseExpires, PullRetry

\* The step that gives a message up comes after max_retries deliveries.
LEMMA GiveUpLate ==
  ASSUME PlainDelivery, TypeOK, CountInv, [Next]_vars, NEW m \in Msgs \ Touched,
         status[m] = "pending", status'[m] = "failed" \/ queue'[m] # queue[m]
  PROVE  given[m] >= MaxRetries
<1> USE QueueAssumption
<1>1. PICK t \in Threads, q \in Consumed :
        /\ phase[t][q] = "delivered"
        /\ m \in rows[t][q]
        /\ Exhausted(snap[t][q][m] + 1)
        /\ GiveUp(m, q)
  <2>1. \E t \in Threads, q \in Consumed, k \in Msgs : Settle(t, q, k)
    <3>1. ASSUME NEW k \in Msgs, NEW q \in Queues, Send(k, q) PROVE FALSE
      BY <3>1 DEF Send, TypeOK
    <3>2. ASSUME NEW t \in Threads, NEW q \in Consumed, Poll(t, q) PROVE FALSE
      BY <3>2 DEF Poll
    <3>3. ASSUME NEW l \in leases, PullAck(l) PROVE FALSE
      BY <3>3 DEF PullAck, AckRow, TypeOK
    <3>4. ASSUME NEW k \in Msgs, Requeue(k) \/ DeleteMessage(k) PROVE FALSE
      BY <3>4 DEF Requeue, DeleteMessage, TypeOK
    <3>5. ASSUME NEW q \in Queues, Purge(q) PROVE FALSE
      BY <3>5 DEF Purge
    <3>6. ~(UNCHANGED <<status, queue>>)
      OBVIOUS
    <3>7. QED
      BY <3>1, <3>2, <3>3, <3>4, <3>5, <3>6
      DEF Next, vars, rowVars, Due, Age, StartThread, StopThread, KillThread, Deliver, Pull,
          LeaseExpires, PullRetry
  <2>2. PICK t \in Threads, q \in Consumed, k \in Msgs : Settle(t, q, k)
    BY <2>1
  <2>3. k = m
    BY <2>2 DEF Settle, AckRow, GiveUp, rowVars, TypeOK
  <2>4. ~AckRow(m)
    BY DEF AckRow, TypeOK
  <2>5. ~UNCHANGED rowVars
    BY DEF rowVars
  <2>6. QED
    BY <2>2, <2>3, <2>4, <2>5 DEF Settle
<1>2. Backed(t, q, m)
  BY DEF CountInv
<1>3. queue[m] = q
  <2>1. queue[m] = q \/ queue[m] = DeadLetter[q]
    BY <1>1, <1>2 DEF Backed
  <2>2. CASE DeadLetter[q] = None
    BY <2>1, <2>2 DEF TypeOK
  <2>3. CASE DeadLetter[q] # None
    <3>1. status'[m] = "pending" /\ queue'[m] = DeadLetter[q]
      BY <1>1, <2>3 DEF GiveUp, Exists, TypeOK
    <3>2. QED
      BY <2>1, <3>1
  <2>4. QED
    BY <2>2, <2>3
<1>4. snap[t][q][m] + 1 <= given[m]
  BY <1>1, <1>2, <1>3 DEF Backed
<1>5. snap[t][q][m] \in Nat /\ given[m] \in Nat
  BY DEF TypeOK
<1>6. QED
  BY <1>1, <1>4, <1>5 DEF Exhausted

\* With dead letter queues that have no consumer and bodies that decode, a
\* message is given up only after max_retries deliveries from its queue, for
\* any number of threads that overlap, race for the same rows and die.
THEOREM RetriesComplete ==
  ASSUME PlainDelivery
  PROVE  Spec => FullRetries
<1>1. Init => CountInv
  BY DEF Init, CountInv, Counted, Backed
<1>2. TypeOK /\ CountInv /\ [Next]_vars => CountInv'
  BY CountStep
<1>3. TypeOK /\ CountInv /\ [Next]_vars =>
        [\A m \in Msgs \ Touched :
           status[m] = "pending" /\ (status'[m] = "failed" \/ queue'[m] # queue[m])
             => given[m] >= MaxRetries]_vars
  BY GiveUpLate
<1>4. QED
  BY <1>1, <1>2, <1>3, Typing, PTL DEF Spec, FullRetries
=============================================================================
