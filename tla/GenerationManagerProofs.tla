----------------------- MODULE GenerationManagerProofs -----------------------
(***************************************************************************)
(* What holds of GenerationManager for every number of requests, batches,  *)
(* instances, callers and generations.                                     *)
(***************************************************************************)
EXTENDS GenerationManager, SequenceTheorems, TLAPS

-----------------------------------------------------------------------------
(* Types.                                                                  *)

\* What dispose() and _failAll leave behind keeps its type (Terminate).
LEMMA TerminateType ==
  ASSUME TypeOK, NEW g \in Gens, NEW why \in Causes, Terminate(g, why)
  PROVE  /\ cause' \in [Gens -> Causes]
         /\ RequestType'
         /\ outbox' \in [Gens -> Seq(ToMain)]
         /\ tracked' \in [Gens -> SUBSET Work]
         /\ execs' \in [Instances -> [Gens -> Nat]]
  <1> USE DEF TypeOK, Terminate
  <1>1. cause' \in [Gens -> Causes]
    BY DEF ManagerType
  <1>2. phase' \in [Reqs -> Phases]
    BY DEF RequestType, Phases
  <1>3. bg' \in [Work -> {"none", "running", "settled", "killed"}]
    BY DEF RequestType
  <1>4. wk' \in [Reqs -> {"none", "running", "streaming", "finished"}]
    BY DEF RequestType
  <1>5. outbox' \in [Gens -> Seq(ToMain)]
    BY DEF ChannelType
  <1>6. tracked' \in [Gens -> SUBSET Work]
    BY DEF ChannelType
  <1>7. execs' \in [Instances -> [Gens -> Nat]]
    BY DEF WorkflowType
  <1> QED BY <1>1, <1>2, <1>3, <1>4, <1>5, <1>6, <1>7 DEF RequestType

\* What finish() of _scheduleDrainAndStop leaves behind keeps its type (Finish).
LEMMA FinishType ==
  ASSUME TypeOK, NEW g \in Gens, NEW a \in Gens \cup {NoGen}, NEW st, NEW why \in Causes,
         Finish(g, a, st, why)
  PROVE  /\ Terminate(g, why)
         /\ resumed' \subseteq Gens
         /\ ChannelType'
  <1>1. Terminate(g, why)
    BY DEF Finish
  <1>2. outbox' \in [Gens -> Seq(ToMain)] /\ tracked' \in [Gens -> SUBSET Work]
    BY <1>1, TerminateType
  <1>3. CASE a # NoGen /\ OlderStopped(a, st)
    <2>1. ResumeWorkflows(a, g)
      BY <1>3 DEF Finish
    <2>2. [type |-> "resume"] \in ToWorker
      BY DEF ToWorker
    <2>3. inbox' \in [Gens -> Seq(ToWorker)]
      BY <2>1, <2>2 DEF ResumeWorkflows, TypeOK, ChannelType
    <2>4. ctl' \in [Gens -> BOOLEAN]
      BY <2>1 DEF ResumeWorkflows, TypeOK, ChannelType
    <2>5. resumed' \subseteq Gens
      BY <1>3, <2>1 DEF ResumeWorkflows, TypeOK, ManagerType
    <2> QED BY <1>1, <1>2, <2>3, <2>4, <2>5 DEF ChannelType
  <1>4. CASE ~(a # NoGen /\ OlderStopped(a, st))
    <2>1. /\ inbox' = [inbox EXCEPT ![g] = <<>>]
          /\ ctl' = [ctl EXCEPT ![g] = FALSE]
          /\ resumed' = resumed
      BY <1>4 DEF Finish
    <2>2. inbox' \in [Gens -> Seq(ToWorker)]
      BY <2>1 DEF TypeOK, ChannelType
    <2>3. ctl' \in [Gens -> BOOLEAN]
      BY <2>1 DEF TypeOK, ChannelType
    <2> QED BY <1>1, <1>2, <2>1, <2>2, <2>3 DEF TypeOK, ManagerType, ChannelType
  <1> QED BY <1>3, <1>4

\* The end of a load keeps the types of the callers (SettleLoad).
LEMMA SettleType ==
  ASSUME TypeOK, NEW outcome \in {"resolved", "rejected"}, SettleLoad(outcome)
  PROVE  ReloadType'
  <1>1. caller' \in [Callers -> {"idle", "resolved", "rejected"} \cup Waiting]
    BY DEF TypeOK, ReloadType, SettleLoad, Waiting
  <1>2. got' \in [Callers -> Nat]
    BY DEF TypeOK, ReloadType, SettleLoad
  <1> QED BY <1>1, <1>2 DEF TypeOK, ReloadType, SettleLoad

\* A message posted by a worker thread keeps the types of the channels (Post).
LEMMA PostType ==
  ASSUME TypeOK, NEW g, NEW m \in ToMain, Post(g, m)
  PROVE  outbox' \in [Gens -> Seq(ToMain)]
  <1>1. CASE g \in Gens
    <2>1. Append(outbox[g], m) \in Seq(ToMain)
      BY <1>1 DEF TypeOK, ChannelType
    <2> QED BY <2>1 DEF TypeOK, ChannelType, Post
  <1>2. CASE g \notin Gens
    BY <1>2 DEF TypeOK, ChannelType, Post
  <1> QED BY <1>1, <1>2

\* The members of the message sets.
LEMMA MessageType ==
  /\ [type |-> "resume"] \in ToWorker
  /\ [type |-> "stopQueue"] \in ToWorker
  /\ [type |-> "resumed"] \in ToMain
  /\ \A r \in Reqs : [type |-> "fetch", of |-> r] \in ToWorker
  /\ \A r \in Reqs, t \in {"result", "stream", "end"} : [type |-> t, of |-> r] \in ToMain
  /\ \A w \in Work, t \in {"wuAdd", "wuSettle"} : [type |-> t, of |-> w] \in ToMain
  BY DEF ToWorker, ToMain

\* The steps of the manager keep the types.
LEMMA ManagerTypeStep ==
  ASSUME TypeOK,
         \/ \E c \in Callers : CallReload(c)
         \/ FollowUp \/ LoadFails \/ FirstLoad \/ ReloadOverBusy \/ ReloadOverIdle
         \/ \E g \in Gens : IdleFinish(g) \/ GraceFinish(g) \/ ForceStop(g) \/ Forget(g) \/ Crash(g)
  PROVE  TypeOK'
  <1> USE GenAssumption
  <1> USE DEF TypeOK
  <1>1. ASSUME NEW c \in Callers, CallReload(c) PROVE TypeOK'
    <2>1. ReloadType'
      <3>1. asked' \in [Callers -> Nat]
        BY <1>1 DEF CallReload, ReloadType
      <3>2. caller' \in [Callers -> {"idle", "resolved", "rejected"} \cup Waiting]
        BY <1>1 DEF CallReload, ReloadType, Waiting
      <3>3. \/ loading' = loading /\ loads' = loads
            \/ loading' = TRUE /\ loads' = loads + 1
        BY <1>1 DEF CallReload, StartLoad
      <3>4. loads' \in Nat /\ got' = got
        BY <1>1, <3>3 DEF CallReload, ReloadType
      <3>5. loading' \in BOOLEAN
        BY <3>3 DEF ReloadType
      <3> QED BY <3>1, <3>2, <3>4, <3>5 DEF ReloadType
    <2>2. UNCHANGED <<managerVars, requestVars, channelVars, workflowVars>>
      BY <1>1 DEF CallReload
    <2> QED BY <2>1, <2>2 DEF managerVars, requestVars, channelVars, workflowVars,
                              ManagerType, RequestType, ChannelType, WorkflowType
  <1>2. CASE FollowUp
    <2>1. caller' \in [Callers -> {"idle", "resolved", "rejected"} \cup Waiting]
      BY <1>2 DEF ReloadType, FollowUp, Waiting
    <2>2. ReloadType'
      <3>1. \/ loading' = loading /\ loads' = loads
            \/ loading' = TRUE /\ loads' = loads + 1
        BY <1>2 DEF FollowUp, StartLoad
      <3>2. loads' \in Nat /\ asked' = asked /\ got' = got
        BY <1>2, <3>1 DEF FollowUp, ReloadType
      <3>3. loading' \in BOOLEAN
        BY <3>1 DEF ReloadType
      <3> QED BY <2>1, <3>2, <3>3 DEF ReloadType
    <2>3. UNCHANGED <<managerVars, requestVars, channelVars, workflowVars>>
      BY <1>2 DEF FollowUp
    <2> QED BY <2>2, <2>3 DEF managerVars, requestVars, channelVars, workflowVars,
                              ManagerType, RequestType, ChannelType, WorkflowType
  <1>3. CASE LoadFails
    <2>1. ReloadType'
      BY <1>3, SettleType DEF LoadFails
    <2>2. UNCHANGED <<managerVars, requestVars, channelVars, workflowVars>>
      BY <1>3 DEF LoadFails
    <2> QED BY <2>1, <2>2 DEF managerVars, requestVars, channelVars, workflowVars,
                              ManagerType, RequestType, ChannelType, WorkflowType
  <1>4. CASE FirstLoad
    <2>1. LoadSucceeds
      BY <1>4 DEF FirstLoad
    <2>2. nextGen \in Gens /\ ReloadType'
      BY <2>1, SettleType DEF LoadSucceeds, ManagerType, Gens
    <2>3. ManagerType'
      BY <1>4, <2>1, <2>2 DEF FirstLoad, LoadSucceeds, ManagerType, States, Gens
    <2>4. inbox' \in [Gens -> Seq(ToWorker)]
      BY <1>4, <2>2, MessageType DEF FirstLoad, ChannelType
    <2>5. ChannelType'
      BY <1>4, <2>4 DEF FirstLoad, ChannelType
    <2> QED BY <1>4, <2>1, <2>2, <2>3, <2>5 DEF FirstLoad, LoadSucceeds, RequestType, WorkflowType, requestVars
  <1>5. CASE ReloadOverBusy
    <2>1. LoadSucceeds
      BY <1>5 DEF ReloadOverBusy
    <2>2. nextGen \in Gens /\ activeGen \in Gens /\ ReloadType'
      BY <1>5, <2>1, SettleType DEF ReloadOverBusy, LoadSucceeds, ManagerType, Gens
    <2>3. ManagerType'
      BY <1>5, <2>1, <2>2 DEF ReloadOverBusy, LoadSucceeds, ManagerType, States, Gens
    <2>4. inbox' \in [Gens -> Seq(ToWorker)]
      BY <1>5, <2>2, MessageType DEF ReloadOverBusy, ChannelType
    <2>5. ChannelType'
      BY <1>5, <2>4 DEF ReloadOverBusy, ChannelType
    <2> QED BY <1>5, <2>1, <2>2, <2>3, <2>5 DEF ReloadOverBusy, LoadSucceeds, RequestType, WorkflowType, requestVars
  <1>6. CASE ReloadOverIdle
    <2> DEFINE st == [state EXCEPT ![nextGen] = "active", ![activeGen] = "stopped"]
    <2>1. LoadSucceeds /\ Finish(activeGen, activeGen, st, "idle")
      BY <1>6 DEF ReloadOverIdle
    <2>2. nextGen \in Gens /\ activeGen \in Gens /\ ReloadType'
      BY <1>6, <2>1, SettleType DEF ReloadOverIdle, LoadSucceeds, ManagerType, Gens
    <2>3. "idle" \in Causes
      BY DEF Causes
    <2>4. /\ Terminate(activeGen, "idle")
          /\ resumed' \subseteq Gens
          /\ ChannelType'
      <3> HIDE DEF st
      <3> QED BY <2>1, <2>2, <2>3, FinishType
    <2>5. /\ cause' \in [Gens -> Causes]
          /\ RequestType'
          /\ execs' \in [Instances -> [Gens -> Nat]]
      BY <2>2, <2>3, <2>4, TerminateType
    <2>6. state' \in [Gens -> States] /\ alive' \in [Gens -> BOOLEAN]
      BY <1>6, <2>2 DEF ReloadOverIdle, ManagerType, States
    <2>7. ManagerType'
      <3>1. finishing' = finishing
        BY <1>6 DEF ReloadOverIdle
      <3>2. activeGen' \in Gens /\ nextGen' \in 1..(MaxGen + 1)
        BY <2>1, <2>2 DEF LoadSucceeds, ManagerType, Gens
      <3> QED BY <2>4, <2>5, <2>6, <3>1, <3>2 DEF ManagerType
    <2> QED BY <2>1, <2>2, <2>4, <2>5, <2>7 DEF LoadSucceeds, WorkflowType
  <1>7. ASSUME NEW g \in Gens, IdleFinish(g) \/ GraceFinish(g) PROVE TypeOK'
    <2>1. PICK why \in Causes : Finish(g, activeGen, state', why)
      BY <1>7 DEF IdleFinish, GraceFinish, Causes
    <2>2. /\ Terminate(g, why)
          /\ resumed' \subseteq Gens
          /\ ChannelType'
      BY <2>1, FinishType DEF ManagerType
    <2>3. /\ cause' \in [Gens -> Causes]
          /\ RequestType'
          /\ execs' \in [Instances -> [Gens -> Nat]]
      BY <2>2, TerminateType
    <2>4. ManagerType'
      BY <1>7, <2>2, <2>3 DEF IdleFinish, GraceFinish, ManagerType, States
    <2>5. ReloadType' /\ WorkflowType'
      BY <1>7, <2>3 DEF IdleFinish, GraceFinish, reloadVars, ReloadType, WorkflowType
    <2> QED BY <2>2, <2>3, <2>4, <2>5
  <1>8. ASSUME NEW g \in Gens, ForceStop(g) \/ Crash(g) PROVE TypeOK'
    <2>1. PICK why \in Causes : Terminate(g, why)
      BY <1>8 DEF ForceStop, Crash, Causes
    <2>2. /\ cause' \in [Gens -> Causes]
          /\ RequestType'
          /\ outbox' \in [Gens -> Seq(ToMain)]
          /\ tracked' \in [Gens -> SUBSET Work]
          /\ execs' \in [Instances -> [Gens -> Nat]]
      BY <2>1, TerminateType
    <2>3. ManagerType'
      BY <1>8, <2>2 DEF ForceStop, Crash, ManagerType, States
    <2>4. inbox' \in [Gens -> Seq(ToWorker)] /\ ctl' \in [Gens -> BOOLEAN]
      <3>1. inbox' = [inbox EXCEPT ![g] = <<>>] /\ ctl' = [ctl EXCEPT ![g] = FALSE]
        BY <1>8 DEF ForceStop, Crash
      <3>2. inbox' \in [Gens -> Seq(ToWorker)]
        BY <3>1 DEF ChannelType
      <3> QED BY <3>1, <3>2 DEF ChannelType
    <2>5. ReloadType' /\ WorkflowType'
      BY <1>8, <2>2 DEF ForceStop, Crash, reloadVars, ReloadType, WorkflowType
    <2> QED BY <2>2, <2>3, <2>4, <2>5 DEF ChannelType
  <1>9. ASSUME NEW g \in Gens, Forget(g) PROVE TypeOK'
    <2>1. ManagerType'
      BY <1>9 DEF Forget, ManagerType, States
    <2>2. UNCHANGED <<reloadVars, requestVars, channelVars, workflowVars>>
      BY <1>9 DEF Forget
    <2> QED BY <2>1, <2>2 DEF reloadVars, requestVars, channelVars, workflowVars,
                              ReloadType, RequestType, ChannelType, WorkflowType
  <1> QED BY <1>1, <1>2, <1>3, <1>4, <1>5, <1>6, <1>7, <1>8, <1>9

\* Reading the next message of a channel keeps its type.
LEMMA TailType ==
  ASSUME NEW S, NEW T, NEW f \in [T -> Seq(S)], NEW g \in T, f[g] # <<>>
  PROVE  [f EXCEPT ![g] = Tail(@)] \in [T -> Seq(S)] /\ Head(f[g]) \in S
  OBVIOUS

\* The steps of the requests, of the worker threads and of the workflows keep
\* the types.
LEMMA WorkTypeStep ==
  ASSUME TypeOK,
         \/ \E r \in Reqs : Arrive(r) \/ AssetLookup(r) \/ WaitUntil(r) \/ Reply(r) \/ EndStream(r)
         \/ \E g \in Gens : HandleMessage(g) \/ WorkerReceives(g)
         \/ \E b \in Batches, g \in Gens : StartBatch(b, g)
         \/ \E w \in Work : SettleWork(w)
         \/ \E r \in Reqs, i \in Instances : CreateWorkflow(r, i)
         \/ \E i \in Instances, g \in Gens : CompleteWorkflow(i, g)
  PROVE  TypeOK'
  <1> USE DEF TypeOK
  <1>0. ASSUME NEW r \in Reqs, NEW g \in Gens, ExecuteFetch(r, g)
        PROVE  phase' \in [Reqs -> Phases] /\ inbox' \in [Gens -> Seq(ToWorker)]
    <2>1. Append(inbox[g], [type |-> "fetch", of |-> r]) \in Seq(ToWorker)
      BY MessageType DEF ChannelType
    <2>2. inbox' \in [Gens -> Seq(ToWorker)]
      BY <1>0, <2>1 DEF ExecuteFetch, ChannelType
    <2>3. phase' \in [Reqs -> Phases]
      BY <1>0 DEF ExecuteFetch, RequestType, Phases
    <2> QED BY <2>2, <2>3
  <1>1. ASSUME NEW r \in Reqs, Arrive(r) PROVE TypeOK'
    <2>1. activeGen \in Gens
      BY <1>1 DEF Arrive, ManagerType
    <2>2. phase' \in [Reqs -> Phases] /\ inbox' \in [Gens -> Seq(ToWorker)]
      <3>1. CASE r \in AssetFirst
        BY <1>1, <3>1 DEF Arrive, RequestType, ChannelType, Phases
      <3>2. CASE r \notin AssetFirst
        BY <1>0, <1>1, <2>1, <3>2 DEF Arrive
      <3> QED BY <3>1, <3>2
    <2>3. at' \in [Work -> Gens \cup {NoGen}]
      BY <1>1, <2>1 DEF Arrive, RequestType
    <2>4. UNCHANGED <<managerVars, reloadVars, wk, bg, halted, outbox, tracked, ctl, workflowVars>>
      BY <1>1 DEF Arrive
    <2> QED BY <2>2, <2>3, <2>4 DEF managerVars, reloadVars, workflowVars,
                 ManagerType, ReloadType, RequestType, ChannelType, WorkflowType
  <1>2. ASSUME NEW r \in Reqs, AssetLookup(r) PROVE TypeOK'
    <2>1. phase' \in [Reqs -> Phases] /\ inbox' \in [Gens -> Seq(ToWorker)]
      <3>1. CASE ExecuteFetch(r, at[r])
        <4>1. at[r] \in Gens \cup {NoGen}
          BY DEF RequestType, Work
        <4>2. CASE at[r] \in Gens
          BY <1>0, <3>1, <4>2
        <4>3. CASE at[r] \notin Gens
          BY <3>1, <4>3 DEF ExecuteFetch, RequestType, ChannelType, Phases
        <4> QED BY <4>2, <4>3
      <3>2. CASE phase' = [phase EXCEPT ![r] = "done"] /\ UNCHANGED inbox
        BY <3>2 DEF RequestType, ChannelType, Phases
      <3> QED BY <1>2, <3>1, <3>2 DEF AssetLookup
    <2>2. UNCHANGED <<managerVars, reloadVars, at, wk, bg, halted, outbox, tracked, ctl, workflowVars>>
      BY <1>2 DEF AssetLookup
    <2> QED BY <2>1, <2>2 DEF managerVars, reloadVars, workflowVars,
                 ManagerType, ReloadType, RequestType, ChannelType, WorkflowType
  <1>3. ASSUME NEW r \in Reqs, WaitUntil(r) \/ Reply(r) \/ EndStream(r) PROVE TypeOK'
    <2>1. outbox' \in [Gens -> Seq(ToMain)]
      BY <1>3, PostType, MessageType DEF WaitUntil, Reply, EndStream, Work
    <2>2. wk' \in [Reqs -> {"none", "running", "streaming", "finished"}]
      BY <1>3 DEF WaitUntil, Reply, EndStream, RequestType
    <2>3. bg' \in [Work -> {"none", "running", "settled", "killed"}]
      BY <1>3 DEF WaitUntil, Reply, EndStream, RequestType
    <2>4. UNCHANGED <<managerVars, reloadVars, phase, at, halted, inbox, tracked, ctl, workflowVars>>
      BY <1>3 DEF WaitUntil, Reply, EndStream
    <2> QED BY <2>1, <2>2, <2>3, <2>4 DEF managerVars, reloadVars, workflowVars,
                 ManagerType, ReloadType, RequestType, ChannelType, WorkflowType
  <1>4. ASSUME NEW g \in Gens, HandleMessage(g) PROVE TypeOK'
    <2> DEFINE m == Head(outbox[g])
    <2>1. outbox' \in [Gens -> Seq(ToMain)] /\ m \in ToMain
      <3>1. outbox \in [Gens -> Seq(ToMain)]
        BY DEF ChannelType
      <3>2. outbox[g] # <<>> /\ outbox' = [outbox EXCEPT ![g] = Tail(@)]
        BY <1>4 DEF HandleMessage
      <3> QED BY <3>1, <3>2, TailType
    <2>2. CASE m.type \in {"result", "stream", "end"}
      <3>1. m.of \in Reqs
        BY <2>1, <2>2 DEF ToMain
      <3> QED BY <1>4, <2>1, <2>2, <3>1
                DEF HandleMessage, managerVars, reloadVars, workflowVars,
                    ManagerType, ReloadType, RequestType, ChannelType, WorkflowType, Phases
    <2>3. CASE m.type \in {"wuAdd", "wuSettle"}
      <3>1. m.of \in Work
        BY <2>1, <2>3 DEF ToMain
      <3>2. /\ \/ tracked' = [tracked EXCEPT ![g] = @ \cup {m.of}]
               \/ tracked' = [tracked EXCEPT ![g] = @ \ {m.of}]
            /\ UNCHANGED <<managerVars, reloadVars, phase, at, wk, bg, halted, inbox, ctl, workflowVars>>
        BY <1>4, <2>3 DEF HandleMessage
      <3>3. tracked[g] \cup {m.of} \in SUBSET Work /\ tracked[g] \ {m.of} \in SUBSET Work
        BY <3>1 DEF ChannelType
      <3>4. tracked' \in [Gens -> SUBSET Work]
        <4> HIDE DEF m
        <4> QED BY <3>2, <3>3 DEF ChannelType
      <3> QED BY <2>1, <3>2, <3>4
                DEF managerVars, reloadVars, workflowVars,
                    ManagerType, ReloadType, RequestType, ChannelType, WorkflowType
    <2>4. CASE m.type = "resumed"
      BY <1>4, <2>1, <2>4
         DEF HandleMessage, managerVars, reloadVars, workflowVars,
             ManagerType, ReloadType, RequestType, ChannelType, WorkflowType
    <2> QED BY <2>1, <2>2, <2>3, <2>4, SMTT(30) DEF ToMain
  <1>5. ASSUME NEW g \in Gens, WorkerReceives(g) PROVE TypeOK'
    <2> DEFINE m == Head(inbox[g])
    <2>1. inbox' \in [Gens -> Seq(ToWorker)] /\ m \in ToWorker
      BY <1>5, TailType DEF WorkerReceives, ChannelType
    <2>2. UNCHANGED <<managerVars, reloadVars, phase, at, bg, tracked, ctl, row>>
      BY <1>5 DEF WorkerReceives
    <2>3. /\ wk' \in [Reqs -> {"none", "running", "streaming", "finished"}]
          /\ halted' \subseteq Gens
          /\ outbox' \in [Gens -> Seq(ToMain)]
          /\ execs' \in [Instances -> [Gens -> Nat]]
      <3>1. CASE m.type = "fetch"
        <4>1. m.of \in Reqs
          BY <2>1, <3>1 DEF ToWorker
        <4> QED BY <1>5, <3>1, <4>1 DEF WorkerReceives, RequestType, ChannelType, WorkflowType
      <3>2. CASE m.type = "stopQueue"
        BY <1>5, <3>2 DEF WorkerReceives, RequestType, ChannelType, WorkflowType
      <3>3. CASE m.type = "resume"
        <4>1. Post(g, [type |-> "resumed"]) /\ UNCHANGED <<wk, halted>>
          BY <1>5, <3>3 DEF WorkerReceives
        <4>2. execs' = [i \in Instances |->
                          IF row[i] = "running" THEN [execs[i] EXCEPT ![g] = @ + 1] ELSE execs[i]]
          BY <1>5, <3>3 DEF WorkerReceives
        <4>3. execs' \in [Instances -> [Gens -> Nat]]
          BY <4>2 DEF WorkflowType
        <4>4. outbox' \in [Gens -> Seq(ToMain)]
          BY <4>1, PostType, MessageType
        <4> QED BY <4>1, <4>3, <4>4 DEF RequestType
      <3> QED BY <2>1, <3>1, <3>2, <3>3 DEF ToWorker
    <2> QED BY <2>1, <2>2, <2>3 DEF managerVars, reloadVars,
                 ManagerType, ReloadType, RequestType, ChannelType, WorkflowType
  <1>6. ASSUME NEW b \in Batches, NEW g \in Gens, StartBatch(b, g) PROVE TypeOK'
    <2>1. outbox' \in [Gens -> Seq(ToMain)]
      BY <1>6, PostType, MessageType DEF StartBatch, Work
    <2>2. at' \in [Work -> Gens \cup {NoGen}] /\ bg' \in [Work -> {"none", "running", "settled", "killed"}]
      BY <1>6 DEF StartBatch, RequestType
    <2>3. UNCHANGED <<managerVars, reloadVars, phase, wk, halted, inbox, tracked, ctl, workflowVars>>
      BY <1>6 DEF StartBatch
    <2> QED BY <2>1, <2>2, <2>3 DEF managerVars, reloadVars, workflowVars,
                 ManagerType, ReloadType, RequestType, ChannelType, WorkflowType
  <1>7. ASSUME NEW w \in Work, SettleWork(w) PROVE TypeOK'
    <2>1. outbox' \in [Gens -> Seq(ToMain)]
      BY <1>7, PostType, MessageType DEF SettleWork
    <2>2. bg' \in [Work -> {"none", "running", "settled", "killed"}]
      BY <1>7 DEF SettleWork, RequestType
    <2>3. UNCHANGED <<managerVars, reloadVars, phase, at, wk, halted, inbox, tracked, ctl, workflowVars>>
      BY <1>7 DEF SettleWork
    <2> QED BY <2>1, <2>2, <2>3 DEF managerVars, reloadVars, workflowVars,
                 ManagerType, ReloadType, RequestType, ChannelType, WorkflowType
  <1>8. ASSUME NEW i \in Instances,
               (\E r \in Reqs : CreateWorkflow(r, i)) \/ (\E g \in Gens : CompleteWorkflow(i, g))
        PROVE  TypeOK'
    <2>1. WorkflowType'
      <3>1. ASSUME NEW r \in Reqs, CreateWorkflow(r, i) PROVE WorkflowType'
        <4>1. [execs[i] EXCEPT ![at[r]] = @ + 1] \in [Gens -> Nat]
          <5>1. execs[i] \in [Gens -> Nat]
            BY DEF WorkflowType
          <5>2. CASE at[r] \in Gens
            BY <5>1, <5>2
          <5>3. CASE at[r] \notin Gens
            BY <5>1, <5>3
          <5> QED BY <5>2, <5>3
        <4> QED BY <3>1, <4>1 DEF CreateWorkflow, WorkflowType
      <3>2. ASSUME NEW g \in Gens, CompleteWorkflow(i, g) PROVE WorkflowType'
        <4>1. [execs[i] EXCEPT ![g] = @ - 1] \in [Gens -> Nat]
          BY <3>2 DEF CompleteWorkflow, WorkflowType
        <4> QED BY <3>2, <4>1 DEF CompleteWorkflow, WorkflowType
      <3> QED BY <1>8, <3>1, <3>2
    <2>2. UNCHANGED <<managerVars, reloadVars, requestVars, channelVars>>
      BY <1>8 DEF CreateWorkflow, CompleteWorkflow
    <2> QED BY <2>1, <2>2 DEF managerVars, reloadVars, requestVars, channelVars,
                 ManagerType, ReloadType, RequestType, ChannelType
  <1> QED BY <1>1, <1>2, <1>3, <1>4, <1>5, <1>6, <1>7, <1>8

\* The variables keep their types: TypeOK of GenerationManager.
THEOREM Typing == Spec => []TypeOK
  <1>1. Init => TypeOK
    <2> SUFFICES ASSUME Init PROVE TypeOK
      OBVIOUS
    <2> USE GenAssumption DEF Init, TypeOK
    <2>1. ManagerType
      BY DEF ManagerType, States, Causes, Gens
    <2>2. ReloadType
      BY DEF ReloadType
    <2>3. RequestType
      BY DEF RequestType, Phases
    <2>4. ChannelType
      BY DEF ChannelType
    <2>5. WorkflowType
      BY DEF WorkflowType
    <2> QED BY <2>1, <2>2, <2>3, <2>4, <2>5
  <1>2. TypeOK /\ [Next]_vars => TypeOK'
    <2> SUFFICES ASSUME TypeOK, [Next]_vars PROVE TypeOK'
      OBVIOUS
    <2>1. CASE Next
      BY <2>1, ManagerTypeStep, WorkTypeStep DEF Next
    <2>2. CASE UNCHANGED vars
      BY <2>2 DEF vars, managerVars, reloadVars, requestVars, channelVars, workflowVars, TypeOK,
                  ManagerType, ReloadType, RequestType, ChannelType, WorkflowType
    <2> QED BY <2>1, <2>2
  <1> QED BY <1>1, <1>2, PTL DEF Spec

-----------------------------------------------------------------------------
(* The manager: which generation serves, and when workflows are resumed.   *)

\* Generations are numbered in the order they are created, and the ones not
\* created yet have left no trace.
Numbering ==
  /\ activeGen < nextGen
  /\ activeGen = NoGen => nextGen = 1
  /\ \A g \in Gens : g >= nextGen => state[g] = "none" /\ ~alive[g] /\ ~ctl[g]

\* A thread is there only while its generation is active or drains, and a
\* generation whose finish() is pending is no longer the active one.
Threads ==
  /\ \A g \in Gens : alive[g] => state[g] \in {"active", "draining"}
  /\ \A g \in finishing : state[g] \in {"draining", "stopped"}

ManagerInv == Numbering /\ Threads /\ ActiveServes /\ ResumeAlone

\* finish() orders a resume only from a generation none of whose elders still
\* has a thread; it never revives an order (Finish).
LEMMA FinishCtl ==
  ASSUME TypeOK, NEW g \in Gens, NEW a \in Gens \cup {NoGen}, NEW st, NEW why \in Causes,
         Finish(g, a, st, why)
  PROVE  \A k \in Gens : ctl'[k] => /\ k # g
                                    /\ ctl[k] \/ (k = a /\ alive[a] /\ OlderStopped(a, st))
  BY DEF Finish, ResumeWorkflows, TypeOK, ChannelType

\* A stopped generation takes its thread and its orders with it, whether
\* finish(), the dashboard or a crash ends it.
LEMMA StopStep ==
  ASSUME TypeOK, ManagerInv, NEW g \in Gens,
         g # activeGen \/ state' = state,
         state' = [state EXCEPT ![g] = "stopped"] \/ state' = state,
         alive' = [alive EXCEPT ![g] = FALSE],
         finishing' \subseteq finishing,
         UNCHANGED <<activeGen, nextGen>>,
         \A k \in Gens : ctl'[k] => /\ k # g
                                    /\ \/ ctl[k]
                                       \/ /\ k = activeGen
                                          /\ alive[k]
                                          /\ OlderStopped(activeGen, state'),
         state[g] # "none"
  PROVE  ManagerInv'
  <1> USE DEF TypeOK, ManagerType, Gens, NoGen
  <1> USE GenAssumption
  <1>1. Numbering'
    BY DEF ManagerInv, Numbering
  <1>2. Threads'
    BY DEF ManagerInv, Threads
  <1>3. ActiveServes'
    BY DEF ManagerInv, ActiveServes
  <1>4. ResumeAlone'
    <2> SUFFICES ASSUME NEW k \in Gens, ctl'[k], NEW h \in Gens, h < k PROVE ~alive'[h]
      BY DEF ResumeAlone
    <2>1. CASE ctl[k]
      BY <2>1 DEF ManagerInv, ResumeAlone
    <2>2. CASE k = activeGen /\ OlderStopped(activeGen, state')
      <3>1. state'[h] \notin {"active", "draining"}
        BY <2>2 DEF OlderStopped
      <3> QED BY <1>2, <3>1 DEF Threads
    <2> QED BY <2>1, <2>2
  <1> QED BY <1>1, <1>2, <1>3, <1>4 DEF ManagerInv

\* Every step keeps the manager's invariant.
LEMMA ManagerStep == TypeOK /\ ManagerInv /\ [Next]_vars => ManagerInv'
  <1> SUFFICES ASSUME TypeOK, ManagerInv, [Next]_vars PROVE ManagerInv'
    OBVIOUS
  <1> USE GenAssumption
  <1> USE DEF TypeOK, ManagerType, Gens, NoGen
  <1>1. ASSUME UNCHANGED <<state, alive, activeGen, nextGen, finishing, ctl>> PROVE ManagerInv'
    BY <1>1 DEF ManagerInv, Numbering, Threads, ActiveServes, ResumeAlone
  <1>2. CASE FirstLoad
    <2>1. nextGen = 1 /\ activeGen = 0
      BY <1>2 DEF FirstLoad, ManagerInv, Numbering
    <2>2. /\ state' = [state EXCEPT ![1] = "active"] /\ alive' = [alive EXCEPT ![1] = TRUE]
          /\ ctl' = [ctl EXCEPT ![1] = TRUE] /\ activeGen' = 1 /\ nextGen' = 2 /\ finishing' = finishing
      BY <1>2, <2>1 DEF FirstLoad, LoadSucceeds
    <2>3. Numbering'
      BY <2>1, <2>2 DEF ManagerInv, Numbering, ChannelType
    <2>4. Threads'
      BY <2>1, <2>2 DEF ManagerInv, Numbering, Threads
    <2>5. ActiveServes'
      BY <2>1, <2>2 DEF ManagerInv, Numbering, ActiveServes
    <2>6. ResumeAlone'
      BY <2>1, <2>2 DEF ManagerInv, Numbering, ResumeAlone, ChannelType
    <2> QED BY <2>3, <2>4, <2>5, <2>6 DEF ManagerInv
  <1>3. CASE ReloadOverBusy
    <2>1. /\ nextGen \in Gens /\ activeGen \in Gens /\ activeGen < nextGen
          /\ state' = [state EXCEPT ![nextGen] = "active", ![activeGen] = "draining"]
          /\ alive' = [alive EXCEPT ![nextGen] = TRUE]
          /\ finishing' = finishing \cup {activeGen}
          /\ activeGen' = nextGen /\ nextGen' = nextGen + 1 /\ ctl' = ctl
      BY <1>3 DEF ReloadOverBusy, LoadSucceeds, ManagerInv, Numbering
    <2>2. Numbering'
      BY <2>1 DEF ManagerInv, Numbering
    <2>3. Threads'
      BY <2>1 DEF ManagerInv, Numbering, Threads
    <2>4. ActiveServes'
      BY <2>1 DEF ManagerInv, Numbering, ActiveServes
    <2>5. ResumeAlone'
      BY <2>1 DEF ManagerInv, Numbering, ResumeAlone
    <2> QED BY <2>2, <2>3, <2>4, <2>5 DEF ManagerInv
  <1>4. CASE ReloadOverIdle
    <2> DEFINE st == [state EXCEPT ![nextGen] = "active", ![activeGen] = "stopped"]
    <2>1. /\ nextGen \in Gens /\ activeGen \in Gens /\ activeGen < nextGen
          /\ state' = st
          /\ alive' = [alive EXCEPT ![nextGen] = TRUE, ![activeGen] = FALSE]
          /\ finishing' = finishing
          /\ activeGen' = nextGen /\ nextGen' = nextGen + 1
          /\ Finish(activeGen, activeGen, st, "idle")
      BY <1>4 DEF ReloadOverIdle, LoadSucceeds, ManagerInv, Numbering
    <2>2. \A k \in Gens : ctl'[k] => ctl[k]
      <3>1. "idle" \in Causes
        BY DEF Causes
      <3> HIDE DEF st
      <3> QED BY <2>1, <3>1, FinishCtl
    <2>3. Numbering'
      BY <2>1, <2>2 DEF ManagerInv, Numbering
    <2>4. Threads'
      <3>1. activeGen \notin finishing /\ nextGen \notin finishing
        <4>1. state[nextGen] = "none"
          BY <2>1 DEF ManagerInv, Numbering
        <4>2. nextGen \notin finishing
          BY <4>1 DEF ManagerInv, Threads
        <4>3. activeGen \notin finishing
          BY <2>1 DEF ManagerInv, Threads, ActiveServes
        <4> QED BY <4>2, <4>3
      <3>2. ASSUME NEW k \in Gens, alive'[k] PROVE state'[k] \in {"active", "draining"}
        BY <2>1, <3>2 DEF ManagerInv, Threads
      <3>3. ASSUME NEW k \in finishing PROVE state'[k] \in {"draining", "stopped"}
        BY <2>1, <3>1 DEF ManagerInv, Threads
      <3> QED BY <2>1, <3>2, <3>3 DEF Threads
    <2>5. ActiveServes'
      BY <2>1 DEF ManagerInv, Numbering, ActiveServes
    <2>6. ResumeAlone'
      <3> SUFFICES ASSUME NEW k \in Gens, ctl'[k], NEW j \in Gens, j < k PROVE ~alive'[j]
        BY DEF ResumeAlone
      <3>1. ctl[k]
        BY <2>2
      <3>2. ~alive[j] /\ k < nextGen
        BY <3>1 DEF ManagerInv, Numbering, ResumeAlone
      <3> QED BY <2>1, <3>2
    <2> QED BY <2>3, <2>4, <2>5, <2>6 DEF ManagerInv
  <1>5. ASSUME NEW g \in Gens, IdleFinish(g) \/ GraceFinish(g) PROVE ManagerInv'
    <2>1. PICK why \in Causes : Finish(g, activeGen, state', why)
      BY <1>5 DEF IdleFinish, GraceFinish, Causes
    <2>2. \A k \in Gens : ctl'[k] => /\ k # g
                                     /\ \/ ctl[k]
                                        \/ k = activeGen /\ alive[k] /\ OlderStopped(activeGen, state')
      BY <2>1, FinishCtl
    <2>3. /\ g \in finishing /\ finishing' = finishing \ {g}
          /\ state' = [state EXCEPT ![g] = "stopped"] /\ alive' = [alive EXCEPT ![g] = FALSE]
          /\ UNCHANGED <<activeGen, nextGen>>
      BY <1>5 DEF IdleFinish, GraceFinish
    <2>4. g # activeGen /\ state[g] # "none"
      BY <2>3 DEF ManagerInv, Threads, ActiveServes
    <2> QED BY <2>2, <2>3, <2>4, StopStep
  <1>6. ASSUME NEW g \in Gens, ForceStop(g) PROVE ManagerInv'
    <2>1. g # activeGen /\ state[g] # "none"
      BY <1>6 DEF ForceStop, ManagerInv, ActiveServes
    <2>2. /\ ctl' = [ctl EXCEPT ![g] = FALSE]
          /\ state' = [state EXCEPT ![g] = "stopped"] /\ alive' = [alive EXCEPT ![g] = FALSE]
          /\ UNCHANGED <<activeGen, nextGen, finishing>>
      BY <1>6 DEF ForceStop
    <2>3. \A k \in Gens : ctl'[k] => k # g /\ ctl[k]
      BY <2>2 DEF ChannelType
    <2> QED BY <2>1, <2>2, <2>3, StopStep
  <1>7. ASSUME NEW g \in Gens, Crash(g) PROVE ManagerInv'
    <2>1. state[g] # "none"
      BY <1>7 DEF Crash, ManagerInv, Threads
    <2>2. /\ ctl' = [ctl EXCEPT ![g] = FALSE] /\ alive' = [alive EXCEPT ![g] = FALSE]
          /\ UNCHANGED <<state, activeGen, nextGen, finishing>>
      BY <1>7 DEF Crash
    <2>3. \A k \in Gens : ctl'[k] => k # g /\ ctl[k]
      BY <2>2 DEF ChannelType
    <2> QED BY <2>1, <2>2, <2>3, StopStep
  <1>8. ASSUME NEW g \in Gens, Forget(g) PROVE ManagerInv'
    <2>1. /\ state[g] = "stopped" /\ state' = [state EXCEPT ![g] = "forgotten"] /\ g \notin finishing
          /\ UNCHANGED <<alive, activeGen, nextGen, finishing, ctl>>
      BY <1>8 DEF Forget, channelVars
    <2>2. Numbering'
      BY <2>1 DEF ManagerInv, Numbering
    <2>3. Threads'
      BY <2>1 DEF ManagerInv, Threads
    <2>4. ActiveServes'
      BY <2>1 DEF ManagerInv, ActiveServes
    <2>5. ResumeAlone'
      BY <2>1 DEF ManagerInv, ResumeAlone
    <2> QED BY <2>2, <2>3, <2>4, <2>5 DEF ManagerInv
  <1>9. ASSUME NEW g \in Gens, HandleMessage(g) PROVE ManagerInv'
    <2>1. UNCHANGED <<state, alive, activeGen, nextGen, finishing>>
      BY <1>9 DEF HandleMessage, managerVars
    <2>2. Head(outbox[g]) \in ToMain
      BY <1>9, TailType DEF HandleMessage, ChannelType
    <2>3. \A k \in Gens : ctl'[k] => ctl[k]
      BY <1>9, <2>2 DEF HandleMessage, ToMain, ChannelType
    <2> QED BY <2>1, <2>3 DEF ManagerInv, Numbering, Threads, ActiveServes, ResumeAlone
  <1>10. CASE \E c \in Callers : CallReload(c)
    BY <1>1, <1>10 DEF CallReload, managerVars, channelVars
  <1>11. CASE FollowUp \/ LoadFails
    BY <1>1, <1>11 DEF FollowUp, LoadFails, managerVars, channelVars
  <1>12. CASE \E r \in Reqs : Arrive(r) \/ AssetLookup(r) \/ WaitUntil(r) \/ Reply(r) \/ EndStream(r)
    BY <1>1, <1>12 DEF Arrive, AssetLookup, WaitUntil, Reply, EndStream, managerVars
  <1>13. CASE \E g \in Gens : WorkerReceives(g)
    BY <1>1, <1>13 DEF WorkerReceives, managerVars
  <1>14. CASE (\E b \in Batches, g \in Gens : StartBatch(b, g)) \/ (\E w \in Work : SettleWork(w))
    BY <1>1, <1>14 DEF StartBatch, SettleWork, managerVars
  <1>15. CASE \E i \in Instances : (\E r \in Reqs : CreateWorkflow(r, i)) \/ (\E g \in Gens : CompleteWorkflow(i, g))
    BY <1>1, <1>15 DEF CreateWorkflow, CompleteWorkflow, managerVars, channelVars
  <1>16. CASE UNCHANGED vars
    BY <1>1, <1>16 DEF vars, managerVars, channelVars
  <1> QED
    <2> USE <1>2, <1>3, <1>4, <1>5, <1>6, <1>7, <1>8, <1>9, <1>10, <1>11, <1>12, <1>13, <1>14, <1>15, <1>16
    <2> QED BY DEF Next

\* What the manager's theorems follow from, inductively.
LEMMA ManagerAlways == Spec => []ManagerInv
  <1>1. Init => ManagerInv
    BY GenAssumption DEF Init, ManagerInv, Numbering, Threads, ActiveServes, ResumeAlone, Gens, NoGen
  <1> QED BY <1>1, Typing, ManagerStep, PTL DEF Spec

\* At every moment the active id names the one active generation
\* (generation-manager.ts, active / _doReload / _stopGeneration).
THEOREM ActiveServesAlways == Spec => []ActiveServes
  BY ManagerAlways, PTL DEF ManagerInv

\* A resume order is outstanding only where every older generation's thread is
\* gone (generation-manager.ts, _scheduleDrainAndStop / _resumeWorkflows).
THEOREM ResumeAloneAlways == Spec => []ResumeAlone
  BY ManagerAlways, PTL DEF ManagerInv

-----------------------------------------------------------------------------
(* reload(): whose load a caller receives.                                 *)

\* Where each caller stands with respect to the load it waits for: the load a
\* caller joined started after its call, and a queued caller asked no later
\* than the last load that started.
CallerInv ==
  \A c \in Callers :
    /\ asked[c] <= loads
    /\ caller[c] = "waitsCurrent" => asked[c] < loads
    /\ caller[c] \in {"resolved", "rejected"} => asked[c] < got[c]

\* Every caller of reload() receives the outcome of a load that started after
\* its call (GenerationManager.reload).
THEOREM ReloadFresh == Spec => []FreshReload
  <1>1. Init => CallerInv
    BY DEF Init, CallerInv
  <1>2. TypeOK /\ CallerInv /\ [Next]_vars => CallerInv'
    <2> SUFFICES ASSUME TypeOK, CallerInv, [Next]_vars PROVE CallerInv'
      OBVIOUS
    <2> USE DEF TypeOK, ReloadType, CallerInv
    <2>1. ASSUME NEW c \in Callers, CallReload(c) PROVE CallerInv'
      <3>1. asked' = [asked EXCEPT ![c] = loads] /\ got' = got
        BY <2>1 DEF CallReload
      <3>2. \/ caller' = [caller EXCEPT ![c] = "waitsPending"] /\ loads' = loads
            \/ caller' = [caller EXCEPT ![c] = "waitsCurrent"] /\ loads' = loads + 1
        BY <2>1 DEF CallReload, StartLoad
      <3> QED BY <3>1, <3>2
    <2>2. CASE FollowUp
      <3>1. /\ asked' = asked /\ got' = got
            /\ \/ loading /\ loads' = loads
               \/ ~loading /\ loads' = loads + 1
        BY <2>2 DEF FollowUp, StartLoad
      <3>2. \A c \in Callers : caller'[c] = IF caller[c] # "waitsDue" THEN caller[c]
                                            ELSE IF loading THEN "waitsPending" ELSE "waitsCurrent"
        BY <2>2 DEF FollowUp
      <3> QED BY <3>1, <3>2
    <2>3. ASSUME NEW outcome \in {"resolved", "rejected"}, SettleLoad(outcome) PROVE CallerInv'
      <3>1. asked' = asked /\ loads' = loads
        BY <2>3 DEF SettleLoad
      <3>2. \A c \in Callers :
              /\ caller'[c] = CASE caller[c] = "waitsCurrent" -> outcome
                                 [] caller[c] = "waitsPending" -> "waitsDue"
                                 [] OTHER -> caller[c]
              /\ got'[c] = IF caller[c] = "waitsCurrent" THEN loads ELSE got[c]
        BY <2>3 DEF SettleLoad
      <3> QED BY <3>1, <3>2
    <2>4. CASE LoadFails \/ FirstLoad \/ ReloadOverBusy \/ ReloadOverIdle
      BY <2>3, <2>4 DEF LoadFails, FirstLoad, ReloadOverBusy, ReloadOverIdle, LoadSucceeds
    <2>5. CASE UNCHANGED reloadVars
      BY <2>5 DEF reloadVars
    <2>6. CASE \E g \in Gens : IdleFinish(g) \/ GraceFinish(g) \/ ForceStop(g) \/ Forget(g) \/ Crash(g)
      BY <2>5, <2>6 DEF IdleFinish, GraceFinish, ForceStop, Forget, Crash
    <2>7. CASE \E r \in Reqs : Arrive(r) \/ AssetLookup(r) \/ WaitUntil(r) \/ Reply(r) \/ EndStream(r)
      BY <2>5, <2>7 DEF Arrive, AssetLookup, WaitUntil, Reply, EndStream
    <2>8. CASE \E g \in Gens : HandleMessage(g) \/ WorkerReceives(g)
      BY <2>5, <2>8 DEF HandleMessage, WorkerReceives
    <2>9. CASE (\E b \in Batches, g \in Gens : StartBatch(b, g)) \/ (\E w \in Work : SettleWork(w))
      BY <2>5, <2>9 DEF StartBatch, SettleWork
    <2>10. CASE \E i \in Instances : (\E r \in Reqs : CreateWorkflow(r, i)) \/ (\E g \in Gens : CompleteWorkflow(i, g))
      BY <2>5, <2>10 DEF CreateWorkflow, CompleteWorkflow
    <2>11. CASE UNCHANGED vars
      BY <2>5, <2>11 DEF vars
    <2> QED BY <2>1, <2>2, <2>4, <2>6, <2>7, <2>8, <2>9, <2>10, <2>11 DEF Next
  <1>3. TypeOK /\ CallerInv => FreshReload
    BY DEF CallerInv, FreshReload, TypeOK, ReloadType
  <1> QED BY <1>1, <1>2, <1>3, Typing, PTL DEF Spec

-----------------------------------------------------------------------------
(***************************************************************************)
(* A generation that is stopped because it is idle owes nothing:           *)
(* IdleStopSpares of GenerationManager, for any number of requests,        *)
(* batches, instances, callers and generations.                            *)
(*                                                                         *)
(* Main decides on its own counters, which lag behind the thread.  What is *)
(* shown here is that they lag on the safe side: as long as a request or a *)
(* promise of it is under way, main waits for an answer, has the promise   *)
(* registered, or has the registration in front of the answer.             *)
(***************************************************************************)

Fetch(r)   == [type |-> "fetch", of |-> r]
Note(t, r) == [type |-> t, of |-> r]
Has(line, m) == \E i \in 1..Len(line) : line[i] = m

Replies == {"result", "stream", "end", "wuAdd"}  \* what a thread posts before it is through
Notes   == Replies \cup {"wuSettle"}
Finals(r) == {Note("result", r), Note("end", r)}

\* Nothing of an answer comes after its end, and no request is posted twice.
FinalLast(line, r) ==
  \A i, j \in 1..Len(line) :
    line[i] \in Finals(r) /\ (\E t \in Replies : line[j] = Note(t, r)) => j <= i
FetchOnce(line, r) ==
  \A i, j \in 1..Len(line) : line[i] = Fetch(r) /\ line[j] = Fetch(r) => i = j

\* Everything about a request is in the channels of its generation ...
Placed(r) == \A g \in Gens :
  /\ Has(inbox[g], Fetch(r)) => g = at[r]
  /\ \A t \in Notes : Has(outbox[g], Note(t, r)) => g = at[r]

\* ... in the order in which things happen to it.
Ordered(r) == \A g \in Gens :
  /\ FinalLast(outbox[g], r) /\ FetchOnce(inbox[g], r)
  /\ Has(inbox[g], Fetch(r)) => wk[r] = "none"
  /\ \A m \in Finals(r) : Has(outbox[g], m) => wk[r] = "finished"

\* Main waits as long as any of it is under way.
Owing(r) ==
  \/ wk[r] \in {"running", "streaming"}
  \/ \E g \in Gens : \/ Has(inbox[g], Fetch(r))
                     \/ \E t \in Replies : Has(outbox[g], Note(t, r))
  => phase[r] \in {"pending", "streaming"}

\* A promise is registered, or its registration is on the way.
Promised(r) ==
  /\ bg[r] = "running" => r \in tracked[at[r]] \/ Has(outbox[at[r]], Note("wuAdd", r))
  /\ bg[r] \in {"none", "running"} => \A g \in Gens : ~Has(outbox[g], Note("wuSettle", r))

\* A generation that is gone leaves nothing open, and had a reason if it cut
\* something off.
Phased(r) ==
  /\ phase[r] # "idle" => at[r] \in Gens /\ at[r] < nextGen
  /\ phase[r] \in {"idle", "assets"} => bg[r] = "none"
  /\ phase[r] = "idle" => wk[r] = "none" /\ at[r] = NoGen
  /\ phase[r] = "assets" => wk[r] = "none" \/ ~alive[at[r]]
  /\ phase[r] \in {"pending", "streaming"} \/ bg[r] = "running" => alive[at[r]]
  /\ phase[r] = "severed" \/ bg[r] = "killed" =>
       ~alive[at[r]] /\ cause[at[r]] \in {"grace", "forced", "crash"}

Flow(r) == Placed(r) /\ Ordered(r) /\ Owing(r) /\ Promised(r) /\ Phased(r)
FlowInv == \A r \in Reqs : Flow(r)

\* What the invariant is for.
LEMMA InvSpares == FlowInv => IdleStopSpares
BY DEF FlowInv, Flow, Phased, IdleStopSpares

-----------------------------------------------------------------------------
(* Lines of messages.                                                      *)

\* Messages are told apart by their type and by what they are about.
LEMMA NoteParts ==
  /\ \A t, r, u, s : Note(t, r) = Note(u, s) <=> t = u /\ r = s
  /\ \A r, s : Fetch(r) = Fetch(s) <=> r = s
  /\ \A t, r : Note(t, r).type = t /\ Note(t, r).of = r
  /\ \A r : Fetch(r).type = "fetch" /\ Fetch(r).of = r
BY DEF Note, Fetch

\* A message at the end of a line.
LEMMA AppendLine ==
  ASSUME NEW S, NEW line \in Seq(S), NEW m \in S
  PROVE  /\ \A x : Has(Append(line, m), x) <=> Has(line, x) \/ x = m
         /\ \A r : FinalLast(line, r) /\ (\A n \in Finals(r) : ~Has(line, n)) => FinalLast(Append(line, m), r)
         /\ \A r : FinalLast(line, r) /\ (\A t \in Replies : m # Note(t, r)) => FinalLast(Append(line, m), r)
         /\ \A r : FetchOnce(line, r) /\ (m # Fetch(r) \/ ~Has(line, Fetch(r))) => FetchOnce(Append(line, m), r)
<1> DEFINE longer == Append(line, m)
<1>1. /\ Len(longer) = Len(line) + 1 /\ Len(line) \in Nat
      /\ \A i \in 1..Len(line) : i \in 1..Len(longer) /\ longer[i] = line[i]
      /\ longer[Len(line) + 1] = m /\ Len(line) + 1 \in 1..Len(longer)
      /\ \A i \in 1..Len(longer) : i \in 1..Len(line) \/ i = Len(line) + 1
  OBVIOUS
<1> HIDE DEF longer
<1>2. ASSUME NEW x PROVE Has(longer, x) <=> Has(line, x) \/ x = m
  BY <1>1 DEF Has
<1>3. ASSUME NEW r, FinalLast(line, r), \A n \in Finals(r) : ~Has(line, n)
      PROVE  FinalLast(longer, r)
  <2>1. SUFFICES ASSUME NEW i \in 1..Len(longer), NEW j \in 1..Len(longer), longer[i] \in Finals(r)
                 PROVE  j <= i
    BY DEF FinalLast
  <2>2. i = Len(line) + 1
    BY <1>1, <1>3, <2>1 DEF Has
  <2>3. QED
    BY <1>1, <2>2
<1>4. ASSUME NEW r, FinalLast(line, r), \A t \in Replies : m # Note(t, r)
      PROVE  FinalLast(longer, r)
  <2>1. SUFFICES ASSUME NEW i \in 1..Len(longer), NEW j \in 1..Len(longer), longer[i] \in Finals(r),
                        NEW t \in Replies, longer[j] = Note(t, r)
                 PROVE  j <= i
    BY DEF FinalLast
  <2>2. j \in 1..Len(line) /\ line[j] = Note(t, r)
    BY <1>1, <1>4, <2>1
  <2>3. CASE i = Len(line) + 1
    BY <1>1, <2>2, <2>3
  <2>4. CASE i \in 1..Len(line)
    BY <1>1, <1>4, <2>1, <2>2, <2>4 DEF FinalLast
  <2>5. QED
    BY <1>1, <2>3, <2>4
<1>5. ASSUME NEW r, FetchOnce(line, r), m # Fetch(r) \/ ~Has(line, Fetch(r))
      PROVE  FetchOnce(longer, r)
  BY <1>1, <1>5 DEF FetchOnce, Has
<1>6. QED
  BY <1>2, <1>3, <1>4, <1>5 DEF longer

\* A line without its first message.
LEMMA TailLine ==
  ASSUME NEW S, NEW line \in Seq(S), line # <<>>
  PROVE  /\ \A x : Has(Tail(line), x) => Has(line, x)
         /\ \A x : Has(line, x) /\ x # Head(line) => Has(Tail(line), x)
         /\ \A r : FinalLast(line, r) => FinalLast(Tail(line), r)
         /\ \A r : FetchOnce(line, r) => FetchOnce(Tail(line), r)
         /\ \A r : FetchOnce(line, r) /\ Head(line) = Fetch(r) => ~Has(Tail(line), Fetch(r))
         /\ \A r : FinalLast(line, r) /\ Head(line) \in Finals(r) =>
                     \A t \in Replies : ~Has(Tail(line), Note(t, r))
         /\ Has(line, Head(line))
<1> DEFINE rest == Tail(line)
<1>1. /\ rest \in Seq(S) /\ Len(rest) = Len(line) - 1
      /\ Head(line) = line[1]
      /\ \A i \in 1..Len(rest) : rest[i] = line[i + 1]
  BY HeadTailProperties
<1>2. Len(line) \in Nat \ {0}
  BY EmptySeq
<1> HIDE DEF rest
<1>3. \A i \in 1..Len(rest) : i \in Nat /\ i >= 1 /\ i + 1 \in 1..Len(line) /\ rest[i] = line[i + 1]
  BY <1>1, <1>2
<1>4. ASSUME NEW i \in 1..Len(line), i # 1
      PROVE  i - 1 \in 1..Len(rest) /\ rest[i - 1] = line[i]
  <2>1. i - 1 \in 1..Len(rest) /\ (i - 1) + 1 = i
    BY <1>1, <1>2, <1>4
  <2>2. QED
    BY <1>1, <2>1
<1>5. 1 \in 1..Len(line)
  BY <1>2
<1>6. \A x : Has(rest, x) => Has(line, x)
  BY <1>3 DEF Has
<1>7. ASSUME NEW x, Has(line, x), x # Head(line) PROVE Has(rest, x)
  <2>1. PICK i \in 1..Len(line) : line[i] = x
    BY <1>7 DEF Has
  <2>2. i # 1
    BY <1>1, <1>7, <2>1
  <2>3. QED
    BY <1>4, <2>1, <2>2 DEF Has
<1>8. ASSUME NEW r, FinalLast(line, r) PROVE FinalLast(rest, r)
  <2>1. SUFFICES ASSUME NEW i \in 1..Len(rest), NEW j \in 1..Len(rest), rest[i] \in Finals(r),
                        NEW t \in Replies, rest[j] = Note(t, r)
                 PROVE  j <= i
    BY DEF FinalLast
  <2>2. j + 1 <= i + 1
    BY <1>3, <1>8, <2>1 DEF FinalLast
  <2>3. QED
    BY <1>3, <2>1, <2>2
<1>9. ASSUME NEW r, FetchOnce(line, r) PROVE FetchOnce(rest, r)
  <2>1. SUFFICES ASSUME NEW i \in 1..Len(rest), NEW j \in 1..Len(rest), rest[i] = Fetch(r), rest[j] = Fetch(r)
                 PROVE  i = j
    BY DEF FetchOnce
  <2>2. i + 1 = j + 1
    BY <1>3, <1>9, <2>1 DEF FetchOnce
  <2>3. QED
    BY <1>3, <2>1, <2>2
<1>10. ASSUME NEW r, FetchOnce(line, r), Head(line) = Fetch(r), Has(rest, Fetch(r)) PROVE FALSE
  <2>1. PICK i \in 1..Len(rest) : rest[i] = Fetch(r)
    BY <1>10 DEF Has
  <2>2. i + 1 = 1
    BY <1>1, <1>3, <1>5, <1>10, <2>1 DEF FetchOnce
  <2>3. QED
    BY <1>3, <2>2
<1>11. ASSUME NEW r, FinalLast(line, r), Head(line) \in Finals(r), NEW t \in Replies, Has(rest, Note(t, r))
       PROVE  FALSE
  <2>1. PICK j \in 1..Len(rest) : rest[j] = Note(t, r)
    BY <1>11 DEF Has
  <2>2. j + 1 <= 1
    BY <1>1, <1>3, <1>5, <1>11, <2>1 DEF FinalLast
  <2>3. QED
    BY <1>3, <2>2
<1>12. Has(line, Head(line))
  BY <1>1, <1>5 DEF Has
<1>13. QED
  BY <1>6, <1>7, <1>8, <1>9, <1>10, <1>11, <1>12 DEF rest

-----------------------------------------------------------------------------
(* Steps that are not about a request.                                     *)

\* The line of a generation that has just started or is gone.
LEMMA EmptyLine ==
  /\ \A x : ~Has(<<>>, x)
  /\ \A r : FinalLast(<<>>, r) /\ FetchOnce(<<>>, r)
BY DEF Has, FinalLast, FetchOnce

\* What of it must stay as it is.
LEMMA Frame ==
  ASSUME TypeOK, NEW r \in Reqs, Flow(r),
         phase'[r] = phase[r], at'[r] = at[r], wk'[r] = wk[r], bg'[r] = bg[r],
         nextGen' \in Int, nextGen <= nextGen',
         \A g \in Gens : g = at[r] => alive'[g] = alive[g] /\ cause'[g] = cause[g],
         at[r] \in Gens /\ r \in tracked[at[r]] => r \in tracked'[at[r]],
         \A g \in Gens :
           /\ \A t \in Notes : Has(outbox'[g], Note(t, r)) <=> Has(outbox[g], Note(t, r))
           /\ Has(inbox'[g], Fetch(r)) <=> Has(inbox[g], Fetch(r))
           /\ FinalLast(outbox'[g], r) /\ FetchOnce(inbox'[g], r)
  PROVE  Flow(r)'
<1>1. Placed(r) /\ Ordered(r) /\ Owing(r) /\ Promised(r) /\ Phased(r)
  BY DEF Flow
<1>2. Replies \subseteq Notes /\ "wuSettle" \in Notes /\ "wuAdd" \in Notes
      /\ \A m \in Finals(r) : \E t \in Notes : m = Note(t, r)
  BY DEF Replies, Notes, Finals
<1>3. Placed(r)'
  BY <1>1 DEF Placed
<1>4. Ordered(r)'
  BY <1>1, <1>2 DEF Ordered
<1>5. Owing(r)'
  BY <1>1, <1>2 DEF Owing
<1>6. at[r] \in Gens \/ phase[r] = "idle"
  BY <1>1 DEF Phased
<1>7. Promised(r)'
  <2>1. bg[r] = "running" => at[r] \in Gens
    BY <1>1, <1>6 DEF Phased
  <2>2. QED
    BY <1>1, <1>2, <2>1 DEF Promised
<1>8. Phased(r)'
  <2>1. nextGen \in Int /\ Gens \subseteq Int
    BY DEF TypeOK, ManagerType, Gens
  <2>2. CASE phase[r] = "idle"
    BY <1>1, <2>2 DEF Phased
  <2>3. CASE phase[r] # "idle"
    <3>1. at[r] \in Gens /\ at[r] < nextGen'
      <4>1. at[r] \in Gens /\ at[r] < nextGen
        BY <1>1, <2>3 DEF Phased
      <4>2. at[r] \in Int
        BY <2>1, <4>1
      <4>3. QED
        BY <2>1, <4>1, <4>2
    <3>2. alive'[at[r]] = alive[at[r]] /\ cause'[at[r]] = cause[at[r]]
      BY <3>1
    <3>3. QED
      BY <1>1, <2>3, <3>1, <3>2 DEF Phased
  <2>4. QED
    BY <2>2, <2>3
<1>9. QED
  BY <1>3, <1>4, <1>5, <1>7, <1>8 DEF Flow

\* The reload machinery and the workflows do not touch it.
LEMMA QuietStep ==
  ASSUME TypeOK, FlowInv,
         UNCHANGED <<phase, at, wk, bg, alive, cause, nextGen, inbox, outbox, tracked>>
  PROVE  FlowInv'
<1>1. SUFFICES ASSUME NEW r \in Reqs PROVE Flow(r)'
  BY DEF FlowInv
<1>2. Flow(r) /\ \A g \in Gens : FinalLast(outbox[g], r) /\ FetchOnce(inbox[g], r)
  BY DEF FlowInv, Flow, Ordered
<1>3. nextGen \in Int
  BY DEF TypeOK, ManagerType
<1>4. QED
  BY <1>2, <1>3, Frame

\* An order to the thread of h leaves the requests in its inbox alone.
LEMMA Orders ==
  ASSUME TypeOK, NEW h \in Gens, NEW m \in ToWorker, m.type # "fetch"
  PROVE  \A r : /\ Has(Append(inbox[h], m), Fetch(r)) <=> Has(inbox[h], Fetch(r))
                /\ FetchOnce(inbox[h], r) => FetchOnce(Append(inbox[h], m), r)
<1>1. inbox[h] \in Seq(ToWorker) /\ \A r : m # Fetch(r)
  BY NoteParts DEF TypeOK, ChannelType
<1>2. QED
  BY <1>1, AppendLine

\* A new generation, beside those that are there (_doReload).
LEMMA LoadStep ==
  ASSUME TypeOK, ManagerInv, FlowInv, FirstLoad \/ ReloadOverBusy
  PROVE  FlowInv'
<1>1. /\ nextGen <= MaxGen /\ nextGen' = nextGen + 1
      /\ alive' = [alive EXCEPT ![nextGen] = TRUE]
      /\ UNCHANGED <<phase, at, wk, bg, cause, outbox, tracked>>
      /\ \/ inbox' = [inbox EXCEPT ![nextGen] = Append(@, [type |-> "resume"])]
         \/ inbox' = [inbox EXCEPT ![activeGen] = Append(@, [type |-> "stopQueue"])]
         \/ inbox' = [inbox EXCEPT ![activeGen] = @]
      /\ activeGen \in Gens \/ inbox' = [inbox EXCEPT ![nextGen] = Append(@, [type |-> "resume"])]
  <2>1. CASE FirstLoad
    BY <2>1 DEF FirstLoad, LoadSucceeds, requestVars
  <2>2. CASE ReloadOverBusy
    <3>1. activeGen \in Gens
      BY <2>2 DEF ReloadOverBusy, TypeOK, ManagerType
    <3>2. \/ inbox' = [inbox EXCEPT ![activeGen] = Append(@, [type |-> "stopQueue"])]
          \/ inbox' = [inbox EXCEPT ![activeGen] = @]
      BY <2>2 DEF ReloadOverBusy
    <3>3. QED
      BY <2>2, <3>1, <3>2 DEF ReloadOverBusy, LoadSucceeds, requestVars
  <2>3. QED
    BY <2>1, <2>2
<1>2. nextGen \in Gens /\ nextGen \in Int /\ inbox \in [Gens -> Seq(ToWorker)] /\ alive \in [Gens -> BOOLEAN]
  BY <1>1 DEF TypeOK, ManagerType, ChannelType, Gens
<1>3. \A h \in Gens : inbox'[h] = inbox[h] \/ \E m \in ToWorker : m.type # "fetch" /\ inbox'[h] = Append(inbox[h], m)
  BY <1>1, <1>2, MessageType
<1>4. SUFFICES ASSUME NEW r \in Reqs PROVE Flow(r)'
  BY DEF FlowInv
<1>5. Flow(r) /\ \A g \in Gens : FinalLast(outbox[g], r) /\ FetchOnce(inbox[g], r)
  BY DEF FlowInv, Flow, Ordered
<1>6. \A g \in Gens : /\ Has(inbox'[g], Fetch(r)) <=> Has(inbox[g], Fetch(r))
                      /\ FetchOnce(inbox'[g], r)
  BY <1>3, <1>5, Orders
<1>7. \A g \in Gens : g = at[r] => alive'[g] = alive[g]
  <2>1. at[r] \in Gens => at[r] < nextGen
    BY <1>5 DEF Flow, Phased, Gens, NoGen
  <2>2. \A g \in Gens : g < nextGen => g # nextGen
    BY <1>2 DEF Gens
  <2>3. QED
    BY <1>1, <1>2, <2>1, <2>2
<1>8. nextGen' \in Int /\ nextGen <= nextGen'
  BY <1>1, <1>2
<1>9. QED
  BY <1>1, <1>5, <1>6, <1>7, <1>8, Frame

-----------------------------------------------------------------------------
(* The end of a thread.                                                    *)

\* Terminate severs what is under way on h, for a reason that is not idleness
\* or on a generation that owes nothing.
LEMMA StopFlow ==
  ASSUME TypeOK, FlowInv, NEW h \in Gens, NEW why, Terminate(h, why),
         ~alive[h] \/ IsIdle(h) \/ why \in {"grace", "forced", "crash"},
         ~alive'[h], \A g \in Gens : g < nextGen /\ g # h => alive'[g] = alive[g],
         nextGen' \in Int, nextGen <= nextGen',
         inbox'[h] = <<>>,
         \A g \in Gens : g # h =>
           \/ inbox'[g] = inbox[g]
           \/ \E m \in ToWorker : m.type # "fetch" /\ inbox'[g] = Append(inbox[g], m)
  PROVE  FlowInv'
<1>1. SUFFICES ASSUME NEW r \in Reqs PROVE Flow(r)'
  BY DEF FlowInv
<1>2. /\ Flow(r) /\ Placed(r) /\ Ordered(r) /\ Owing(r) /\ Promised(r) /\ Phased(r)
      /\ \A g \in Gens : FinalLast(outbox[g], r) /\ FetchOnce(inbox[g], r)
  BY DEF FlowInv, Flow, Ordered
<1>3. /\ at' = at
      /\ cause'[h] = (IF alive[h] THEN why ELSE cause[h])
      /\ \A g \in Gens : g # h => cause'[g] = cause[g] /\ outbox'[g] = outbox[g] /\ tracked'[g] = tracked[g]
      /\ outbox'[h] = <<>>
      /\ phase'[r] = IF at[r] = h /\ phase[r] \in {"pending", "streaming"} THEN "severed" ELSE phase[r]
      /\ bg'[r] = IF at[r] = h /\ bg[r] = "running" THEN "killed" ELSE bg[r]
      /\ wk'[r] = IF at[r] = h THEN "finished" ELSE wk[r]
  BY DEF Terminate, TypeOK, ManagerType, RequestType, ChannelType, Work
<1>4. \A g \in Gens : /\ FinalLast(outbox'[g], r) /\ FetchOnce(inbox'[g], r)
                      /\ g # h => (Has(inbox'[g], Fetch(r)) <=> Has(inbox[g], Fetch(r)))
  <2>1. SUFFICES ASSUME NEW g \in Gens
                 PROVE  /\ FinalLast(outbox'[g], r) /\ FetchOnce(inbox'[g], r)
                        /\ g # h => (Has(inbox'[g], Fetch(r)) <=> Has(inbox[g], Fetch(r)))
    OBVIOUS
  <2>2. CASE g = h
    BY <1>3, <2>2, EmptyLine
  <2>3. CASE g # h
    BY <1>2, <1>3, <2>3, Orders
  <2>4. QED
    BY <2>2, <2>3
<1>5. ~Has(outbox'[h], Fetch(r)) /\ ~Has(inbox'[h], Fetch(r)) /\ \A t \in Notes : ~Has(outbox'[h], Note(t, r))
  BY <1>3, EmptyLine
<1>6. Replies \subseteq Notes /\ "wuSettle" \in Notes /\ "wuAdd" \in Notes /\ "wuAdd" \in Replies
      /\ \A m \in Finals(r) : \E t \in Notes : m = Note(t, r)
  BY DEF Replies, Notes, Finals
<1>7. CASE at[r] # h
  <2>1. phase'[r] = phase[r] /\ wk'[r] = wk[r] /\ bg'[r] = bg[r]
    BY <1>3, <1>7
  <2>2. ~Has(inbox[h], Fetch(r)) /\ \A t \in Notes : ~Has(outbox[h], Note(t, r))
    BY <1>2, <1>7 DEF Placed
  <2>3. \A g \in Gens : /\ \A t \in Notes : Has(outbox'[g], Note(t, r)) <=> Has(outbox[g], Note(t, r))
                        /\ Has(inbox'[g], Fetch(r)) <=> Has(inbox[g], Fetch(r))
    BY <1>3, <1>4, <1>5, <2>2
  <2>4. at[r] \in Gens => at[r] < nextGen
    BY <1>2 DEF Phased, Gens, NoGen
  <2>5. \A g \in Gens : g = at[r] => alive'[g] = alive[g] /\ cause'[g] = cause[g]
    BY <1>3, <1>7, <2>4
  <2>6. at[r] \in Gens /\ r \in tracked[at[r]] => r \in tracked'[at[r]]
    BY <1>3, <1>7
  <2>7. QED
    BY <1>2, <1>3, <1>4, <2>1, <2>3, <2>5, <2>6, Frame
<1>8. CASE at[r] = h
  <2>1. /\ \A g \in Gens : ~Has(inbox'[g], Fetch(r))
        /\ \A g \in Gens : \A t \in Notes : ~Has(outbox'[g], Note(t, r))
    <3>1. SUFFICES ASSUME NEW g \in Gens
                   PROVE  ~Has(inbox'[g], Fetch(r)) /\ \A t \in Notes : ~Has(outbox'[g], Note(t, r))
      OBVIOUS
    <3>2. CASE g = h
      BY <1>5, <3>2
    <3>3. CASE g # h
      BY <1>2, <1>3, <1>4, <1>8, <3>3 DEF Placed
    <3>4. QED
      BY <3>2, <3>3
  <2>2. at'[r] = h /\ wk'[r] = "finished" /\ phase'[r] \notin {"pending", "streaming"} /\ bg'[r] # "running"
    BY <1>3, <1>8
  <2>3. Placed(r)'
    BY <2>1 DEF Placed
  <2>4. Ordered(r)'
    BY <1>4, <1>6, <2>1 DEF Ordered
  <2>5. Owing(r)'
    BY <1>6, <2>1, <2>2 DEF Owing
  <2>6. Promised(r)'
    BY <1>6, <2>1, <2>2 DEF Promised
  <2>7. phase[r] # "idle" /\ h < nextGen
    BY <1>2, <1>8 DEF Phased, Gens, NoGen
  <2>8. h < nextGen'
    BY <2>7 DEF TypeOK, ManagerType, Gens
  <2>9. phase'[r] = "assets" => bg'[r] = "none"
    BY <1>2, <1>3 DEF Phased
  <2>10. phase'[r] # "idle"
    BY <1>3, <2>7
  <2>11. ASSUME phase'[r] = "severed" \/ bg'[r] = "killed"
         PROVE  cause'[h] \in {"grace", "forced", "crash"}
    <3>1. CASE phase[r] = "severed" \/ bg[r] = "killed"
      BY <1>2, <1>3, <1>8, <3>1 DEF Phased
    <3>2. CASE ~(phase[r] = "severed" \/ bg[r] = "killed")
      <4>1. phase[r] \in {"pending", "streaming"} \/ bg[r] = "running"
        BY <1>3, <2>11, <3>2
      <4>2. alive[h]
        BY <1>2, <1>8, <4>1 DEF Phased
      <4>3. ~IsIdle(h)
        <5>1. SUFFICES ASSUME IsIdle(h) PROVE FALSE
          OBVIOUS
        <5>2. tracked[h] = {} /\ phase[r] \notin {"pending", "streaming"}
          BY <1>8, <5>1 DEF IsIdle
        <5>3. Has(outbox[h], Note("wuAdd", r))
          BY <1>2, <1>8, <4>1, <5>2 DEF Promised
        <5>4. QED
          BY <1>2, <1>6, <5>2, <5>3 DEF Owing
      <4>4. QED
        BY <1>3, <4>2, <4>3
    <3>3. QED
      BY <3>1, <3>2
  <2>12. Phased(r)'
    BY <2>2, <2>8, <2>9, <2>10, <2>11 DEF Phased
  <2>13. QED
    BY <2>3, <2>4, <2>5, <2>6, <2>12 DEF Flow
<1>9. QED
  BY <1>7, <1>8

\* Finish does so, and may order the active generation to resume the workflows.
LEMMA FinishInbox ==
  ASSUME TypeOK, NEW h \in Gens, NEW a, NEW st, NEW why, Finish(h, a, st, why)
  PROVE  /\ Terminate(h, why)
         /\ inbox'[h] = <<>>
         /\ \A g \in Gens : g # h =>
              \/ inbox'[g] = inbox[g]
              \/ \E m \in ToWorker : m.type # "fetch" /\ inbox'[g] = Append(inbox[g], m)
<1>1. [type |-> "resume"] \in ToWorker /\ [type |-> "resume"].type # "fetch"
  BY MessageType
<1>2. CASE a # NoGen /\ OlderStopped(a, st)
  <2>1. \A g \in Gens : inbox'[g] = IF g = h THEN <<>>
                                    ELSE IF g = a /\ a \notin resumed /\ alive[a] /\ a # h
                                      THEN Append(inbox[g], [type |-> "resume"])
                                    ELSE inbox[g]
    BY <1>2 DEF Finish, ResumeWorkflows
  <2>2. QED
    BY <1>1, <2>1 DEF Finish
<1>3. CASE ~(a # NoGen /\ OlderStopped(a, st))
  BY <1>3 DEF Finish, TypeOK, ChannelType
<1>4. QED
  BY <1>2, <1>3

\* The steps that end a thread.
LEMMA EndStep ==
  ASSUME TypeOK, ManagerInv, FlowInv,
         ReloadOverIdle \/ \E g \in Gens : IdleFinish(g) \/ GraceFinish(g) \/ ForceStop(g) \/ Crash(g)
  PROVE  FlowInv'
<1>1. nextGen \in Int /\ alive \in [Gens -> BOOLEAN] /\ inbox \in [Gens -> Seq(ToWorker)]
  BY DEF TypeOK, ManagerType, ChannelType
<1>2. CASE ReloadOverIdle
  <2>1. /\ activeGen \in Gens /\ IsIdle(activeGen) /\ nextGen' = nextGen + 1
        /\ alive' = [alive EXCEPT ![nextGen] = TRUE, ![activeGen] = FALSE]
        /\ \E st : Finish(activeGen, activeGen, st, "idle")
    <3>1. activeGen \in Gens
      BY <1>2 DEF ReloadOverIdle, TypeOK, ManagerType
    <3>2. QED
      BY <1>2, <3>1 DEF ReloadOverIdle, LoadSucceeds
  <2>2. PICK st : Finish(activeGen, activeGen, st, "idle")
    BY <2>1
  <2>3. ~alive'[activeGen] /\ \A g \in Gens : g < nextGen /\ g # activeGen => alive'[g] = alive[g]
    <3>1. \A g \in Gens : g < nextGen => g # nextGen
      BY <1>1 DEF Gens
    <3>2. QED
      BY <1>1, <2>1, <3>1
  <2>4. nextGen' \in Int /\ nextGen <= nextGen'
    BY <1>1, <2>1
  <2>5. QED
    BY <2>1, <2>2, <2>3, <2>4, FinishInbox, StopFlow
<1>3. ASSUME NEW g \in Gens, IdleFinish(g) \/ GraceFinish(g) PROVE FlowInv'
  <2>1. /\ alive' = [alive EXCEPT ![g] = FALSE] /\ nextGen' = nextGen
        /\ \/ Finish(g, activeGen, state', "idle") /\ (IsIdle(g) \/ state[g] = "stopped")
           \/ Finish(g, activeGen, state', "grace")
    BY <1>3 DEF IdleFinish, GraceFinish
  <2>2. PICK why, st : /\ Finish(g, activeGen, st, why)
                       /\ ~alive[g] \/ IsIdle(g) \/ why = "grace"
    BY <2>1 DEF ManagerInv, Threads
  <2>3. ~alive'[g] /\ \A h \in Gens : h < nextGen /\ h # g => alive'[h] = alive[h]
    BY <1>1, <2>1
  <2>4. nextGen' \in Int /\ nextGen <= nextGen'
    BY <1>1, <2>1
  <2>5. Terminate(g, why) /\ inbox'[g] = <<>>
        /\ \A h \in Gens : h # g =>
             \/ inbox'[h] = inbox[h]
             \/ \E m \in ToWorker : m.type # "fetch" /\ inbox'[h] = Append(inbox[h], m)
    BY <2>2, FinishInbox
  <2>6. QED
    BY <2>2, <2>3, <2>4, <2>5, StopFlow
<1>4. ASSUME NEW g \in Gens, ForceStop(g) \/ Crash(g) PROVE FlowInv'
  <2>1. /\ alive' = [alive EXCEPT ![g] = FALSE] /\ nextGen' = nextGen
        /\ inbox' = [inbox EXCEPT ![g] = <<>>]
        /\ Terminate(g, "forced") \/ Terminate(g, "crash")
    BY <1>4 DEF ForceStop, Crash
  <2>2. ~alive'[g] /\ inbox'[g] = <<>>
        /\ \A h \in Gens : h # g => alive'[h] = alive[h] /\ inbox'[h] = inbox[h]
    BY <1>1, <2>1
  <2>3. nextGen' \in Int /\ nextGen <= nextGen'
    BY <1>1, <2>1
  <2>4. QED
    BY <2>1, <2>2, <2>3, StopFlow
<1>5. QED
  BY <1>2, <1>3, <1>4

-----------------------------------------------------------------------------
(* Requests on their way to a thread.                                      *)

\* A request is given to generation h, or is over before that.
LEMMA FetchFlow ==
  ASSUME TypeOK, FlowInv, NEW r \in Reqs, NEW h \in Gens, h < nextGen,
         \/ phase[r] = "idle"
         \/ phase[r] = "assets" /\ at[r] = h,
         at' = [at EXCEPT ![r] = h],
         \/ phase[r] = "idle" /\ phase' = [phase EXCEPT ![r] = "assets"] /\ UNCHANGED inbox
         \/ phase' = [phase EXCEPT ![r] = "done"] /\ UNCHANGED inbox
         \/ ExecuteFetch(r, h),
         UNCHANGED <<wk, bg, alive, cause, nextGen, outbox, tracked>>
  PROVE  FlowInv'
<1>1. SUFFICES ASSUME NEW s \in Reqs PROVE Flow(s)'
  BY DEF FlowInv
<1>2. /\ Flow(s) /\ \A g \in Gens : FinalLast(outbox[g], s) /\ FetchOnce(inbox[g], s)
      /\ Flow(r) /\ Placed(r) /\ Ordered(r) /\ Owing(r) /\ Promised(r) /\ Phased(r)
      /\ \A g \in Gens : FinalLast(outbox[g], r) /\ FetchOnce(inbox[g], r)
  BY DEF FlowInv, Flow, Ordered
<1>3. /\ nextGen \in Int /\ inbox[h] \in Seq(ToWorker) /\ Fetch(r) \in ToWorker
      /\ \A g \in Gens : g # h => inbox'[g] = inbox[g]
      /\ inbox'[h] = inbox[h] \/ (inbox'[h] = Append(inbox[h], Fetch(r)) /\ alive[h] /\ phase'[r] = "pending")
      /\ phase'[r] \in {"assets", "done", "refused"} \/ (alive[h] /\ phase'[r] = "pending")
      /\ phase'[r] = "assets" => phase[r] = "idle"
      /\ s # r => phase'[s] = phase[s] /\ at'[s] = at[s]
      /\ at'[r] = h
  <2>1. /\ nextGen \in Int /\ inbox[h] \in Seq(ToWorker) /\ inbox \in [Gens -> Seq(ToWorker)]
        /\ phase \in [Reqs -> Phases]
    BY DEF TypeOK, ManagerType, ChannelType, RequestType
  <2>2. Fetch(r) \in ToWorker
    BY MessageType DEF Fetch
  <2>3. (s # r => at'[s] = at[s]) /\ at'[r] = h
    BY DEF TypeOK, RequestType, Work
  <2>4. CASE ExecuteFetch(r, h)
    <3>1. CASE alive[h]
      <4>1. phase' = [phase EXCEPT ![r] = "pending"] /\ inbox' = [inbox EXCEPT ![h] = Append(@, Fetch(r))]
        BY <2>4, <3>1 DEF ExecuteFetch, Fetch
      <4>2. QED
        BY <2>1, <2>2, <2>3, <3>1, <4>1
    <3>2. CASE ~alive[h]
      <4>1. phase' = [phase EXCEPT ![r] = "refused"] /\ inbox' = [inbox EXCEPT ![h] = @]
        BY <2>4, <3>2 DEF ExecuteFetch
      <4>2. inbox' = inbox
        BY <2>1, <4>1
      <4>3. phase'[r] = "refused" /\ (s # r => phase'[s] = phase[s])
        BY <2>1, <4>1
      <4>4. inbox'[h] = inbox[h] /\ \A g \in Gens : g # h => inbox'[g] = inbox[g]
        BY <4>2, <4>3
      <4>5. phase'[r] \in {"assets", "done", "refused"} /\ (phase'[r] = "assets" => phase[r] = "idle")
        BY <4>2, <4>3
      <4>6. QED
        BY <2>1, <2>2, <2>3, <4>3, <4>4, <4>5, Zenon
    <3>3. QED
      BY <3>1, <3>2
  <2>5. CASE inbox' = inbox /\ phase[r] = "idle" /\ phase' = [phase EXCEPT ![r] = "assets"]
    <3>1. phase'[r] = "assets" /\ (s # r => phase'[s] = phase[s])
      BY <2>1, <2>5
    <3>2. inbox'[h] = inbox[h] /\ \A g \in Gens : g # h => inbox'[g] = inbox[g]
      BY <2>5, <3>1
    <3>3. phase'[r] \in {"assets", "done", "refused"} /\ (phase'[r] = "assets" => phase[r] = "idle")
      BY <2>5, <3>1
    <3>4. QED
      BY <2>1, <2>2, <2>3, <3>1, <3>2, <3>3, Zenon
  <2>6. CASE inbox' = inbox /\ phase' = [phase EXCEPT ![r] = "done"]
    <3>1. phase'[r] = "done" /\ (s # r => phase'[s] = phase[s])
      BY <2>1, <2>6
    <3>2. inbox'[h] = inbox[h] /\ \A g \in Gens : g # h => inbox'[g] = inbox[g]
      BY <2>6, <3>1
    <3>3. phase'[r] \in {"assets", "done", "refused"} /\ (phase'[r] = "assets" => phase[r] = "idle")
      BY <2>6, <3>1
    <3>4. QED
      BY <2>1, <2>2, <2>3, <3>1, <3>2, <3>3, Zenon
  <2>7. QED
    BY <2>4, <2>5, <2>6
<1>4. /\ \A g \in Gens : \A x : Has(inbox'[g], x) <=> \/ Has(inbox[g], x)
                                                      \/ x = Fetch(r) /\ g = h /\ inbox'[h] # inbox[h]
      /\ FetchOnce(inbox[h], s) /\ (s # r \/ ~Has(inbox[h], Fetch(r))) => FetchOnce(inbox'[h], s)
  <2>1. CASE inbox'[h] = inbox[h]
    BY <1>3, <2>1
  <2>2. CASE inbox'[h] # inbox[h]
    <3>1. inbox'[h] = Append(inbox[h], Fetch(r))
      BY <1>3, <2>2
    <3>2. \A x : Has(inbox'[h], x) <=> Has(inbox[h], x) \/ x = Fetch(r)
      BY <1>3, <3>1, AppendLine
    <3>3. FetchOnce(inbox[h], s) /\ (s # r \/ ~Has(inbox[h], Fetch(r))) => FetchOnce(inbox'[h], s)
      BY <1>3, <3>1, AppendLine, NoteParts
    <3>4. QED
      BY <1>3, <2>2, <3>2, <3>3
  <2>3. QED
    BY <2>1, <2>2
<1>5. CASE s # r
  <2>1. \A g \in Gens : /\ Has(inbox'[g], Fetch(s)) <=> Has(inbox[g], Fetch(s))
                        /\ FetchOnce(inbox'[g], s)
    BY <1>2, <1>3, <1>4, <1>5, NoteParts
  <2>2. QED
    BY <1>2, <1>3, <1>5, <2>1, Frame
<1>6. CASE s = r
  <2>1. bg[r] = "none" /\ (wk[r] = "none" \/ ~alive[h]) /\ phase[r] \notin {"pending", "streaming"}
    BY <1>2 DEF Phased
  <2>2. /\ wk[r] \notin {"running", "streaming"}
        /\ \A g \in Gens : ~Has(inbox[g], Fetch(r)) /\ \A t \in Replies : ~Has(outbox[g], Note(t, r))
        /\ \A g \in Gens : ~Has(outbox[g], Note("wuSettle", r))
    BY <1>2, <2>1 DEF Owing, Promised
  <2>3. \A g \in Gens : /\ \A t \in Notes : ~Has(outbox[g], Note(t, r))
                        /\ \A m \in Finals(r) : ~Has(outbox[g], m)
    BY <2>2 DEF Notes, Finals, Replies
  <2>4. \A g \in Gens : Has(inbox'[g], Fetch(r)) => g = h /\ wk[r] = "none" /\ phase'[r] = "pending"
    BY <1>3, <1>4, <2>1, <2>2
  <2>5. \A g \in Gens : FetchOnce(inbox'[g], r)
    BY <1>2, <1>3, <1>4, <1>6, <2>2
  <2>6. Placed(r)'
    BY <1>3, <2>3, <2>4 DEF Placed
  <2>7. Ordered(r)'
    BY <1>2, <2>3, <2>4, <2>5 DEF Ordered
  <2>8. Owing(r)'
    BY <2>2, <2>4 DEF Owing
  <2>9. Promised(r)'
    BY <2>1, <2>2 DEF Promised
  <2>10. Phased(r)'
    <3>1. phase[r] # "severed" /\ bg[r] # "killed"
      BY <2>1, <1>6
    <3>2. phase'[r] = "assets" => wk[r] = "none"
      BY <1>2, <1>3 DEF Phased
    <3>3. QED
      BY <1>3, <2>1, <3>1, <3>2 DEF Phased
  <2>11. QED
    BY <1>6, <2>6, <2>7, <2>8, <2>9, <2>10 DEF Flow
<1>7. QED
  BY <1>5, <1>6

\* callFetch, and the request that no asset answered.
LEMMA FetchStep ==
  ASSUME TypeOK, ManagerInv, FlowInv, NEW r \in Reqs, Arrive(r) \/ AssetLookup(r)
  PROVE  FlowInv'
<1>1. CASE Arrive(r)
  <2>1. activeGen \in Gens /\ activeGen < nextGen
    BY <1>1 DEF Arrive, ManagerInv, Numbering, TypeOK, ManagerType
  <2>2. QED
    BY <1>1, <2>1, FetchFlow DEF Arrive, managerVars
<1>2. CASE AssetLookup(r)
  <2>1. at[r] \in Gens /\ at[r] < nextGen
    BY <1>2 DEF AssetLookup, FlowInv, Flow, Phased
  <2>2. at' = [at EXCEPT ![r] = at[r]]
    BY <1>2 DEF AssetLookup, TypeOK, RequestType, Work
  <2>3. QED
    BY <1>2, <2>1, <2>2, FetchFlow DEF AssetLookup, managerVars
<1>3. QED
  BY <1>1, <1>2

-----------------------------------------------------------------------------
(* What a thread posts.                                                    *)

\* What a post about w does to the line of its generation.
LEMMA PostFlow ==
  ASSUME TypeOK, NEW g \in Gens, NEW t \in Notes, NEW w \in Work,
         w \in Reqs \/ t \in {"wuAdd", "wuSettle"}, Post(g, Note(t, w))
  PROVE  /\ \A h \in Gens : \A x : Has(outbox'[h], x) <=> Has(outbox[h], x) \/ (h = g /\ x = Note(t, w))
         /\ \A h \in Gens : \A r :
              /\ FinalLast(outbox[h], r)
              /\ h = g => r # w \/ t = "wuSettle" \/ \A n \in Finals(r) : ~Has(outbox[g], n)
              => FinalLast(outbox'[h], r)
<1>1. Note(t, w) \in ToMain /\ outbox[g] \in Seq(ToMain)
  BY DEF Note, Notes, Replies, ToMain, TypeOK, ChannelType
<1>2. outbox'[g] = Append(outbox[g], Note(t, w)) /\ \A h \in Gens : h # g => outbox'[h] = outbox[h]
  BY DEF Post, TypeOK, ChannelType
<1>3. \A x : Has(outbox'[g], x) <=> Has(outbox[g], x) \/ x = Note(t, w)
  BY <1>1, <1>2, AppendLine
<1>4. ASSUME NEW r, FinalLast(outbox[g], r),
             r # w \/ t = "wuSettle" \/ \A n \in Finals(r) : ~Has(outbox[g], n)
      PROVE  FinalLast(outbox'[g], r)
  <2>1. CASE \A n \in Finals(r) : ~Has(outbox[g], n)
    BY <1>1, <1>2, <1>4, <2>1, AppendLine
  <2>2. CASE r # w \/ t = "wuSettle"
    <3>1. \A u \in Replies : Note(t, w) # Note(u, r)
      BY <2>2, NoteParts DEF Replies
    <3>2. QED
      BY <1>1, <1>2, <1>4, <3>1, AppendLine
  <2>3. QED
    BY <1>4, <2>1, <2>2
<1>5. QED
  BY <1>2, <1>3, <1>4

\* It is nothing to the other requests.
LEMMA PostOthers ==
  ASSUME TypeOK, FlowInv, NEW g \in Gens, NEW t \in Notes, NEW w \in Work,
         w \in Reqs \/ t \in {"wuAdd", "wuSettle"}, Post(g, Note(t, w)),
         \A s \in Reqs : s # w => wk'[s] = wk[s] /\ bg'[s] = bg[s] /\ at'[s] = at[s],
         UNCHANGED <<phase, alive, cause, nextGen, inbox, tracked>>
  PROVE  \A s \in Reqs : s # w => Flow(s)'
<1>1. SUFFICES ASSUME NEW s \in Reqs, s # w PROVE Flow(s)'
  OBVIOUS
<1>2. Flow(s) /\ \A h \in Gens : FinalLast(outbox[h], s) /\ FetchOnce(inbox[h], s)
  BY DEF FlowInv, Flow, Ordered
<1>3. \A h \in Gens : /\ \A u \in Notes : Has(outbox'[h], Note(u, s)) <=> Has(outbox[h], Note(u, s))
                      /\ FinalLast(outbox'[h], s)
  BY <1>1, <1>2, PostFlow, NoteParts, SMTT(30)
<1>4. nextGen \in Int
  BY DEF TypeOK, ManagerType
<1>5. QED
  BY <1>1, <1>2, <1>3, <1>4, Frame

\* A request that is being answered posts a part of its answer.
LEMMA ReplyFlow ==
  ASSUME TypeOK, FlowInv, NEW r \in Reqs, wk[r] \in {"running", "streaming"},
         NEW t \in Replies, Post(at[r], Note(t, r)),
         wk' = [wk EXCEPT ![r] = IF t \in {"result", "end"} THEN "finished"
                                 ELSE IF t = "stream" THEN "streaming" ELSE @],
         IF t = "wuAdd" THEN bg[r] = "none" /\ bg' = [bg EXCEPT ![r] = "running"] ELSE bg' = bg,
         UNCHANGED <<phase, at, alive, cause, nextGen, inbox, tracked>>
  PROVE  FlowInv'
<1>1. Flow(r) /\ Placed(r) /\ Ordered(r) /\ Owing(r) /\ Promised(r) /\ Phased(r)
  BY DEF FlowInv, Flow
<1>2. phase[r] \in {"pending", "streaming"} /\ at[r] \in Gens /\ at[r] < nextGen /\ alive[at[r]]
  BY <1>1 DEF Owing, Phased
<1>3. r \in Work /\ t \in Notes /\ Replies \subseteq Notes
  BY DEF Work, Notes
<1>4. \A s \in Reqs : s # r => wk'[s] = wk[s] /\ bg'[s] = bg[s] /\ at'[s] = at[s]
  BY DEF TypeOK, RequestType, Work
<1>5. \A s \in Reqs : s # r => Flow(s)'
  BY <1>2, <1>3, <1>4, PostOthers
<1>6. /\ \A g \in Gens : \A x : Has(outbox'[g], x) <=> Has(outbox[g], x) \/ (g = at[r] /\ x = Note(t, r))
      /\ \A g \in Gens : FinalLast(outbox[g], r) /\ (\A n \in Finals(r) : ~Has(outbox[g], n))
                          => FinalLast(outbox'[g], r)
  <2>1. /\ \A g \in Gens : \A x : Has(outbox'[g], x) <=> Has(outbox[g], x) \/ (g = at[r] /\ x = Note(t, r))
        /\ \A g \in Gens : \A s :
             /\ FinalLast(outbox[g], s)
             /\ g = at[r] => s # r \/ t = "wuSettle" \/ \A n \in Finals(s) : ~Has(outbox[at[r]], n)
             => FinalLast(outbox'[g], s)
    BY <1>2, <1>3, PostFlow, ZenonT(60)
  <2>2. QED
    BY <2>1
<1>7. /\ \A g \in Gens : ~Has(inbox[g], Fetch(r))
      /\ \A g \in Gens : \A n \in Finals(r) : ~Has(outbox[g], n)
  BY <1>1 DEF Ordered
<1>8. wk'[r] # "none" /\ (t \in {"result", "end"} => wk'[r] = "finished")
  BY <1>1 DEF TypeOK, RequestType
<1>9. Placed(r)'
  BY <1>1, <1>6 DEF Placed
<1>10. Ordered(r)'
  <2>1. \A g \in Gens : FinalLast(outbox'[g], r)
    BY <1>1, <1>6, <1>7 DEF Ordered
  <2>2. \A g \in Gens : FetchOnce(inbox'[g], r)
    BY <1>1 DEF Ordered
  <2>3. \A g \in Gens : \A n \in Finals(r) : Has(outbox'[g], n) => wk'[r] = "finished"
    <3>1. \A n \in Finals(r) : n = Note(t, r) => t \in {"result", "end"}
      BY NoteParts DEF Finals
    <3>2. QED
      BY <1>6, <1>7, <1>8, <3>1
  <2>4. QED
    BY <1>7, <2>1, <2>2, <2>3 DEF Ordered
<1>11. Owing(r)'
  BY <1>2 DEF Owing
<1>12. CASE t = "wuAdd"
  <2>1. bg'[r] = "running" /\ bg[r] = "none"
    BY <1>3, <1>12 DEF TypeOK, RequestType
  <2>2. \A g \in Gens : ~Has(outbox'[g], Note("wuSettle", r))
    BY <1>1, <1>6, <1>12, <2>1, NoteParts DEF Promised
  <2>3. Promised(r)'
    BY <1>2, <1>6, <1>12, <2>2 DEF Promised
  <2>4. Phased(r)'
    BY <1>1, <1>2, <2>1 DEF Phased
  <2>5. QED
    BY <1>1, <1>5, <1>9, <1>10, <1>11, <2>3, <2>4 DEF FlowInv, Flow
<1>13. CASE t # "wuAdd"
  <2>1. bg' = bg
    BY <1>13
  <2>2. Note("wuSettle", r) # Note(t, r)
    BY NoteParts DEF Replies
  <2>3. Promised(r)'
    BY <1>1, <1>6, <2>1, <2>2 DEF Promised, Phased
  <2>4. Phased(r)'
    BY <1>1, <1>2, <2>1 DEF Phased
  <2>5. QED
    BY <1>5, <1>9, <1>10, <1>11, <2>3, <2>4 DEF FlowInv, Flow
<1>14. QED
  BY <1>12, <1>13

\* A promise of w settles.
LEMMA SettleFlow ==
  ASSUME TypeOK, FlowInv, NEW w \in Work, SettleWork(w)
  PROVE  FlowInv'
<1>1. /\ bg[w] = "running" /\ bg' = [bg EXCEPT ![w] = "settled"] /\ Post(at[w], Note("wuSettle", w))
      /\ UNCHANGED <<phase, at, wk, alive, cause, nextGen, inbox, tracked>>
  BY DEF SettleWork, managerVars, Note
<1>2. bg'[w] = "settled" /\ \A s \in Reqs : s # w => bg'[s] = bg[s]
  BY <1>1 DEF TypeOK, RequestType, Work
<1>3. "wuSettle" \in Notes
  BY DEF Notes
<1>4. CASE at[w] \notin Gens
  <2>1. outbox' = outbox
    BY <1>1, <1>4 DEF Post, TypeOK, ChannelType
  <2>2. w \notin Reqs
    BY <1>1, <1>4 DEF FlowInv, Flow, Phased
  <2>3. SUFFICES ASSUME NEW r \in Reqs PROVE Flow(r)'
    BY DEF FlowInv
  <2>4. Flow(r) /\ \A g \in Gens : FinalLast(outbox[g], r) /\ FetchOnce(inbox[g], r)
    BY DEF FlowInv, Flow, Ordered
  <2>5. nextGen \in Int /\ bg'[r] = bg[r]
    BY <1>2, <2>2 DEF TypeOK, ManagerType
  <2>6. QED
    BY <1>1, <2>1, <2>4, <2>5, Frame
<1>5. CASE at[w] \in Gens
  <2>1. \A s \in Reqs : s # w => Flow(s)'
    BY <1>1, <1>2, <1>3, <1>5, PostOthers
  <2>2. SUFFICES ASSUME w \in Reqs PROVE Flow(w)'
    BY <2>1 DEF FlowInv
  <2>3. Placed(w) /\ Ordered(w) /\ Owing(w) /\ Promised(w) /\ Phased(w)
    BY <2>2 DEF FlowInv, Flow
  <2>4. /\ \A g \in Gens : \A x : Has(outbox'[g], x) <=> Has(outbox[g], x) \/ (g = at[w] /\ x = Note("wuSettle", w))
        /\ \A g \in Gens : FinalLast(outbox[g], w) => FinalLast(outbox'[g], w)
    <3>1. /\ \A g \in Gens : \A x : Has(outbox'[g], x) <=> Has(outbox[g], x) \/ (g = at[w] /\ x = Note("wuSettle", w))
          /\ \A g \in Gens : \A r :
               /\ FinalLast(outbox[g], r)
               /\ g = at[w] => r # w \/ "wuSettle" = "wuSettle" \/ \A n \in Finals(r) : ~Has(outbox[at[w]], n)
               => FinalLast(outbox'[g], r)
      BY <1>1, <1>3, <1>5, PostFlow
    <3>2. QED
      BY <3>1
  <2>5. /\ \A t \in Replies : Note(t, w) # Note("wuSettle", w)
        /\ \A n \in Finals(w) : n # Note("wuSettle", w)
    BY NoteParts DEF Replies, Finals
  <2>6. Placed(w)'
    BY <1>1, <2>3, <2>4 DEF Placed
  <2>7. Ordered(w)'
    BY <1>1, <2>3, <2>4, <2>5 DEF Ordered
  <2>8. Owing(w)'
    BY <1>1, <2>3, <2>4, <2>5 DEF Owing
  <2>9. Promised(w)'
    BY <1>2 DEF Promised
  <2>10. Phased(w)'
    BY <1>1, <1>2, <2>3 DEF Phased
  <2>11. QED
    BY <2>6, <2>7, <2>8, <2>9, <2>10 DEF Flow
<1>6. QED
  BY <1>4, <1>5

\* What a thread's handlers, streams, consumers and promises post.
LEMMA PostStep ==
  ASSUME TypeOK, FlowInv,
         \/ \E r \in Reqs : WaitUntil(r) \/ Reply(r) \/ EndStream(r)
         \/ \E b \in Batches, g \in Gens : StartBatch(b, g)
         \/ \E w \in Work : SettleWork(w)
  PROVE  FlowInv'
<1>1. "wuAdd" \in Replies /\ "stream" \in Replies /\ "result" \in Replies /\ "end" \in Replies /\ "wuAdd" \in Notes
  BY DEF Replies, Notes
<1>2. ASSUME NEW r \in Reqs, WaitUntil(r) PROVE FlowInv'
  <2>1. /\ wk[r] \in {"running", "streaming"} /\ bg[r] = "none" /\ bg' = [bg EXCEPT ![r] = "running"]
        /\ Post(at[r], Note("wuAdd", r)) /\ wk' = [wk EXCEPT ![r] = @]
        /\ UNCHANGED <<phase, at, alive, cause, nextGen, inbox, tracked>>
    BY <1>2 DEF WaitUntil, managerVars, Note, TypeOK, RequestType
  <2>2. QED
    BY <1>1, <2>1, ReplyFlow
<1>3. ASSUME NEW r \in Reqs, Reply(r) PROVE FlowInv'
  <2>1. /\ wk[r] \in {"running", "streaming"} /\ bg' = bg
        /\ UNCHANGED <<phase, at, alive, cause, nextGen, inbox, tracked>>
        /\ \/ wk' = [wk EXCEPT ![r] = "streaming"] /\ Post(at[r], Note("stream", r))
           \/ wk' = [wk EXCEPT ![r] = "finished"] /\ Post(at[r], Note("result", r))
    BY <1>3 DEF Reply, managerVars, Note
  <2>2. QED
    BY <1>1, <2>1, ReplyFlow
<1>4. ASSUME NEW r \in Reqs, EndStream(r) PROVE FlowInv'
  <2>1. /\ wk[r] \in {"running", "streaming"} /\ bg' = bg
        /\ UNCHANGED <<phase, at, alive, cause, nextGen, inbox, tracked>>
        /\ wk' = [wk EXCEPT ![r] = "finished"] /\ Post(at[r], Note("end", r))
    BY <1>4 DEF EndStream, managerVars, Note
  <2>2. QED
    BY <1>1, <2>1, ReplyFlow
<1>5. ASSUME NEW b \in Batches, NEW g \in Gens, StartBatch(b, g) PROVE FlowInv'
  <2>1. /\ b \in Work /\ \A s \in Reqs : s # b
    BY GenAssumption DEF Work
  <2>2. /\ at' = [at EXCEPT ![b] = g] /\ bg' = [bg EXCEPT ![b] = "running"] /\ wk' = wk
        /\ Post(g, Note("wuAdd", b))
        /\ UNCHANGED <<phase, alive, cause, nextGen, inbox, tracked>>
    BY <1>5 DEF StartBatch, managerVars, Note
  <2>3. \A s \in Reqs : wk'[s] = wk[s] /\ bg'[s] = bg[s] /\ at'[s] = at[s]
    BY <2>1, <2>2 DEF TypeOK, RequestType, Work
  <2>4. \A s \in Reqs : s # b => Flow(s)'
    BY <1>1, <2>1, <2>2, <2>3, PostOthers
  <2>5. QED
    BY <2>1, <2>4 DEF FlowInv
<1>6. QED
  BY <1>2, <1>3, <1>4, <1>5, SettleFlow

-----------------------------------------------------------------------------
(* What main and a thread read.                                            *)

\* A thread takes a request, or an order that is not about one.
LEMMA ReceiveFlow ==
  ASSUME TypeOK, FlowInv, NEW g \in Gens, WorkerReceives(g)
  PROVE  FlowInv'
<1> DEFINE m == Head(inbox[g])
<1>1. /\ inbox \in [Gens -> Seq(ToWorker)] /\ inbox[g] # <<>> /\ inbox' = [inbox EXCEPT ![g] = Tail(@)]
      /\ UNCHANGED <<phase, at, bg, alive, cause, nextGen, tracked>>
      /\ nextGen \in Int
  BY DEF WorkerReceives, managerVars, TypeOK, ChannelType, ManagerType
<1>2. \/ m.type = "fetch" /\ wk' = [wk EXCEPT ![m.of] = "running"] /\ outbox' = outbox
      \/ m.type # "fetch" /\ wk' = wk /\ outbox' = outbox
      \/ m.type # "fetch" /\ wk' = wk /\ outbox' = [outbox EXCEPT ![g] = Append(@, [type |-> "resumed"])]
  <2>1. m \in ToWorker
    BY <1>1, HeadTailProperties
  <2>2. m.type \in {"fetch", "resume", "stopQueue"}
    BY <2>1 DEF ToWorker
  <2>3. QED
    BY <2>2 DEF WorkerReceives, Post
<1> HIDE DEF m
<1>3. /\ m \in ToWorker /\ Has(inbox[g], m)
      /\ \A h \in Gens : \A x : Has(inbox'[h], x) => Has(inbox[h], x)
      /\ \A h \in Gens : \A x : x # m => (Has(inbox'[h], x) <=> Has(inbox[h], x))
      /\ \A h \in Gens : \A r : FetchOnce(inbox[h], r) => FetchOnce(inbox'[h], r)
      /\ \A r : FetchOnce(inbox[g], r) /\ m = Fetch(r) => ~Has(inbox'[g], Fetch(r))
  <2>1. /\ inbox[g] \in Seq(ToWorker) /\ inbox[g] # <<>> /\ inbox'[g] = Tail(inbox[g])
        /\ \A h \in Gens : h # g => inbox'[h] = inbox[h]
    BY <1>1
  <2>2. m = Head(inbox[g]) /\ m \in ToWorker
    BY <2>1, HeadTailProperties DEF m
  <2>3. /\ Has(inbox[g], m)
        /\ \A x : Has(Tail(inbox[g]), x) => Has(inbox[g], x)
        /\ \A x : Has(inbox[g], x) /\ x # m => Has(Tail(inbox[g]), x)
        /\ \A r : FetchOnce(inbox[g], r) => FetchOnce(Tail(inbox[g]), r)
        /\ \A r : FetchOnce(inbox[g], r) /\ m = Fetch(r) => ~Has(Tail(inbox[g]), Fetch(r))
    BY <2>1, <2>2, TailLine
  <2>4. QED
    BY <2>1, <2>2, <2>3
<1>4. /\ \A h \in Gens : \A t, r : Has(outbox'[h], Note(t, r)) /\ t \in Notes <=> Has(outbox[h], Note(t, r)) /\ t \in Notes
      /\ \A h \in Gens : \A r : FinalLast(outbox[h], r) => FinalLast(outbox'[h], r)
  <2>1. CASE outbox' = outbox
    BY <2>1
  <2>2. CASE outbox' = [outbox EXCEPT ![g] = Append(@, [type |-> "resumed"])]
    <3>1. /\ outbox \in [Gens -> Seq(ToMain)] /\ [type |-> "resumed"] \in ToMain
          /\ outbox[g] \in Seq(ToMain)
      BY MessageType DEF TypeOK, ChannelType
    <3>2. outbox'[g] = Append(outbox[g], [type |-> "resumed"]) /\ \A h \in Gens : h # g => outbox'[h] = outbox[h]
      BY <2>2, <3>1
    <3>3. \A t \in Notes : \A r : Note(t, r) # [type |-> "resumed"]
      <4>1. \A t \in Notes : t # "resumed"
        BY DEF Notes, Replies
      <4>2. \A t, r : Note(t, r).type = t
        BY NoteParts
      <4>3. [type |-> "resumed"].type = "resumed"
        OBVIOUS
      <4>4. QED
        BY <4>1, <4>2, <4>3
    <3>4. Replies \subseteq Notes
      BY DEF Notes
    <3>5. \A t \in Notes : \A r : Has(outbox'[g], Note(t, r)) <=> Has(outbox[g], Note(t, r))
      BY <3>1, <3>2, <3>3, AppendLine
    <3>6. \A r : FinalLast(outbox[g], r) => FinalLast(outbox'[g], r)
      BY <3>1, <3>2, <3>3, <3>4, AppendLine
    <3>7. QED
      BY <3>2, <3>5, <3>6
  <2>3. QED
    BY <1>2, <2>1, <2>2
<1>5. ASSUME NEW s \in Reqs, m # Fetch(s), wk'[s] = wk[s] PROVE Flow(s)'
  <2>1. Flow(s) /\ \A h \in Gens : FinalLast(outbox[h], s) /\ FetchOnce(inbox[h], s)
    BY DEF FlowInv, Flow, Ordered
  <2>2. \A h \in Gens : /\ \A t \in Notes : Has(outbox'[h], Note(t, s)) <=> Has(outbox[h], Note(t, s))
                        /\ Has(inbox'[h], Fetch(s)) <=> Has(inbox[h], Fetch(s))
                        /\ FinalLast(outbox'[h], s) /\ FetchOnce(inbox'[h], s)
    BY <1>3, <1>4, <1>5, <2>1
  <2>3. QED
    BY <1>1, <1>5, <2>1, <2>2, Frame
<1>6. CASE m.type # "fetch"
  <2>1. \A s \in Reqs : m # Fetch(s)
    BY <1>6, NoteParts
  <2>2. QED
    BY <1>2, <1>5, <1>6, <2>1 DEF FlowInv
<1>7. CASE m.type = "fetch"
  <2>1. PICK r \in Reqs : m = Fetch(r)
    BY <1>3, <1>7 DEF ToWorker, Fetch
  <2>2. wk' = [wk EXCEPT ![r] = "running"] /\ outbox' = outbox
    BY <1>2, <1>7, <2>1, NoteParts
  <2>3. wk'[r] = "running" /\ \A s \in Reqs : s # r => wk'[s] = wk[s] /\ m # Fetch(s)
    BY <2>1, <2>2, NoteParts DEF TypeOK, RequestType
  <2>4. \A s \in Reqs : s # r => Flow(s)'
    BY <1>5, <2>3
  <2>5. Placed(r) /\ Ordered(r) /\ Owing(r) /\ Promised(r) /\ Phased(r)
    BY DEF FlowInv, Flow
  <2>6. /\ g = at[r] /\ wk[r] = "none" /\ phase[r] \in {"pending", "streaming"}
        /\ \A h \in Gens : ~Has(inbox'[h], Fetch(r))
    BY <1>3, <2>1, <2>5 DEF Placed, Ordered, Owing
  <2>7. Placed(r)'
    BY <1>1, <2>2, <2>5, <2>6 DEF Placed
  <2>8. Ordered(r)'
    BY <1>3, <2>2, <2>5, <2>6 DEF Ordered
  <2>9. Owing(r)'
    BY <1>1, <2>6 DEF Owing
  <2>10. Promised(r)'
    BY <1>1, <2>2, <2>5 DEF Promised
  <2>11. Phased(r)'
    BY <1>1, <2>5, <2>6 DEF Phased
  <2>12. QED
    BY <2>4, <2>7, <2>8, <2>9, <2>10, <2>11 DEF FlowInv, Flow
<1>8. QED
  BY <1>6, <1>7

\* Main reads the next message of a thread.
LEMMA HandleFlow ==
  ASSUME TypeOK, FlowInv, NEW g \in Gens, HandleMessage(g)
  PROVE  FlowInv'
<1> DEFINE m == Head(outbox[g])
<1>1. /\ outbox \in [Gens -> Seq(ToMain)] /\ outbox[g] # <<>> /\ outbox' = [outbox EXCEPT ![g] = Tail(@)]
      /\ UNCHANGED <<at, wk, bg, alive, cause, nextGen, inbox>>
      /\ nextGen \in Int /\ phase \in [Reqs -> Phases] /\ tracked \in [Gens -> SUBSET Work]
  BY DEF HandleMessage, managerVars, TypeOK, ChannelType, ManagerType, RequestType
<1>2. m \in ToMain
  <2>1. outbox[g] \in Seq(ToMain) /\ outbox[g] # <<>>
    BY <1>1
  <2>2. QED
    BY <2>1, HeadTailProperties
<1>3. \/ m.type \in {"result", "end"} /\ phase' = [phase EXCEPT ![m.of] = "done"] /\ tracked' = tracked
      \/ m.type = "stream" /\ phase' = [phase EXCEPT ![m.of] = "streaming"] /\ tracked' = tracked
      \/ m.type = "wuAdd" /\ phase' = phase /\ tracked' = [tracked EXCEPT ![g] = @ \cup {m.of}]
      \/ m.type = "wuSettle" /\ phase' = phase /\ tracked' = [tracked EXCEPT ![g] = @ \ {m.of}]
      \/ m.type = "resumed" /\ phase' = phase /\ tracked' = tracked
  <2>1. m.type \in {"result", "end", "stream", "wuAdd", "wuSettle", "resumed"}
    BY <1>2 DEF ToMain
  <2>2. QED
    BY <2>1 DEF HandleMessage
<1> HIDE DEF m
<1>4. /\ Has(outbox[g], m)
      /\ \A h \in Gens : \A x : Has(outbox'[h], x) => Has(outbox[h], x)
      /\ \A h \in Gens : \A x : x # m => (Has(outbox'[h], x) <=> Has(outbox[h], x))
      /\ \A h \in Gens : \A r : FinalLast(outbox[h], r) => FinalLast(outbox'[h], r)
      /\ \A r : FinalLast(outbox[g], r) /\ m \in Finals(r) =>
                  \A t \in Replies : ~Has(outbox'[g], Note(t, r))
  <2>1. /\ outbox[g] \in Seq(ToMain) /\ outbox[g] # <<>> /\ outbox'[g] = Tail(outbox[g])
        /\ \A h \in Gens : h # g => outbox'[h] = outbox[h]
    BY <1>1
  <2>2. m = Head(outbox[g]) /\ m \in ToMain
    BY <2>1, HeadTailProperties DEF m
  <2>3. /\ Has(outbox[g], m)
        /\ \A x : Has(Tail(outbox[g]), x) => Has(outbox[g], x)
        /\ \A x : Has(outbox[g], x) /\ x # m => Has(Tail(outbox[g]), x)
        /\ \A r : FinalLast(outbox[g], r) => FinalLast(Tail(outbox[g]), r)
        /\ \A r : FinalLast(outbox[g], r) /\ m \in Finals(r) =>
                    \A t \in Replies : ~Has(Tail(outbox[g]), Note(t, r))
    BY <2>1, <2>2, TailLine
  <2>4. QED
    BY <2>1, <2>2, <2>3
<1>5. /\ Replies \subseteq Notes /\ "wuSettle" \in Notes /\ "wuAdd" \in Notes /\ "wuAdd" \in Replies
      /\ \A r : \A n \in Finals(r) : \E t \in Notes : n = Note(t, r)
  BY DEF Replies, Notes, Finals
<1>6. ASSUME NEW s \in Reqs, \A t \in Notes : m # Note(t, s), phase'[s] = phase[s],
             at[s] \in Gens /\ s \in tracked[at[s]] => s \in tracked'[at[s]]
      PROVE  Flow(s)'
  <2>1. Flow(s) /\ \A h \in Gens : FinalLast(outbox[h], s) /\ FetchOnce(inbox[h], s)
    BY DEF FlowInv, Flow, Ordered
  <2>2. \A h \in Gens : /\ \A t \in Notes : Has(outbox'[h], Note(t, s)) <=> Has(outbox[h], Note(t, s))
                        /\ FinalLast(outbox'[h], s)
    BY <1>4, <1>6, <2>1
  <2>3. QED
    BY <1>1, <1>6, <2>1, <2>2, Frame
<1>7. CASE m.type = "resumed"
  <2>1. \A t \in Notes : t # "resumed"
    BY DEF Notes, Replies
  <2>2. \A s : \A t \in Notes : m # Note(t, s)
    BY <1>7, <2>1, NoteParts
  <2>3. phase' = phase /\ tracked' = tracked
    BY <1>3, <1>7
  <2>4. QED
    BY <1>6, <2>2, <2>3 DEF FlowInv
<1>8. CASE m.type # "resumed"
  <2>1. PICK t \in Notes, w \in Work : m = Note(t, w) /\ (w \in Reqs \/ t \in {"wuAdd", "wuSettle"})
    BY <1>2, <1>8 DEF ToMain, Note, Notes, Replies, Work
  <2>2. m.type = t /\ m.of = w
    BY <2>1, NoteParts
  <2>3. \A s \in Reqs : s # w => Flow(s)'
    <3>1. SUFFICES ASSUME NEW s \in Reqs, s # w PROVE Flow(s)'
      OBVIOUS
    <3>2. \A u \in Notes : m # Note(u, s)
      BY <2>1, <3>1, NoteParts
    <3>3. phase'[s] = phase[s]
      BY <1>1, <1>3, <2>2, <3>1
    <3>4. at[s] \in Gens /\ s \in tracked[at[s]] => s \in tracked'[at[s]]
      BY <1>1, <1>3, <2>2, <3>1
    <3>5. QED
      BY <1>6, <3>2, <3>3, <3>4
  <2>4. SUFFICES ASSUME w \in Reqs PROVE Flow(w)'
    BY <2>3 DEF FlowInv
  <2>5. Placed(w) /\ Ordered(w) /\ Owing(w) /\ Promised(w) /\ Phased(w)
    BY <2>4 DEF FlowInv, Flow
  <2>6. g = at[w] /\ phase[w] # "idle"
    BY <1>4, <2>1, <2>5 DEF Placed, Phased, Gens, NoGen
  <2>7. Placed(w)'
    BY <1>1, <1>4, <2>5 DEF Placed
  <2>8. Ordered(w)'
    BY <1>1, <1>4, <2>5 DEF Ordered
  <2>9. \A h \in Gens : ~Has(outbox[h], Note("wuSettle", w)) => ~Has(outbox'[h], Note("wuSettle", w))
    BY <1>4
  <2>10. CASE t \in {"result", "end"}
    <3>1. phase' = [phase EXCEPT ![w] = "done"] /\ tracked' = tracked /\ m \in Finals(w)
      BY <1>3, <2>1, <2>2, <2>10 DEF Finals
    <3>2. phase'[w] = "done"
      BY <1>1, <2>4, <3>1
    <3>3. wk[w] = "finished" /\ \A h \in Gens : ~Has(inbox[h], Fetch(w))
      BY <1>4, <2>5, <3>1 DEF Ordered
    <3>4. \A h \in Gens : \A u \in Replies : ~Has(outbox'[h], Note(u, w))
      <4>1. FinalLast(outbox[g], w)
        BY <2>5 DEF Ordered
      <4>2. \A u \in Replies : ~Has(outbox'[g], Note(u, w))
        BY <1>4, <3>1, <4>1
      <4>3. QED
        BY <1>5, <2>6, <2>7, <4>2, <1>1 DEF Placed
    <3>5. Owing(w)'
      BY <1>1, <3>3, <3>4 DEF Owing
    <3>6. Note("wuAdd", w) # m
      BY <2>1, <2>10, NoteParts
    <3>7. Promised(w)'
      BY <1>1, <1>4, <2>5, <2>6, <2>9, <3>1, <3>6 DEF Promised
    <3>8. Phased(w)'
      BY <1>1, <2>5, <2>6, <3>2 DEF Phased
    <3>9. QED
      BY <2>7, <2>8, <3>5, <3>7, <3>8 DEF Flow
  <2>11. CASE t = "stream"
    <3>1. phase' = [phase EXCEPT ![w] = "streaming"] /\ tracked' = tracked
      BY <1>3, <2>2, <2>11
    <3>2. phase'[w] = "streaming"
      BY <1>1, <2>4, <3>1
    <3>3. phase[w] \in {"pending", "streaming"}
      BY <1>4, <2>1, <2>5, <2>11 DEF Owing, Replies
    <3>4. Owing(w)'
      BY <3>2 DEF Owing
    <3>5. Note("wuAdd", w) # m
      BY <2>1, <2>11, NoteParts
    <3>6. Promised(w)'
      BY <1>1, <1>4, <2>5, <2>6, <2>9, <3>1, <3>5 DEF Promised
    <3>7. Phased(w)'
      BY <1>1, <2>5, <3>2, <3>3 DEF Phased
    <3>8. QED
      BY <2>7, <2>8, <3>4, <3>6, <3>7 DEF Flow
  <2>12. CASE t \in {"wuAdd", "wuSettle"}
    <3>1. phase' = phase
      BY <1>3, <2>2, <2>12
    <3>2. Owing(w)'
      BY <1>1, <1>4, <2>5, <3>1 DEF Owing
    <3>3. Phased(w)'
      BY <1>1, <2>5, <3>1 DEF Phased
    <3>4. Promised(w)'
      <4>1. CASE t = "wuAdd"
        <5>1. w \in tracked'[at'[w]]
          BY <1>1, <1>3, <2>2, <2>6, <4>1
        <5>2. QED
          BY <1>1, <2>5, <2>9, <5>1 DEF Promised
      <4>2. CASE t = "wuSettle"
        <5>1. bg[w] \notin {"none", "running"}
          BY <1>4, <2>1, <2>5, <4>2 DEF Promised
        <5>2. QED
          BY <1>1, <5>1 DEF Promised
      <4>3. QED
        BY <2>12, <4>1, <4>2
    <3>5. QED
      BY <2>7, <2>8, <3>2, <3>3, <3>4 DEF Flow
  <2>13. QED
    BY <2>10, <2>11, <2>12 DEF Notes, Replies
<1>9. QED
  BY <1>7, <1>8

-----------------------------------------------------------------------------
(* The theorem.                                                            *)

\* Nothing is under way at first.
LEMMA FlowInit == Init => FlowInv
<1>1. SUFFICES ASSUME Init, NEW r \in Reqs PROVE Flow(r)
  BY DEF FlowInv
<1>2. /\ phase[r] = "idle" /\ at[r] = NoGen /\ wk[r] = "none" /\ bg[r] = "none"
      /\ \A g \in Gens : inbox[g] = <<>> /\ outbox[g] = <<>>
  <2>1. /\ phase = [s \in Reqs |-> "idle"] /\ wk = [s \in Reqs |-> "none"]
        /\ at = [w \in Work |-> NoGen] /\ bg = [w \in Work |-> "none"]
        /\ inbox = [g \in Gens |-> <<>>] /\ outbox = [g \in Gens |-> <<>>]
    BY <1>1 DEF Init
  <2>2. QED
    BY <2>1 DEF Work
<1>3. /\ \A g \in Gens : FinalLast(outbox[g], r) /\ FetchOnce(inbox[g], r)
      /\ \A g \in Gens : \A x : ~Has(outbox[g], x) /\ ~Has(inbox[g], x)
  BY <1>2, EmptyLine
<1>4. Placed(r) /\ Ordered(r) /\ Owing(r) /\ Promised(r)
  BY <1>2, <1>3 DEF Placed, Ordered, Owing, Promised
<1>5. Phased(r)
  BY <1>2 DEF Phased
<1>6. QED
  BY <1>4, <1>5 DEF Flow

\* Every step keeps the invariant.
LEMMA FlowStep == TypeOK /\ ManagerInv /\ FlowInv /\ [Next]_vars => FlowInv'
<1>1. SUFFICES ASSUME TypeOK, ManagerInv, FlowInv, [Next]_vars PROVE FlowInv'
  OBVIOUS
<1>2. ASSUME UNCHANGED <<phase, at, wk, bg, alive, cause, nextGen, inbox, outbox, tracked>> PROVE FlowInv'
  BY <1>1, <1>2, QuietStep
<1>3. CASE \/ \E c \in Callers : CallReload(c)
           \/ FollowUp \/ LoadFails
           \/ \E g \in Gens : Forget(g)
           \/ UNCHANGED vars
  BY <1>2, <1>3 DEF CallReload, FollowUp, LoadFails, Forget, vars, managerVars, requestVars, channelVars
<1>4. CASE \/ \E r \in Reqs, i \in Instances : CreateWorkflow(r, i)
           \/ \E i \in Instances, g \in Gens : CompleteWorkflow(i, g)
  BY <1>2, <1>4 DEF CreateWorkflow, CompleteWorkflow, managerVars, requestVars, channelVars
<1>5. QED
  BY <1>1, <1>3, <1>4, LoadStep, EndStep, FetchStep, PostStep, ReceiveFlow, HandleFlow DEF Next

\* A generation that is stopped because it is idle cuts off no answer, no
\* body and no promise: only the grace timer, the dashboard and a crash do
\* (generation.ts, isIdle; generation-manager.ts, _scheduleDrainAndStop).
THEOREM IdleStopSparesAlways == Spec => []IdleStopSpares
BY FlowInit, FlowStep, InvSpares, ManagerAlways, Typing, PTL DEF Spec
=============================================================================
