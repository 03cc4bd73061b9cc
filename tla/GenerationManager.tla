-------------------------- MODULE GenerationManager --------------------------
(***************************************************************************)
(* Hot reload of one worker: GenerationManager (src/generation-manager.ts) *)
(* owns a sequence of Generations (src/generation.ts).  Each Generation    *)
(* owns one worker thread through a WorkerThreadExecutor                   *)
(* (src/worker-thread/executor.ts); main and the thread talk over two FIFO *)
(* message channels.  An action is one macrotask of the main thread or of  *)
(* one worker thread, so what the code does between two awaits is atomic.  *)
(*                                                                         *)
(* Workflow instances live in the shared database, their executions in     *)
(* the memory of one worker thread.                                        *)
(***************************************************************************)
EXTENDS Naturals, Sequences, FiniteSets

CONSTANTS
  Reqs,       \* HTTP requests
  Batches,    \* queue batches a worker thread's consumer starts by itself
  AssetFirst, \* the requests the static assets are asked for first
  Instances,  \* workflow instance ids
  Callers,    \* callers of reload(): file watchers, the dashboard
  MaxGen      \* bound: how many generations are created

ASSUME GenAssumption ==
  /\ MaxGen \in Nat \ {0}
  /\ AssetFirst \subseteq Reqs
  /\ Reqs \cap Batches = {}

VARIABLES
  state,      \* Generation.state; "none" not created, "forgotten" left the map
  alive,      \* the generation's executor is not disposed
  cause,      \* history: why the executor was disposed
  activeGen,  \* _activeGenId, NoGen before the first load
  nextGen,    \* nextGenId
  resumed,    \* _resumedGenIds
  finishing,  \* generations whose finish() waits for idle or for the grace timer
  loading,    \* _reloading is set
  loads,      \* history: how many times _doReload has started
  caller,     \* what each reload() caller waits for
  asked,      \* history: the value of loads when the caller called
  got,        \* history: the load whose outcome the caller received
  phase,      \* each request as main sees it
  at,         \* the generation that took the request
  wk,         \* each request as its worker thread sees it
  bg,         \* the promise a request passed to ctx.waitUntil, or a batch delivery
  halted,     \* worker threads whose queue consumers were stopped
  inbox,      \* main -> worker messages
  outbox,     \* worker -> main messages
  tracked,    \* _pendingWaitUntil
  ctl,        \* a workflow control reply is outstanding (_pendingWorkflowControl)
  row,        \* workflow_instances.status
  execs       \* executeWorkflow runs of an instance in each worker thread

managerVars  == <<state, alive, cause, activeGen, nextGen, resumed, finishing>>
reloadVars   == <<loading, loads, caller, asked, got>>
requestVars  == <<phase, at, wk, bg, halted>>
channelVars  == <<inbox, outbox, tracked, ctl>>
workflowVars == <<row, execs>>
vars == <<managerVars, reloadVars, requestVars, channelVars, workflowVars>>

Gens  == 1..MaxGen
NoGen == 0
Work  == Reqs \cup Batches

States  == {"none", "active", "draining", "stopped", "forgotten"}
Causes  == {"none", "idle", "grace", "forced", "crash"}
Phases  == {"idle", "assets", "pending", "streaming", "done", "severed", "refused"}
Waiting == {"waitsCurrent", "waitsPending", "waitsDue"}
ToWorker == [type : {"fetch"}, of : Reqs] \cup [type : {"resume", "stopQueue"}]
ToMain   == [type : {"result", "stream", "end"}, of : Reqs]
              \cup [type : {"wuAdd", "wuSettle"}, of : Work]
              \cup [type : {"resumed"}]

ManagerType ==
  /\ state \in [Gens -> States]
  /\ alive \in [Gens -> BOOLEAN]
  /\ cause \in [Gens -> Causes]
  /\ activeGen \in Gens \cup {NoGen}
  /\ nextGen \in 1..(MaxGen + 1)
  /\ resumed \subseteq Gens
  /\ finishing \subseteq Gens
ReloadType ==
  /\ loading \in BOOLEAN
  /\ loads \in Nat
  /\ caller \in [Callers -> {"idle", "resolved", "rejected"} \cup Waiting]
  /\ asked \in [Callers -> Nat]
  /\ got \in [Callers -> Nat]
RequestType ==
  /\ phase \in [Reqs -> Phases]
  /\ at \in [Work -> Gens \cup {NoGen}]
  /\ wk \in [Reqs -> {"none", "running", "streaming", "finished"}]
  /\ bg \in [Work -> {"none", "running", "settled", "killed"}]
  /\ halted \subseteq Gens
ChannelType ==
  /\ inbox \in [Gens -> Seq(ToWorker)]
  /\ outbox \in [Gens -> Seq(ToMain)]
  /\ tracked \in [Gens -> SUBSET Work]
  /\ ctl \in [Gens -> BOOLEAN]
WorkflowType ==
  /\ row \in [Instances -> {"none", "running", "complete"}]
  /\ execs \in [Instances -> [Gens -> Nat]]
TypeOK == ManagerType /\ ReloadType /\ RequestType /\ ChannelType /\ WorkflowType

(***************************************************************************)
(* A process starts with no generation; the rows of instances that a       *)
(* previous process was running when it exited are still 'running'.        *)
(***************************************************************************)
Init ==
  /\ state = [g \in Gens |-> "none"]
  /\ alive = [g \in Gens |-> FALSE]
  /\ cause = [g \in Gens |-> "none"]
  /\ activeGen = NoGen
  /\ nextGen = 1
  /\ resumed = {}
  /\ finishing = {}
  /\ loading = FALSE
  /\ loads = 0
  /\ caller = [c \in Callers |-> "idle"]
  /\ asked = [c \in Callers |-> 0]
  /\ got = [c \in Callers |-> 0]
  /\ phase = [r \in Reqs |-> "idle"]
  /\ at = [w \in Work |-> NoGen]
  /\ wk = [r \in Reqs |-> "none"]
  /\ bg = [w \in Work |-> "none"]
  /\ halted = {}
  /\ inbox = [g \in Gens |-> <<>>]
  /\ outbox = [g \in Gens |-> <<>>]
  /\ tracked = [g \in Gens |-> {}]
  /\ ctl = [g \in Gens |-> FALSE]
  /\ row \in [Instances -> {"none", "running"}]
  /\ execs = [i \in Instances |-> [g \in Gens |-> 0]]

-----------------------------------------------------------------------------
(* What the manager asks of a generation.                                  *)

\* Mutants of IsIdle: isIdle forgets openStreamCount, or pendingWaitUntil.
IsIdle_NoStreams(g) ==
  /\ tracked[g] = {}
  /\ ~ctl[g]
  /\ \A r \in Reqs : at[r] = g => phase[r] # "pending"
IsIdle_NoWaitUntil(g) ==
  \A r \in Reqs : at[r] = g => phase[r] \notin {"pending", "streaming"}

\* Generation.isIdle over the executor's counters.  activeRequests is not a
\* term: callFetch returns startSpan(...) without awaiting it, so its finally
\* has decremented the counter before the first await of the dispatch ends.
IsIdle(g) ==
  /\ tracked[g] = {}
  /\ ~ctl[g]
  /\ \A r \in Reqs : at[r] = g => phase[r] \notin {"pending", "streaming"}

\* Generation.stop -> WorkerThreadExecutor.dispose -> _failAll (also reached
\* from onerror): the thread is terminated, everything main still awaits of it
\* is rejected, and nothing more is read from its channel.
Terminate(g, why) ==
  /\ cause' = [cause EXCEPT ![g] = IF alive[g] THEN why ELSE @]
  /\ phase' = [r \in Reqs |-> IF at[r] = g /\ phase[r] \in {"pending", "streaming"}
                                THEN "severed" ELSE phase[r]]
  /\ bg' = [w \in Work |-> IF at[w] = g /\ bg[w] = "running" THEN "killed" ELSE bg[w]]
  /\ wk' = [r \in Reqs |-> IF at[r] = g THEN "finished" ELSE wk[r]]
  /\ outbox' = [outbox EXCEPT ![g] = <<>>]
  /\ tracked' = [tracked EXCEPT ![g] = {}]
  /\ execs' = [i \in Instances |-> [execs[i] EXCEPT ![g] = 0]]
  /\ UNCHANGED <<at, halted>>

\* _resumeWorkflows(a), in a step that disposed the executor of dead: the
\* control op is posted unless a was resumed before or its executor is
\* disposed (executeWorkflowControl then rejects, and the error is logged).
ResumeWorkflows(a, dead) ==
  LET post == a \notin resumed /\ alive[a] /\ a # dead
  IN /\ resumed' = resumed \cup {a}
     /\ inbox' = [g \in Gens |-> IF g = dead THEN <<>>
                                 ELSE IF g = a /\ post THEN Append(inbox[g], [type |-> "resume"])
                                 ELSE inbox[g]]
     /\ ctl' = [g \in Gens |-> g # dead /\ (ctl[g] \/ (g = a /\ post))]

\* Mutant: resume as soon as the generation at hand has stopped.
OlderStopped_Unchecked(a, st) == TRUE

OlderStopped(a, st) == \A h \in Gens : h < a => st[h] \notin {"active", "draining"}

\* finish() of _scheduleDrainAndStop: g is stopped (st is the state map after
\* that), then the workflows are resumed on whatever generation _activeGenId
\* names at this moment, if every older generation is stopped.
Finish(g, active, st, why) ==
  /\ Terminate(g, why)
  /\ IF active # NoGen /\ OlderStopped(active, st)
       THEN ResumeWorkflows(active, g)
       ELSE /\ inbox' = [inbox EXCEPT ![g] = <<>>]
            /\ ctl' = [ctl EXCEPT ![g] = FALSE]
            /\ UNCHANGED resumed

-----------------------------------------------------------------------------
(* reload(), its coalescing and the load itself.                           *)

StartLoad ==
  /\ loading' = TRUE
  /\ loads' = loads + 1

\* Mutant: a caller that finds a load under way joins that load.
CallReload_JoinsCurrent(c) ==
  /\ caller[c] = "idle"
  /\ asked' = [asked EXCEPT ![c] = loads]
  /\ caller' = [caller EXCEPT ![c] = "waitsCurrent"]
  /\ IF loading THEN UNCHANGED <<loading, loads>> ELSE StartLoad
  /\ UNCHANGED <<got, managerVars, requestVars, channelVars, workflowVars>>

\* reload(): start a load, or join the single follow-up queued behind it.
CallReload(c) ==
  /\ caller[c] = "idle"
  /\ asked' = [asked EXCEPT ![c] = loads]
  /\ IF loading
       THEN /\ caller' = [caller EXCEPT ![c] = "waitsPending"]
            /\ UNCHANGED <<loading, loads>>
       ELSE /\ caller' = [caller EXCEPT ![c] = "waitsCurrent"]
            /\ StartLoad
  /\ UNCHANGED <<got, managerVars, requestVars, channelVars, workflowVars>>

\* Mutant: the follow-up is forgotten when the load settles.
SettleLoad_ForgetsFollowUp(outcome) ==
  /\ loading' = FALSE
  /\ caller' = [c \in Callers |-> IF caller[c] = "waitsCurrent" THEN outcome ELSE caller[c]]
  /\ got' = [c \in Callers |-> IF caller[c] = "waitsCurrent" THEN loads ELSE got[c]]
  /\ UNCHANGED <<loads, asked>>

\* The finally of reload(): the callers of this load settle, and the promise
\* of the follow-up is detached, its .then(() => this.reload()) now due.
SettleLoad(outcome) ==
  /\ loading' = FALSE
  /\ caller' = [c \in Callers |-> CASE caller[c] = "waitsCurrent" -> outcome
                                    [] caller[c] = "waitsPending" -> "waitsDue"
                                    [] OTHER -> caller[c]]
  /\ got' = [c \in Callers |-> IF caller[c] = "waitsCurrent" THEN loads ELSE got[c]]
  /\ UNCHANGED <<loads, asked>>

\* The follow-up calls reload() for everyone who was queued; a caller that got
\* in first makes it queue once more.
FollowUp ==
  /\ \E c \in Callers : caller[c] = "waitsDue"
  /\ caller' = [c \in Callers |-> IF caller[c] # "waitsDue" THEN caller[c]
                                  ELSE IF loading THEN "waitsPending" ELSE "waitsCurrent"]
  /\ IF loading THEN UNCHANGED <<loading, loads>> ELSE StartLoad
  /\ UNCHANGED <<asked, got, managerVars, requestVars, channelVars, workflowVars>>

\* executor.ready() rejects: the new executor is disposed, nothing else moves.
LoadFails ==
  /\ loading
  /\ SettleLoad("rejected")
  /\ UNCHANGED <<managerVars, requestVars, channelVars, workflowVars>>

\* Mutant: the id is read after nextGenId++.
LoadSucceeds_IdAfterIncrement ==
  /\ loading
  /\ nextGen <= MaxGen
  /\ nextGen' = nextGen + 1
  /\ activeGen' = nextGen + 1
  /\ SettleLoad("resolved")
  /\ UNCHANGED row

\* executor.ready() resolves: the rest of _doReload is one macrotask.
LoadSucceeds ==
  /\ loading
  /\ nextGen <= MaxGen
  /\ nextGen' = nextGen + 1
  /\ activeGen' = nextGen
  /\ SettleLoad("resolved")
  /\ UNCHANGED row

\* The first load resumes the workflows at once.
FirstLoad ==
  /\ LoadSucceeds
  /\ activeGen = NoGen
  /\ state' = [state EXCEPT ![nextGen] = "active"]
  /\ alive' = [alive EXCEPT ![nextGen] = TRUE]
  /\ resumed' = resumed \cup {nextGen}
  /\ inbox' = [inbox EXCEPT ![nextGen] = Append(@, [type |-> "resume"])]
  /\ ctl' = [ctl EXCEPT ![nextGen] = TRUE]
  /\ UNCHANGED <<cause, finishing, requestVars, outbox, tracked, execs>>

\* The old generation is busy: it drains, its finish() waits.
ReloadOverBusy ==
  /\ LoadSucceeds
  /\ activeGen # NoGen
  /\ ~IsIdle(activeGen)
  /\ state' = [state EXCEPT ![nextGen] = "active", ![activeGen] = "draining"]
  /\ alive' = [alive EXCEPT ![nextGen] = TRUE]
  /\ finishing' = finishing \cup {activeGen}
  /\ inbox' = [inbox EXCEPT ![activeGen] = IF alive[activeGen] THEN Append(@, [type |-> "stopQueue"]) ELSE @]
  /\ UNCHANGED <<cause, resumed, requestVars, outbox, tracked, ctl, execs>>

\* The old generation is idle: _scheduleDrainAndStop runs finish() at once,
\* before _activeGenId moves, so finish() takes the old generation for the
\* active one.
ReloadOverIdle ==
  LET stopped == [state EXCEPT ![nextGen] = "active", ![activeGen] = "stopped"]
  IN /\ LoadSucceeds
     /\ activeGen # NoGen
     /\ IsIdle(activeGen)
     /\ state' = stopped
     /\ alive' = [alive EXCEPT ![nextGen] = TRUE, ![activeGen] = FALSE]
     /\ Finish(activeGen, activeGen, stopped, "idle")
     /\ UNCHANGED finishing

-----------------------------------------------------------------------------
(* The end of a drained generation.                                        *)

\* The waitUntilIdle poll sees the generation idle, or already stopped.
IdleFinish(g) ==
  /\ g \in finishing
  /\ IsIdle(g) \/ state[g] = "stopped"
  /\ finishing' = finishing \ {g}
  /\ state' = [state EXCEPT ![g] = "stopped"]
  /\ alive' = [alive EXCEPT ![g] = FALSE]
  /\ Finish(g, activeGen, state', "idle")
  /\ UNCHANGED <<activeGen, nextGen, reloadVars, row>>

\* Mutant: no timer, finish() waits until the generation is idle.
GraceFinish_OnlyIdle(g) == IdleFinish(g)

\* The grace period ends first.
GraceFinish(g) ==
  /\ g \in finishing
  /\ finishing' = finishing \ {g}
  /\ state' = [state EXCEPT ![g] = "stopped"]
  /\ alive' = [alive EXCEPT ![g] = FALSE]
  /\ Finish(g, activeGen, state', "grace")
  /\ UNCHANGED <<activeGen, nextGen, reloadVars, row>>

\* Mutant: the dashboard may stop any generation that is not stopped.
ForceStop_AnyLive(g) ==
  /\ state[g] \in {"active", "draining"}
  /\ state' = [state EXCEPT ![g] = "stopped"]
  /\ alive' = [alive EXCEPT ![g] = FALSE]
  /\ Terminate(g, "forced")
  /\ inbox' = [inbox EXCEPT ![g] = <<>>]
  /\ ctl' = [ctl EXCEPT ![g] = FALSE]
  /\ UNCHANGED <<activeGen, nextGen, resumed, finishing, reloadVars, row>>

\* The dashboard's generations.drain stops the oldest draining generation.
ForceStop(g) ==
  /\ state[g] = "draining"
  /\ \A h \in Gens : state[h] = "draining" => g <= h
  /\ state' = [state EXCEPT ![g] = "stopped"]
  /\ alive' = [alive EXCEPT ![g] = FALSE]
  /\ Terminate(g, "forced")
  /\ inbox' = [inbox EXCEPT ![g] = <<>>]
  /\ ctl' = [ctl EXCEPT ![g] = FALSE]
  /\ UNCHANGED <<activeGen, nextGen, resumed, finishing, reloadVars, row>>

\* The 60 s timer of _stopGeneration.
Forget(g) ==
  /\ state[g] = "stopped"
  /\ g \notin finishing
  /\ state' = [state EXCEPT ![g] = "forgotten"]
  /\ resumed' = resumed \ {g}
  /\ UNCHANGED <<alive, cause, activeGen, nextGen, finishing, reloadVars, requestVars,
                 channelVars, workflowVars>>

\* executor.onerror: an uncaught error in the worker thread.  The generation
\* keeps its state.
Crash(g) ==
  /\ alive[g]
  /\ alive' = [alive EXCEPT ![g] = FALSE]
  /\ Terminate(g, "crash")
  /\ inbox' = [inbox EXCEPT ![g] = <<>>]
  /\ ctl' = [ctl EXCEPT ![g] = FALSE]
  /\ UNCHANGED <<state, activeGen, nextGen, resumed, finishing, reloadVars, row>>

-----------------------------------------------------------------------------
(* Requests on the main thread.                                            *)

\* _sendAndAwait: refuse on a disposed executor, else register and post.
ExecuteFetch(r, g) ==
  /\ phase' = [phase EXCEPT ![r] = IF alive[g] THEN "pending" ELSE "refused"]
  /\ inbox' = [inbox EXCEPT ![g] = IF alive[g] THEN Append(@, [type |-> "fetch", of |-> r]) ELSE @]

\* callFetch of the active generation.
Arrive(r) ==
  /\ phase[r] = "idle"
  /\ activeGen # NoGen
  /\ at' = [at EXCEPT ![r] = activeGen]
  /\ IF r \in AssetFirst
       THEN /\ phase' = [phase EXCEPT ![r] = "assets"]
            /\ UNCHANGED inbox
       ELSE ExecuteFetch(r, activeGen)
  /\ UNCHANGED <<managerVars, reloadVars, wk, bg, halted, outbox, tracked, ctl, workflowVars>>

\* await assets.fetch(request) of _dispatchFetch ends: an asset was found, or
\* 404 and the request goes on to the worker of the same generation.
AssetLookup(r) ==
  /\ phase[r] = "assets"
  /\ \/ /\ phase' = [phase EXCEPT ![r] = "done"]
        /\ UNCHANGED inbox
     \/ ExecuteFetch(r, at[r])
  /\ UNCHANGED <<managerVars, reloadVars, at, wk, bg, halted, outbox, tracked, ctl, workflowVars>>

\* executor._handleMessage: main reads the next message of a worker thread.
HandleMessage(g) ==
  /\ outbox[g] # <<>>
  /\ outbox' = [outbox EXCEPT ![g] = Tail(@)]
  /\ LET m == Head(outbox[g])
     IN CASE m.type = "result" ->
               /\ phase' = [phase EXCEPT ![m.of] = "done"]
               /\ UNCHANGED <<tracked, ctl>>
          [] m.type = "stream" ->
               /\ phase' = [phase EXCEPT ![m.of] = "streaming"]
               /\ UNCHANGED <<tracked, ctl>>
          [] m.type = "end" ->
               /\ phase' = [phase EXCEPT ![m.of] = "done"]
               /\ UNCHANGED <<tracked, ctl>>
          [] m.type = "wuAdd" ->
               /\ tracked' = [tracked EXCEPT ![g] = @ \cup {m.of}]
               /\ UNCHANGED <<phase, ctl>>
          [] m.type = "wuSettle" ->
               /\ tracked' = [tracked EXCEPT ![g] = @ \ {m.of}]
               /\ UNCHANGED <<phase, ctl>>
          [] m.type = "resumed" ->
               /\ ctl' = [ctl EXCEPT ![g] = FALSE]
               /\ UNCHANGED <<phase, tracked>>
  /\ UNCHANGED <<managerVars, reloadVars, at, wk, bg, halted, inbox, workflowVars>>

-----------------------------------------------------------------------------
(* A worker thread.                                                        *)

Post(g, m) == outbox' = [outbox EXCEPT ![g] = Append(@, m)]

\* self.onmessage of the worker thread.  resumeInterrupted runs every instance
\* whose row is 'running', whoever is running it.
WorkerReceives(g) ==
  /\ inbox[g] # <<>>
  /\ inbox' = [inbox EXCEPT ![g] = Tail(@)]
  /\ LET m == Head(inbox[g])
     IN CASE m.type = "fetch" ->
               /\ wk' = [wk EXCEPT ![m.of] = "running"]
               /\ UNCHANGED <<halted, outbox, execs>>
          [] m.type = "stopQueue" ->
               /\ halted' = halted \cup {g}
               /\ UNCHANGED <<wk, outbox, execs>>
          [] m.type = "resume" ->
               /\ execs' = [i \in Instances |->
                              IF row[i] = "running" THEN [execs[i] EXCEPT ![g] = @ + 1] ELSE execs[i]]
               /\ Post(g, [type |-> "resumed"])
               /\ UNCHANGED <<wk, halted>>
  /\ UNCHANGED <<managerVars, reloadVars, phase, at, bg, tracked, ctl, row>>

\* ctx.waitUntil(p) while the handler or its response stream is running (a
\* call from work the handler left behind unregistered is not modelled).
WaitUntil(r) ==
  /\ wk[r] \in {"running", "streaming"}
  /\ bg[r] = "none"
  /\ bg' = [bg EXCEPT ![r] = "running"]
  /\ Post(at[r], [type |-> "wuAdd", of |-> r])
  /\ UNCHANGED <<managerVars, reloadVars, phase, at, wk, halted, inbox, tracked, ctl, workflowVars>>

\* The fetch handler returns (or throws): fetch-result, with or without a
\* streamed body, or fetch-error.
Reply(r) ==
  /\ wk[r] = "running"
  /\ \/ /\ wk' = [wk EXCEPT ![r] = "streaming"]
        /\ Post(at[r], [type |-> "stream", of |-> r])
     \/ /\ wk' = [wk EXCEPT ![r] = "finished"]
        /\ Post(at[r], [type |-> "result", of |-> r])
  /\ UNCHANGED <<managerVars, reloadVars, phase, at, bg, halted, inbox, tracked, ctl, workflowVars>>

\* The pumped response body ends (stream-end or stream-error).
EndStream(r) ==
  /\ wk[r] = "streaming"
  /\ wk' = [wk EXCEPT ![r] = "finished"]
  /\ Post(at[r], [type |-> "end", of |-> r])
  /\ UNCHANGED <<managerVars, reloadVars, phase, at, bg, halted, inbox, tracked, ctl, workflowVars>>

\* A poll of the thread's queue consumer claims a batch and registers its
\* delivery with trackBackgroundWork.  (The polls a thread makes before it is
\* ready are left out: their registration reaches main before 'ready' does.)
StartBatch(b, g) ==
  /\ bg[b] = "none"
  /\ alive[g]
  /\ g \notin halted
  /\ at' = [at EXCEPT ![b] = g]
  /\ bg' = [bg EXCEPT ![b] = "running"]
  /\ Post(g, [type |-> "wuAdd", of |-> b])
  /\ UNCHANGED <<managerVars, reloadVars, phase, wk, halted, inbox, tracked, ctl, workflowVars>>

\* A tracked promise settles.
SettleWork(w) ==
  /\ bg[w] = "running"
  /\ bg' = [bg EXCEPT ![w] = "settled"]
  /\ Post(at[w], [type |-> "wuSettle", of |-> w])
  /\ UNCHANGED <<managerVars, reloadVars, phase, at, wk, halted, inbox, tracked, ctl, workflowVars>>

\* User code calls env.WORKFLOW.create(): the row is inserted and executed in
\* this thread.  The execution is not registered with the drain accounting.
CreateWorkflow(r, i) ==
  /\ wk[r] \in {"running", "streaming"} \/ bg[r] = "running"
  /\ row[i] = "none"
  /\ row' = [row EXCEPT ![i] = "running"]
  /\ execs' = [execs EXCEPT ![i][at[r]] = @ + 1]
  /\ UNCHANGED <<managerVars, reloadVars, requestVars, channelVars>>

\* An execution returns or throws: the row leaves 'running'.
CompleteWorkflow(i, g) ==
  /\ execs[i][g] > 0
  /\ row' = [row EXCEPT ![i] = "complete"]
  /\ execs' = [execs EXCEPT ![i][g] = @ - 1]
  /\ UNCHANGED <<managerVars, reloadVars, requestVars, channelVars>>

-----------------------------------------------------------------------------
Next ==
  \/ \E c \in Callers : CallReload(c)
  \/ FollowUp
  \/ LoadFails
  \/ FirstLoad
  \/ ReloadOverBusy
  \/ ReloadOverIdle
  \/ \E g \in Gens : IdleFinish(g)
  \/ \E g \in Gens : GraceFinish(g)
  \/ \E g \in Gens : ForceStop(g)
  \/ \E g \in Gens : Forget(g)
  \/ \E g \in Gens : Crash(g)
  \/ \E r \in Reqs : Arrive(r)
  \/ \E r \in Reqs : AssetLookup(r)
  \/ \E g \in Gens : HandleMessage(g)
  \/ \E g \in Gens : WorkerReceives(g)
  \/ \E r \in Reqs : WaitUntil(r)
  \/ \E r \in Reqs : Reply(r)
  \/ \E r \in Reqs : EndStream(r)
  \/ \E b \in Batches, g \in Gens : StartBatch(b, g)
  \/ \E w \in Work : SettleWork(w)
  \/ \E r \in Reqs, i \in Instances : CreateWorkflow(r, i)
  \/ \E i \in Instances, g \in Gens : CompleteWorkflow(i, g)

Spec == Init /\ [][Next]_vars

(***************************************************************************)
(* A load ends, a due follow-up runs, timers fire and posted messages are  *)
(* read: the event loops of main and of the worker threads.  What user     *)
(* code does (a handler returning, a promise settling) is not fair.        *)
(***************************************************************************)
Fairness ==
  /\ WF_vars(FirstLoad \/ ReloadOverBusy \/ ReloadOverIdle \/ LoadFails)
  /\ WF_vars(FollowUp)
  /\ \A g \in Gens : /\ WF_vars(IdleFinish(g))
                     /\ WF_vars(GraceFinish(g))
                     /\ WF_vars(HandleMessage(g))
                     /\ WF_vars(WorkerReceives(g))
  /\ \A r \in Reqs : WF_vars(AssetLookup(r))

FairSpec == Spec /\ Fairness

-----------------------------------------------------------------------------
(* Properties.                                                             *)

\* The generation that takes new requests is the only one in state 'active':
\* neither a reload, a failed reload, the grace timer nor the dashboard's
\* drain button ever leaves the manager pointing at a generation it stopped
\* (generation-manager.ts, active / _doReload / _stopGeneration).
ActiveServes ==
  \A g \in Gens : state[g] = "active" <=> g = activeGen

\* Everyone who calls reload() is handed the outcome of a load that started
\* after the call, never that of the load already under way
\* (generation-manager.ts, reload).
FreshReload ==
  \A c \in Callers : caller[c] \in {"resolved", "rejected"} => got[c] > asked[c]

\* A resume order reaches a worker thread only when every older generation's
\* thread is gone (generation-manager.ts, _scheduleDrainAndStop).
ResumeAlone ==
  \A g \in Gens : ctl[g] => \A h \in Gens : h < g => ~alive[h]

\* A request main has handed to a worker thread is cut off only by the grace
\* timer, the dashboard or a crash, and so is a promise it passed to
\* ctx.waitUntil: a generation that is stopped because it is idle owes no answer,
\* no body and no promise.  The registration of a promise is posted before the
\* reply, so main never has the reply and not the promise (generation.ts, isIdle;
\* entry.ts, onmessage).
IdleStopSpares ==
  \A r \in Reqs :
    phase[r] = "severed" \/ bg[r] = "killed" => cause[at[r]] \in {"grace", "forced", "crash"}

\* A draining generation is eventually stopped, so reloads do not pile up
\* worker threads (generation-manager.ts, _scheduleDrainAndStop).
DrainingStops ==
  \A g \in Gens : []<>(state[g] # "draining")

\* Every reload() caller gets an answer, whatever loads failed before its own
\* (generation-manager.ts, reload).
CallersSettle ==
  \A c \in Callers : []<>(caller[c] \notin Waiting)

\* Reloading gets somewhere: for its callers and for what it replaces.
ReloadsSettle == DrainingStops /\ CallersSettle

(* A claim of the code's comments that the code does not keep.             *)

\* "Their DB rows stay 'running' and the next generation resumes them once this
\* worker is gone" (generation.ts, stop), as long as no thread crashes.
Crashed == \E g \in Gens : cause[g] = "crash"
Interrupted(i) == row[i] = "running" /\ \A g \in Gens : execs[i][g] = 0
InterruptedResumed ==
  \A i \in Instances :
    Interrupted(i) /\ activeGen # NoGen ~> ~Interrupted(i) \/ Crashed
=============================================================================
