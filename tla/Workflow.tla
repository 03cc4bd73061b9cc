------------------------------ MODULE Workflow ------------------------------
(***************************************************************************)
(* Workflow instances (src/bindings/workflow.ts).  The tables              *)
(* workflow_instances, workflow_steps, workflow_step_attempts and          *)
(* workflow_events survive an exit of the process; the executions of       *)
(* executeWorkflow and the registries abortControllers, eventWaiters and   *)
(* sleepResolvers live in the memory of the worker thread.                 *)
(*                                                                         *)
(* An execution runs user code, which may await anything between two       *)
(* steps and while an error unwinds, so the executions of one instance and *)
(* the control operations interleave at every step.  Waits for events are  *)
(* of one type; a step's name is its position in Program.                  *)
(***************************************************************************)
EXTENDS Naturals, Sequences, FiniteSets

CONSTANTS
  Instances,     \* instance ids
  Program,       \* the steps of run(): "do", "sleep" and "wait"
  MaxRetries,    \* retries.limit of every step
  MaxConcurrent, \* maxConcurrentInstances
  Controls,      \* the control operations that are used
  Recreated,     \* ids the user may create again after retention
  MaxRuns,       \* bound: executions of an instance
  MaxEvents,     \* bound: events sent to an instance
  MaxExits       \* bound: exits of the process

ControlKinds ==
  {"pause", "resume", "terminate", "skipSleep", "restart", "restartFrom", "restartMissing"}

ASSUME WorkflowAssumption ==
  /\ Program \in Seq({"do", "sleep", "wait"})
  /\ MaxRetries \in Nat
  /\ MaxConcurrent \in Nat \ {0}
  /\ MaxRuns \in Nat \ {0}
  /\ MaxEvents \in Nat
  /\ MaxExits \in Nat
  /\ Controls \subseteq ControlKinds
  /\ Recreated \subseteq Instances

VARIABLES
  row,      \* workflow_instances.status, "none" without a row
  cached,   \* workflow_steps: the execution that wrote a step's output, 0 if none
  fails,    \* workflow_step_attempts.failed_attempts
  events,   \* how many rows workflow_events has for the instance
  ph,       \* what each execution is doing
  pc,       \* its position in Program
  aborted,  \* its abort signal
  attempt,  \* the loop variable of step.do
  runs,     \* executions started so far
  ac,       \* abortControllers: the execution the registered controller belongs to
  waiter,   \* eventWaiters: the execution whose resolver is registered
  sleeper,  \* sleepResolvers
  exits,    \* process exits so far
  done,     \* history: successful calls of a step's callback
  failed,   \* history: failed calls of a step's callback
  sent,     \* history: events accepted by sendEvent
  consumed  \* history: events waitForEvent returned

dbVars   == <<row, cached, fails, events>>
execVars == <<ph, pc, aborted, attempt, runs>>
memVars  == <<ac, waiter, sleeper>>
histVars == <<exits, done, failed, sent, consumed>>
vars == <<dbVars, execVars, memVars, histVars>>

Steps == 1..Len(Program)
Runs  == 1..MaxRuns
None  == 0
Over  == {"complete", "errored", "terminated"}
Rows  == {"none", "queued", "running", "waiting", "paused"} \cup Over

\* "step": user code up to its next step; "deaf": waiting for an event in a map
\* of waiters that eventWaiters no longer holds; "unwinding": an error on its
\* way out of run().
Phases == {"unused", "step", "calling", "backoff", "sleeping", "waiting", "deaf",
           "unwinding", "done"}
Live(i, n) == ph[i][n] \notin {"unused", "done"}

TypeOK ==
  /\ row \in [Instances -> Rows]
  /\ cached \in [Instances -> [Steps -> 0..MaxRuns]]
  /\ fails \in [Instances -> [Steps -> 0..(MaxRetries + 1)]]
  /\ events \in [Instances -> Nat]
  /\ ph \in [Instances -> [Runs -> Phases]]
  /\ pc \in [Instances -> [Runs -> 1..(Len(Program) + 1)]]
  /\ aborted \in [Instances -> [Runs -> BOOLEAN]]
  /\ attempt \in [Instances -> [Runs -> 0..MaxRetries]]
  /\ runs \in [Instances -> 0..MaxRuns]
  /\ ac \in [Instances -> 0..MaxRuns]
  /\ waiter \in [Instances -> 0..MaxRuns]
  /\ sleeper \in [Instances -> 0..MaxRuns]
  /\ exits \in 0..MaxExits
  /\ done \in [Instances -> [Steps -> Nat]]
  /\ failed \in [Instances -> [Steps -> Nat]]
  /\ sent \in [Instances -> Nat]
  /\ consumed \in [Instances -> Nat]

Init ==
  /\ row = [i \in Instances |-> "none"]
  /\ cached = [i \in Instances |-> [s \in Steps |-> None]]
  /\ fails = [i \in Instances |-> [s \in Steps |-> 0]]
  /\ events = [i \in Instances |-> 0]
  /\ ph = [i \in Instances |-> [n \in Runs |-> "unused"]]
  /\ pc = [i \in Instances |-> [n \in Runs |-> 1]]
  /\ aborted = [i \in Instances |-> [n \in Runs |-> FALSE]]
  /\ attempt = [i \in Instances |-> [n \in Runs |-> 0]]
  /\ runs = [i \in Instances |-> 0]
  /\ ac = [i \in Instances |-> None]
  /\ waiter = [i \in Instances |-> None]
  /\ sleeper = [i \in Instances |-> None]
  /\ exits = 0
  /\ done = [i \in Instances |-> [s \in Steps |-> 0]]
  /\ failed = [i \in Instances |-> [s \in Steps |-> 0]]
  /\ sent = [i \in Instances |-> 0]
  /\ consumed = [i \in Instances |-> 0]

-----------------------------------------------------------------------------
(* Starting and ending executions.                                         *)

\* UPDATE workflow_instances SET status = s WHERE id = i
SetRow(i, s) == [row EXCEPT ![i] = IF @ = "none" THEN @ ELSE s]

\* executeWorkflow for the instances of S, given the phases p before it.
Launch(p, S) ==
  /\ \A i \in S : runs[i] < MaxRuns
  /\ ph' = [i \in Instances |-> IF i \in S THEN [p[i] EXCEPT ![runs[i] + 1] = "step"] ELSE p[i]]
  /\ runs' = [i \in Instances |-> IF i \in S THEN runs[i] + 1 ELSE runs[i]]

\* Mutant: nothing is dequeued.
Finally_NoDequeue(i, n, r) ==
  /\ waiter' = [waiter EXCEPT ![i] = None]
  /\ row' = r
  /\ ph' = [ph EXCEPT ![i][n] = "done"]
  /\ ac' = [ac EXCEPT ![i] = None]
  /\ UNCHANGED runs

\* The finally block of executeWorkflow, r being the rows after the status
\* update: whatever is registered for the instance is removed, and one queued
\* instance is started (the oldest; created_at may tie, so any of them).
Finally(i, n, r) ==
  LET p == [ph EXCEPT ![i] = [k \in Runs |-> IF k = n THEN "done"
                                             ELSE IF ph[i][k] = "waiting" THEN "deaf"
                                             ELSE ph[i][k]]]
      queued == {j \in Instances : r[j] = "queued"}
  IN /\ waiter' = [waiter EXCEPT ![i] = None]
     /\ IF queued = {}
          THEN /\ row' = r
               /\ ph' = p
               /\ ac' = [ac EXCEPT ![i] = None]
               /\ UNCHANGED runs
          ELSE \E j \in queued :
                 /\ row' = [r EXCEPT ![j] = "running"]
                 /\ Launch(p, {j})
                 /\ ac' = [[ac EXCEPT ![i] = None] EXCEPT ![j] = runs[j] + 1]

\* abort() of the registered controller: an execution that sleeps, waits or
\* backs off is thrown out at once, any other notices at its next step.
AbortedPh(i) ==
  IF ac[i] = None THEN ph
  ELSE [ph EXCEPT ![i][ac[i]] = IF @ \in {"backoff", "sleeping", "waiting", "deaf"}
                                  THEN "unwinding" ELSE @]

\* Mutant: the abort handler does not clean up its resolver.
Abort_KeepsResolver(i) ==
  /\ aborted' = IF ac[i] = None THEN aborted ELSE [aborted EXCEPT ![i][ac[i]] = TRUE]
  /\ UNCHANGED <<waiter, sleeper>>

\* What else abort() does: the signal, and the cleanup of the rejected waits.
Abort(i) ==
  /\ aborted' = IF ac[i] = None THEN aborted ELSE [aborted EXCEPT ![i][ac[i]] = TRUE]
  /\ waiter' = [waiter EXCEPT ![i] = IF ac[i] # None /\ ph[i][ac[i]] = "waiting" THEN None ELSE @]
  /\ sleeper' = [sleeper EXCEPT ![i] = IF ac[i] # None /\ ph[i][ac[i]] = "sleeping" THEN None ELSE @]

\* Mutant of Create, without retention: the comparison with the limit is off by one.
Create_OffByOne(i) ==
  /\ row[i] = "none" /\ runs[i] < MaxRuns
  /\ IF Cardinality({k \in Instances : row[k] \in {"running", "waiting"}}) > MaxConcurrent
       THEN /\ row' = [row EXCEPT ![i] = "queued"]
            /\ ac' = [ac EXCEPT ![i] = None]
            /\ UNCHANGED <<ph, runs>>
       ELSE /\ row' = [row EXCEPT ![i] = "running"]
            /\ ac' = [ac EXCEPT ![i] = runs[i] + 1]
            /\ Launch(ph, {i})
  /\ UNCHANGED <<cached, fails, events, pc, aborted, attempt, waiter, sleeper, histVars>>

\* create() of i, after cleanupRetentionExpired removed the rows of old (their
\* attempts too, but neither their steps nor their events).
Create(i) ==
  \E old \in SUBSET {k \in Recreated : row[k] \in {"complete", "errored"}} :
    LET kept == [k \in Instances |-> IF k \in old THEN "none" ELSE row[k]]
        busy == Cardinality({k \in Instances : kept[k] \in {"running", "waiting"}})
    IN /\ kept[i] = "none"
       /\ runs[i] < MaxRuns
       /\ IF busy >= MaxConcurrent
            THEN /\ row' = [kept EXCEPT ![i] = "queued"]
                 /\ ac' = [ac EXCEPT ![i] = None]
                 /\ UNCHANGED <<ph, runs>>
            ELSE /\ row' = [kept EXCEPT ![i] = "running"]
                 /\ ac' = [ac EXCEPT ![i] = runs[i] + 1]
                 /\ Launch(ph, {i})
       /\ fails' = [k \in Instances |-> IF k \in old THEN [s \in Steps |-> 0] ELSE fails[k]]
       /\ UNCHANGED <<cached, events, pc, aborted, attempt, waiter, sleeper, exits, done,
                      failed, sent, consumed>>

\* Mutant: an aborted execution that returns completes the instance.
RunReturns_Unchecked(i, n) ==
  /\ ph[i][n] = "step"
  /\ pc[i][n] = Len(Program) + 1
  /\ fails' = [fails EXCEPT ![i] = [s \in Steps |-> 0]]
  /\ Finally(i, n, SetRow(i, "complete"))
  /\ UNCHANGED <<cached, events, pc, aborted, attempt, sleeper, histVars>>

\* run() returns.
RunReturns(i, n) ==
  /\ ph[i][n] = "step"
  /\ pc[i][n] = Len(Program) + 1
  /\ IF aborted[i][n]
       THEN /\ Finally(i, n, row)
            /\ UNCHANGED fails
       ELSE /\ Finally(i, n, SetRow(i, "complete"))
            /\ fails' = [fails EXCEPT ![i] = [s \in Steps |-> 0]]
  /\ UNCHANGED <<cached, events, pc, aborted, attempt, sleeper, histVars>>

\* run() throws.
RunThrows(i, n) ==
  /\ ph[i][n] = "unwinding"
  /\ Finally(i, n, IF aborted[i][n] THEN row ELSE SetRow(i, "errored"))
  /\ UNCHANGED <<cached, fails, events, pc, aborted, attempt, sleeper, histVars>>

-----------------------------------------------------------------------------
(* Steps.                                                                  *)

To(i, n, phase) == ph' = [ph EXCEPT ![i][n] = phase]
Advance(i, n)   == pc' = [pc EXCEPT ![i][n] = @ + 1]
\* cacheStep
Store(i, n)     == cached' = [cached EXCEPT ![i][pc[i][n]] = n]

\* checkPaused lets the execution into its next step, which is of this kind.
Enters(i, n, kind) ==
  /\ ph[i][n] = "step"
  /\ pc[i][n] \in Steps
  /\ Program[pc[i][n]] = kind
  /\ ~aborted[i][n]
  /\ row[i] # "paused"

\* Mutant: checkPaused looks at the status before it looks at the signal.
EntersAborted_AfterPause(i, n) ==
  /\ ph[i][n] = "step"
  /\ pc[i][n] \in Steps
  /\ aborted[i][n]
  /\ row[i] # "paused"
  /\ To(i, n, "unwinding")
  /\ UNCHANGED <<dbVars, pc, aborted, attempt, runs, memVars, histVars>>

\* An aborted execution is thrown out by whatever step it calls.
EntersAborted(i, n) ==
  /\ ph[i][n] = "step"
  /\ pc[i][n] \in Steps
  /\ aborted[i][n]
  /\ To(i, n, "unwinding")
  /\ UNCHANGED <<dbVars, pc, aborted, attempt, runs, memVars, histVars>>

\* A step is refused: its name, its arguments or the number of steps.
StepRefused(i, n) ==
  /\ \E kind \in {"do", "sleep", "wait"} : Enters(i, n, kind)
  /\ To(i, n, "unwinding")
  /\ UNCHANGED <<dbVars, pc, aborted, attempt, runs, memVars, histVars>>

\* Mutant: the checkpoint is not looked up.
BeginDo_NoCheckpoint(i, n) ==
  /\ Enters(i, n, "do")
  /\ To(i, n, "calling")
  /\ attempt' = [attempt EXCEPT ![i][n] = 0]
  /\ UNCHANGED <<dbVars, pc, aborted, runs, memVars, histVars>>

\* Mutant: the attempts of an earlier execution are not loaded.
BeginDo_ForgetsAttempts(i, n) ==
  /\ Enters(i, n, "do")
  /\ IF cached[i][pc[i][n]] # None
       THEN Advance(i, n) /\ UNCHANGED <<ph, attempt>>
       ELSE To(i, n, "calling") /\ attempt' = [attempt EXCEPT ![i][n] = 0] /\ UNCHANGED pc
  /\ UNCHANGED <<dbVars, aborted, runs, memVars, histVars>>

\* step.do up to the first call of its callback: the checkpoint, then the
\* attempts that earlier executions used up.
BeginDo(i, n) ==
  LET s == pc[i][n]
  IN /\ Enters(i, n, "do")
     /\ \/ /\ cached[i][s] # None
           /\ Advance(i, n)
           /\ UNCHANGED <<ph, attempt>>
        \/ /\ cached[i][s] = None
           /\ fails[i][s] <= MaxRetries
           /\ To(i, n, "calling")
           /\ attempt' = [attempt EXCEPT ![i][n] = fails[i][s]]
           /\ UNCHANGED pc
        \/ /\ cached[i][s] = None
           /\ fails[i][s] > MaxRetries
           /\ To(i, n, "unwinding")
           /\ UNCHANGED <<pc, attempt>>
     /\ UNCHANGED <<dbVars, aborted, runs, memVars, histVars>>

\* The callback resolves.
StepOk(i, n) ==
  /\ ph[i][n] = "calling"
  /\ Store(i, n)
  /\ fails' = [fails EXCEPT ![i][pc[i][n]] = 0]
  /\ To(i, n, "step")
  /\ Advance(i, n)
  /\ done' = [done EXCEPT ![i][pc[i][n]] = @ + 1]
  /\ UNCHANGED <<row, events, aborted, attempt, runs, memVars, exits, failed, sent,
                 consumed>>

\* Mutant: one retry too many.
StepFail_OneMore(i, n) ==
  LET s == pc[i][n]
  IN /\ ph[i][n] = "calling"
     /\ fails' = [fails EXCEPT ![i][s] = attempt[i][n] + 1]
     /\ failed' = [failed EXCEPT ![i][s] = @ + 1]
     /\ To(i, n, IF attempt[i][n] <= MaxRetries /\ ~aborted[i][n] THEN "backoff" ELSE "unwinding")
     /\ UNCHANGED <<row, cached, events, pc, aborted, attempt, runs, memVars, exits,
                    done, sent, consumed>>

\* The callback rejects or times out: retry after a delay, unless aborted or
\* out of retries.
StepFail(i, n) ==
  LET s == pc[i][n]
  IN /\ ph[i][n] = "calling"
     /\ fails' = [fails EXCEPT ![i][s] = attempt[i][n] + 1]
     /\ failed' = [failed EXCEPT ![i][s] = @ + 1]
     /\ To(i, n, IF attempt[i][n] < MaxRetries /\ ~aborted[i][n] THEN "backoff" ELSE "unwinding")
     /\ UNCHANGED <<row, cached, events, pc, aborted, attempt, runs, memVars, exits,
                    done, sent, consumed>>

\* The callback throws a NonRetryableError.
StepFatal(i, n) ==
  /\ ph[i][n] = "calling"
  /\ To(i, n, "unwinding")
  /\ UNCHANGED <<dbVars, pc, aborted, attempt, runs, memVars, histVars>>

\* interruptibleDelay between two attempts ends.
BackoffEnds(i, n) ==
  /\ ph[i][n] = "backoff"
  /\ To(i, n, "calling")
  /\ attempt' = [attempt EXCEPT ![i][n] = @ + 1]
  /\ UNCHANGED <<dbVars, pc, aborted, runs, memVars, histVars>>

\* step.sleep and step.sleepUntil: the end is written down before the delay; an
\* execution that finds it there sleeps what is left of it.
BeginSleep(i, n) ==
  /\ Enters(i, n, "sleep")
  /\ IF cached[i][pc[i][n]] = None THEN Store(i, n) ELSE UNCHANGED cached
  /\ \/ /\ To(i, n, "sleeping")
        /\ sleeper' = [sleeper EXCEPT ![i] = n]
        /\ UNCHANGED pc
     \/ /\ Advance(i, n)
        /\ UNCHANGED <<ph, sleeper>>
  /\ UNCHANGED <<row, fails, events, aborted, attempt, runs, ac, waiter, histVars>>

\* skippableDelay of an execution ends.
Wake(i, n) ==
  /\ ph[i][n] = "sleeping"
  /\ To(i, n, "step")
  /\ Advance(i, n)
  /\ sleeper' = [sleeper EXCEPT ![i] = None]
  /\ UNCHANGED <<dbVars, aborted, attempt, runs, ac, waiter, histVars>>

SleepEnds(i, n) == Wake(i, n)

\* Mutant: the event that was found is not deleted.
BeginWait_KeepsEvent(i, n) ==
  /\ Enters(i, n, "wait")
  /\ cached[i][pc[i][n]] = None
  /\ IF events[i] > 0
       THEN /\ row' = SetRow(i, "running")
            /\ Store(i, n)
            /\ Advance(i, n)
            /\ consumed' = [consumed EXCEPT ![i] = @ + 1]
            /\ UNCHANGED <<ph, waiter>>
       ELSE /\ row' = SetRow(i, "waiting")
            /\ To(i, n, "waiting")
            /\ waiter' = [waiter EXCEPT ![i] = n]
            /\ UNCHANGED <<cached, pc, consumed>>
  /\ UNCHANGED <<fails, events, aborted, attempt, runs, ac, sleeper, exits, done,
                 failed, sent>>

\* step.waitForEvent: the checkpoint, an event that is already there, or wait.
BeginWait(i, n) ==
  LET s == pc[i][n]
  IN /\ Enters(i, n, "wait")
     /\ \/ /\ cached[i][s] # None
           /\ Advance(i, n)
           /\ UNCHANGED <<row, cached, events, ph, waiter, consumed>>
        \/ /\ cached[i][s] = None
           /\ events[i] > 0
           /\ events' = [events EXCEPT ![i] = @ - 1]
           /\ row' = SetRow(i, "running")
           /\ Store(i, n)
           /\ Advance(i, n)
           /\ consumed' = [consumed EXCEPT ![i] = @ + 1]
           /\ UNCHANGED <<ph, waiter>>
        \/ /\ cached[i][s] = None
           /\ events[i] = 0
           /\ row' = SetRow(i, "waiting")
           /\ To(i, n, "waiting")
           /\ waiter' = [waiter EXCEPT ![i] = n]
           /\ UNCHANGED <<cached, events, pc, consumed>>
     /\ UNCHANGED <<fails, aborted, attempt, runs, ac, sleeper, exits, done, failed,
                    sent>>

\* waitForEvent times out.
WaitTimeout(i, n) ==
  /\ ph[i][n] \in {"waiting", "deaf"}
  /\ To(i, n, "unwinding")
  /\ waiter' = [waiter EXCEPT ![i] = IF ph[i][n] = "waiting" THEN None ELSE @]
  /\ UNCHANGED <<dbVars, pc, aborted, attempt, runs, ac, sleeper, histVars>>

-----------------------------------------------------------------------------
(* Operations on an instance.                                              *)

\* Mutant: the event is only stored.
SendEvent_StoresOnly(i) ==
  /\ row[i] \notin Over \cup {"none"}
  /\ sent[i] < MaxEvents
  /\ sent' = [sent EXCEPT ![i] = @ + 1]
  /\ events' = [events EXCEPT ![i] = @ + 1]
  /\ UNCHANGED <<row, cached, fails, execVars, memVars, exits, done, failed, consumed>>

\* sendEvent: to the registered resolver, whose waitForEvent then returns, or
\* into the table.
SendEvent(i) ==
  /\ row[i] \notin Over \cup {"none"}
  /\ sent[i] < MaxEvents
  /\ sent' = [sent EXCEPT ![i] = @ + 1]
  /\ IF waiter[i] # None
       THEN LET n == waiter[i]
            IN /\ row' = SetRow(i, "running")
               /\ Store(i, n)
               /\ To(i, n, "step")
               /\ Advance(i, n)
               /\ waiter' = [waiter EXCEPT ![i] = None]
               /\ consumed' = [consumed EXCEPT ![i] = @ + 1]
               /\ UNCHANGED events
       ELSE /\ events' = [events EXCEPT ![i] = @ + 1]
            /\ UNCHANGED <<row, cached, ph, pc, waiter, consumed>>
  /\ UNCHANGED <<fails, aborted, attempt, runs, ac, sleeper, exits, done, failed>>

SkipSleep(i) ==
  /\ "skipSleep" \in Controls
  /\ sleeper[i] # None
  /\ Wake(i, sleeper[i])

Pause(i) ==
  /\ "pause" \in Controls
  /\ row[i] \in {"running", "waiting"}
  /\ row' = [row EXCEPT ![i] = "paused"]
  /\ UNCHANGED <<cached, fails, events, execVars, memVars, histVars>>

\* resume() writes a status; it starts no execution.
Resume(i) ==
  /\ "resume" \in Controls
  /\ row[i] = "paused"
  /\ row' = [row EXCEPT ![i] = IF waiter[i] # None THEN "waiting" ELSE "running"]
  /\ UNCHANGED <<cached, fails, events, execVars, memVars, histVars>>

Terminate(i) ==
  /\ "terminate" \in Controls
  /\ row[i] \in {"running", "paused", "waiting", "queued"} \/ (row[i] # "none" /\ ac[i] # None)
  /\ row' = [row EXCEPT ![i] = IF @ \in Over THEN @ ELSE "terminated"]
  /\ Abort(i)
  /\ ph' = AbortedPh(i)
  /\ UNCHANGED <<cached, fails, events, pc, attempt, runs, ac, histVars>>

\* restart(), the steps of S kept: the registered execution is aborted and a
\* new one started at once, before the old one has unwound.
RestartKeeping(i, S) ==
  /\ row[i] # "none"
  /\ Abort(i)
  /\ Launch(AbortedPh(i), {i})
  /\ ac' = [ac EXCEPT ![i] = runs[i] + 1]
  /\ cached' = [cached EXCEPT ![i] = [s \in Steps |-> IF s \in S THEN @[s] ELSE None]]
  /\ fails' = [fails EXCEPT ![i] = [s \in Steps |-> 0]]
  /\ row' = [row EXCEPT ![i] = "running"]
  /\ UNCHANGED <<events, pc, attempt, exits, done, failed, sent, consumed>>

Restart(i) ==
  /\ "restart" \in Controls
  /\ RestartKeeping(i, {})

\* restart({ fromStep }) drops the step and every step whose completed_at is not
\* earlier: later steps, earlier ones of the same millisecond, but not what an
\* overlapping execution wrote earlier.
RestartFrom(i, s) ==
  /\ "restartFrom" \in Controls
  /\ cached[i][s] # None
  /\ \E S \in SUBSET (Steps \ {s}) :
       /\ \A t \in S : t > s => cached[i][t] # cached[i][s]
       /\ RestartKeeping(i, S)

\* restart({ fromStep }) of a step that is not there throws, after the abort.
RestartMissing(i) ==
  /\ "restartMissing" \in Controls
  /\ row[i] # "none"
  /\ \E s \in Steps : cached[i][s] = None
  /\ Abort(i)
  /\ ph' = AbortedPh(i)
  /\ ac' = [ac EXCEPT ![i] = None]
  /\ UNCHANGED <<dbVars, pc, attempt, runs, histVars>>

\* Mutant: instances that waited for an event are not resumed.
ExitAndResume_RunningOnly ==
  LET S == {i \in Instances : row[i] = "running"}
  IN /\ exits < MaxExits
     /\ exits' = exits + 1
     /\ Launch([i \in Instances |-> [n \in Runs |-> IF Live(i, n) THEN "done" ELSE ph[i][n]]], S)
     /\ ac' = [i \in Instances |-> IF i \in S THEN runs[i] + 1 ELSE None]
     /\ waiter' = [i \in Instances |-> None]
     /\ sleeper' = [i \in Instances |-> None]
     /\ UNCHANGED <<dbVars, pc, aborted, attempt, done, failed, sent, consumed>>

\* The worker thread or the process goes away with its memory, and the next one
\* runs resumeInterrupted.
ExitAndResume ==
  LET S == {i \in Instances : row[i] \in {"running", "waiting"}}
  IN /\ exits < MaxExits
     /\ exits' = exits + 1
     /\ row' = [i \in Instances |-> IF i \in S THEN "running" ELSE row[i]]
     /\ Launch([i \in Instances |-> [n \in Runs |-> IF Live(i, n) THEN "done" ELSE ph[i][n]]], S)
     /\ ac' = [i \in Instances |-> IF i \in S THEN runs[i] + 1 ELSE None]
     /\ waiter' = [i \in Instances |-> None]
     /\ sleeper' = [i \in Instances |-> None]
     /\ UNCHANGED <<cached, fails, events, pc, aborted, attempt, done, failed, sent,
                    consumed>>

-----------------------------------------------------------------------------
Next ==
  \/ \E i \in Instances : Create(i)
  \/ \E i \in Instances, n \in Runs : RunReturns(i, n)
  \/ \E i \in Instances, n \in Runs : RunThrows(i, n)
  \/ \E i \in Instances, n \in Runs : EntersAborted(i, n)
  \/ \E i \in Instances, n \in Runs : StepRefused(i, n)
  \/ \E i \in Instances, n \in Runs : BeginDo(i, n)
  \/ \E i \in Instances, n \in Runs : StepOk(i, n)
  \/ \E i \in Instances, n \in Runs : StepFail(i, n)
  \/ \E i \in Instances, n \in Runs : StepFatal(i, n)
  \/ \E i \in Instances, n \in Runs : BackoffEnds(i, n)
  \/ \E i \in Instances, n \in Runs : BeginSleep(i, n)
  \/ \E i \in Instances, n \in Runs : SleepEnds(i, n)
  \/ \E i \in Instances, n \in Runs : BeginWait(i, n)
  \/ \E i \in Instances, n \in Runs : WaitTimeout(i, n)
  \/ \E i \in Instances : SendEvent(i)
  \/ \E i \in Instances : SkipSleep(i)
  \/ \E i \in Instances : Pause(i)
  \/ \E i \in Instances : Resume(i)
  \/ \E i \in Instances : Terminate(i)
  \/ \E i \in Instances : Restart(i)
  \/ \E i \in Instances, s \in Steps : RestartFrom(i, s)
  \/ \E i \in Instances : RestartMissing(i)
  \/ ExitAndResume

Spec == Init /\ [][Next]_vars

(***************************************************************************)
(* Timers fire, callbacks settle (step.do races them with a timeout) and   *)
(* user code reaches its next step or its end.  Operations and exits are   *)
(* up to the environment.                                                  *)
(***************************************************************************)
Progress(i, n) ==
  \/ RunReturns(i, n) \/ RunThrows(i, n) \/ EntersAborted(i, n)
  \/ StepRefused(i, n) \/ BeginDo(i, n) \/ StepOk(i, n) \/ StepFail(i, n) \/ StepFatal(i, n) \/ BackoffEnds(i, n)
  \/ BeginSleep(i, n) \/ SleepEnds(i, n) \/ BeginWait(i, n) \/ WaitTimeout(i, n)
FairSpec == Spec /\ \A i \in Instances, n \in Runs : WF_vars(Progress(i, n))

-----------------------------------------------------------------------------
(* Properties.                                                             *)

\* An instance is executed at most once at a time, through the queue, exits and
\* resumes, and one that is 'running' or 'waiting' has an execution that will
\* move it on (workflow.ts, executeWorkflow / resumeInterrupted; FEATURES.md 7.7
\* "resume paused instance").
OneExecution ==
  \A i \in Instances :
    /\ \A n, k \in Runs : Live(i, n) /\ Live(i, k) => n = k
    /\ row[i] \in {"running", "waiting"} => \E n \in Runs : Live(i, n) /\ ~aborted[i][n]

\* terminate() of an instance that was started once is final: neither the end of
\* its callback, an event, a timer nor pause() and resume() change the status
\* (workflow.ts, terminate / executeWorkflow).
TerminateFinal ==
  [][\A i \in Instances :
       row[i] = "terminated" /\ runs[i] <= 1 /\ runs'[i] = runs[i] => row'[i] = "terminated"]_vars

\* The callback of a step that succeeded is not called to success again by a
\* resumed execution (workflow.ts, getCachedStep / cacheStep).
StepSucceedsOnce ==
  \A i \in Instances, s \in Steps : done[i][s] <= 1

\* A step fails at most limit + 1 times, over all executions of the instance:
\* "retries survive server restarts" (workflow.ts, step.do).
RetryBudget ==
  \A i \in Instances, s \in Steps : failed[i][s] <= MaxRetries + 1

\* What the two tables of steps say survives exits (workflow_steps,
\* workflow_step_attempts).
StepsCounted == StepSucceedsOnce /\ RetryBudget

\* Every event that sendEvent accepted is in the table or was returned by
\* waitForEvent once, and one that was accepted while the instance waits reaches
\* it before the wait times out: nobody waits while the table holds an event
\* (workflow.ts, sendEvent / waitForEvent; FEATURES.md 7.7 sendEvent "deliver
\* event to waitForEvent").
EventsArrive ==
  \A i \in Instances :
    /\ sent[i] = events[i] + consumed[i]
    /\ \A n \in Runs : ph[i][n] \in {"waiting", "deaf"} => events[i] = 0

\* As long as nobody pauses an instance, no more than maxConcurrentInstances of
\* them have a slot, through ends, dequeues and exits (workflow.ts, create /
\* countRunning / executeWorkflow; FEATURES.md 7.9).
ConcurrencyLimit ==
  "pause" \notin Controls =>
    Cardinality({i \in Instances : row[i] \in {"running", "waiting"}}) <= MaxConcurrent

\* Every instance that is running has one execution, and no more of them run than
\* maxConcurrentInstances allows (workflow.ts, create / executeWorkflow).
SlotsHeld == OneExecution /\ ConcurrencyLimit

\* What the registries hold is alive: an entry of abortControllers, eventWaiters
\* or sleepResolvers belongs to an execution that has not ended, and a resolver
\* to one that waits for it; sendEvent and skipSleep wake no other.
RegistriesLive ==
  \A i \in Instances :
    /\ ac[i] # None => Live(i, ac[i])
    /\ waiter[i] # None => ph[i][waiter[i]] = "waiting"
    /\ sleeper[i] # None => ph[i][sleeper[i]] = "sleeping"

\* An execution that was aborted by terminate() or restart() ends, whatever is
\* done to the instance meanwhile (workflow.ts, checkPaused /
\* interruptibleDelay).
AbortedEnds ==
  \A i \in Instances, n \in Runs : []<>(~aborted[i][n] \/ ph[i][n] = "done")

\* Termination does what it says: to the status and to the execution.
TerminationSticks == TerminateFinal /\ AbortedEnds

\* An instance that was created comes to an end, also one that had to queue,
\* and also across exits (workflow.ts, the finally of executeWorkflow).
InstanceEnds ==
  \A i \in Instances : []<>(row[i] \notin {"queued", "running", "waiting"})

(* A claim of the docs that the code does not keep.                        *)

\* A terminated instance stays terminated until restart(), whatever happened to
\* it before (FEATURES.md 7.7 "permanently stop"; workflow.ts, executeWorkflow
\* 'keep "terminated" status').
TerminatedStays ==
  [][\A i \in Instances : row[i] = "terminated" /\ runs'[i] = runs[i] => row'[i] = "terminated"]_vars
=============================================================================
