------------------------------ MODULE Container ------------------------------
(***************************************************************************)
(* The Docker container of one container Durable Object: ContainerRuntime  *)
(* (src/bindings/container.ts) in the executors that follow each other at  *)
(* reloads, the namespace's bookkeeping of teardowns (durable-object.ts),  *)
(* and the daemon, which knows containers by name (container-docker.ts).   *)
(* All executors of an object share that name.                             *)
(*                                                                         *)
(* Every docker command takes effect some time after it was given; what    *)
(* happens in between is the point of this module.                         *)
(***************************************************************************)
EXTENDS Naturals

CONSTANTS
  Last,        \* bound: executors of the object are 1..Last
  SlowDocker   \* whether a `docker rm' may outlast the three seconds of _cleanupContainer

ASSUME ContainerAssumption == Last \in Nat \ {0} /\ SlowDocker \in BOOLEAN

Executors == 1..Last
Foreign == 0    \* the process whose crash left a container behind
NoOne == 0      \* no executor

VARIABLES
  ex,         \* "none", "live" in _executors, "draining", "closing" (dispose called),
              \* "cleaning" (its docker rm is under way), "gone"
  disposing,  \* whose teardown _disposing holds: a gate or dispose's own promise
  priorDisposal,  \* _priorDisposal
  command,    \* the executor's command: "gated", "running", "idle"
  status,     \* ContainerStatus; running stands for healthy, too, stopped for stopped_with_code
  phase,      \* the await start() is in: "none", "inspect", "remove", "build", "run", "hook"
  watch,      \* the monitor and the activity timer are set
  removing,   \* docker rm commands under way, by the method that gave them
  container   \* the daemon's container of that name: state, and who made or adopted it

mainSide == <<ex, disposing, priorDisposal, command>>
runtime == <<status, phase, watch, removing>>
containerVars == <<mainSide, runtime, container>>

\* stop() and destroy(); dispose; the monitor that cleans up what has ended.
Methods == {"stop", "cleanup", "monitor"}

ContainerType ==
  /\ ex \in [Executors -> {"none", "live", "draining", "closing", "cleaning", "gone"}]
  /\ disposing \in 0..Last
  /\ disposing # NoOne => ex[disposing] \in {"draining", "closing", "cleaning"}
  /\ priorDisposal \in [Executors -> 0..Last]
  /\ command \in [Executors -> {"gated", "running", "idle"}]
  /\ status \in [Executors -> {"stopped", "running", "stopping"}]
  /\ phase \in [Executors -> {"none", "inspect", "remove", "build", "run", "hook"}]
  /\ watch \in [Executors -> BOOLEAN]
  /\ removing \in [Executors -> SUBSET Methods]
  /\ container \in [state : {"none", "up", "exited"}, of : 0..Last]

NoContainer == [state |-> "none", of |-> Foreign]

ContainerInit ==
  /\ ex = [e \in Executors |-> "none"] /\ disposing = NoOne
  /\ priorDisposal = [e \in Executors |-> NoOne] /\ command = [e \in Executors |-> "idle"]
  /\ status = [e \in Executors |-> "stopped"] /\ phase = [e \in Executors |-> "none"]
  /\ watch = [e \in Executors |-> FALSE] /\ removing = [e \in Executors |-> {}]
  /\ container \in {NoContainer, [state |-> "up", of |-> Foreign]}

Live == {e \in Executors : ex[e] = "live"}
DisposalOver(e) == IF e = NoOne THEN TRUE ELSE ex[e] = "gone"
HasThread(e) == ex[e] \notin {"none", "gone"}

-----------------------------------------------------------------------------
(* The namespace and its executors.                                        *)

\* _getOrCreateExecutor: the first command after a reload or a crash.
Spawn(e) ==
  /\ ex[e] = "none" /\ Live = {} /\ \A p \in 1..(e - 1) : ex[p] # "none"
  /\ ex' = [ex EXCEPT ![e] = "live"]
  /\ priorDisposal' = [priorDisposal EXCEPT ![e] = disposing]
  /\ command' = [command EXCEPT ![e] = "gated"]
  /\ UNCHANGED <<disposing, runtime, container>>

\* _sendCommand: every command awaits the teardown of the prior container.
Command(e) ==
  /\ ex[e] = "live" /\ command[e] = "idle"
  /\ command' = [command EXCEPT ![e] = "gated"]
  /\ UNCHANGED <<ex, disposing, priorDisposal, runtime, container>>
PassesGate(e) ==
  /\ command[e] = "gated" /\ DisposalOver(priorDisposal[e]) /\ ex[e] # "gone"
  /\ command' = [command EXCEPT ![e] = "running"]
  /\ UNCHANGED <<ex, disposing, priorDisposal, runtime, container>>

\* The handler may return while a start() it kicked off is under way.
Returns(e) ==
  /\ command[e] = "running"
  /\ command' = [command EXCEPT ![e] = "idle"]
  /\ UNCHANGED <<ex, disposing, priorDisposal, runtime, container>>

\* dispose() up to the cleanup command.  _disposeExecutor registers its promise
\* whatever was registered before.
DisposeExecutor(e) == ex' = [ex EXCEPT ![e] = "closing"] /\ disposing' = e

\* Mutant: an executor in flight is detached without an entry for its teardown.
ReloadExecutor_NoEntry(e) ==
  /\ ex[e] = "live"
  /\ IF command[e] = "running"
       THEN ex' = [ex EXCEPT ![e] = "draining"] /\ disposing' = disposing
       ELSE DisposeExecutor(e)
  /\ UNCHANGED <<priorDisposal, command, runtime, container>>

\* _setExternalClass: an executor with a command in flight is detached and polled,
\* and its future teardown registered unless there is one already.  A command that
\* waits at the gate does not count as in flight (isActive).
ReloadExecutor(e) ==
  /\ ex[e] = "live"
  /\ IF command[e] = "running"
       THEN /\ ex' = [ex EXCEPT ![e] = "draining"]
            /\ disposing' = IF disposing = NoOne THEN e ELSE disposing
       ELSE DisposeExecutor(e)
  /\ UNCHANGED <<priorDisposal, command, runtime, container>>

\* Mutant: the poll waits for the command however long it takes.
PollOver_UntilIdle(e) ==
  /\ ex[e] = "draining" /\ command[e] # "running"
  /\ DisposeExecutor(e)
  /\ UNCHANGED <<priorDisposal, command, runtime, container>>

\* _pollThenDispose: the command has settled, or after ten seconds.
PollOver(e) ==
  /\ ex[e] = "draining"
  /\ DisposeExecutor(e)
  /\ UNCHANGED <<priorDisposal, command, runtime, container>>

\* The cleanup command passes the gate, too, and runs ContainerRuntime.cleanup.
CleanupBegins(e) ==
  /\ ex[e] = "closing" /\ DisposalOver(priorDisposal[e])
  /\ ex' = [ex EXCEPT ![e] = "cleaning"]
  /\ watch' = [watch EXCEPT ![e] = FALSE]
  /\ removing' = [removing EXCEPT ![e] = @ \union {"cleanup"}]
  /\ UNCHANGED <<disposing, priorDisposal, command, status, phase, container>>

\* The thread ends: once cleaned up, after three seconds, or by a crash.  docker
\* commands it gave are carried out all the same.
Ends(e) ==
  /\ ex' = [ex EXCEPT ![e] = "gone"]
  /\ disposing' = IF disposing = e THEN NoOne ELSE disposing
  /\ priorDisposal' = priorDisposal
  /\ command' = [command EXCEPT ![e] = "idle"]
  /\ status' = [status EXCEPT ![e] = "stopped"]
  /\ phase' = [phase EXCEPT ![e] = IF @ \in {"remove", "run"} THEN @ ELSE "none"]
  /\ watch' = [watch EXCEPT ![e] = FALSE]
CleanupTimesOut(e) ==
  /\ ex[e] = "closing" \/ (SlowDocker /\ ex[e] = "cleaning")
  /\ Ends(e)
  /\ UNCHANGED <<removing, container>>
ThreadCrashes(e) ==
  /\ ex[e] = "live"
  /\ Ends(e)
  /\ UNCHANGED <<removing, container>>

-----------------------------------------------------------------------------
(* ContainerRuntime.                                                       *)

Runs(e) == status[e] = "running"

\* start(), from ContainerBase.fetch, startAndWaitForPorts or ctx.container.
Start(e) ==
  /\ command[e] = "running" /\ ~Runs(e) /\ phase[e] = "none"
  /\ status' = [status EXCEPT ![e] = "running"]
  /\ phase' = [phase EXCEPT ![e] = "inspect"]
  /\ UNCHANGED <<mainSide, watch, removing, container>>

\* Adopt what this process made and is running, remove anything else.
Inspected(e) ==
  /\ phase[e] = "inspect" /\ HasThread(e)
  /\ CASE container.state = "none" ->
            phase' = [phase EXCEPT ![e] = "build"] /\ UNCHANGED container
       [] container.state = "up" /\ container.of # Foreign ->
            /\ container' = [container EXCEPT !.of = e]
            /\ phase' = [phase EXCEPT ![e] = "hook"]
       [] OTHER -> phase' = [phase EXCEPT ![e] = "remove"] /\ UNCHANGED container
  /\ UNCHANGED <<mainSide, status, watch, removing>>
Replaced(e) ==
  /\ phase[e] = "remove"
  /\ container' = NoContainer
  /\ phase' = [phase EXCEPT ![e] = IF HasThread(e) THEN "build" ELSE "none"]
  /\ UNCHANGED <<mainSide, status, watch, removing>>

\* A port or an image that cannot be had ends start() but not the status.
Built(e) ==
  /\ phase[e] = "build" /\ HasThread(e)
  /\ phase' \in {[phase EXCEPT ![e] = "run"], [phase EXCEPT ![e] = "none"]}
  /\ UNCHANGED <<mainSide, status, watch, removing, container>>

\* docker run fails for a name that is taken, or for another reason.
Ran(e) ==
  /\ phase[e] = "run"
  /\ \/ /\ container.state = "none"
        /\ container' = [state |-> "up", of |-> e]
        /\ phase' = [phase EXCEPT ![e] = IF HasThread(e) THEN "hook" ELSE "none"]
        /\ UNCHANGED status
     \/ /\ phase' = [phase EXCEPT ![e] = "none"]
        /\ status' = [status EXCEPT ![e] = "stopped"]
        /\ UNCHANGED container
  /\ UNCHANGED <<mainSide, watch, removing>>

\* onStart is over: health check, monitor and activity timer.
Hooked(e) ==
  /\ phase[e] = "hook" /\ HasThread(e)
  /\ phase' = [phase EXCEPT ![e] = "none"]
  /\ watch' = [watch EXCEPT ![e] = TRUE]
  /\ UNCHANGED <<mainSide, status, removing, container>>

Removes(e, method) ==
  /\ watch' = [watch EXCEPT ![e] = FALSE]
  /\ removing' = [removing EXCEPT ![e] = @ \union {method}]

\* stop(), by the user or for want of activity; destroy(), by the user.
StopContainer(e) ==
  /\ Runs(e) /\ HasThread(e) /\ (watch[e] \/ command[e] = "running")
  /\ status' = [status EXCEPT ![e] = "stopping"]
  /\ Removes(e, "stop")
  /\ UNCHANGED <<mainSide, phase, container>>
DestroyContainer(e) ==
  /\ command[e] = "running" /\ removing[e] = {}    \* bound: not while a removal is under way
  /\ Removes(e, "stop")
  /\ UNCHANGED <<mainSide, status, phase, container>>

\* _startMonitor: a tick finds that the object stopped the container itself, or
\* that the container has ended.
MonitorTicks(e) ==
  /\ watch[e]
  /\ \/ ~Runs(e) /\ watch' = [watch EXCEPT ![e] = FALSE] /\ UNCHANGED <<status, removing>>
     \/ /\ Runs(e) /\ container.state = "exited"
        /\ status' = [status EXCEPT ![e] = "stopped"]
        /\ Removes(e, "monitor")
  /\ UNCHANGED <<mainSide, phase, container>>

\* docker rm -f of the name, and what its caller does next.
Removed(e, method) ==
  /\ method \in removing[e]
  /\ removing' = [removing EXCEPT ![e] = @ \ {method}]
  /\ container' = NoContainer
  /\ IF method = "cleanup" /\ ex[e] = "cleaning"
       THEN Ends(e)
       ELSE /\ status' = IF HasThread(e) /\ method # "monitor" THEN [status EXCEPT ![e] = "stopped"] ELSE status
            /\ UNCHANGED <<mainSide, watch, phase>>

-----------------------------------------------------------------------------
(* The container ends on its own, or the dashboard stops or removes it.    *)

Exits ==
  /\ container.state = "up"
  /\ container' = [container EXCEPT !.state = "exited"]
  /\ UNCHANGED <<mainSide, runtime>>
DashboardDestroys ==
  /\ container.state # "none"
  /\ container' = NoContainer
  /\ UNCHANGED <<mainSide, runtime>>

ContainerNext ==
  \/ \E e \in Executors :
       \/ Spawn(e) \/ Command(e) \/ PassesGate(e) \/ Returns(e) \/ ReloadExecutor(e)
       \/ PollOver(e) \/ CleanupBegins(e) \/ CleanupTimesOut(e) \/ ThreadCrashes(e)
       \/ Start(e) \/ Inspected(e) \/ Replaced(e) \/ Built(e) \/ Ran(e) \/ Hooked(e)
       \/ StopContainer(e) \/ DestroyContainer(e) \/ MonitorTicks(e)
       \/ \E method \in Methods : Removed(e, method)
  \/ Exits \/ DashboardDestroys

-----------------------------------------------------------------------------
(***************************************************************************)
(* Polls, cleanups and docker commands come to an end, handlers return,    *)
(* and the monitor ticks.                                                  *)
(***************************************************************************)
ContainerFair == \A e \in Executors :
  /\ WF_containerVars(PassesGate(e))
  /\ WF_containerVars(PollOver(e) \/ CleanupBegins(e) \/ CleanupTimesOut(e))
  /\ \A method \in Methods : WF_containerVars(Removed(e, method))
  /\ WF_containerVars(MonitorTicks(e))

ContainerSpec == ContainerInit /\ [][ContainerNext]_containerVars /\ ContainerFair

\* The teardown of an executor does not remove the container that its replacement
\* has made or adopted: "a respawn for this id created mid-poll must already find a
\* `_disposing` entry to serialize behind" (durable-object.ts, _disposeExecutorWhenIdle).
ReplacementSpared == [][\A e \in Executors :
  Removed(e, "cleanup") => container.state = "none" \/ container.of <= e]_containerVars

GateOpens == \A e \in Executors : []<>(command[e] # "gated")

ExitNoticed == \A e \in Executors :
  []<>(~watch[e] \/ ~Runs(e) \/ container # [state |-> "exited", of |-> e] \/ ex[e] = "gone")

\* A command that waits for the prior container's teardown gets through or is
\* rejected: gates are never left unsettled (_priorDisposalGate).  A container that
\* has ended does not pass for a running one as long as its executor lives: the
\* runtime takes note and clears it away (monitor).
ContainerSettles == GateOpens /\ ExitNoticed
=============================================================================
