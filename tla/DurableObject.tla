---------------------------- MODULE DurableObject ----------------------------
(***************************************************************************)
(* One Durable Object in thread mode: its namespace on the main thread     *)
(* (src/bindings/durable-object.ts), the executors that come and go for it *)
(* (do-executor-worker.ts), and the instance in each executor's worker     *)
(* thread (do-worker-entry.ts).  Objects share nothing but their tables.   *)
(*                                                                         *)
(* A job is a command: a call of a client or the alarm() of one            *)
(* _fireAlarm.  Main and the threads interleave; an action is one          *)
(* macrotask of main with the microtasks it starts, or a stretch of user   *)
(* code in a thread between two awaits.  `out' is the channel from a       *)
(* thread to main, FIFO and dropped with the thread; the other direction   *)
(* carries commands only, which start in any order (wk = "posted").        *)
(*                                                                         *)
(* Alarm times are abstracted to the order of the setAlarm calls: version  *)
(* v is the alarm of the v-th call, and a timer may fire at any moment.    *)
(***************************************************************************)
EXTENDS Naturals, Sequences, FiniteSets, FiniteSetsExt

CONSTANTS
  Calls,           \* calls of clients: fetch, RPC method, RPC property
  Firings,         \* bound: _fireAlarm calls in progress at a time
  MaxAlarmRetries, \* MAX_ALARM_RETRIES
  MaxExecs,        \* bound: executors alive at a time
  MaxBlocks,       \* bound: blockConcurrencyWhile callbacks of an instance at a time
  MaxSets,         \* bound: setAlarm calls
  MaxActs,         \* bound: deleteAlarm, blockConcurrencyWhile and abort in handlers
  MaxOps           \* bound: reloads, exits, crashes and dashboard operations

ASSUME ObjectAssumption ==
  /\ Calls \cap Firings = {}
  /\ {MaxAlarmRetries, MaxExecs, MaxBlocks, MaxSets, MaxActs, MaxOps} \subseteq Nat

Jobs     == Calls \cup Firings
Execs    == 1..MaxExecs
Blocks   == 1..MaxBlocks
Versions == 1..MaxSets
None     == 0
Manual   == MaxSets + 1   \* the version of a triggerAlarm that found no alarm
Timer    == [v : 0..Manual, n : 0..MaxAlarmRetries]
NoTimer  == [v |-> None, n |-> 0]

VARIABLES
  row,      \* do_alarms: the version it holds, or None
  sets,     \* setAlarm calls so far
  tracked,  \* the timer in alarmTimers, if any: [v, n] starts _fireAlarm with retryCount n
  stray,    \* timers that are set although alarmTimers does not hold them
  fire,     \* what each _fireAlarm in progress was started for
  current,  \* the executor in _executors, or None
  detached, \* executors that _pollThenDispose is waiting for
  life,     \* each executor: its thread starts, is built, is known to be ready
  mirror,   \* _aborted and _blocked, as the last do-state message said
  ph,       \* each job as main sees it
  at,       \* the executor it was given to
  wk,       \* each job in its thread: command posted, at the gate, in the handler
  awaits,   \* the block a job at the gate awaits the end of, None once it has ended
  gate,     \* _concurrencyGate: the block it belongs to, or None
  blocks,   \* blockConcurrencyWhile callbacks that are running
  aborted,  \* _aborted
  out,      \* messages from the thread to main
  acts, ops,\* used of MaxActs, MaxOps
  writer,   \* history: the executor that wrote row last, None if main did
  raced,    \* history: an alarm-set message was lost or overtaken since the last restore
  fate      \* history: what became of each version

alarmVars == <<row, sets, tracked, stray, fire>>
execVars  == <<current, detached, life, mirror>>
jobVars   == <<ph, at, wk, awaits>>
instVars  == <<gate, blocks, aborted>>
histVars  == <<writer, raced, fate>>
vars == <<alarmVars, execVars, jobVars, instVars, out, acts, ops, histVars>>

Calm == [aborted |-> FALSE, blocked |-> FALSE]

Results == {"ok", "failed", "body", "socket"}

Message ==
  [k : {"ready", "error"}]
  \cup [k : {"state"}, s : [aborted : BOOLEAN, blocked : BOOLEAN]]
  \cup [k : {"alarm"}, v : 0..MaxSets]
  \cup [k : {"result"}, j : Jobs, res : Results, s : [aborted : BOOLEAN, blocked : BOOLEAN]]

TypeOK ==
  /\ row \in 0..Manual
  /\ sets \in 0..MaxSets
  /\ tracked \subseteq Timer /\ Cardinality(tracked) <= 1
  /\ stray \subseteq Timer
  /\ fire \in [Firings -> Timer]
  /\ current \in 0..MaxExecs
  /\ detached \subseteq Execs
  /\ life \in [Execs -> {"starting", "built", "ready", "gone"}]
  /\ mirror \in [Execs -> [aborted : BOOLEAN, blocked : BOOLEAN]]
  /\ ph \in [Jobs -> {"idle", "wait", "sent", "body", "socket", "ok", "failed"}]
  /\ at \in [Jobs -> 0..MaxExecs]
  /\ wk \in [Jobs -> {"none", "posted", "gate", "run"}]
  /\ awaits \in [Jobs -> 0..MaxBlocks]
  /\ gate \in [Execs -> 0..MaxBlocks]
  /\ blocks \in [Execs -> SUBSET Blocks]
  /\ aborted \in [Execs -> BOOLEAN]
  /\ out \in [Execs -> Seq(Message)]
  /\ acts \in 0..MaxActs
  /\ ops \in 0..MaxOps
  /\ writer \in 0..MaxExecs
  /\ raced \in BOOLEAN
  /\ fate \in [Versions -> {"unset", "pending", "over", "exposed", "done", "exhausted"}]

Init ==
  /\ row = None
  /\ sets = 0
  /\ tracked = {}
  /\ stray = {}
  /\ fire = [f \in Firings |-> NoTimer]
  /\ current = None
  /\ detached = {}
  /\ life = [e \in Execs |-> "gone"]
  /\ mirror = [e \in Execs |-> Calm]
  /\ ph = [j \in Jobs |-> "idle"]
  /\ at = [j \in Jobs |-> None]
  /\ wk = [j \in Jobs |-> "none"]
  /\ awaits = [j \in Jobs |-> None]
  /\ gate = [e \in Execs |-> None]
  /\ blocks = [e \in Execs |-> {}]
  /\ aborted = [e \in Execs |-> FALSE]
  /\ out = [e \in Execs |-> <<>>]
  /\ acts = 0
  /\ ops = 0
  /\ writer = None
  /\ raced = FALSE
  /\ fate = [v \in Versions |-> "unset"]

-----------------------------------------------------------------------------
(* The namespace on main.                                                  *)

\* Mutant: only streams are counted.
IsActive_StreamsOnly(e) == \E j \in Jobs : at[j] = e /\ ph[j] = "body"

\* isActive(): commands in flight and open body streams.  A command that still
\* awaits the thread's `ready' is not counted.
IsActive(e) == \E j \in Jobs : at[j] = e /\ ph[j] \in {"sent", "body"}

\* activeWebSocketCount()
HasSocket(e) == \E j \in Jobs : at[j] = e /\ ph[j] = "socket"

\* Rejected _fireAlarm calls run their catch block before main's next macrotask.
Settled == \A f \in Firings : ph[f] # "failed"

Free == {e \in Execs \ detached : life[e] = "gone"}

Current == {current} \ {None}

Alive == current # None /\ life[current] # "gone"

\* _getOrCreateExecutor and _sendCommand: the command is posted at once if the
\* thread is ready, else when its `ready' arrives.  A dead executor is replaced.
Dispatch(j) ==
  LET e == IF Alive THEN current ELSE Min(Free) IN
  /\ Alive \/ Free # {}
  /\ current' = e
  /\ life' = IF Alive THEN life ELSE [life EXCEPT ![e] = "starting"]
  /\ at' = [at EXCEPT ![j] = e]
  /\ IF life[e] = "ready"
       THEN /\ ph' = [ph EXCEPT ![j] = "sent"]
            /\ wk' = [wk EXCEPT ![j] = "posted"]
       ELSE /\ ph' = [ph EXCEPT ![j] = "wait"]
            /\ UNCHANGED wk
  /\ UNCHANGED <<detached, mirror, awaits>>

\* _teardown of the executors E: the threads are terminated.
Teardown(E) ==
  /\ life' = [e \in Execs |-> IF e \in E THEN "gone" ELSE life[e]]
  /\ mirror' = [e \in Execs |-> IF e \in E THEN Calm ELSE mirror[e]]
  /\ out' = [e \in Execs |-> IF e \in E THEN <<>> ELSE out[e]]
  /\ gate' = [e \in Execs |-> IF e \in E THEN None ELSE gate[e]]
  /\ blocks' = [e \in Execs |-> IF e \in E THEN {} ELSE blocks[e]]
  /\ aborted' = [e \in Execs |-> aborted[e] /\ e \notin E]
  /\ at' = [j \in Jobs |-> IF at[j] \in E THEN None ELSE at[j]]
  /\ wk' = [j \in Jobs |-> IF at[j] \in E THEN "none" ELSE wk[j]]
  /\ awaits' = [j \in Jobs |-> IF at[j] \in E THEN None ELSE awaits[j]]

\* Every command that waits, is in flight or has an open body or socket is rejected.
Rejected(E) == [j \in Jobs |-> IF at[j] \in E THEN "failed" ELSE ph[j]]

\* An alarm-set message on its way to main.
AlarmComing(e) == \E i \in DOMAIN out[e] : out[e][i].k = "alarm"

\* History of the alarms that a replacement or a deletion ends.
Overridden == [v \in Versions |-> IF fate[v] = "pending" THEN "over" ELSE fate[v]]

\* History of a race: what is pending may be lost.
Exposed == [v \in Versions |-> IF fate[v] = "pending" THEN "exposed" ELSE fate[v]]

RaceIf(cond) ==
  /\ raced' = (raced \/ cond)
  /\ fate' = IF cond THEN Exposed ELSE fate

\* A call through the stub.
Call(c) ==
  /\ Settled
  /\ ph[c] = "idle"
  /\ Dispatch(c)
  /\ UNCHANGED <<alarmVars, instVars, out, acts, ops, histVars>>

\* The body ends or is cancelled, the socket closes.
CloseStream(c) ==
  /\ Settled
  /\ ph[c] \in {"body", "socket"}
  /\ ph' = [ph EXCEPT ![c] = "ok"]
  /\ at' = [at EXCEPT ![c] = None]
  /\ UNCHANGED <<alarmVars, execVars, wk, awaits, instVars, out, acts, ops, histVars>>

\* _scheduleAlarmTimer: the timer in alarmTimers is cleared and replaced.
ScheduleAlarmTimer(v) == tracked' = {[v |-> v, n |-> 0]}

\* Mutant: a reload relies on the timers that are set.
RestoreAlarms_Skip == UNCHANGED tracked

\* _restoreAlarms
RestoreAlarms == IF row # None THEN ScheduleAlarmTimer(row) ELSE UNCHANGED tracked

\* _fireAlarm: the row goes before the handler runs.
FireAlarm(t) ==
  LET idle == {f \in Firings : ph[f] = "idle"} IN
  /\ idle # {}
  /\ LET f == CHOOSE f \in idle : TRUE IN
     /\ fire' = [fire EXCEPT ![f] = t]
     /\ Dispatch(f)
  /\ row' = None
  /\ UNCHANGED <<sets, instVars, out, acts, histVars>>

\* The callback of a timer takes the entry of alarmTimers away, its own or not.
TimerFires ==
  /\ Settled
  /\ \/ \E t \in tracked : FireAlarm(t) /\ tracked' = {} /\ UNCHANGED stray
     \/ \E t \in stray :
          FireAlarm(t) /\ tracked' = {} /\ stray' = (stray \ {t}) \cup tracked
  /\ UNCHANGED ops

\* triggerAlarm, with or without an alarm that is set
TriggerAlarm ==
  /\ Settled
  /\ ops < MaxOps
  /\ LET v == IF tracked # {} THEN (CHOOSE t \in tracked : TRUE).v
              ELSE IF row # None THEN row ELSE Manual
     IN FireAlarm([v |-> v, n |-> 0])
  /\ tracked' = {}
  /\ ops' = ops + 1
  /\ UNCHANGED stray

\* Mutant: the retry clears the timer it replaces, and with it a newer alarm.
AlarmFails_Clears(f) ==
  LET v == fire[f].v
      n == fire[f].n IN
  /\ ph[f] = "failed"
  /\ ph' = [ph EXCEPT ![f] = "idle"]
  /\ fire' = [fire EXCEPT ![f] = NoTimer]
  /\ IF n < MaxAlarmRetries
       THEN /\ row' = v
            /\ tracked' = {[v |-> v, n |-> n + 1]}
            /\ UNCHANGED stray
            /\ writer' = None
            /\ UNCHANGED fate
       ELSE /\ fate' = [u \in Versions |-> IF u = v THEN "exhausted" ELSE fate[u]]
            /\ UNCHANGED <<row, tracked, stray, writer>>
  /\ UNCHANGED <<sets, execVars, at, wk, awaits, instVars, out, acts, ops, raced>>

\* The catch block of _fireAlarm: the alarm is persisted again and a timer set,
\* or given up.  The entry of alarmTimers is overwritten, its timer not cleared.
AlarmFails(f) ==
  LET v == fire[f].v
      n == fire[f].n IN
  /\ ph[f] = "failed"
  /\ ph' = [ph EXCEPT ![f] = "idle"]
  /\ fire' = [fire EXCEPT ![f] = NoTimer]
  /\ IF n < MaxAlarmRetries
       THEN /\ row' = v
            /\ tracked' = {[v |-> v, n |-> n + 1]}
            /\ stray' = stray \cup tracked
            /\ writer' = None
            /\ UNCHANGED fate
       ELSE /\ fate' = [u \in Versions |-> IF u = v THEN "exhausted" ELSE fate[u]]
            /\ UNCHANGED <<row, tracked, stray, writer>>
  /\ UNCHANGED <<sets, execVars, at, wk, awaits, instVars, out, acts, ops, raced>>

\* cancelAlarm
CancelAlarm ==
  /\ Settled
  /\ ops < MaxOps
  /\ ops' = ops + 1
  /\ tracked' = {}
  /\ row' = None
  /\ fate' = Overridden
  /\ UNCHANGED <<sets, stray, fire, execVars, jobVars, instVars, out, acts, writer, raced>>

\* deleteInstance: the alarm is cancelled, the executor disposed, the rows deleted.
DeleteInstance ==
  /\ Settled
  /\ ops < MaxOps
  /\ ops' = ops + 1
  /\ tracked' = {}
  /\ row' = None
  /\ Teardown(Current)
  /\ ph' = Rejected(Current)
  /\ current' = None
  /\ fate' = Overridden
  /\ raced' = (raced \/ \E e \in Current : AlarmComing(e))
  /\ UNCHANGED <<sets, stray, fire, detached, acts, writer>>

\* _setExternalClass, called by a reload when the new worker has loaded: the
\* executor is detached, and disposed now or when its commands have settled.
SetExternalClass ==
  /\ Settled
  /\ ops < MaxOps
  /\ ops' = ops + 1
  /\ LET busy == {e \in Current : IsActive(e)} IN
     /\ detached' = detached \cup busy
     /\ Teardown(Current \ busy)
     /\ ph' = Rejected(Current \ busy)
  /\ current' = None
  /\ RestoreAlarms
  /\ raced' = FALSE
  /\ UNCHANGED <<row, sets, stray, fire, acts, writer, fate>>

\* _pollThenDispose, when the executor is idle or the last attempt is used up
PollIdle(e) ==
  /\ Settled
  /\ e \in detached
  /\ ~IsActive(e)
  /\ detached' = detached \ {e}
  /\ Teardown({e})
  /\ ph' = Rejected({e})
  /\ RaceIf(AlarmComing(e))
  /\ UNCHANGED <<alarmVars, current, acts, ops, writer>>

PollExpires(e) ==
  /\ Settled
  /\ e \in detached
  /\ IsActive(e)
  /\ detached' = detached \ {e}
  /\ Teardown({e})
  /\ ph' = Rejected({e})
  /\ RaceIf(AlarmComing(e))
  /\ UNCHANGED <<alarmVars, current, acts, ops, writer>>

\* Mutant: the mirrored gate is not consulted.
EvictIdle_AnyBlocked ==
  /\ Settled
  /\ current # None
  /\ \/ life[current] = "gone"
     \/ mirror[current].aborted /\ ~IsActive(current)
     \/ ~IsActive(current) /\ ~HasSocket(current)
  /\ Teardown(Current)
  /\ ph' = Rejected(Current)
  /\ current' = None
  /\ RaceIf(AlarmComing(current))
  /\ UNCHANGED <<alarmVars, detached, acts, ops, writer>>

\* Mutant: an aborted instance is treated like any other.
EvictIdle_AbortedToo ==
  /\ Settled
  /\ current # None
  /\ \/ life[current] = "gone"
     \/ /\ ~mirror[current].blocked
        /\ ~IsActive(current)
        /\ ~HasSocket(current)
  /\ Teardown(Current)
  /\ ph' = Rejected(Current)
  /\ current' = None
  /\ RaceIf(AlarmComing(current))
  /\ UNCHANGED <<alarmVars, detached, acts, ops, writer>>

\* _evictIdle.  Any time may have passed since _lastActivity.
EvictIdle ==
  /\ Settled
  /\ current # None
  /\ \/ life[current] = "gone"
     \/ mirror[current].aborted /\ ~IsActive(current)
     \/ /\ ~mirror[current].blocked
        /\ ~IsActive(current)
        /\ ~HasSocket(current)
  /\ Teardown(Current)
  /\ ph' = Rejected(Current)
  /\ current' = None
  /\ RaceIf(AlarmComing(current))
  /\ UNCHANGED <<alarmVars, detached, acts, ops, writer>>

\* The process ends and is started again: only the table is left, and the first
\* _setExternalClass restores the alarm.
Exit ==
  /\ Settled
  /\ ops < MaxOps
  /\ ops' = ops + 1
  /\ Teardown(Execs)
  /\ ph' = [j \in Jobs |-> IF j \in Firings THEN "idle" ELSE Rejected(Execs)[j]]
  /\ current' = None
  /\ detached' = {}
  /\ tracked' = IF row # None THEN {[v |-> row, n |-> 0]} ELSE {}
  /\ stray' = {}
  /\ fire' = [f \in Firings |-> NoTimer]
  /\ raced' = FALSE
  /\ fate' = [v \in Versions |-> IF v = row THEN fate[v] ELSE Exposed[v]]
  /\ UNCHANGED <<row, sets, acts, writer>>

-----------------------------------------------------------------------------
(* worker.onmessage: what main does with the messages of a thread.  They   *)
(* are dropped when the executor is disposed.                              *)

Arrives(e, k) ==
  /\ Settled
  /\ life[e] # "gone"
  /\ out[e] # <<>>
  /\ Head(out[e]).k = k

Taken(e) == [out EXCEPT ![e] = Tail(@)]

\* `ready': every command that awaited it is posted.
OnReady(e) ==
  LET waiting == {j \in Jobs : at[j] = e /\ ph[j] = "wait"} IN
  /\ Arrives(e, "ready")
  /\ life' = [life EXCEPT ![e] = "ready"]
  /\ ph' = [j \in Jobs |-> IF j \in waiting THEN "sent" ELSE ph[j]]
  /\ wk' = [j \in Jobs |-> IF j \in waiting THEN "posted" ELSE wk[j]]
  /\ out' = Taken(e)
  /\ UNCHANGED <<alarmVars, current, detached, mirror, at, awaits, instVars, acts, ops,
                 histVars>>

\* `result', and the `do-state' that is posted right behind it.  The in-flight
\* command settles; a body or a socket keeps the executor.
OnResult(e) ==
  LET m    == Head(out[e])
      kept == m.res \in {"body", "socket"}
      good == m.j \in Firings /\ m.res = "ok" IN
  /\ Arrives(e, "result")
  /\ ph' = [ph EXCEPT ![m.j] = IF good THEN "idle" ELSE m.res]
  /\ at' = [at EXCEPT ![m.j] = IF kept THEN e ELSE None]
  /\ mirror' = [mirror EXCEPT ![e] = m.s]
  /\ fire' = IF good THEN [fire EXCEPT ![m.j] = NoTimer] ELSE fire
  /\ fate' = [v \in Versions |-> IF good /\ fire[m.j].v = v THEN "done" ELSE fate[v]]
  /\ out' = Taken(e)
  /\ UNCHANGED <<row, sets, tracked, stray, current, detached, life, wk, awaits, instVars,
                 acts, ops, writer, raced>>

\* Mutant: only the executor in the map may schedule.
OnAlarmSet_CurrentOnly(e) ==
  LET v == Head(out[e]).v IN
  /\ Arrives(e, "alarm")
  /\ IF e # current THEN UNCHANGED tracked
     ELSE IF v = None THEN tracked' = {} ELSE ScheduleAlarmTimer(v)
  /\ RaceIf(writer # e)
  /\ out' = Taken(e)
  /\ UNCHANGED <<row, sets, stray, fire, execVars, jobVars, instVars, acts, ops, writer>>

\* `alarm-set': onAlarmSet of the namespace, whichever executor it comes from.
OnAlarmSet(e) ==
  LET v == Head(out[e]).v IN
  /\ Arrives(e, "alarm")
  /\ IF v = None THEN tracked' = {} ELSE ScheduleAlarmTimer(v)
  /\ RaceIf(writer # e)
  /\ out' = Taken(e)
  /\ UNCHANGED <<row, sets, stray, fire, execVars, jobVars, instVars, acts, ops, writer>>

\* `do-state'
OnState(e) ==
  /\ Arrives(e, "state")
  /\ mirror' = [mirror EXCEPT ![e] = Head(out[e]).s]
  /\ out' = Taken(e)
  /\ UNCHANGED <<alarmVars, current, detached, life, jobVars, instVars, acts, ops, histVars>>

\* onerror, and the result -1 of a thread that could not be built: the executor
\* is torn down and stays in _executors until the next access or eviction.
OnError(e) ==
  /\ Arrives(e, "error")
  /\ Teardown({e})
  /\ ph' = Rejected({e})
  /\ RaceIf(AlarmComing(e))
  /\ UNCHANGED <<alarmVars, current, detached, acts, ops, writer>>

Receive(e) == OnReady(e) \/ OnResult(e) \/ OnAlarmSet(e) \/ OnState(e) \/ OnError(e)

-----------------------------------------------------------------------------
(* The instance in its thread.                                             *)

State(e) == [aborted |-> aborted[e], blocked |-> gate[e] # None]

Post(e, m) == out' = [out EXCEPT ![e] = Append(@, m)]

\* The module is imported and the class instantiated; the constructor may call
\* blockConcurrencyWhile, and any of it may throw.
Construct(e) ==
  /\ life[e] = "starting"
  /\ life' = [life EXCEPT ![e] = "built"]
  /\ \/ Post(e, [k |-> "ready"]) /\ UNCHANGED instVars
     \/ /\ Blocks # {}
        /\ gate' = [gate EXCEPT ![e] = 1]
        /\ blocks' = [blocks EXCEPT ![e] = {1}]
        /\ out' = [out EXCEPT ![e] = <<[k |-> "state", s |-> [aborted |-> FALSE, blocked |-> TRUE]],
                                       [k |-> "ready"]>>]
        /\ UNCHANGED aborted
     \/ Post(e, [k |-> "error"]) /\ UNCHANGED instVars
  /\ UNCHANGED <<alarmVars, current, detached, mirror, jobVars, acts, ops, histVars>>

\* The command is over in the thread: its result is posted, and the state.
Reply(j, res) ==
  /\ wk' = [wk EXCEPT ![j] = "none"]
  /\ awaits' = [awaits EXCEPT ![j] = None]
  /\ Post(at[j], [k |-> "result", j |-> j, res |-> res, s |-> State(at[j])])

\* _waitForReady and the rest of _enter
PassGate(j) ==
  LET e == at[j] IN
  \/ /\ gate[e] # None
     /\ wk' = [wk EXCEPT ![j] = "gate"]
     /\ awaits' = [awaits EXCEPT ![j] = gate[e]]
     /\ UNCHANGED out
  \/ /\ gate[e] = None
     /\ ~aborted[e]
     /\ wk' = [wk EXCEPT ![j] = "run"]
     /\ awaits' = [awaits EXCEPT ![j] = None]
     /\ UNCHANGED out
  \/ /\ gate[e] = None
     /\ aborted[e]
     /\ Reply(j, "failed")

\* handleCommand up to the handler
Enter(j) ==
  /\ wk[j] = "posted"
  /\ IF aborted[at[j]] THEN Reply(j, "failed") ELSE PassGate(j)
  /\ UNCHANGED <<alarmVars, execVars, ph, at, instVars, acts, ops, histVars>>

\* Mutant: _waitForReady looks at the gate once.
Wake_Once(j) ==
  /\ wk[j] = "gate"
  /\ awaits[j] = None
  /\ wk' = [wk EXCEPT ![j] = "run"]
  /\ UNCHANGED <<alarmVars, execVars, ph, at, awaits, instVars, out, acts, ops, histVars>>

\* The promise that the job awaits is resolved.
Wake(j) ==
  /\ wk[j] = "gate"
  /\ awaits[j] = None
  /\ PassGate(j)
  /\ UNCHANGED <<alarmVars, execVars, ph, at, instVars, acts, ops, histVars>>

\* The handler returns or throws; a fetch may return a body or a socket.
Return(j) ==
  /\ wk[j] = "run"
  /\ \E res \in IF j \in Firings THEN {"ok", "failed"} ELSE Results : Reply(j, res)
  /\ UNCHANGED <<alarmVars, execVars, ph, at, instVars, acts, ops, histVars>>

\* storage.setAlarm
SetAlarm(j) ==
  /\ wk[j] = "run"
  /\ sets < MaxSets
  /\ sets' = sets + 1
  /\ row' = sets + 1
  /\ Post(at[j], [k |-> "alarm", v |-> sets + 1])
  /\ writer' = at[j]
  /\ fate' = [Overridden EXCEPT ![sets + 1] = "pending"]
  /\ UNCHANGED <<tracked, stray, fire, execVars, jobVars, instVars, acts, ops, raced>>

\* storage.deleteAlarm
DeleteAlarm(j) ==
  /\ wk[j] = "run"
  /\ acts < MaxActs
  /\ acts' = acts + 1
  /\ row' = None
  /\ Post(at[j], [k |-> "alarm", v |-> None])
  /\ writer' = at[j]
  /\ fate' = Overridden
  /\ UNCHANGED <<sets, tracked, stray, fire, execVars, jobVars, instVars, ops, raced>>

\* blockConcurrencyWhile: the gate is replaced, whether or not it is closed.
Block(j, b) ==
  LET e == at[j] IN
  /\ wk[j] = "run"
  /\ acts < MaxActs
  /\ acts' = acts + 1
  /\ b \notin blocks[e]
  /\ blocks' = [blocks EXCEPT ![e] = @ \cup {b}]
  /\ gate' = [gate EXCEPT ![e] = b]
  /\ Post(e, [k |-> "state", s |-> [aborted |-> aborted[e], blocked |-> TRUE]])
  /\ UNCHANGED <<alarmVars, execVars, jobVars, aborted, ops, histVars>>

\* The callback settles: its finally clears the gate, whichever block closed it.
Unblock(e, b) ==
  /\ b \in blocks[e]
  /\ blocks' = [blocks EXCEPT ![e] = @ \ {b}]
  /\ gate' = [gate EXCEPT ![e] = None]
  /\ awaits' = [j \in Jobs |-> IF at[j] = e /\ awaits[j] = b THEN None ELSE awaits[j]]
  /\ Post(e, [k |-> "state", s |-> [aborted |-> aborted[e], blocked |-> FALSE]])
  /\ UNCHANGED <<alarmVars, execVars, ph, at, wk, aborted, acts, ops, histVars>>

\* ctx.abort
Abort(j) ==
  LET e == at[j] IN
  /\ wk[j] = "run"
  /\ acts < MaxActs
  /\ acts' = acts + 1
  /\ aborted' = [aborted EXCEPT ![e] = TRUE]
  /\ Post(e, [k |-> "state", s |-> [aborted |-> TRUE, blocked |-> gate[e] # None]])
  /\ UNCHANGED <<alarmVars, execVars, jobVars, gate, blocks, ops, histVars>>

\* An uncaught error: main is told, and the thread goes on until it is terminated.
Crash(e) ==
  /\ life[e] = "ready"
  /\ ops < MaxOps
  /\ ops' = ops + 1
  /\ Post(e, [k |-> "error"])
  /\ UNCHANGED <<alarmVars, execVars, jobVars, instVars, acts, histVars>>

-----------------------------------------------------------------------------
Next ==
  \/ \E c \in Calls : Call(c) \/ CloseStream(c)
  \/ TimerFires \/ TriggerAlarm \/ CancelAlarm \/ DeleteInstance
  \/ \E f \in Firings : AlarmFails(f)
  \/ SetExternalClass \/ EvictIdle \/ Exit
  \/ \E e \in Execs :
       \/ PollIdle(e) \/ PollExpires(e)
       \/ Receive(e)
       \/ Construct(e) \/ Crash(e)
       \/ \E b \in Blocks : Unblock(e, b)
  \/ \E j \in Jobs :
       \/ Enter(j) \/ Wake(j) \/ Return(j)
       \/ SetAlarm(j) \/ DeleteAlarm(j) \/ Abort(j)
       \/ \E b \in Blocks : Block(j, b)

Spec == Init /\ [][Next]_vars

\* Timers and intervals fire, messages arrive, threads start, and user code comes
\* to an end: handlers and blockConcurrencyWhile callbacks settle.  Clients, the
\* dashboard, reloads and failures are free, and so is a body that stays open.
Fairness ==
  /\ WF_vars(TimerFires)
  /\ WF_vars(EvictIdle)
  /\ WF_vars(\E f \in Firings : AlarmFails(f))
  /\ \A e \in Execs :
       /\ WF_vars(PollIdle(e) \/ PollExpires(e))
       /\ WF_vars(Construct(e) \/ Receive(e))
       /\ WF_vars(\E b \in Blocks : Unblock(e, b))
  /\ \A j \in Jobs : WF_vars(Enter(j) \/ Wake(j) \/ Return(j))

FairSpec == Spec /\ Fairness

-----------------------------------------------------------------------------
(* Properties.                                                             *)

\* An alarm that was neither replaced nor deleted does not vanish before its
\* handler has succeeded or its retries are used up: a timer of its own is set or
\* about to be, or the handler is running.  The alarm of the table, too, has a
\* timer that is set or about to be, unless an alarm-set message was dropped by a
\* dispose, or overtaken by what another executor or a retry wrote to the row; the
\* next reload or start repairs that (_restoreAlarms).
AlarmKept ==
  /\ \A v \in Versions :
       fate[v] = "pending" =>
         \/ \E t \in tracked \cup stray : t.v = v
         \/ \E e \in Execs : \E i \in DOMAIN out[e] : out[e][i] = [k |-> "alarm", v |-> v]
         \/ \E f \in Firings : ph[f] # "idle" /\ fire[f].v = v
  /\ row # None /\ ~raced =>
       \/ tracked \cup stray # {}
       \/ \E e \in Execs : \E i \in DOMAIN out[e] :
            out[e][i].k = "alarm" /\ out[e][i].v # None

\* A reload and an eviction end no command that its thread has begun, although
\* main only has its own counts and what the thread last reported; nor does an
\* eviction end an instance inside blockConcurrencyWhile, once its thread is known
\* to be ready and unless it was aborted.
WorkSpared ==
  [][/\ SetExternalClass \/ EvictIdle \/ (\E e \in Execs : PollIdle(e)) =>
          \A j \in Jobs : wk[j] # "none" => wk'[j] = wk[j]
     /\ EvictIdle =>
          \A e \in Current :
            life[e] = "ready" /\ ~aborted[e] /\ ~mirror[e].aborted => blocks[e] = {}]_vars

\* blockConcurrencyWhile: no handler starts before the callback is over.
GateExcludes ==
  [][\A j \in Jobs : wk[j] # "run" /\ wk'[j] = "run" => blocks[at[j]] = {}]_vars

\* What runs in an instance is not disturbed: neither by main, which knows its
\* state late, nor by the handlers that wait for it.
WorkUndisturbed == WorkSpared /\ GateExcludes

CallEnds ==
  \A c \in Calls : []<>(ph[c] \notin {"wait", "sent"})

AbortedReplaced ==
  []<>(current = None \/ ~aborted[current] \/ \E c \in Calls : ph[c] = "body")

AlarmFires == []<>(row = None \/ raced)

\* Every call is answered, whatever becomes of its executor (_sendCommand,
\* _teardown); an aborted instance is replaced, however many calls it still
\* rejects, unless it is streaming a body (_evictIdle); and the alarm of the
\* table is taken up (_restoreAlarms, _runAlarmLocked).
ObjectServes == CallEnds /\ AbortedReplaced /\ AlarmFires

=============================================================================
