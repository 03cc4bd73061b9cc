----------------------------- MODULE ThreadLink -----------------------------
(***************************************************************************)
(* One generation's worker thread and main: the start of the thread, the   *)
(* operations main runs in it (executor.ts, entry.ts) and the binding      *)
(* calls the thread makes to main (rpc-shared.ts, thread-env.ts).          *)
(*                                                                         *)
(* An operation is a fetch or a call with one reply (scheduled, email,     *)
(* entrypoint RPC, workflow control).  Message channels are FIFO.  Bodies  *)
(* are modelled in Stream, WebSockets in WebSocketBridge; here a body or a *)
(* socket is something held that has to be given up.                       *)
(***************************************************************************)
EXTENDS Naturals, Sequences

CONSTANTS
  Fetches,         \* the operations that are fetches
  Handlers,        \* the other operations
  BindingCalls            \* the calls of the thread to bindings on main

ASSUME LinkAssumption ==
  /\ Fetches \intersect Handlers = {}
  /\ BindingCalls \intersect (Fetches \union Handlers) = {}
  /\ "import" \notin Fetches \union Handlers

Ops == Fetches \union Handlers
Forms == {"fetch", "upload", "call", "get"}   \* an upload is a fetch with a request body

VARIABLES
  boot,       \* the promise _ready: "waiting", "ready", "failed"
  disposed,   \* _disposed
  op,         \* "idle", "called", "posted" (in a pending map), then "ok" or "error"
  signal,     \* fetches whose client has disconnected
  toThread,
  toMain,
  thread,     \* the onmessage in place: "none", "boot", "importing", "serving"; "failed", "gone"
  job,        \* handlers in the thread: "none", "running", "over"
  abortable,  \* fetchAbortControllers: "none", "live", "aborted"
  flowing,    \* operations whose response body flows
  uploading,  \* request bodies being pumped, of fetches and of calls
  form,       \* what each call is
  caller,     \* who made it: the module at import, or a handler
  answer,     \* its promise: "none", "waiting", "ok", "error"
  dispatch,   \* main's side of it: "none", "running", "over"
  holding     \* calls whose response body or socket main holds

mainVars == <<boot, disposed, op, signal>>
threadVars == <<thread, job, abortable, flowing>>
callVars == <<form, caller, answer, dispatch, holding>>
linkVars == <<mainVars, threadVars, callVars, toThread, toMain, uploading>>

Msg(kind, of) == [kind |-> kind, of |-> of]
ToThread == {"init", "fetch", "abort", "value", "throw", "req-cancel"}
ToMain == {"need-init", "ready", "init-error", "ok", "error", "call", "crash"}
Link == "link"   \* what a message about the thread itself is about

LinkType ==
  /\ boot \in {"waiting", "ready", "failed"}
  /\ disposed \in BOOLEAN
  /\ op \in [Ops -> {"idle", "called", "posted", "ok", "error"}]
  /\ signal \subseteq Fetches
  /\ toThread \in Seq([kind : ToThread, of : Ops \union BindingCalls \union {Link}])
  /\ toMain \in Seq([kind : ToMain, of : Ops \union BindingCalls \union {Link}])
  /\ thread \in {"none", "boot", "importing", "serving", "failed", "gone"}
  /\ job \in [Ops -> {"none", "running", "over"}]
  /\ abortable \in [Ops -> {"none", "live", "aborted"}]
  /\ flowing \subseteq Fetches
  /\ uploading \subseteq Fetches \union BindingCalls
  /\ form \in [BindingCalls -> Forms]
  /\ caller \in [BindingCalls -> Ops \union {"import"}]
  /\ answer \in [BindingCalls -> {"none", "waiting", "ok", "error"}]
  /\ dispatch \in [BindingCalls -> {"none", "running", "over"}]
  /\ holding \subseteq BindingCalls

LinkInit ==
  /\ boot = "waiting" /\ disposed = FALSE
  /\ op = [o \in Ops |-> "idle"] /\ signal = {}
  /\ toThread = <<>> /\ toMain = <<>>
  /\ thread = "none"
  /\ job = [o \in Ops |-> "none"] /\ abortable = [o \in Ops |-> "none"] /\ flowing = {}
  /\ uploading = {}
  /\ form = [c \in BindingCalls |-> "call"] /\ caller = [c \in BindingCalls |-> "import"]
  /\ answer = [c \in BindingCalls |-> "none"] /\ dispatch = [c \in BindingCalls |-> "none"]
  /\ holding = {}

SendToThread(m) == toThread' = Append(toThread, m)

-----------------------------------------------------------------------------
(* Main runs operations.                                                   *)

\* The constructor of WorkerThreadExecutor; the first thing entry.ts does is to
\* ask for its init.
NewThread ==
  /\ thread = "none"
  /\ thread' = "boot"
  /\ toMain' = <<Msg("need-init", Link)>>
  /\ UNCHANGED <<mainVars, job, abortable, flowing, callVars, toThread, uploading>>

\* executeFetch, executeScheduled, ...: refused at once after dispose().
Execute(o) ==
  /\ op[o] = "idle" /\ thread # "none"
  /\ op' = [op EXCEPT ![o] = IF disposed THEN "error" ELSE "called"]
  /\ UNCHANGED <<boot, disposed, signal, threadVars, callVars, toThread, toMain, uploading>>

\* Mutant: _disposed is not looked at again after the await.
AfterReady_OnceChecked(o) ==
  /\ op[o] = "called" /\ boot # "waiting"
  /\ op' = [op EXCEPT ![o] = IF boot = "failed" THEN "error" ELSE "posted"]
  /\ toThread' = IF boot = "failed" THEN toThread ELSE Append(toThread, Msg("fetch", o))
  /\ UNCHANGED <<boot, disposed, signal, threadVars, callVars, toMain, uploading>>

\* _sendAndAwait goes on after `await this._ready' and looks at _disposed again.
\* A message that cannot be cloned leaves no entry behind.  For a fetch the signal
\* is wired, and the body pumped, once the command is out.
AfterReady(o) ==
  /\ op[o] = "called" /\ boot # "waiting"
  /\ \/ /\ boot = "failed" \/ disposed \/ o \in Handlers
        /\ op' = [op EXCEPT ![o] = "error"]
        /\ UNCHANGED <<toThread, uploading>>
     \/ /\ boot = "ready" /\ ~disposed
        /\ op' = [op EXCEPT ![o] = "posted"]
        /\ toThread' = toThread \o
             IF o \in signal THEN <<Msg("fetch", o), Msg("abort", o)>> ELSE <<Msg("fetch", o)>>
        /\ uploading' \in {uploading} \union (IF o \in Fetches THEN {uploading \union {o}} ELSE {})
  /\ UNCHANGED <<boot, disposed, signal, threadVars, callVars, toMain>>

\* onAbort: posted while the executor lives, also for a response under way.
ClientAborts(o) ==
  /\ o \in Fetches \ signal /\ op[o] \in {"called", "posted", "ok"}
  /\ signal' = signal \union {o}
  /\ IF op[o] # "called" /\ ~disposed THEN SendToThread(Msg("abort", o)) ELSE toThread' = toThread
  /\ UNCHANGED <<boot, disposed, op, threadVars, callVars, toMain, uploading>>

\* Mutant: the promise of ready is not rejected.
FailAll_KeepsReady ==
  /\ disposed' = TRUE
  /\ op' = [o \in Ops |-> IF op[o] = "posted" THEN "error" ELSE op[o]]
  /\ thread' = "gone" /\ flowing' = {} /\ uploading' = {} /\ holding' = {}
  /\ toThread' = <<>> /\ toMain' = <<>>
  /\ UNCHANGED <<boot, signal, job, abortable, form, caller, answer, dispatch>>

\* _failAll, of a thread that is terminated.
FailAll ==
  /\ disposed' = TRUE
  /\ boot' = IF boot = "waiting" THEN "failed" ELSE boot
  /\ op' = [o \in Ops |-> IF op[o] = "posted" THEN "error" ELSE op[o]]
  /\ thread' = "gone" /\ flowing' = {} /\ uploading' = {} /\ holding' = {}
  /\ toThread' = <<>> /\ toMain' = <<>>
  /\ UNCHANGED <<signal, job, abortable, form, caller, answer, dispatch>>

Dispose == ~disposed /\ thread # "none" /\ FailAll

\* _handleMessage and onerror of main.
Resolves(o, how) ==
  /\ op' = IF op[o] = "posted" THEN [op EXCEPT ![o] = how] ELSE op
  /\ uploading' = IF op[o] = "posted" /\ how = "error" THEN uploading \ {o} ELSE uploading
MainReceives ==
  /\ toMain # <<>>
  /\ LET m == Head(toMain) IN
     \/ m.kind = "crash" /\ FailAll
     \/ /\ m.kind # "crash"
        /\ toMain' = Tail(toMain)
        /\ toThread' = IF m.kind = "need-init" THEN Append(toThread, Msg("init", Link)) ELSE toThread
        /\ boot' = CASE m.kind = "ready"      -> "ready"
                     [] m.kind = "init-error" -> "failed"
                     [] OTHER                 -> boot
        /\ dispatch' = IF m.kind = "call" THEN [dispatch EXCEPT ![m.of] = "running"] ELSE dispatch
        /\ IF m.kind \in {"ok", "error"} THEN Resolves(m.of, m.kind) ELSE UNCHANGED <<op, uploading>>
        /\ UNCHANGED <<disposed, signal, threadVars, form, caller, answer, holding>>

-----------------------------------------------------------------------------
(* Main serves the calls of the thread (dispatchRpcCall, -Get, -Fetch).    *)

IsFetch(c) == form[c] \in {"fetch", "upload"}

\* The binding has answered.  A body or a socket that comes too late is given up.
CallReturns(c) ==
  /\ dispatch[c] = "running"
  /\ dispatch' = [dispatch EXCEPT ![c] = "over"]
  /\ IF disposed
       THEN UNCHANGED <<toThread, holding>>
       ELSE /\ SendToThread(Msg("value", c))
            /\ holding' \in {holding} \union (IF IsFetch(c) THEN {holding \union {c}} ELSE {})
  /\ UNCHANGED <<mainVars, threadVars, form, caller, answer, toMain, uploading>>

\* Mutant: the error is posted before the request's body is cancelled.
CallThrows_ErrorFirst(c) ==
  /\ dispatch[c] = "running"
  /\ dispatch' = [dispatch EXCEPT ![c] = "over"]
  /\ toThread' = IF disposed THEN toThread ELSE toThread \o
       IF form[c] = "upload" THEN <<Msg("throw", c), Msg("req-cancel", c)>> ELSE <<Msg("throw", c)>>
  /\ UNCHANGED <<mainVars, threadVars, form, caller, answer, holding, toMain, uploading>>

\* It threw, is missing, or returned what cannot be cloned.  Nobody is going to
\* read the request's body.
CallThrows(c) ==
  /\ dispatch[c] = "running"
  /\ dispatch' = [dispatch EXCEPT ![c] = "over"]
  /\ toThread' = IF disposed THEN toThread ELSE toThread \o
       IF form[c] = "upload" THEN <<Msg("req-cancel", c), Msg("throw", c)>> ELSE <<Msg("throw", c)>>
  /\ UNCHANGED <<mainVars, threadVars, form, caller, answer, holding, toMain, uploading>>

\* The response's body has been read, the socket was closed, an upload is through.
BodyOver ==
  /\ \/ \E c \in holding : holding' = holding \ {c} /\ UNCHANGED uploading
     \/ \E x \in uploading : uploading' = uploading \ {x} /\ UNCHANGED holding
  /\ UNCHANGED <<mainVars, threadVars, form, caller, answer, dispatch, toThread, toMain>>

-----------------------------------------------------------------------------
(* The thread.                                                             *)

Tell(m) == toMain' = Append(toMain, m)

\* The user module has been imported once what it awaits at top level is there.
Awaits(who) == \E c \in BindingCalls : caller[c] = who /\ answer[c] = "waiting"
ImportEnds ==
  /\ thread = "importing" /\ ~Awaits("import")
  /\ \/ thread' = "serving" /\ Tell(Msg("ready", Link))
     \/ thread' = "failed" /\ Tell(Msg("init-error", Link))
  /\ UNCHANGED <<mainVars, job, abortable, flowing, callVars, toThread, uploading>>

\* A reply settles the promise of the call; the controller of a fetch is there
\* before the handler runs.
ThreadReceives ==
  /\ toThread # <<>> /\ thread # "gone"
  /\ toThread' = Tail(toThread)
  /\ LET m == Head(toThread)
         replies == thread \in {"importing", "serving", "failed"}
     IN
     /\ thread' = IF m.kind = "init" /\ thread = "boot" THEN "importing" ELSE thread
     /\ answer' = IF replies /\ m.kind \in {"value", "throw"}
                    THEN [answer EXCEPT ![m.of] = IF m.kind = "value" THEN "ok" ELSE "error"]
                    ELSE answer
     /\ uploading' = IF replies /\ m.kind = "req-cancel" THEN uploading \ {m.of} ELSE uploading
     /\ IF thread = "serving" /\ m.kind = "fetch"
          THEN /\ job' = [job EXCEPT ![m.of] = "running"]
               /\ abortable' = IF m.of \in Fetches THEN [abortable EXCEPT ![m.of] = "live"] ELSE abortable
          ELSE /\ job' = job
               /\ abortable' = IF thread = "serving" /\ m.kind = "abort" /\ abortable[m.of] = "live"
                                 THEN [abortable EXCEPT ![m.of] = "aborted"] ELSE abortable
  /\ UNCHANGED <<mainVars, flowing, form, caller, dispatch, holding, toMain>>

\* A call beyond the request's budget (checkSubrequestLimit, which does not count
\* property reads), or with arguments that cannot be cloned, is not sent.
Running(who) == IF who = "import" THEN thread = "importing" ELSE thread = "serving" /\ job[who] = "running"
MakeCall(c, who, f) ==
  /\ answer[c] = "none" /\ Running(who)
  /\ form' = [form EXCEPT ![c] = f] /\ caller' = [caller EXCEPT ![c] = who]
  /\ \/ /\ f # "get"
        /\ answer' = [answer EXCEPT ![c] = "error"]
        /\ UNCHANGED <<toMain, uploading>>
     \/ /\ answer' = [answer EXCEPT ![c] = "waiting"]
        /\ Tell(Msg("call", c))
        /\ uploading' = IF f = "upload" THEN uploading \union {c} ELSE uploading
  /\ UNCHANGED <<mainVars, threadVars, dispatch, holding, toThread>>

\* The handler settles; the controller stays while a response body flows.
JobEnds(o) ==
  /\ thread = "serving" /\ job[o] = "running" /\ ~Awaits(o)
  /\ job' = [job EXCEPT ![o] = "over"]
  /\ \/ Tell(Msg("error", o)) /\ flowing' = flowing
     \/ Tell(Msg("ok", o)) /\ flowing' \in {flowing} \union (IF o \in Fetches THEN {flowing \union {o}} ELSE {})
  /\ abortable' = IF o \in flowing' THEN abortable ELSE [abortable EXCEPT ![o] = "none"]
  /\ UNCHANGED <<mainVars, thread, callVars, toThread, uploading>>

\* onComplete of the pump.
ResponseOver(o) ==
  /\ o \in flowing
  /\ flowing' = flowing \ {o}
  /\ abortable' = [abortable EXCEPT ![o] = "none"]
  /\ UNCHANGED <<mainVars, thread, job, callVars, toThread, toMain, uploading>>

\* An uncaught error: Bun tells main and leaves the thread running.
ThreadCrash ==
  /\ thread \in {"importing", "serving", "failed"}
  /\ \A i \in DOMAIN toMain : toMain[i].kind # "crash"
  /\ Tell(Msg("crash", Link))
  /\ UNCHANGED <<mainVars, threadVars, callVars, toThread, uploading>>

LinkNext ==
  \/ \E o \in Ops : Execute(o) \/ AfterReady(o) \/ ClientAborts(o) \/ JobEnds(o) \/ ResponseOver(o)
  \/ \E c \in BindingCalls : \/ CallReturns(c) \/ CallThrows(c)
                      \/ \E who \in Ops \union {"import"}, f \in Forms : MakeCall(c, who, f)
  \/ NewThread \/ Dispose \/ MainReceives \/ ThreadReceives \/ ImportEnds \/ BodyOver \/ ThreadCrash

-----------------------------------------------------------------------------
(***************************************************************************)
(* Messages arrive, and the user's module, handlers and bindings come to   *)
(* an end once what they await has been answered.                          *)
(***************************************************************************)
LinkFair ==
  /\ WF_linkVars(MainReceives)
  /\ WF_linkVars(ThreadReceives)
  /\ WF_linkVars(ImportEnds)
  /\ \A o \in Ops : WF_linkVars(AfterReady(o)) /\ WF_linkVars(JobEnds(o))
  /\ \A c \in BindingCalls : WF_linkVars(CallReturns(c) \/ CallThrows(c))

LinkSpec == LinkInit /\ [][LinkNext]_linkVars /\ LinkFair

\* Every operation is answered: also one that waited for a thread that never came
\* up or was disposed of, and one of a module that calls a binding while it is
\* being imported (_sendAndAwait, _failAll, initRuntime).
OperationEnds == \A o \in Ops : []<>(op[o] \notin {"called", "posted"})

TornDown == disposed =>
  /\ \A o \in Ops : op[o] # "posted"
  /\ holding = {} /\ uploading = {}

AbortNoticed == \A o \in signal :
  abortable[o] = "live" /\ ~disposed => \E i \in DOMAIN toThread : toThread[i] = Msg("abort", o)

FailureStopsUpload ==
  /\ \A c \in BindingCalls : answer[c] = "error" => c \notin uploading
  /\ \A o \in Fetches : op[o] = "error" => o \notin uploading

\* Neither side goes on for the other when that one is gone.  Nothing waits for a
\* disposed thread, nor is anything held that it had asked for (_sendAndAwait
\* checks again after its await, dispatchRpcFetch gives up what comes late, _failAll
\* the rest); a handler learns of a client that disconnects, whenever it does so
\* (the abort never overtakes the fetch); and who hears that a call or a fetch
\* failed has its request's body no longer read (requestStreams.cancel).
NobodyLeftWorking == TornDown /\ AbortNoticed /\ FailureStopsUpload
=============================================================================
