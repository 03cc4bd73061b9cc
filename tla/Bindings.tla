------------------------------- MODULE Bindings -------------------------------
(***************************************************************************)
(* Bindings from one worker to another, and where the binding of each kind *)
(* lives.  Code runs in the main thread (under Vite), in the thread of its *)
(* worker, or in the thread of a Durable Object.  A binding that another   *)
(* thread owns is a proxy; the call is shipped to the main thread, which   *)
(* resolves a service binding to the active generation of its target when  *)
(* the call arrives.                                                       *)
(***************************************************************************)
EXTENDS Naturals, FiniteSets

CONSTANTS
  Callers,         \* top-level requests that call the binding
  MaxSubrequests,  \* the budget of a request
  MaxCalls,        \* bounds: calls of a request ...
  MaxTargetGens    \* ... and generations of the target

ASSUME BindingsAssumption ==
  /\ MaxSubrequests \in Nat \ {0}
  /\ {MaxCalls, MaxTargetGens} \subseteq Nat

VARIABLES
  side,     \* where the code of each caller runs
  svc,      \* the service binding, and what it is bound to
  liveGen,  \* the active generation of the target, 0 without one
  deadGens, \* its generations whose executor is disposed
  calls,    \* what has become of each call
  spent,    \* the subrequests of the span context of each caller
  stub      \* the function that a property read has returned: its generation

bindingVars == <<side, svc, liveGen, deadGens, calls, spent, stub>>

Sides == {"main", "thread", "do"}
CallIds == Callers \X (1..MaxCalls)
Ops == {"fetch", "call", "get", "stub"}
\* `entry': the binding has no entrypoint, one that is exported, or one that is not.
Services == [target : {"absent", "thread", "module", "assets"}, entry : {"none", "named", "missing"}]
Fresh == [state |-> "idle", op |-> "fetch", began |-> 0, gen |-> 0, by |-> "none"]

BindingsType ==
  /\ side \in [Callers -> Sides]
  /\ svc \in Services
  /\ liveGen \in 0..MaxTargetGens /\ deadGens \subseteq 1..MaxTargetGens
  /\ calls \in [CallIds -> [state : {"idle", "shipped", "running", "ok", "error", "refused"}, op : Ops,
                            began : Nat, gen : Nat, by : {"none", "default", "named", "assets"}]]
  /\ spent \in [Callers -> Nat] /\ stub \in [Callers -> Nat]

BindingsInit ==
  /\ side \in [Callers -> Sides]
  /\ svc \in Services
  /\ liveGen = 0 /\ deadGens = {}
  /\ calls = [c \in CallIds |-> Fresh]
  /\ spent = [q \in Callers |-> 0] /\ stub = [q \in Callers |-> 0]

-----------------------------------------------------------------------------
(* Where a binding lives.                                                  *)

BindingKinds == {"store", "queue", "email", "service", "object", "container", "workflow", "newer"}

\* In the main thread all of them are made; a workflow there has no class once the
\* worker has a thread of its own, and passes what it is asked on to that thread.
MainEnv == [k \in BindingKinds |-> IF k = "workflow" THEN "router" ELSE "here"]
ThreadEnv == [k \in BindingKinds |-> IF k \in {"store", "workflow", "newer"} THEN "here" ELSE "proxy"]
DoEnv == [k \in BindingKinds |->
  CASE k \in {"store", "queue"} -> "here"
    [] k = "newer" -> "absent"
    [] OTHER -> "proxy"]
Env == [main |-> MainEnv, thread |-> ThreadEnv, do |-> DoEnv]

\* The thread whose binding a call works on: a proxy ships it to the main thread.
Hop(s, k) == IF Env[s][k] = "proxy" THEN "main" ELSE s

\* Where it ends up: the router of a workflow passes it on to the worker's thread.
Lands(s, k) ==
  CASE Env[s][k] = "absent" -> "nowhere"
    [] Env[Hop(s, k)][k] = "router" -> "thread"
    [] OTHER -> Hop(s, k)

\* Who keeps what a binding of the kind works on: nobody for stores, which every
\* thread opens on disk.
Owners(k) ==
  CASE k \in {"store", "queue", "newer"} -> Sides
    [] k = "workflow" -> {"thread"}
    [] OTHER -> {"main"}

-----------------------------------------------------------------------------
(* Calls of a service binding.                                             *)

Become(c, rec) == calls' = [calls EXCEPT ![c] = rec]
Fail(c, how) == Become(c, [calls[c] EXCEPT !.state = how])

\* Mutant: resolved once, when the binding is wired.
ResolvedGen_Wired(c) == IF liveGen > 1 THEN 1 ELSE liveGen

\* resolveTarget: the generation that is active now.
ResolvedGen(c) == liveGen
Resolved(c) == svc.target # "absent" /\ ResolvedGen(c) # 0

\* Who serves the call once it is resolved; the thread's fetch handler is that of
\* the default export.
AnsweredBy(op) ==
  CASE svc.target = "assets" -> "assets"
    [] svc.target = "thread" /\ op = "fetch" -> "default"
    [] svc.entry = "none" -> "default"
    [] OTHER -> "named"

\* An assets-only worker answers fetch, if the binding has no entrypoint.
CanAnswer(op) ==
  /\ svc.target = "assets" => op = "fetch" /\ svc.entry = "none"
  /\ svc.entry = "missing" => svc.target = "thread" /\ op = "fetch"

\* The binding in the main thread.  It has an error for a target that is not there
\* before it counts, and it counts on the context of the caller only when the call
\* was not shipped: that of a shipped call starts anew.
ReachesMain(c, rec) ==
  LET q == c[1]
      direct == side[q] = "main"
      used == (IF direct THEN spent[q] ELSE 0) + 1
  IN IF ~Resolved(c) THEN Become(c, [rec EXCEPT !.state = "error"]) /\ UNCHANGED spent
     ELSE /\ spent' = IF direct THEN [spent EXCEPT ![q] = used] ELSE spent
          /\ Become(c,
               IF used > MaxSubrequests THEN [rec EXCEPT !.state = "refused"]
               ELSE IF ~CanAnswer(rec.op) THEN [rec EXCEPT !.state = "error"]
               ELSE [rec EXCEPT !.state = "running", !.gen = ResolvedGen(c), !.by = AnsweredBy(rec.op)])

\* The proxy of a worker's thread counts calls and fetches before it ships them,
\* that of a Durable Object does not.
Proxied(c, rec) ==
  LET q == c[1]
      counts == side[q] = "thread" /\ rec.op # "get"
  IN /\ spent' = IF counts THEN [spent EXCEPT ![q] = @ + 1] ELSE spent
     /\ Become(c, [rec EXCEPT !.state = IF counts /\ spent[q] >= MaxSubrequests THEN "refused" ELSE "shipped"])

Invoke(c, op) ==
  LET rec == [Fresh EXCEPT !.op = op, !.began = liveGen] IN
  /\ calls[c].state = "idle" /\ op # "stub"
  /\ IF side[c[1]] = "main" THEN ReachesMain(c, rec) ELSE Proxied(c, rec)
  /\ UNCHANGED <<side, svc, liveGen, deadGens, stub>>

CallArrives(c) ==
  /\ calls[c].state = "shipped"
  /\ ReachesMain(c, calls[c])
  /\ UNCHANGED <<side, svc, liveGen, deadGens, stub>>

\* A property that is a function becomes a stub in the main thread; it cannot be
\* shipped to another one.
CallReturned(c) ==
  LET q == c[1] IN
  /\ calls[c].state = "running"
  /\ \/ Fail(c, "ok") /\ UNCHANGED stub
     \/ Fail(c, "error") /\ UNCHANGED stub
     \/ /\ calls[c].op = "get"
        /\ Fail(c, IF side[q] = "main" THEN "ok" ELSE "error")
        /\ stub' = IF side[q] = "main" THEN [stub EXCEPT ![q] = calls[c].gen] ELSE stub
  /\ UNCHANGED <<side, svc, liveGen, deadGens, spent>>

\* The stub is bound to the executor, or the module, that it came from, and is not
\* counted.
CallStub(c) ==
  LET q == c[1]
      rec == [Fresh EXCEPT !.op = "stub", !.began = stub[q], !.gen = stub[q], !.by = AnsweredBy("call")]
  IN /\ calls[c].state = "idle" /\ stub[q] # 0
     /\ Become(c, [rec EXCEPT !.state =
          IF svc.target = "thread" /\ stub[q] \in deadGens THEN "error" ELSE "running"])
     /\ UNCHANGED <<side, svc, liveGen, deadGens, spent, stub>>

\* The target loads, or reloads; the executor of an older generation is disposed
\* when it has drained, or at the end of its grace.
TargetLoads ==
  /\ svc.target # "absent" /\ liveGen < MaxTargetGens
  /\ liveGen' = liveGen + 1
  /\ UNCHANGED <<side, svc, deadGens, calls, spent, stub>>

Disposes ==
  /\ \E g \in 1..(liveGen - 1) \ deadGens :
       /\ deadGens' = deadGens \cup {g}
       /\ calls' = [c \in CallIds |->
            IF calls[c].state = "running" /\ calls[c].gen = g /\ svc.target = "thread"
            THEN [calls[c] EXCEPT !.state = "error"] ELSE calls[c]]
  /\ UNCHANGED <<side, svc, liveGen, spent, stub>>

BindingsNext ==
  \/ \E c \in CallIds :
       \/ \E op \in Ops : Invoke(c, op)
       \/ CallArrives(c) \/ CallReturned(c) \/ CallStub(c)
  \/ TargetLoads \/ Disposes

BindingsSpec == BindingsInit /\ [][BindingsNext]_bindingVars
-----------------------------------------------------------------------------
\* A binding that a thread has reaches the state of its kind.
AllReach == \A s \in Sides, k \in BindingKinds : Lands(s, k) \in Owners(k) \cup {"nowhere"}

Counted(q) == {c \in CallIds : c[1] = q /\ calls[c].op \in {"fetch", "call"} /\ calls[c].state \in {"shipped", "running", "ok"}}

\* A call is served by a generation that was active since it was made, also when the
\* target was reloaded on the way, and only a stub stays with the one it came from
\* (resolveTarget, toProxy); a request in a worker's thread or under Vite spends no more than its own
\* budget, and is refused only when it has (checkSubrequestLimit); a binding that a
\* thread has reaches the state of its kind, whatever thread that is in (buildEnv,
\* buildThreadEnv, buildWorkerEnv).
BindingsTrue ==
  /\ \A c \in CallIds : calls[c].state \in {"running", "ok"} => calls[c].gen >= calls[c].began
  /\ \A c \in CallIds : calls[c].state = "running" /\ svc.target = "thread" => calls[c].gen \notin deadGens
  /\ \A c \in CallIds : calls[c].state = "refused" => spent[c[1]] > MaxSubrequests
  /\ \A q \in Callers : side[q] \in {"main", "thread"} => Cardinality(Counted(q)) <= MaxSubrequests
  /\ AllReach
=============================================================================
