----------------------------- MODULE WorkerLoader -----------------------------
(***************************************************************************)
(* A dynamic worker (bindings/worker-loader.ts, worker-loader-entry.ts).   *)
(* get(id, callback) keeps one stub for an id.  Its first call asks the    *)
(* callback for the code, writes the modules and starts a thread; calls    *)
(* that come meanwhile wait for the same boot.                             *)
(***************************************************************************)
EXTENDS Naturals

CONSTANT LoaderCalls  \* calls of the stub

VARIABLES
  codeKnown,   \* _resolvedCode: a stub of load() has it from the start
  stubBoot,    \* how far _boot() is
  stubThread,  \* the worker thread
  stubGone,    \* _disposed
  stubDir,     \* whether the directory with the modules is there
  loaderCall,  \* what has become of each call
  handled,     \* how often the thread has run it
  callbacks,   \* how often the callback was asked for the code ...
  spawned      \* ... and threads were made

loaderVars == <<codeKnown, stubBoot, stubThread, stubGone, stubDir, loaderCall, handled, callbacks, spawned>>

LoaderType ==
  /\ codeKnown \in BOOLEAN /\ stubGone \in BOOLEAN /\ stubDir \in BOOLEAN
  /\ stubBoot \in {"none", "code", "writing", "starting", "ready", "failed"}
  /\ stubThread \in {"none", "up", "dead"}
  /\ loaderCall \in [LoaderCalls -> {"idle", "waiting", "posted", "late", "ok", "error"}]
  /\ handled \in [LoaderCalls -> Nat] /\ callbacks \in Nat /\ spawned \in Nat

LoaderInit ==
  /\ codeKnown \in BOOLEAN
  /\ stubBoot = "none" /\ stubThread = "none" /\ stubGone = FALSE /\ stubDir = FALSE
  /\ loaderCall = [c \in LoaderCalls |-> "idle"]
  /\ handled = [c \in LoaderCalls |-> 0]
  /\ callbacks = 0 /\ spawned = 0

Pending(c) == loaderCall[c] \in {"waiting", "posted"}

-----------------------------------------------------------------------------
(* _send and _ensureReady.                                                 *)

Boot ==
  /\ stubBoot' = IF codeKnown THEN "writing" ELSE "code"
  /\ callbacks' = callbacks + (IF codeKnown THEN 0 ELSE 1)

\* Mutant: the promise of the boot is kept when it is over.
EnsureReady_Late == IF stubBoot # "ready" THEN Boot ELSE UNCHANGED <<stubBoot, callbacks>>

EnsureReady == IF stubBoot = "none" THEN Boot ELSE UNCHANGED <<stubBoot, callbacks>>

Send(c) ==
  /\ loaderCall[c] = "idle"
  /\ IF stubGone
     THEN loaderCall' = [loaderCall EXCEPT ![c] = "error"] /\ UNCHANGED <<stubBoot, callbacks>>
     ELSE loaderCall' = [loaderCall EXCEPT ![c] = "waiting"] /\ EnsureReady
  /\ UNCHANGED <<codeKnown, stubThread, stubGone, stubDir, handled, spawned>>

\* The callback answers, or throws, or its code is not valid: then every later call
\* of the id fails the same way.
ResolveCode ==
  /\ stubBoot = "code"
  /\ \/ stubBoot' = "writing" /\ codeKnown' = TRUE
     \/ stubBoot' = "failed" /\ UNCHANGED codeKnown
  /\ UNCHANGED <<stubThread, stubGone, stubDir, loaderCall, handled, callbacks, spawned>>

\* A stub that was disposed of meanwhile goes on: it leaves its thread and directory.
WriteModules ==
  /\ stubBoot = "writing"
  /\ stubDir' = TRUE
  /\ \/ stubBoot' = "starting" /\ stubThread' = "up" /\ spawned' = spawned + 1
     \/ stubBoot' = "failed" /\ UNCHANGED <<stubThread, spawned>>
  /\ UNCHANGED <<codeKnown, stubGone, loaderCall, handled, callbacks>>

\* The thread asks for its init message, imports the main module and reports.
InitEnds ==
  /\ stubBoot = "starting" /\ stubThread = "up"
  /\ stubBoot' \in {"ready", "failed"}
  /\ UNCHANGED <<codeKnown, stubThread, stubGone, stubDir, loaderCall, handled, callbacks, spawned>>

\* What is waiting is posted, or fails with the boot; a call that onerror has rejected
\* is posted all the same.
AfterBoot(c) ==
  /\ stubBoot \in {"ready", "failed"}
  /\ loaderCall[c] \in {"waiting", "late"}
  /\ loaderCall' = [loaderCall EXCEPT ![c] =
       IF stubBoot = "failed" \/ @ = "late" THEN "error" ELSE "posted"]
  /\ handled' = IF stubBoot = "ready" /\ loaderCall[c] = "late" /\ stubThread = "up"
                THEN [handled EXCEPT ![c] = @ + 1] ELSE handled
  /\ UNCHANGED <<codeKnown, stubBoot, stubThread, stubGone, stubDir, callbacks, spawned>>

\* onmessage: the result settles the command.
Result(c) == \E result \in {"ok", "error"} : loaderCall' = [loaderCall EXCEPT ![c] = result]

HandleCommand(c) ==
  /\ loaderCall[c] = "posted" /\ stubThread = "up"
  /\ handled' = [handled EXCEPT ![c] = @ + 1]
  /\ Result(c)
  /\ UNCHANGED <<codeKnown, stubBoot, stubThread, stubGone, stubDir, callbacks, spawned>>

\* onerror: an error that nobody caught, of which the thread may die.
ThreadFails ==
  /\ stubThread = "up"
  /\ stubBoot' = IF stubBoot = "starting" THEN "failed" ELSE stubBoot
  /\ stubThread' \in {"up", "dead"}
  /\ loaderCall' = [c \in LoaderCalls |->
       CASE loaderCall[c] = "waiting" -> "late"
         [] loaderCall[c] = "posted" -> "error"
         [] OTHER -> loaderCall[c]]
  /\ UNCHANGED <<codeKnown, stubGone, stubDir, handled, callbacks, spawned>>

\* The calls that are under way are not told.
DisposeStub ==
  /\ ~stubGone /\ stubGone' = TRUE
  /\ stubThread' = IF stubThread = "up" THEN "dead" ELSE stubThread
  /\ stubDir' = FALSE
  /\ UNCHANGED <<codeKnown, stubBoot, loaderCall, handled, callbacks, spawned>>

LoaderNext ==
  \/ \E c \in LoaderCalls : Send(c) \/ AfterBoot(c) \/ HandleCommand(c)
  \/ ResolveCode \/ WriteModules \/ InitEnds \/ ThreadFails \/ DisposeStub

\* The user's callback and handlers return.
LoaderFair ==
  /\ WF_loaderVars(ResolveCode \/ WriteModules \/ InitEnds)
  /\ \A c \in LoaderCalls : WF_loaderVars(AfterBoot(c)) /\ WF_loaderVars(HandleCommand(c))

LoaderSpec == LoaderInit /\ [][LoaderNext]_loaderVars /\ LoaderFair
-----------------------------------------------------------------------------
\* Calls that meet share one boot: the code is asked for once and one thread is made
\* (_ensureReady); a command runs at most once, and never before the module is there
\* (_send); and as long as the stub and its thread live, every call is answered, also
\* when the boot fails.
LoaderServes ==
  /\ [](/\ callbacks <= 1 /\ spawned <= 1
        /\ \A c \in LoaderCalls :
             /\ handled[c] <= 1
             /\ loaderCall[c] = "posted" => stubBoot = "ready")
  /\ \A c \in LoaderCalls :
       []<>(~Pending(c) \/ stubGone \/ stubThread = "dead")
=============================================================================
