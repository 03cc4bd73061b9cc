---------------------------- MODULE ObjectSockets ----------------------------
(***************************************************************************)
(* The WebSockets of one Durable Object: a client asks for an upgrade, the *)
(* fetch handler in the object's thread accepts its end with               *)
(* state.acceptWebSocket (durable-object.ts) or by itself, and returns the *)
(* other end.  Main pins the executor while such a socket is open          *)
(* (do-executor-worker.ts, _openFetchWsIds): messages are no commands, and *)
(* the reaper counts commands.  How the bridge carries the events is in    *)
(* WebSocketBridge; here they are texts and closes on two queues.          *)
(***************************************************************************)
EXTENDS Integers, Sequences, FiniteSets

CONSTANTS
  Clients,        \* each asks for one socket
  MaxAccepted,    \* maxConcurrentWebSockets
  MaxTexts,       \* bound: messages of all clients
  MaxInstances    \* bound: executors of the object

ASSUME SocketsAssumption ==
  /\ IsFiniteSet(Clients)
  /\ {MaxAccepted, MaxTexts, MaxInstances} \subseteq Nat

VARIABLES
  instances,  \* executors made so far
  alive,      \* _executors holds the last of them
  stale,      \* nothing was called for as long as evictionTimeoutMs
  pins,       \* _openFetchWsIds
  visitor,    \* the client: none, calling, offered (response with a webSocket), up, left;
              \* failed, or dropped by a caller that does not use the socket
  told,       \* sockets whose main end is CLOSED: Bun.serve closes the line
  torn,       \* sockets whose thread is gone
  texts,      \* messages the clients have sent
  entries,    \* _acceptedWebSockets
  heeded,     \* sockets that have the object's listeners
  server,     \* the thread's end: none, made, open, closed
  shipped,    \* sockets whose other end was returned
  pair,       \* _autoResponsePair was set by the constructor: its request is "ping"
  toThread, toMain,
  handlers,   \* webSocketMessage and webSocketClose runs in progress
  closes,     \* history: webSocketClose calls
  reaped,     \* history: sockets an eviction for idleness cut off
  severed     \* history: sockets with a handler running when that happened

mainVars == <<instances, alive, stale, pins, visitor, told, torn, texts>>
threadVars == <<entries, heeded, server, shipped, pair, handlers>>
pastVars == <<closes, reaped, severed>>
socketsVars == <<mainVars, threadVars, toThread, toMain, pastVars>>

ClientTexts == {"ping", "text"}

SocketsType ==
  /\ instances \in 0..MaxInstances /\ {alive, stale, pair} \subseteq BOOLEAN
  /\ UNION {pins, told, torn, entries, heeded, shipped, reaped, severed} \subseteq Clients
  /\ visitor \in [Clients -> {"none", "calling", "offered", "up", "left", "failed", "dropped"}]
  /\ texts \in 0..MaxTexts
  /\ server \in [Clients -> {"none", "made", "open", "closed"}]
  /\ toThread \in [Clients -> Seq(ClientTexts \cup {"close"})]
  /\ toMain \in [Clients -> Seq({"close", "result", "error"})]
  /\ handlers \in [Clients -> Nat] /\ closes \in [Clients -> Nat]

SocketsInit ==
  /\ instances = 0
  /\ alive = FALSE /\ stale = FALSE /\ pair = FALSE
  /\ pins = {} /\ told = {} /\ torn = {}
  /\ entries = {} /\ heeded = {} /\ shipped = {} /\ reaped = {} /\ severed = {}
  /\ visitor = [c \in Clients |-> "none"] /\ server = [c \in Clients |-> "none"]
  /\ toThread = [c \in Clients |-> <<>>] /\ toMain = [c \in Clients |-> <<>>]
  /\ texts = 0 /\ handlers = [c \in Clients |-> 0]
  /\ closes = [c \in Clients |-> 0]

Calling == {c \in Clients : visitor[c] = "calling"}   \* the commands in flight
Open == {c \in Clients : visitor[c] \in {"calling", "offered", "up"} /\ c \notin told}
Posted(queue, c, e) == [queue EXCEPT ![c] = Append(@, e)]
Forthcoming(c, e) == \E i \in DOMAIN toMain[c] : toMain[c][i] = e
Rest(queue, c) == [queue EXCEPT ![c] = Tail(@)]

-----------------------------------------------------------------------------
(* The object's thread.                                                    *)

\* The fetch handler makes a pair; acceptWebSocket refuses one too many, and the
\* call fails; otherwise its listeners are there before anything can arrive.
AcceptWebSocket(c) ==
  /\ visitor[c] = "calling" /\ server[c] = "none" /\ toMain[c] = <<>>
  /\ IF Cardinality(entries) >= MaxAccepted
       THEN /\ toMain' = Posted(toMain, c, "error")
            /\ UNCHANGED <<entries, heeded, server>>
       ELSE /\ entries' = entries \cup {c} /\ heeded' = heeded \cup {c}
            /\ server' = [server EXCEPT ![c] = "open"]
            /\ toMain' = toMain
  /\ UNCHANGED <<mainVars, shipped, pair, handlers, toThread, pastVars>>

\* ... or the handler calls accept() on its end and listens by itself.
AcceptPlain(c) ==
  /\ visitor[c] = "calling" /\ server[c] = "none" /\ toMain[c] = <<>>
  /\ server' = [server EXCEPT ![c] = "open"]
  /\ UNCHANGED <<mainVars, entries, heeded, shipped, pair, handlers, toThread, toMain, pastVars>>

\* The response with the other end is posted behind what was sent through it.
Ship(c) ==
  /\ visitor[c] = "calling" /\ server[c] # "none" /\ c \notin shipped /\ ~Forthcoming(c, "error")
  /\ shipped' = shipped \cup {c}
  /\ toMain' = Posted(toMain, c, "result")
  /\ UNCHANGED <<mainVars, entries, heeded, server, pair, handlers, toThread, pastVars>>

\* A handler that throws, whatever it has accepted.
FetchThrows(c) ==
  /\ visitor[c] = "calling" /\ c \notin shipped /\ ~Forthcoming(c, "error")
  /\ toMain' = [toMain EXCEPT ![c] = <<"error">>]
  /\ UNCHANGED <<mainVars, threadVars, toThread, pastVars>>

\* A socket that closes runs the object's own listener.
Closes(c) ==
  /\ server' = [server EXCEPT ![c] = "closed"]
  /\ entries' = entries \ {c}
  /\ handlers' = [handlers EXCEPT ![c] = IF c \in heeded THEN @ + 1 ELSE @]
  /\ closes' = [closes EXCEPT ![c] = IF c \in heeded THEN @ + 1 ELSE @]

ServerCloses(c) ==
  /\ server[c] = "open"
  /\ Closes(c)
  /\ toMain' = Posted(toMain, c, "close")
  /\ UNCHANGED <<mainVars, heeded, shipped, pair, toThread, reaped, severed>>

\* An event for a socket that has closed meanwhile is dropped; the request of the
\* automatic response is answered at once and reaches no handler.
TextArrives(c) ==
  /\ toThread[c] # <<>> /\ Head(toThread[c]) \in ClientTexts
  /\ toThread' = Rest(toThread, c)
  /\ LET auto == c \in heeded /\ pair /\ Head(toThread[c]) = "ping" IN
     handlers' = IF server[c] = "open" /\ ~auto THEN [handlers EXCEPT ![c] = @ + 1] ELSE handlers
  /\ UNCHANGED <<mainVars, entries, heeded, server, shipped, pair, toMain, pastVars>>

\* Mutant: the end is not marked CLOSED before its close event is dispatched, so
\* that a close() by the handler runs the listener again.
CloseArrives_Reenters(c) ==
  /\ toThread[c] # <<>> /\ Head(toThread[c]) = "close"
  /\ toThread' = Rest(toThread, c)
  /\ IF server[c] = "closed" THEN UNCHANGED <<server, entries, handlers, closes>>
     ELSE /\ server' = server /\ entries' = entries \ {c}
          /\ handlers' = [handlers EXCEPT ![c] = @ + 1]
          /\ closes' = [closes EXCEPT ![c] = @ + 1]
  /\ UNCHANGED <<mainVars, heeded, shipped, pair, toMain, reaped, severed>>

CloseArrives(c) ==
  /\ toThread[c] # <<>> /\ Head(toThread[c]) = "close"
  /\ toThread' = Rest(toThread, c)
  /\ IF server[c] = "closed" THEN UNCHANGED <<server, entries, handlers, closes>> ELSE Closes(c)
  /\ UNCHANGED <<mainVars, heeded, shipped, pair, toMain, reaped, severed>>

HandlerEnds(c) ==
  /\ handlers[c] > 0
  /\ handlers' = [handlers EXCEPT ![c] = @ - 1]
  /\ UNCHANGED <<mainVars, entries, heeded, server, shipped, pair, toThread, toMain, pastVars>>

-----------------------------------------------------------------------------
(* The main thread.                                                        *)

\* executeFetch, in an executor that is made for the first call.
Upgrade(c) ==
  /\ visitor[c] = "none"
  /\ alive \/ instances < MaxInstances
  /\ instances' = (IF alive THEN instances ELSE instances + 1) /\ alive' = TRUE
  /\ stale' = FALSE
  /\ visitor' = [visitor EXCEPT ![c] = "calling"]
  /\ pair' \in IF alive THEN {pair} ELSE BOOLEAN
  /\ UNCHANGED <<pins, told, torn, texts, entries, heeded, server, shipped, handlers, toThread, toMain, pastVars>>

Receives(c, e) == toMain[c] # <<>> /\ Head(toMain[c]) = e /\ toMain' = Rest(toMain, c)

\* Mutant: only sockets the object accepted for hibernation keep it.
ResultArrives_HibernatingOnly(c) ==
  /\ Receives(c, "result")
  /\ visitor' = [visitor EXCEPT ![c] = "offered"]
  /\ pins' = IF c \in entries THEN pins \cup {c} ELSE pins
  /\ UNCHANGED <<instances, alive, stale, told, torn, texts, threadVars, toThread, pastVars>>

\* The command is over and the socket takes its place; a close that came ahead of
\* the result waits in the new end, which is closed already.
ResultArrives(c) ==
  /\ Receives(c, "result")
  /\ visitor' = [visitor EXCEPT ![c] = "offered"]
  /\ pins' = pins \cup {c}
  /\ UNCHANGED <<instances, alive, stale, told, torn, texts, threadVars, toThread, pastVars>>

ErrorArrives(c) ==
  /\ Receives(c, "error")
  /\ visitor' = [visitor EXCEPT ![c] = "failed"]
  /\ UNCHANGED <<instances, alive, stale, pins, told, torn, texts, threadVars, toThread, pastVars>>

\* fetch-ws-close-out
CloseComesOut(c) ==
  /\ Receives(c, "close")
  /\ told' = told \cup {c}
  /\ pins' = pins \ {c}
  /\ UNCHANGED <<instances, alive, stale, visitor, torn, texts, threadVars, toThread, pastVars>>

\* Bun.serve has upgraded the request, or the worker between does without the socket.
LineUp(c) ==
  /\ visitor[c] = "offered"
  /\ \E how \in {"up", "dropped"} : visitor' = [visitor EXCEPT ![c] = how]
  /\ UNCHANGED <<instances, alive, stale, pins, told, torn, texts, threadVars, toThread, toMain, pastVars>>

ClientSends(c) ==
  /\ visitor[c] = "up" /\ texts < MaxTexts
  /\ texts' = texts + 1
  /\ \E t \in ClientTexts : toThread' = IF c \notin torn THEN Posted(toThread, c, t) ELSE toThread
  /\ UNCHANGED <<instances, alive, stale, pins, visitor, told, torn, threadVars, toMain, pastVars>>

\* Mutant: the pin is left to the thread's own close.
LineEnds_KeepsPin(c) ==
  /\ visitor[c] = "up"
  /\ visitor' = [visitor EXCEPT ![c] = "left"]
  /\ pins' = pins
  /\ toThread' = IF c \notin torn THEN Posted(toThread, c, "close") ELSE toThread
  /\ UNCHANGED <<instances, alive, stale, told, torn, texts, threadVars, toMain, pastVars>>

\* The client leaves, or the line ends because main's end is closed: clientClose.
LineEnds(c) ==
  /\ visitor[c] = "up"
  /\ visitor' = [visitor EXCEPT ![c] = "left"]
  /\ pins' = pins \ {c}
  /\ toThread' = IF c \notin torn THEN Posted(toThread, c, "close") ELSE toThread
  /\ UNCHANGED <<instances, alive, stale, told, torn, texts, threadVars, toMain, pastVars>>

TurnsStale ==
  /\ ~stale
  /\ stale' = TRUE
  /\ UNCHANGED <<instances, alive, pins, visitor, told, torn, texts, threadVars, toThread, toMain, pastVars>>

\* _teardown: the thread is gone with all it held, calls fail and lines are closed.
SocketsTorn ==
  /\ alive' = FALSE /\ stale' = stale
  /\ told' = told \cup {c \in Clients : visitor[c] \in {"offered", "up"}}
  /\ visitor' = [c \in Clients |-> IF visitor[c] = "calling" THEN "failed" ELSE visitor[c]]
  /\ pins' = {} /\ entries' = {} /\ heeded' = {} /\ shipped' = {} /\ pair' = FALSE
  /\ torn' = {c \in Clients : visitor[c] # "none"}
  /\ server' = [c \in Clients |-> IF visitor[c] = "none" THEN "none" ELSE "closed"]
  /\ handlers' = [c \in Clients |-> 0]
  /\ toThread' = [c \in Clients |-> <<>>] /\ toMain' = [c \in Clients |-> <<>>]
  /\ UNCHANGED <<instances, texts, closes>>

\* _evictIdle takes an idle instance that holds no socket.
EvictUnused ==
  /\ alive /\ stale /\ Calling = {} /\ pins = {}
  /\ SocketsTorn
  /\ reaped' = reaped \cup Open
  /\ severed' = severed \cup {c \in Clients : handlers[c] > 0}

\* A reload, a deletion, an error of the thread or the eviction of an aborted
\* instance, which does not ask for sockets, at any time.
Replaced ==
  /\ alive
  /\ SocketsTorn
  /\ UNCHANGED <<reaped, severed>>

SocketsNext ==
  \/ \E c \in Clients :
       \/ AcceptWebSocket(c) \/ AcceptPlain(c) \/ Ship(c) \/ FetchThrows(c)
       \/ ServerCloses(c) \/ TextArrives(c) \/ CloseArrives(c) \/ HandlerEnds(c)
       \/ Upgrade(c) \/ ResultArrives(c) \/ ErrorArrives(c) \/ CloseComesOut(c)
       \/ LineUp(c) \/ ClientSends(c) \/ LineEnds(c)
  \/ TurnsStale \/ EvictUnused \/ Replaced

SocketsSpec == SocketsInit /\ [][SocketsNext]_socketsVars

-----------------------------------------------------------------------------

\* A pin goes with its socket: what holds one is on offer, up, or was dropped by
\* the worker that was to use it.
PinsReleased == \A c \in pins : visitor[c] \in {"offered", "up", "dropped"}

\* The object lists a socket as long as its client is there, and no longer than
\* the close takes to come in, unless the handler that accepted it threw.
EntriesLive == \A c \in entries : visitor[c] = "left" => Len(toThread[c]) > 0

\* The reaper, which cannot see messages, never cuts off an open socket, plain or
\* accepted for hibernation, although the pin moves from the command to the socket
\* and is dropped by whichever side closes first (executeFetch, clientClose,
\* fetch-ws-close-out, _evictIdle); a handler it severs is one of a socket that has
\* closed.  webSocketClose runs once for a socket, however many sides close it
\* (deliverClientClose), and the object's list and its limit count open ones.
SocketsHeld ==
  /\ reaped = {} /\ \A c \in severed : c \in told \/ visitor[c] # "up"
  /\ PinsReleased /\ EntriesLive
  /\ Cardinality(entries) <= MaxAccepted
  /\ \A c \in Clients : closes[c] <= 1
=============================================================================
