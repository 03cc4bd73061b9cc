--------------------------- MODULE WebSocketBridge ---------------------------
(***************************************************************************)
(* One WebSocket whose two ends live on different threads                  *)
(* (src/worker-thread/ws-bridge-shared.ts over                             *)
(* src/bindings/websocket-pair.ts).  Two shapes of the same protocol:      *)
(*                                                                         *)
(*   "serve": user code in a worker makes a pair, keeps one peer (near)    *)
(*     and ships the other in a Response; WsGuestBridge.register hooks the *)
(*     shipped peer, WsHostBridge.register builds the socket that          *)
(*     Bun.serve upgrades (far) with a bridge peer, behind which is the    *)
(*     real client.                                                        *)
(*   "bind": a binding on main returns a socket (shipped) of a pair whose  *)
(*     other peer (near) is upstream; adoptExisting hooks it, and          *)
(*     createBridgedSocket builds the socket that user code gets (far).    *)
(*                                                                         *)
(* near <-> shipped is the shipper's thread, far <-> bridge the other one; *)
(* `over' carries messages from the shipper, `home' those to it.           *)
(* Messages are numbered per direction; a close carries no data.           *)
(***************************************************************************)
EXTENDS Integers, Sequences

CONSTANTS MaxMessages   \* bound: messages sent by each end

ASSUME BridgeAssumption == MaxMessages \in Nat

Sockets == {"near", "shipped", "far", "bridge"}
CloseEvent == 0
HeadMessage == -1       \* the fetch result that carries the wsId

VARIABLES
  shape,     \* "serve" or "bind"
  ready,     \* readyState of each CFWebSocket: CLOSING is never seen between two steps
  accepted,  \* _accepted
  held,      \* _eventQueue
  over,
  home,
  shipperId, \* the shipper's bridge: id unused, in _sockets, in _forgotten
  farId,     \* the same for the bridge of the far side
  early,     \* _pendingEvents of the far side's bridge
  line,      \* the connection of the real client in "serve": "none", "up", "closed"
  up,        \* main has not disposed of the thread
  quit,      \* the ends that have closed of their own accord
  sent,      \* messages sent by the near end and by the far end
  heard      \* events the near end and the far end have seen

socketVars == <<ready, accepted, held>>
idVars == <<shipperId, farId, early>>
bridgeVars == <<shape, socketVars, over, home, idVars, line, up, quit, sent, heard>>

BridgeType ==
  /\ shape \in {"serve", "bind"}
  /\ ready \in [Sockets -> {"connecting", "open", "closed"}]
  /\ accepted \in [Sockets -> BOOLEAN]
  /\ held \in [Sockets -> Seq(0..MaxMessages)]
  /\ over \in Seq(HeadMessage..MaxMessages)
  /\ home \in Seq(0..MaxMessages)
  /\ {shipperId, farId} \subseteq {"unused", "known", "forgotten"}
  /\ early \in Seq(0..MaxMessages)
  /\ line \in {"none", "up", "closed"}
  /\ up \in BOOLEAN
  /\ quit \subseteq {"near", "far"}
  /\ sent \in [{"near", "far"} -> 0..MaxMessages]
  /\ heard \in [{"near", "far"} -> Seq(0..MaxMessages)]

BridgeInit ==
  /\ shape \in {"serve", "bind"}
  /\ ready = [s \in Sockets |-> IF s = "bridge" THEN "open" ELSE "connecting"]
  /\ accepted = [s \in Sockets |-> s = "bridge"]
  /\ held = [s \in Sockets |-> <<>>]
  /\ over = <<>> /\ home = <<>> /\ early = <<>>
  /\ shipperId = "unused" /\ farId = "unused"
  /\ line = "none" /\ up = TRUE /\ quit = {}
  /\ sent = [e \in {"near", "far"} |-> 0]
  /\ heard = [e \in {"near", "far"} |-> <<>>]

-----------------------------------------------------------------------------
(* CFWebSocket.                                                            *)

\* Events go to the listeners of a socket that was accepted, and wait otherwise.
\* The listeners of near and far are user code, or the client behind Bun.serve.
ToEnd(s, events) ==
  IF accepted[s]
    THEN heard' = [heard EXCEPT ![s] = @ \o events] /\ held' = held
    ELSE held' = [held EXCEPT ![s] = @ \o events] /\ heard' = heard

\* accept() of an end: a socket that closed earlier stays closed.
AcceptEnd(s) ==
  /\ ~accepted[s]
  /\ accepted' = [accepted EXCEPT ![s] = TRUE]
  /\ ready' = [ready EXCEPT ![s] = IF @ = "closed" THEN @ ELSE "open"]
  /\ heard' = [heard EXCEPT ![s] = @ \o held[s]]
  /\ held' = [held EXCEPT ![s] = <<>>]

\* Mutant: a close is posted at once, the messages before it wait in the queue.
ThroughShipped_CloseFirst(e) ==
  /\ over' = IF accepted["shipped"] \/ e = CloseEvent THEN Append(over, e) ELSE over
  /\ shipperId' = IF accepted["shipped"] /\ e = CloseEvent THEN "forgotten" ELSE shipperId

\* Messages and the close of the near end go through the shipped peer: to the
\* bridge once it has hooked that peer, before that into its queue.
ThroughShipped(e) ==
  /\ IF accepted["shipped"] THEN over' = Append(over, e) ELSE over' = over
  /\ shipperId' = IF accepted["shipped"] /\ e = CloseEvent THEN "forgotten" ELSE shipperId

HasClose(s) == \E i \in DOMAIN s : s[i] = CloseEvent

-----------------------------------------------------------------------------
(* The near end: the user's peer of a pair, or the upstream of a binding.  *)

NearAccepts ==
  /\ up \/ shape = "bind"
  /\ AcceptEnd("near")
  /\ UNCHANGED <<shape, over, home, idVars, line, up, quit, sent>>

NearSends ==
  /\ ready["near"] = "open" /\ ready["shipped"] # "closed" /\ up
  /\ sent["near"] < MaxMessages
  /\ sent' = [sent EXCEPT !["near"] = @ + 1]
  /\ ThroughShipped(sent["near"] + 1)
  /\ held' = IF accepted["shipped"] THEN held
             ELSE [held EXCEPT !["shipped"] = Append(@, sent["near"] + 1)]
  /\ UNCHANGED <<shape, ready, accepted, home, farId, early, line, up, quit, heard>>

NearCloses ==
  /\ ready["near"] # "closed" /\ up
  /\ quit' = quit \union {"near"}
  /\ IF ready["shipped"] = "closed" THEN UNCHANGED <<over, shipperId>>
                                     ELSE ThroughShipped(CloseEvent)
  /\ ready' = [ready EXCEPT !["near"] = "closed", !["shipped"] = "closed"]
  /\ heard' = IF accepted["near"] THEN [heard EXCEPT !["near"] = Append(@, CloseEvent)] ELSE heard
  /\ held' = [held EXCEPT
       !["near"] = IF accepted["near"] THEN @ ELSE Append(@, CloseEvent),
       !["shipped"] = IF accepted["shipped"] \/ ready["shipped"] = "closed" THEN @
                      ELSE Append(@, CloseEvent)]
  /\ UNCHANGED <<shape, accepted, home, farId, early, line, up, sent>>

\* register / adoptExisting: listeners are attached before accept(), whose flush
\* is posted ahead of the result that carries the id.
Ship ==
  /\ shipperId = "unused" /\ up
  /\ accepted' = [accepted EXCEPT !["shipped"] = TRUE]
  /\ ready' = [ready EXCEPT !["shipped"] = IF @ = "closed" THEN @ ELSE "open"]
  /\ over' = Append(over \o held["shipped"], HeadMessage)
  /\ held' = [held EXCEPT !["shipped"] = <<>>]
  /\ shipperId' = IF HasClose(held["shipped"]) THEN "forgotten" ELSE "known"
  /\ UNCHANGED <<shape, home, farId, early, line, up, quit, sent, heard>>

\* deliverClientMessage / deliverRemoteMessage on the shipper's side.  The guest
\* dispatches on the user's peer, the host sends through the adopted socket.
MessageComesHome ==
  /\ home # <<>> /\ Head(home) # CloseEvent
  /\ home' = Tail(home)
  /\ IF shipperId = "known" /\ (shape = "serve" \/ ready["near"] # "closed")
       THEN ToEnd("near", <<Head(home)>>)
       ELSE UNCHANGED <<heard, held>>
  /\ UNCHANGED <<shape, ready, accepted, over, idVars, line, up, quit, sent>>

\* deliverClientClose marks the user's peer CLOSED before it dispatches;
\* deliverRemoteClose closes the adopted socket, whose own close listener posts a
\* close back.
CloseComesHome ==
  /\ home # <<>> /\ Head(home) = CloseEvent
  /\ home' = Tail(home)
  /\ IF shipperId # "known" THEN UNCHANGED <<socketVars, heard, over, shipperId>>
     ELSE /\ shipperId' = "forgotten"
          /\ IF shape = "serve"
               THEN /\ ready' = [ready EXCEPT !["near"] = "closed"]
                    /\ over' = over
                    /\ ToEnd("near", <<CloseEvent>>)
               ELSE /\ ready' = [ready EXCEPT !["near"] = "closed", !["shipped"] = "closed"]
                    /\ over' = Append(over, CloseEvent)
                    /\ IF ready["near"] = "closed" THEN UNCHANGED <<heard, held>>
                       ELSE ToEnd("near", <<CloseEvent>>)
          /\ accepted' = accepted
  /\ UNCHANGED <<shape, farId, early, line, up, quit, sent>>

-----------------------------------------------------------------------------
(* The far end: the real client, or user code that called a binding.       *)

\* Mutants: the events that came early are dropped; a close among them leaves the
\* socket in the map.
FarCreated_Fresh ==
  /\ over # <<>> /\ Head(over) = HeadMessage
  /\ over' = Tail(over) /\ early' = <<>>
  /\ farId' = IF HasClose(early) THEN "forgotten" ELSE "known"
  /\ ready' = [ready EXCEPT !["far"] = IF HasClose(early) THEN "closed" ELSE @]
  /\ UNCHANGED <<shape, accepted, held, home, shipperId, line, up, quit, sent, heard>>
FarCreated_StillOpen ==
  /\ over # <<>> /\ Head(over) = HeadMessage
  /\ over' = Tail(over) /\ early' = <<>>
  /\ held' = [held EXCEPT !["far"] = early]
  /\ farId' = "known"
  /\ UNCHANGED <<shape, ready, accepted, home, shipperId, line, up, quit, sent, heard>>

\* The result arrives: the far socket is built, what came early is put into its
\* queue, and a close among it has closed the socket and used the id up.
FarCreated ==
  /\ over # <<>> /\ Head(over) = HeadMessage
  /\ over' = Tail(over)
  /\ held' = [held EXCEPT !["far"] = early]
  /\ early' = <<>>
  /\ farId' = IF HasClose(early) THEN "forgotten" ELSE "known"
  /\ ready' = [ready EXCEPT !["far"] = IF HasClose(early) THEN "closed" ELSE @]
  /\ UNCHANGED <<shape, accepted, home, shipperId, line, up, quit, sent, heard>>

\* deliverRemoteMessage, deliverRemoteClose and their mirrors on the guest:
\* events for an id that is not there yet are kept, for one that is gone dropped.
EventComesOver ==
  /\ over # <<>> /\ Head(over) # HeadMessage
  /\ over' = Tail(over)
  /\ LET e == Head(over) IN
     \/ /\ farId = "unused"
        /\ early' = Append(early, e)
        /\ UNCHANGED <<socketVars, heard, farId>>
     \/ /\ farId = "forgotten"
        /\ UNCHANGED <<socketVars, heard, farId, early>>
     \/ /\ farId = "known"
        /\ ToEnd("far", <<e>>)
        /\ ready' = IF e = CloseEvent THEN [ready EXCEPT !["far"] = "closed"] ELSE ready
        /\ farId' = IF e = CloseEvent THEN "forgotten" ELSE farId
        /\ UNCHANGED <<accepted, early>>
  /\ UNCHANGED <<shape, home, shipperId, line, up, quit, sent>>

\* Bun.serve has upgraded the request: its open handler hooks the far socket and
\* accepts it.  In "bind" user code accepts when it likes.
FarAccepts ==
  /\ farId # "unused" /\ (up \/ shape = "serve")
  /\ AcceptEnd("far")
  /\ line' = IF shape = "serve" THEN "up" ELSE line
  /\ UNCHANGED <<shape, over, home, idVars, up, quit, sent>>

\* A client's message goes to the bridge peer unless that is closed; user code
\* can send only while its socket is open.
CanFarSend == IF shape = "serve" THEN line = "up" /\ ready["bridge"] = "open"
                                 ELSE ready["far"] = "open" /\ ready["bridge"] # "closed"
FarSends ==
  /\ CanFarSend /\ up
  /\ sent["far"] < MaxMessages
  /\ sent' = [sent EXCEPT !["far"] = @ + 1]
  /\ home' = Append(home, sent["far"] + 1)
  /\ UNCHANGED <<shape, socketVars, over, idVars, line, up, quit, heard>>

\* The far end closes, or the client's connection ends, be it because the bridge
\* closed it: the close handler of Bun.serve runs either way.
FarCloses ==
  /\ farId # "unused"
  /\ IF shape = "serve" THEN line = "up" ELSE ready["far"] # "closed" /\ up
  /\ quit' = IF shape = "serve" /\ ready["far"] = "closed" THEN quit ELSE quit \union {"far"}
  /\ line' = IF shape = "serve" THEN "closed" ELSE line
  /\ IF ready["bridge"] = "closed" THEN UNCHANGED <<home, farId>>
     ELSE farId' = "forgotten" /\ home' = (IF up THEN Append(home, CloseEvent) ELSE home)
  /\ ready' = [ready EXCEPT !["far"] = "closed", !["bridge"] = "closed"]
  /\ IF shape = "bind" THEN ToEnd("far", <<CloseEvent>>) ELSE UNCHANGED <<heard, held>>
  /\ UNCHANGED <<shape, accepted, over, shipperId, early, up, sent>>

\* disposeAll of the host: sockets that are still there are closed with 1012; the
\* worker's half of the bridge goes with its thread.
Disposed ==
  /\ up
  /\ up' = FALSE
  /\ over' = <<>> /\ home' = <<>> /\ early' = <<>>
  /\ shipperId' = "forgotten" /\ farId' = (IF farId = "unused" THEN farId ELSE "forgotten")
  /\ IF shape = "serve"
       THEN IF farId = "known" /\ ready["far"] # "closed"
              THEN ready' = [ready EXCEPT !["far"] = "closed"] /\ ToEnd("far", <<CloseEvent>>)
              ELSE UNCHANGED <<ready, heard, held>>
       ELSE IF shipperId = "known" /\ ready["shipped"] # "closed"
              THEN /\ ready' = [ready EXCEPT !["near"] = "closed", !["shipped"] = "closed"]
                   /\ IF ready["near"] = "closed" THEN UNCHANGED <<heard, held>>
                      ELSE ToEnd("near", <<CloseEvent>>)
              ELSE UNCHANGED <<ready, heard, held>>
  /\ UNCHANGED <<shape, accepted, line, quit, sent>>

BridgeNext ==
  \/ NearAccepts \/ NearSends \/ NearCloses \/ Ship \/ MessageComesHome \/ CloseComesHome
  \/ FarCreated \/ EventComesOver \/ FarAccepts \/ FarSends \/ FarCloses \/ Disposed

-----------------------------------------------------------------------------
(***************************************************************************)
(* Messages and results arrive, Bun.serve opens what it upgraded and       *)
(* closes what it was told to close.                                       *)
(***************************************************************************)
BridgeFair ==
  /\ WF_bridgeVars(MessageComesHome \/ CloseComesHome)
  /\ WF_bridgeVars(FarCreated \/ EventComesOver)
  /\ WF_bridgeVars(shape = "serve" /\ FarAccepts)
  /\ WF_bridgeVars(shape = "serve" /\ ready["far"] = "closed" /\ FarCloses)

BridgeSpec == BridgeInit /\ [][BridgeNext]_bridgeVars /\ BridgeFair

Other == [near |-> "far", far |-> "near"]
Numbers(n) == [i \in 1..n |-> i]

InOrder == \A e \in DOMAIN Other :
  LET events == heard[e] \o held[e]
      closed == HasClose(events)
      n      == Len(events) - (IF closed THEN 1 ELSE 0)
  IN SubSeq(events, 1, n) = Numbers(n)

CloseIsLast == \A e \in DOMAIN Other :
  up /\ e \notin quit /\ HasClose(heard[e] \o held[e])
    => heard[e] \o held[e] = Append(Numbers(sent[Other[e]]), CloseEvent)

NothingStranded ==
  early # <<>> => farId = "unused" /\ \E i \in DOMAIN over : over[i] = HeadMessage

\* An end sees the other one's messages once each and in order, although they
\* wait in two queues and a pending list on the way, and nothing after a close,
\* which overtakes none of them (register, accept, _pendingEvents).  Events are
\* kept only for a socket that may still be created (_bufferPending, "No future
\* register() will match this id, so buffering would leak").
EventsDelivered == InOrder /\ CloseIsLast /\ NothingStranded

\* When one end closes the other one is closed as well, and both threads forget
\* the socket's id (deliverRemoteClose, deliverClientClose, _forget).
EndsTogether ==
  []<>(\/ quit = {} \/ shipperId = "unused" \/ ~up
       \/ {ready["near"], ready["far"]} = {"closed"} /\ {shipperId, farId} = {"forgotten"})
=============================================================================
