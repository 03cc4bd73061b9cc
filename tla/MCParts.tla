------------------------------- MODULE MCParts -------------------------------
(* Components that share no state, each by itself in one run: `part' says    *)
(* which of them moves.  The others keep their initial state.                *)
EXTENDS Stream, WebSocketBridge, ThreadLink, Container, DurableObject,
        WorkerLoader, AnalyticsSql

CONSTANT f1

VARIABLE part

Parts == {"stream", "bridge", "link", "container", "object", "loader", "sql"}

Still(parts) ==
  /\ "stream" \in parts => UNCHANGED streamVars
  /\ "bridge" \in parts => UNCHANGED bridgeVars
  /\ "link" \in parts => UNCHANGED linkVars
  /\ "container" \in parts => UNCHANGED containerVars
  /\ "object" \in parts => UNCHANGED vars
  /\ "loader" \in parts => UNCHANGED loaderVars
  /\ "sql" \in parts => UNCHANGED sqlVars

PartsInit ==
  /\ part \in Parts
  /\ StreamInit /\ BridgeInit /\ LinkInit /\ ContainerInit /\ Init /\ LoaderInit /\ SqlInit
  /\ part # "bridge" => shape = "serve"
  /\ part # "container" => container = NoContainer
  /\ part # "loader" => codeKnown

PartsNext ==
  /\ part' = part
  /\ Still(Parts \ {part})
  /\ \/ part = "stream" /\ StreamNext
     \/ part = "bridge" /\ BridgeNext
     \/ part = "link" /\ LinkNext
     \/ part = "container" /\ ContainerNext
     \/ part = "object" /\ Next
     \/ part = "loader" /\ LoaderNext
     \/ part = "sql" /\ SqlNext

(* Nothing fair can happen in an initial state: a component that keeps still *)
(* meets its fairness.                                                       *)
PartsFair == StreamFair /\ BridgeFair /\ LinkFair /\ ContainerFair /\ Fairness /\ LoaderFair

PartsSpec ==
  /\ PartsInit /\ [][PartsNext]_
       <<part, streamVars, bridgeVars, linkVars, containerVars, vars, loaderVars, sqlVars>>
  /\ PartsFair

-----------------------------------------------------------------------------
(* Nobody waits for ever.  A reader learns how its body ended and lets go of *)
(* the source (acquireCredit, pull, disposeAll); when one end of a WebSocket *)
(* closes so does the other (deliverRemoteClose, deliverClientClose); every  *)
(* operation is answered (_sendAndAwait, _failAll, initRuntime); a command   *)
(* passes the gate of a prior disposal, and a container that has ended is    *)
(* noticed (_priorDisposalGate, monitor).                                    *)
PartsSettle == BodyEnds /\ EndsTogether /\ OperationEnds /\ ContainerSettles
=============================================================================
