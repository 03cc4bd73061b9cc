------------------------------ MODULE EdgeProofs -----------------------------
(*****************************************************************************)
(* What holds where clients meet a worker: of the WebSocket bridge for any   *)
(* number of messages and reads and for either shape of the two ends, of     *)
(* static assets for any number of requests and changes of their files, and  *)
(* of dynamic workers for any number of calls.                               *)
(*****************************************************************************)
EXTENDS WebSocketBridge, Assets, WorkerLoader, SequenceTheorems, TLAPS

-----------------------------------------------------------------------------
(* The WebSocket bridge.                                                     *)

\* What an end has been given, whether or not its listeners have seen it.
Log(e) == heard[e] \o held[e]

\* s holds the messages a+1 to b, and a close behind them.
Run(s, a, b, closed) ==
  /\ Len(s) = b - a + (IF closed THEN 1 ELSE 0)
  /\ \A i \in 1..Len(s) : s[i] = IF i <= b - a THEN a + i ELSE CloseEvent

\* What was kept (e) and what is on its way (o), without the result, which is at k.
Line(e, o, k) == [i \in 1..(Len(e) + Len(o) - 1) |->
  IF i <= Len(e) THEN e[i] ELSE IF i - Len(e) < k THEN o[i - Len(e)] ELSE o[i - Len(e) + 1]]

\* The two sockets of the shipper's thread and their id.
ShipperSide ==
  /\ \A e \in {"near", "far"} : IF accepted[e] THEN held[e] = <<>> ELSE heard[e] = <<>>
  /\ accepted["shipped"] => held["shipped"] = <<>>
  /\ up => (accepted["shipped"] <=> shipperId # "unused")
  /\ ~up => over = <<>> /\ home = <<>> /\ early = <<>> /\ shipperId = "forgotten" /\ farId # "known"
  /\ up /\ shipperId = "forgotten" => ready["near"] = "closed"
  /\ up /\ shipperId = "known" => ready["near"] # "closed" /\ ready["shipped"] # "closed"
  /\ up /\ shipperId = "unused" =>
       /\ farId = "unused" /\ over = <<>> /\ early = <<>>
       /\ ready["near"] = "closed" <=> ready["shipped"] = "closed"
  /\ up /\ ready["near"] # "closed" => ~HasClose(Log("near"))

\* The two sockets of the other thread and their id.
FarSide ==
  /\ farId = "unused" =>
       /\ line = "none" /\ ready["far"] = "connecting" /\ ~accepted["far"]
       /\ ready["bridge"] = "open" /\ home = <<>> /\ sent["far"] = 0
       /\ held["far"] = <<>>
  /\ farId # "unused" => early = <<>> /\ \A i \in 1..Len(over) : over[i] # HeadMessage
  /\ up /\ farId = "forgotten" => ready["far"] = "closed"
  /\ farId = "known" => ready["far"] # "closed" /\ ready["bridge"] # "closed"
  /\ line # "none" => accepted["far"]
  /\ shape = "serve" => (ready["bridge"] = "closed" <=> line = "closed")
  /\ shape = "bind" => line = "none" /\ (ready["bridge"] = "closed" => ready["far"] = "closed")

\* Where the messages of the near end are.
ToFar ==
  /\ \E n \in 0..MaxMessages, c \in BOOLEAN : Run(Log("far"), 0, n, c)
  /\ farId = "known" => \E n \in 0..sent["near"] :
       Run(Log("far"), 0, n, FALSE) /\ Run(over, n, sent["near"], shipperId = "forgotten")
  /\ up /\ shipperId = "unused" => Run(held["shipped"], 0, sent["near"], ready["near"] = "closed")
  /\ up /\ farId = "unused" /\ shipperId # "unused" => \E k \in 1..Len(over) :
       over[k] = HeadMessage /\ Run(Line(early, over, k), 0, sent["near"], shipperId = "forgotten")
  /\ up /\ "far" \notin quit /\ HasClose(Log("far")) =>
       Run(Log("far"), 0, sent["near"], TRUE) /\ shipperId = "forgotten"

\* Where those of the far end are.
ToNear ==
  /\ \E n \in 0..MaxMessages, c \in BOOLEAN : Run(Log("near"), 0, n, c)
  /\ up /\ shipperId = "known" => \E n \in 0..sent["far"] :
       Run(Log("near"), 0, n, FALSE) /\ Run(home, n, sent["far"], ready["bridge"] = "closed")
  /\ up /\ shipperId = "unused" => Run(Log("near"), 0, 0, ready["near"] = "closed")
  /\ up /\ "near" \notin quit /\ HasClose(Log("near")) =>
       Run(Log("near"), 0, sent["far"], TRUE) /\ ready["bridge"] = "closed"

BridgeInv == BridgeType /\ ShipperSide /\ FarSide /\ ToFar /\ ToNear


-----------------------------------------------------------------------------
LEMMA RunEnds ==
  ASSUME NEW a \in Nat, NEW b \in Nat, a <= b, NEW s \in Seq(Int), NEW c \in BOOLEAN, Run(s, a, b, c)
  PROVE  /\ HasClose(s) <=> c
         /\ c => Len(s) = b - a + 1 /\ s[Len(s)] = CloseEvent
         /\ ~c => Len(s) = b - a
         /\ \A i \in 1..Len(s) : s[i] # HeadMessage
  BY DEF Run, HasClose, CloseEvent, HeadMessage

LEMMA RunAppend ==
  ASSUME NEW a \in Nat, NEW b \in Nat, a <= b, NEW s \in Seq(Int), Run(s, a, b, FALSE)
  PROVE  Run(Append(s, b + 1), a, b + 1, FALSE) /\ Run(Append(s, CloseEvent), a, b, TRUE)
  <1>1. Len(s) = b - a /\ \A i \in 1..Len(s) : s[i] = a + i
    BY DEF Run
  <1>2. ASSUME NEW x
        PROVE  /\ Len(Append(s, x)) = b - a + 1 /\ Append(s, x)[b - a + 1] = x
               /\ \A i \in 1..(b - a) : Append(s, x)[i] = a + i
    BY <1>1
  <1>3. Run(Append(s, b + 1), a, b + 1, FALSE)
    BY <1>2 DEF Run
  <1>4. Run(Append(s, CloseEvent), a, b, TRUE)
    BY <1>2 DEF Run
  <1> QED BY <1>3, <1>4

LEMMA RunTail ==
  ASSUME NEW a \in Nat, NEW b \in Nat, a <= b, NEW s \in Seq(Int), NEW c \in BOOLEAN, Run(s, a, b, c), s # <<>>
  PROVE  /\ Head(s) = CloseEvent => a = b /\ c /\ Tail(s) = <<>>
         /\ Head(s) # CloseEvent => a < b /\ Head(s) = a + 1 /\ Run(Tail(s), a + 1, b, c)
  BY DEF Run, CloseEvent

LEMMA LogType ==
  ASSUME BridgeType, NEW e \in {"near", "far"}
  PROVE  Log(e) \in Seq(0..MaxMessages) /\ Log(e) \in Seq(Int) /\ heard[e] \in Seq(0..MaxMessages) /\ held[e] \in Seq(0..MaxMessages)
  <1>1. heard[e] \in Seq(0..MaxMessages) /\ held[e] \in Seq(0..MaxMessages)
    BY DEF BridgeType, Sockets
  <1>2. Log(e) \in Seq(0..MaxMessages)
    BY <1>1 DEF Log
  <1>3. 0..MaxMessages \subseteq Int
    BY BridgeAssumption
  <1>4. Log(e) \in Seq(Int)
    BY <1>2, <1>3, SeqMonotonic
  <1> QED BY <1>1, <1>2, <1>4

\* An event is added to what the end has been given; accept() adds nothing.
LEMMA ToEndLog ==
  ASSUME BridgeType, ShipperSide, NEW e \in {"near", "far"}, NEW x \in 0..MaxMessages,
         ToEnd(e, <<x>>), accepted' = accepted
  PROVE  /\ Log(e)' = Append(Log(e), x)
         /\ \A d \in {"near", "far"} \ {e} : Log(d)' = Log(d)
         /\ IF accepted[e] THEN held'[e] = <<>> ELSE heard'[e] = <<>>
         /\ \A d \in {"near", "far"} \ {e} : heard'[d] = heard[d]
         /\ \A d \in Sockets \ {e} : held'[d] = held[d]
         /\ heard' \in [{"near", "far"} -> Seq(0..MaxMessages)] /\ held' \in [Sockets -> Seq(0..MaxMessages)]
  <1>0. /\ heard[e] \in Seq(0..MaxMessages) /\ held[e] \in Seq(0..MaxMessages)
        /\ <<x>> \in Seq(0..MaxMessages)
        /\ heard \in [{"near", "far"} -> Seq(0..MaxMessages)] /\ held \in [Sockets -> Seq(0..MaxMessages)]
        /\ e \in Sockets
    BY DEF BridgeType, Sockets
  <1>1. CASE accepted[e]
    <2>1. heard' = [heard EXCEPT ![e] = @ \o <<x>>] /\ held' = held /\ held[e] = <<>>
      BY <1>1 DEF ToEnd, ShipperSide
    <2>2. heard'[e] = heard[e] \o <<x>> /\ heard[e] \o <<>> = heard[e]
          /\ (heard[e] \o <<x>>) \o <<>> = heard[e] \o <<x>> /\ heard[e] \o <<x>> = Append(heard[e], x)
      BY <1>0, <2>1
    <2>3. Log(e)' = Append(Log(e), x)
      BY <2>1, <2>2 DEF Log
    <2>4. heard' \in [{"near", "far"} -> Seq(0..MaxMessages)]
      BY <1>0, <2>1
    <2> QED BY <1>0, <1>1, <2>1, <2>3, <2>4 DEF Log
  <1>2. CASE ~accepted[e]
    <2>1. held' = [held EXCEPT ![e] = @ \o <<x>>] /\ heard' = heard /\ heard[e] = <<>>
      BY <1>2 DEF ToEnd, ShipperSide
    <2>2. held'[e] = held[e] \o <<x>> /\ <<>> \o held[e] = held[e]
          /\ <<>> \o (held[e] \o <<x>>) = held[e] \o <<x>> /\ held[e] \o <<x>> = Append(held[e], x)
      BY <1>0, <2>1
    <2>3. Log(e)' = Append(Log(e), x)
      BY <2>1, <2>2 DEF Log
    <2>4. held' \in [Sockets -> Seq(0..MaxMessages)]
      BY <1>0, <2>1
    <2>5. \A d \in {"near", "far"} \ {e} : held'[d] = held[d]
      BY <1>0, <2>1 DEF Sockets
    <2> QED BY <1>0, <1>2, <2>1, <2>3, <2>4, <2>5 DEF Log
  <1> QED BY <1>1, <1>2

LEMMA AcceptLog ==
  ASSUME BridgeType, ShipperSide, NEW e \in {"near", "far"}, AcceptEnd(e)
  PROVE  /\ \A d \in {"near", "far"} : Log(d)' = Log(d)
         /\ held'[e] = <<>> /\ accepted'[e]
         /\ \A d \in {"near", "far"} \ {e} : heard'[d] = heard[d]
         /\ \A d \in Sockets \ {e} : held'[d] = held[d] /\ (accepted'[d] <=> accepted[d]) /\ ready'[d] = ready[d]
         /\ ready'[e] = (IF ready[e] = "closed" THEN "closed" ELSE "open")
         /\ heard' \in [{"near", "far"} -> Seq(0..MaxMessages)] /\ held' \in [Sockets -> Seq(0..MaxMessages)]
         /\ ready' \in [Sockets -> {"connecting", "open", "closed"}] /\ accepted' \in [Sockets -> BOOLEAN]
  <1>0. /\ heard[e] \in Seq(0..MaxMessages) /\ held[e] \in Seq(0..MaxMessages) /\ heard[e] = <<>>
        /\ heard \in [{"near", "far"} -> Seq(0..MaxMessages)] /\ held \in [Sockets -> Seq(0..MaxMessages)]
        /\ ready \in [Sockets -> {"connecting", "open", "closed"}] /\ accepted \in [Sockets -> BOOLEAN]
        /\ e \in Sockets
    BY DEF BridgeType, Sockets, ShipperSide, AcceptEnd
  <1>1. heard'[e] = heard[e] \o held[e] /\ held'[e] = <<>>
    BY <1>0 DEF AcceptEnd
  <1>2. Log(e)' = Log(e)
    <2>1. heard[e] \o held[e] \in Seq(0..MaxMessages)
      BY <1>0
    <2>2. (heard[e] \o held[e]) \o <<>> = heard[e] \o held[e]
      BY <2>1
    <2> QED BY <1>1, <2>2 DEF Log
  <1>3. \A d \in {"near", "far"} \ {e} : heard'[d] = heard[d] /\ held'[d] = held[d]
    BY <1>0 DEF AcceptEnd, Sockets
  <1>4. heard' \in [{"near", "far"} -> Seq(0..MaxMessages)]
    BY <1>0 DEF AcceptEnd
  <1>5. held' \in [Sockets -> Seq(0..MaxMessages)]
    BY <1>0 DEF AcceptEnd
  <1>6. ready' \in [Sockets -> {"connecting", "open", "closed"}] /\ accepted' \in [Sockets -> BOOLEAN]
    BY <1>0 DEF AcceptEnd
  <1>7. \A d \in Sockets \ {e} : held'[d] = held[d] /\ (accepted'[d] <=> accepted[d]) /\ ready'[d] = ready[d]
    BY <1>0 DEF AcceptEnd
  <1>8. accepted'[e] /\ ready'[e] = IF ready[e] = "closed" THEN "closed" ELSE "open"
    BY <1>0 DEF AcceptEnd
  <1> QED BY <1>1, <1>2, <1>3, <1>4, <1>5, <1>6, <1>7, <1>8 DEF Log

LEMMA BridgeTypes ==
  ASSUME BridgeType
  PROVE  /\ MaxMessages \in Nat
         /\ ready \in [Sockets -> {"connecting", "open", "closed"}] /\ accepted \in [Sockets -> BOOLEAN]
         /\ held \in [Sockets -> Seq(0..MaxMessages)] /\ heard \in [{"near", "far"} -> Seq(0..MaxMessages)]
         /\ over \in Seq(HeadMessage..MaxMessages) /\ home \in Seq(0..MaxMessages) /\ early \in Seq(0..MaxMessages)
         /\ over \in Seq(Int) /\ home \in Seq(Int) /\ early \in Seq(Int) /\ held["shipped"] \in Seq(Int)
         /\ held["shipped"] \in Seq(0..MaxMessages)
         /\ sent \in [{"near", "far"} -> 0..MaxMessages]
         /\ sent["near"] \in 0..MaxMessages /\ sent["far"] \in 0..MaxMessages
  <1>1. MaxMessages \in Nat /\ 0..MaxMessages \subseteq Int /\ HeadMessage..MaxMessages \subseteq Int
    BY BridgeAssumption DEF HeadMessage
  <1>2. held["shipped"] \in Seq(0..MaxMessages)
    BY DEF BridgeType, Sockets
  <1>3. over \in Seq(Int) /\ home \in Seq(Int) /\ early \in Seq(Int) /\ held["shipped"] \in Seq(Int)
    BY <1>1, <1>2, SeqMonotonic DEF BridgeType
  <1>4. sent["near"] \in 0..MaxMessages /\ sent["far"] \in 0..MaxMessages
    BY DEF BridgeType
  <1> QED BY <1>1, <1>2, <1>3, <1>4 DEF BridgeType

LEMMA BridgeTypeStep ==
  ASSUME BridgeInv, [BridgeNext]_bridgeVars PROVE BridgeType'
  <1> USE DEF BridgeInv
  <1>0. BridgeType /\ ShipperSide /\ FarSide /\ BridgeAssumption
    BY BridgeAssumption
  <1> DEFINE M == 0..MaxMessages
  <1> DEFINE O == HeadMessage..MaxMessages
  <1> DEFINE R == {"connecting", "open", "closed"}
  <1>t. /\ MaxMessages \in Nat /\ M \subseteq HeadMessage..MaxMessages /\ CloseEvent \in M /\ HeadMessage \in HeadMessage..MaxMessages
        /\ \A q \in Seq(M) : q \in Seq(O)
    <2>1. MaxMessages \in Nat /\ M \subseteq HeadMessage..MaxMessages /\ CloseEvent \in M /\ HeadMessage \in HeadMessage..MaxMessages
      BY BridgeAssumption DEF CloseEvent, HeadMessage
    <2> QED BY <2>1, SeqMonotonic
  <1>u. /\ ready \in [Sockets -> R] /\ accepted \in [Sockets -> BOOLEAN] /\ Sockets = {"near", "shipped", "far", "bridge"}
        /\ held \in [Sockets -> Seq(M)] /\ heard \in [{"near", "far"} -> Seq(M)]
        /\ over \in Seq(O) /\ home \in Seq(M) /\ early \in Seq(M) /\ sent \in [{"near", "far"} -> M]
        /\ up \in BOOLEAN /\ shipperId \in {"unused", "known", "forgotten"} /\ farId \in {"unused", "known", "forgotten"}
        /\ line \in {"none", "up", "closed"} /\ quit \subseteq {"near", "far"}
    BY <1>0 DEF BridgeType, Sockets
  <1>v. /\ "closed" \in R /\ "open" \in R /\ "near" \in Sockets /\ "shipped" \in Sockets /\ "far" \in Sockets
        /\ \A x \in O : \A q \in Seq(O) : Append(q, x) \in Seq(O)
        /\ \A x \in M : \A q \in Seq(M) : Append(q, x) \in Seq(M)
        /\ \A q \in Seq(M) : q # <<>> => Tail(q) \in Seq(M)
        /\ <<>> \in Seq(O) /\ <<>> \in Seq(M)
        /\ CloseEvent \in M /\ CloseEvent \in O /\ HeadMessage \in O /\ M \subseteq O /\ O = M \cup {HeadMessage}
        /\ \A q \in Seq(M) : q \in Seq(O)
    BY <1>t DEF HeadMessage, Sockets
  <1> HIDE DEF M, O, R
  <1>1. CASE NearAccepts
    BY <1>0, <1>1, AcceptLog DEF NearAccepts, BridgeType, idVars, M, O, R
  <1>2. CASE NearSends
    <2>1. sent["near"] + 1 \in M /\ sent' \in [{"near", "far"} -> M]
      BY <1>t, <1>2, BridgeTypes DEF NearSends, M, O, R
    <2>0. (over' = Append(over, sent["near"] + 1) \/ over' = over) /\ shipperId' \in {shipperId, "forgotten"}
      BY <1>2 DEF NearSends, ThroughShipped
    <2>2. over' \in Seq(O) /\ shipperId' \in {"unused", "known", "forgotten"}
      BY <1>u, <1>v, <2>0, <2>1, ZenonT(60)
    <2>3. held' \in [Sockets -> Seq(M)]
      BY <1>u, <1>v, <1>2, <2>1 DEF NearSends, Sockets
    <2> QED BY <1>0, <1>2, <2>1, <2>2, <2>3 DEF NearSends, BridgeType, M, O, R
  <1>3. CASE NearCloses
    <2>0. (over' = Append(over, CloseEvent) \/ over' = over) /\ shipperId' \in {shipperId, "forgotten"}
      BY <1>3 DEF NearCloses, ThroughShipped
    <2>1. over' \in Seq(O) /\ shipperId' \in {"unused", "known", "forgotten"}
      BY <1>u, <1>v, <2>0
    <2>2. held' \in [Sockets -> Seq(M)]
      BY <1>u, <1>v, <1>3, <1>t DEF NearCloses, Sockets
    <2>3. heard' \in [{"near", "far"} -> Seq(M)]
      BY <1>u, <1>v, <1>3, <1>t DEF NearCloses
    <2>4. ready' \in [Sockets -> R]
      BY <1>u, <1>v, <1>3 DEF NearCloses
    <2>5. quit' \subseteq {"near", "far"}
      BY <1>u, <1>v, <1>3 DEF NearCloses
    <2> QED BY <1>0, <1>3, <2>1, <2>2, <2>3, <2>4, <2>5 DEF NearCloses, BridgeType, M, O, R
  <1>4. CASE Ship
    <2>1. held["shipped"] \in Seq(O)
      BY <1>u, <1>v
    <2>2. over' \in Seq(O)
      BY <1>u, <1>v, <1>4, <1>t, <2>1 DEF Ship
    <2>3. held' \in [Sockets -> Seq(M)] /\ ready' \in [Sockets -> R]
          /\ accepted' \in [Sockets -> BOOLEAN]
      BY <1>u, <1>v, <1>4 DEF Ship
    <2> QED BY <1>0, <1>4, <2>2, <2>3 DEF Ship, BridgeType, M, O, R
  <1>5. CASE MessageComesHome
    <2>1. home' \in Seq(M) /\ Head(home) \in M
      BY <1>u, <1>v, <1>5 DEF MessageComesHome
    <2>2. heard' \in [{"near", "far"} -> Seq(M)] /\ held' \in [Sockets -> Seq(M)]
      BY <1>0, <1>u, <1>v, <1>5, <2>1, ToEndLog DEF MessageComesHome, BridgeType, M, O, R
    <2> QED BY <1>0, <1>5, <2>1, <2>2 DEF MessageComesHome, BridgeType, idVars, M, O, R
  <1>6. CASE CloseComesHome
    <2>0. over' = Append(over, CloseEvent) \/ over' = over
      BY <1>6 DEF CloseComesHome
    <2>1. home' \in Seq(M) /\ CloseEvent \in M /\ over' \in Seq(O)
      BY <1>u, <1>v, <1>6, <2>0, ZenonT(60) DEF CloseComesHome
    <2>2. heard' \in [{"near", "far"} -> Seq(M)] /\ held' \in [Sockets -> Seq(M)]
      BY <1>0, <1>u, <1>v, <1>6, <2>1, ToEndLog DEF CloseComesHome, BridgeType, socketVars, M, O, R
    <2>3. ready' \in [Sockets -> R] /\ accepted' \in [Sockets -> BOOLEAN]
          /\ shipperId' \in {"unused", "known", "forgotten"}
      BY <1>u, <1>v, <1>6 DEF CloseComesHome, socketVars
    <2> QED BY <1>0, <1>6, <2>1, <2>2, <2>3 DEF CloseComesHome, BridgeType, M, O, R
  <1>7. CASE FarCreated
    <2>1. over' \in Seq(O) /\ held' \in [Sockets -> Seq(M)]
          /\ ready' \in [Sockets -> R] /\ early' \in Seq(M)
      BY <1>u, <1>v, <1>7 DEF FarCreated
    <2> QED BY <1>0, <1>7, <2>1 DEF FarCreated, BridgeType, M, O, R
  <1>8. CASE EventComesOver
    <2>1. over' \in Seq(O) /\ Head(over) \in M
      BY <1>u, <1>v, <1>8, <1>t DEF EventComesOver, HeadMessage
    <2>2. farId \in {"unused", "known", "forgotten"}
      BY <1>0 DEF BridgeType, M, O, R
    <2>3. heard' \in [{"near", "far"} -> Seq(M)] /\ held' \in [Sockets -> Seq(M)]
      BY <1>0, <1>u, <1>v, <1>8, <2>1, <2>2, ToEndLog DEF EventComesOver, BridgeType, socketVars, M, O, R
    <2>9. early' = Append(early, Head(over)) \/ early' = early
      BY <1>8 DEF EventComesOver
    <2>4. early' \in Seq(M)
      <3>1. \A x \in M : Append(early, x) \in Seq(M)
        BY <1>u, <1>v
      <3>2. Append(early, Head(over)) \in Seq(M)
        BY <2>1, <3>1, Zenon
      <3> QED BY <1>u, <2>9, <3>2
    <2>5. ready' \in [Sockets -> R] /\ accepted' \in [Sockets -> BOOLEAN]
          /\ farId' \in {"unused", "known", "forgotten"} /\ line' = line
      BY <1>u, <1>v, <1>8, <2>2 DEF EventComesOver, socketVars
    <2> QED BY <1>0, <1>8, <2>1, <2>3, <2>4, <2>5 DEF EventComesOver, BridgeType, M, O, R
  <1>9. CASE FarAccepts
    <2>1. line' \in {"none", "up", "closed"}
      BY <1>u, <1>v, <1>9 DEF FarAccepts
    <2> QED BY <1>0, <1>9, <2>1, AcceptLog DEF FarAccepts, BridgeType, idVars, M, O, R
  <1>10. CASE FarSends
    <2>1. sent["far"] + 1 \in M /\ sent' \in [{"near", "far"} -> M]
      BY <1>t, <1>10, BridgeTypes DEF FarSends, M, O, R
    <2>2. home' \in Seq(M)
      BY <1>u, <1>v, <1>10, <2>1 DEF FarSends
    <2> QED BY <1>0, <1>10, <2>1, <2>2 DEF FarSends, BridgeType, socketVars, idVars, M, O, R
  <1>11. CASE FarCloses
    <2>0. home' = Append(home, CloseEvent) \/ home' = home
      BY <1>11 DEF FarCloses
    <2>3. home' \in Seq(M)
      <3>1. \A x \in M : Append(home, x) \in Seq(M)
        BY <1>u, <1>v
      <3>2. Append(home, CloseEvent) \in Seq(M)
        BY <1>v, <3>1, Zenon
      <3> QED BY <1>u, <2>0, <3>2
    <2>1. home' \in Seq(M) /\ CloseEvent \in M /\ quit' \subseteq {"near", "far"} /\ line' \in {"none", "up", "closed"}
          /\ farId' \in {"unused", "known", "forgotten"} /\ ready' \in [Sockets -> R]
      BY <1>u, <1>v, <1>11, <2>3 DEF FarCloses
    <2>2. heard' \in [{"near", "far"} -> Seq(M)] /\ held' \in [Sockets -> Seq(M)]
      BY <1>0, <1>u, <1>v, <1>11, <2>1, ToEndLog DEF FarCloses, BridgeType, M, O, R
    <2> QED BY <1>0, <1>11, <2>1, <2>2 DEF FarCloses, BridgeType, M, O, R
  <1>12. CASE Disposed
    <2>1. heard' \in [{"near", "far"} -> Seq(M)] /\ held' \in [Sockets -> Seq(M)]
      BY <1>0, <1>u, <1>v, <1>12, <1>t, ToEndLog DEF Disposed, BridgeType, M, O, R
    <2>2. ready' \in [Sockets -> R]
      BY <1>u, <1>v, <1>12 DEF Disposed
    <2>3. over' \in Seq(O) /\ home' \in Seq(M) /\ early' \in Seq(M) /\ up' \in BOOLEAN /\ farId' \in {"unused", "known", "forgotten"}
      BY <1>u, <1>v, <1>12 DEF Disposed
    <2> QED BY <1>0, <1>u, <1>12, <2>1, <2>2, <2>3 DEF Disposed, BridgeType, M, O, R
  <1>13. CASE UNCHANGED bridgeVars
    BY <1>0, <1>13 DEF bridgeVars, socketVars, idVars, BridgeType, M, O, R
  <1> QED BY <1>1, <1>2, <1>3, <1>4, <1>5, <1>6, <1>7, <1>8, <1>9, <1>10, <1>11, <1>12, <1>13 DEF BridgeNext

LEMMA LineType ==
  ASSUME NEW e \in Seq(Int), NEW o \in Seq(Int), NEW k \in 1..Len(o)
  PROVE  /\ Line(e, o, k) \in Seq(Int)
         /\ Len(Line(e, o, k)) = Len(e) + Len(o) - 1
         /\ \A i \in 1..Len(e) : Line(e, o, k)[i] = e[i]
         /\ \A i \in 1..Len(o) : i < k => Line(e, o, k)[Len(e) + i] = o[i]
         /\ \A i \in 1..Len(o) : i > k => Line(e, o, k)[Len(e) + i - 1] = o[i]
         /\ \A j \in 1..(Len(e) + Len(o) - 1) : Line(e, o, k)[j] =
              IF j <= Len(e) THEN e[j] ELSE IF j - Len(e) < k THEN o[j - Len(e)] ELSE o[j - Len(e) + 1]
  <1> DEFINE n == Len(e) + Len(o) - 1
  <1>1. Len(e) \in Nat /\ Len(o) \in Nat /\ n \in Nat
    OBVIOUS
  <1>2. \A j \in 1..n : (IF j <= Len(e) THEN e[j] ELSE IF j - Len(e) < k THEN o[j - Len(e)] ELSE o[j - Len(e) + 1]) \in Int
    BY <1>1
  <1>3. Line(e, o, k) \in [1..n -> Int]
    BY <1>2 DEF Line
  <1>4. Line(e, o, k) \in Seq(Int) /\ Len(Line(e, o, k)) = n
    <2> HIDE DEF n
    <2>1. \A f \in [1..n -> Int] : f \in Seq(Int) /\ Len(f) = n
      BY <1>1
    <2> QED BY <1>3, <2>1
  <1>5. \A j \in 1..n : Line(e, o, k)[j] =
          IF j <= Len(e) THEN e[j] ELSE IF j - Len(e) < k THEN o[j - Len(e)] ELSE o[j - Len(e) + 1]
    BY DEF Line
  <1> HIDE DEF Line
  <1>6. \A i \in 1..Len(e) : Line(e, o, k)[i] = e[i]
    <2> TAKE i \in 1..Len(e)
    <2>1. i \in 1..n /\ i <= Len(e)
      BY <1>1
    <2> HIDE DEF n
    <2> QED BY <1>5, <2>1
  <1>7. \A i \in 1..Len(o) : i < k => Line(e, o, k)[Len(e) + i] = o[i]
    <2> SUFFICES ASSUME NEW i \in 1..Len(o), i < k PROVE Line(e, o, k)[Len(e) + i] = o[i]
      OBVIOUS
    <2> DEFINE j == Len(e) + i
    <2>1. j \in 1..n /\ ~(j <= Len(e)) /\ j - Len(e) < k /\ j - Len(e) = i
      BY <1>1
    <2> HIDE DEF j
    <2>2. Line(e, o, k)[j] = o[j - Len(e)]
      BY <1>5, <2>1
    <2> QED BY <2>1, <2>2 DEF j
  <1>8. \A i \in 1..Len(o) : i > k => Line(e, o, k)[Len(e) + i - 1] = o[i]
    <2> SUFFICES ASSUME NEW i \in 1..Len(o), i > k PROVE Line(e, o, k)[Len(e) + i - 1] = o[i]
      OBVIOUS
    <2> DEFINE j == Len(e) + i - 1
    <2>1. j \in 1..n /\ ~(j <= Len(e)) /\ ~(j - Len(e) < k) /\ j - Len(e) + 1 = i
      BY <1>1
    <2> HIDE DEF j
    <2>2. Line(e, o, k)[j] = o[j - Len(e) + 1]
      BY <1>5, <2>1
    <2> QED BY <2>1, <2>2 DEF j
  <1> QED BY <1>4, <1>5, <1>6, <1>7, <1>8

\* A place of a sequence that is not its last lies before its last.
LEMMA BeforeLast ==
  ASSUME NEW n \in Nat, NEW j \in 1..n, j # n
  PROVE  j \in 1..(n - 1)
  OBVIOUS

\* An event that is posted comes last, ...
LEMMA LineGrows ==
  ASSUME NEW e \in Seq(Int), NEW o \in Seq(Int), NEW k \in 1..Len(o), NEW x \in Int
  PROVE  /\ Line(e, Append(o, x), k) = Append(Line(e, o, k), x)
         /\ k \in 1..Len(Append(o, x)) /\ Append(o, x)[k] = o[k]
  <1>1. Append(o, x) \in Seq(Int) /\ Len(Append(o, x)) = Len(o) + 1 /\ k \in 1..Len(Append(o, x))
        /\ Append(o, x)[Len(o) + 1] = x /\ \A i \in 1..Len(o) : Append(o, x)[i] = o[i]
    OBVIOUS
  <1>2. Len(e) \in Nat /\ Len(o) \in Nat
    OBVIOUS
  <1>3. Line(e, Append(o, x), k) \in Seq(Int) /\ Append(Line(e, o, k), x) \in Seq(Int)
        /\ Len(Line(e, Append(o, x), k)) = Len(e) + Len(o) /\ Len(Append(Line(e, o, k), x)) = Len(e) + Len(o)
        /\ Append(Line(e, o, k), x)[Len(e) + Len(o)] = x
        /\ \A j \in 1..(Len(e) + Len(o) - 1) : Append(Line(e, o, k), x)[j] = Line(e, o, k)[j]
    <2> DEFINE o1 == Append(o, x)
    <2>1. o1 \in Seq(Int) /\ Len(o1) = Len(o) + 1 /\ k \in 1..Len(o1)
      BY <1>1
    <2> HIDE DEF o1
    <2>2. Line(e, o1, k) \in Seq(Int) /\ Len(Line(e, o1, k)) = Len(e) + Len(o)
      <3>1. Len(e) + Len(o1) - 1 = Len(e) + Len(o)
        BY <1>2, <2>1
      <3> QED BY <2>1, <3>1, LineType
    <2> DEFINE l == Line(e, o, k)
    <2>3. l \in Seq(Int) /\ Len(l) = Len(e) + Len(o) - 1
      BY LineType
    <2> HIDE DEF l
    <2>4. Append(l, x) \in Seq(Int) /\ Len(Append(l, x)) = Len(l) + 1 /\ Append(l, x)[Len(l) + 1] = x
          /\ \A j \in 1..Len(l) : Append(l, x)[j] = l[j]
      BY <2>3
    <2>5. Len(l) + 1 = Len(e) + Len(o)
      BY <1>2, <2>3
    <2> QED BY <2>2, <2>3, <2>4, <2>5 DEF o1, l
  <1>4. ASSUME NEW j \in 1..(Len(e) + Len(o)) PROVE Line(e, Append(o, x), k)[j] = Append(Line(e, o, k), x)[j]
    <2> DEFINE o1 == Append(o, x)
    <2>1. o1 \in Seq(Int) /\ Len(o1) = Len(o) + 1 /\ k \in 1..Len(o1) /\ o1[Len(o) + 1] = x /\ \A i \in 1..Len(o) : o1[i] = o[i]
      BY <1>1
    <2> HIDE DEF o1
    <2>2. Line(e, o1, k)[j] = IF j <= Len(e) THEN e[j] ELSE IF j - Len(e) < k THEN o1[j - Len(e)] ELSE o1[j - Len(e) + 1]
      <3>1. Len(e) + Len(o1) - 1 = Len(e) + Len(o) /\ j \in 1..(Len(e) + Len(o1) - 1)
        BY <1>2, <2>1
      <3> QED BY <2>1, <3>1, LineType
    <2>3. CASE j = Len(e) + Len(o)
      <3>1. j - Len(e) + 1 = Len(o) + 1 /\ ~(j <= Len(e)) /\ ~(j - Len(e) < k)
        BY <1>2, <2>3
      <3> QED BY <1>3, <2>1, <2>2, <2>3, <3>1 DEF o1
    <2>4. CASE j # Len(e) + Len(o)
      <3>1. j \in 1..(Len(e) + Len(o) - 1)
        <4>1. Len(e) + Len(o) \in Nat
          BY <1>2
        <4> QED BY <2>4, <4>1, BeforeLast, SMTT(30)
      <3>2. Line(e, o, k)[j] = IF j <= Len(e) THEN e[j] ELSE IF j - Len(e) < k THEN o[j - Len(e)] ELSE o[j - Len(e) + 1]
        BY <3>1, LineType
      <3>3. ~(j <= Len(e)) => j - Len(e) \in 1..Len(o) /\ j - Len(e) + 1 \in 1..Len(o)
        BY <1>2, <3>1
      <3>4. Line(e, o1, k)[j] = Line(e, o, k)[j]
        BY <2>1, <2>2, <3>2, <3>3
      <3> QED BY <1>3, <3>1, <3>4 DEF o1
    <2> QED BY <2>3, <2>4
  <1>5. Line(e, Append(o, x), k) = Append(Line(e, o, k), x)
    BY <1>3, <1>4, SeqEqual
  <1> QED BY <1>1, <1>5

\* ... one that is kept leaves the line as it is, ...
LEMMA LineMoves ==
  ASSUME NEW e \in Seq(Int), NEW o \in Seq(Int), NEW k \in 2..Len(o)
  PROVE  /\ Line(Append(e, Head(o)), Tail(o), k - 1) = Line(e, o, k)
         /\ k - 1 \in 1..Len(Tail(o)) /\ Tail(o)[k - 1] = o[k]
  <1>1. Len(e) \in Nat /\ Len(o) \in Nat /\ o # <<>>
    OBVIOUS
  <1>2. Head(o) \in Int /\ Head(o) = o[1] /\ Tail(o) \in Seq(Int) /\ Len(Tail(o)) = Len(o) - 1
        /\ \A i \in 1..(Len(o) - 1) : Tail(o)[i] = o[i + 1]
    BY <1>1
  <1>3. Append(e, Head(o)) \in Seq(Int) /\ Len(Append(e, Head(o))) = Len(e) + 1
        /\ Append(e, Head(o))[Len(e) + 1] = o[1] /\ \A i \in 1..Len(e) : Append(e, Head(o))[i] = e[i]
    BY <1>2
  <1>4. k - 1 \in 1..Len(Tail(o)) /\ k \in 1..Len(o)
    BY <1>1, <1>2
  <1>5. Line(Append(e, Head(o)), Tail(o), k - 1) \in Seq(Int) /\ Line(e, o, k) \in Seq(Int)
        /\ Len(Line(Append(e, Head(o)), Tail(o), k - 1)) = Len(e) + Len(o) - 1
        /\ Len(Line(e, o, k)) = Len(e) + Len(o) - 1
    <2> DEFINE e1 == Append(e, Head(o))
    <2> DEFINE o1 == Tail(o)
    <2>1. e1 \in Seq(Int) /\ o1 \in Seq(Int) /\ Len(e1) = Len(e) + 1 /\ Len(o1) = Len(o) - 1 /\ k - 1 \in 1..Len(o1)
      BY <1>2, <1>3, <1>4
    <2> HIDE DEF e1, o1
    <2>2. Line(e1, o1, k - 1) \in Seq(Int) /\ Len(Line(e1, o1, k - 1)) = Len(e1) + Len(o1) - 1
      BY <2>1, LineType
    <2>3. Len(e1) + Len(o1) - 1 = Len(e) + Len(o) - 1
      BY <1>1, <2>1
    <2>4. Line(e, o, k) \in Seq(Int) /\ Len(Line(e, o, k)) = Len(e) + Len(o) - 1
      BY <1>4, LineType
    <2> QED BY <2>2, <2>3, <2>4 DEF e1, o1
  <1>6. ASSUME NEW j \in 1..(Len(e) + Len(o) - 1)
        PROVE  Line(Append(e, Head(o)), Tail(o), k - 1)[j] = Line(e, o, k)[j]
    <2> DEFINE e1 == Append(e, Head(o))
    <2> DEFINE o1 == Tail(o)
    <2>1. e1 \in Seq(Int) /\ o1 \in Seq(Int) /\ Len(e1) = Len(e) + 1 /\ Len(o1) = Len(o) - 1 /\ k - 1 \in 1..Len(o1)
      BY <1>2, <1>3, <1>4
    <2>2. e1[Len(e) + 1] = o[1] /\ (\A i \in 1..Len(e) : e1[i] = e[i]) /\ \A i \in 1..(Len(o) - 1) : o1[i] = o[i + 1]
      BY <1>2, <1>3
    <2> HIDE DEF e1, o1
    <2>3. Line(e1, o1, k - 1)[j] =
            IF j <= Len(e1) THEN e1[j] ELSE IF j - Len(e1) < k - 1 THEN o1[j - Len(e1)] ELSE o1[j - Len(e1) + 1]
      <3>1. j \in 1..(Len(e1) + Len(o1) - 1)
        BY <1>1, <2>1
      <3> QED BY <2>1, <3>1, LineType
    <2>4. Line(e, o, k)[j] = IF j <= Len(e) THEN e[j] ELSE IF j - Len(e) < k THEN o[j - Len(e)] ELSE o[j - Len(e) + 1]
      BY <1>4, LineType
    <2>5. Line(e1, o1, k - 1)[j] = Line(e, o, k)[j]
      <3>1. CASE j <= Len(e)
        <4>1. j <= Len(e1) /\ j \in 1..Len(e)
          BY <1>1, <2>1, <3>1
        <4> QED BY <2>2, <2>3, <2>4, <3>1, <4>1
      <3>2. CASE j = Len(e) + 1
        <4>1. j <= Len(e1) /\ ~(j <= Len(e)) /\ j - Len(e) < k /\ j - Len(e) = 1
          BY <1>1, <2>1, <3>2
        <4> QED BY <2>2, <2>3, <2>4, <3>2, <4>1
      <3>3. CASE j > Len(e) + 1
        <4> DEFINE i == j - Len(e1)
        <4>1. ~(j <= Len(e1)) /\ ~(j <= Len(e)) /\ i \in Int /\ j - Len(e) = i + 1 /\ j - Len(e) + 1 = i + 2
          BY <1>1, <2>1, <3>3, SMTT(30)
        <4>0. Len(e1) \in Nat /\ j \in Int /\ k \in Int /\ j <= Len(e) + Len(o) - 1 /\ Len(e1) = Len(e) + 1
          BY <1>1, <2>1
        <4>2. i \in 1..(Len(o) - 1) /\ i + 1 \in 1..(Len(o) - 1) /\ (i < k - 1 <=> i + 1 < k)
          BY <1>1, <4>0, <3>3, SMTT(20)
        <4> HIDE DEF i
        <4>3. Line(e, o, k)[j] = IF i + 1 < k THEN o[i + 1] ELSE o[i + 2]
          BY <2>4, <4>1
        <4>4. Line(e1, o1, k - 1)[j] = IF i < k - 1 THEN o1[i] ELSE o1[i + 1]
          BY <2>3, <4>1 DEF i
        <4>5. o1[i] = o[i + 1] /\ (i + 1 \in 1..(Len(o) - 1) => o1[i + 1] = o[i + 2])
          BY <2>2, <4>2
        <4>6. CASE i < k - 1
          <5>1. Line(e, o, k)[j] = o[i + 1] /\ Line(e1, o1, k - 1)[j] = o1[i]
            BY <4>2, <4>3, <4>4, <4>6
          <5> QED BY <4>5, <5>1
        <4>7. CASE ~(i < k - 1)
          <5>1. Line(e, o, k)[j] = o[i + 2] /\ Line(e1, o1, k - 1)[j] = o1[i + 1]
            BY <4>2, <4>3, <4>4, <4>7
          <5> QED BY <4>2, <4>5, <5>1
        <4> QED BY <4>6, <4>7
      <3>4. j <= Len(e) \/ j = Len(e) + 1 \/ j > Len(e) + 1
        BY <1>1, SMTT(20)
      <3> QED BY <3>1, <3>2, <3>3, <3>4
    <2> QED BY <2>5 DEF e1, o1
  <1>7. Line(Append(e, Head(o)), Tail(o), k - 1) = Line(e, o, k)
    BY <1>5, <1>6, SeqEqual
  <1> QED BY <1>2, <1>4, <1>7

\* ... and what is flushed ahead of the result makes the first line.
LEMMA LineStarts ==
  ASSUME NEW s \in Seq(Int), NEW x \in Int
  PROVE  /\ Line(<<>>, Append(<<>> \o s, x), Len(s) + 1) = s
         /\ Len(s) + 1 \in 1..Len(Append(<<>> \o s, x)) /\ Append(<<>> \o s, x)[Len(s) + 1] = x
  <1>1. <<>> \o s = s /\ <<>> \in Seq(Int) /\ Len(s) \in Nat
    OBVIOUS
  <1>2. Append(s, x) \in Seq(Int) /\ Len(Append(s, x)) = Len(s) + 1
        /\ Append(s, x)[Len(s) + 1] = x /\ \A i \in 1..Len(s) : Append(s, x)[i] = s[i]
    OBVIOUS
  <1>3. Line(<<>>, Append(s, x), Len(s) + 1) \in Seq(Int) /\ Len(Line(<<>>, Append(s, x), Len(s) + 1)) = Len(s)
        /\ \A i \in 1..Len(s) : Line(<<>>, Append(s, x), Len(s) + 1)[i] = s[i]
    <2> DEFINE o1 == Append(s, x)
    <2> DEFINE k == Len(s) + 1
    <2>1. o1 \in Seq(Int) /\ Len(o1) = Len(s) + 1 /\ k \in 1..Len(o1) /\ \A i \in 1..Len(s) : o1[i] = s[i] /\ i < k
      BY <1>1, <1>2
    <2>2. Len(<<>>) = 0
      OBVIOUS
    <2> HIDE DEF o1
    <2>3. Line(<<>>, o1, k) \in Seq(Int) /\ Len(Line(<<>>, o1, k)) = Len(<<>>) + Len(o1) - 1
          /\ \A i \in 1..Len(o1) : i < k => Line(<<>>, o1, k)[Len(<<>>) + i] = o1[i]
      BY <1>1, <2>1, LineType
    <2>4. Len(<<>>) + Len(o1) - 1 = Len(s) /\ \A i \in 1..Len(s) : Len(<<>>) + i = i /\ i \in 1..Len(o1)
      BY <1>1, <2>1, <2>2
    <2>5. \A i \in 1..Len(s) : Line(<<>>, o1, k)[i] = s[i]
      BY <2>1, <2>3, <2>4
    <2> QED BY <2>3, <2>4, <2>5 DEF o1
  <1>4. Line(<<>>, Append(s, x), Len(s) + 1) = s
    BY <1>3, SeqEqual
  <1> QED BY <1>1, <1>2, <1>4

\* The result is the one thing in the channel that is no event.
LEMMA LineEvents ==
  ASSUME NEW e \in Seq(Int), NEW o \in Seq(Int), NEW k \in 1..Len(o), NEW b \in Nat, NEW c \in BOOLEAN,
         Run(Line(e, o, k), 0, b, c)
  PROVE  \A i \in 1..Len(o) : i # k => o[i] # HeadMessage
  <1>1. \A j \in 1..Len(Line(e, o, k)) : Line(e, o, k)[j] # HeadMessage
    BY DEF Run, CloseEvent, HeadMessage
  <1> SUFFICES ASSUME NEW i \in 1..Len(o), i # k PROVE o[i] # HeadMessage
    OBVIOUS
  <1>2. Len(e) \in Nat /\ Len(o) \in Nat
    OBVIOUS
  <1>5. Len(Line(e, o, k)) = Len(e) + Len(o) - 1
    BY LineType
  <1>3. CASE i < k
    <2>1. Line(e, o, k)[Len(e) + i] = o[i]
      BY <1>3, LineType
    <2>2. Len(e) + i \in 1..Len(Line(e, o, k))
      BY <1>2, <1>3, <1>5
    <2> QED BY <1>1, <2>1, <2>2
  <1>4. CASE i > k
    <2>1. Line(e, o, k)[Len(e) + i - 1] = o[i]
      BY <1>4, LineType
    <2>2. Len(e) + i - 1 \in 1..Len(Line(e, o, k))
      BY <1>2, <1>4, <1>5
    <2> QED BY <1>1, <2>1, <2>2
  <1> QED BY <1>2, <1>3, <1>4

LEMMA CloseAppended ==
  ASSUME NEW s \in Seq(Int), NEW x \in Int
  PROVE  HasClose(Append(s, x)) <=> HasClose(s) \/ x = CloseEvent
  <1>1. DOMAIN s = 1..Len(s) /\ DOMAIN Append(s, x) = 1..(Len(s) + 1)
        /\ Append(s, x)[Len(s) + 1] = x /\ \A i \in 1..Len(s) : Append(s, x)[i] = s[i]
    OBVIOUS
  <1>2. Len(s) \in Nat
    OBVIOUS
  <1> QED BY <1>1, <1>2 DEF HasClose

\* What no step of the far side disturbs on the other one, and the reverse.
LEMMA SidesStep ==
  ASSUME BridgeInv, [BridgeNext]_bridgeVars PROVE ShipperSide' /\ FarSide'
  <1> USE DEF BridgeInv
  <1>0. /\ BridgeType /\ ShipperSide /\ FarSide /\ Sockets = {"near", "shipped", "far", "bridge"}
        /\ ready \in [Sockets -> {"connecting", "open", "closed"}] /\ accepted \in [Sockets -> BOOLEAN]
        /\ held \in [Sockets -> Seq(0..MaxMessages)] /\ heard \in [{"near", "far"} -> Seq(0..MaxMessages)]
        /\ over \in Seq(Int) /\ home \in Seq(Int) /\ up \in BOOLEAN
        /\ shape \in {"serve", "bind"} /\ farId \in {"unused", "known", "forgotten"}
        /\ shipperId \in {"unused", "known", "forgotten"} /\ line \in {"none", "up", "closed"}
        /\ sent \in [{"near", "far"} -> 0..MaxMessages]
        /\ Log("near") \in Seq(Int)
    BY BridgeTypes, LogType DEF BridgeType, Sockets
  <1>h. CloseEvent \in Int /\ CloseEvent \in 0..MaxMessages /\ CloseEvent # HeadMessage
        /\ 0..MaxMessages \subseteq Int
    BY BridgeAssumption DEF CloseEvent, HeadMessage
  <1>s. sent["near"] \in Nat /\ sent["far"] \in Nat /\ 0 \in Nat /\ 0 <= sent["near"] /\ 0 <= sent["far"]
    BY BridgeTypes
  <1>q. /\ home # <<>> => Head(home) \in 0..MaxMessages
        /\ over # <<>> /\ Head(over) # HeadMessage => Head(over) \in 0..MaxMessages
        /\ held["shipped"] \in Seq(Int)
    <2>1. home # <<>> => Head(home) \in 0..MaxMessages
      BY BridgeTypes, HeadTailProperties
    <2>2. over # <<>> => Head(over) \in HeadMessage..MaxMessages
      BY BridgeTypes, HeadTailProperties
    <2>3. \A v \in HeadMessage..MaxMessages : v # HeadMessage => v \in 0..MaxMessages
      BY BridgeAssumption DEF HeadMessage
    <2> QED BY BridgeTypes, <2>1, <2>2, <2>3
  <1>1. CASE NearAccepts
    <2>1. Log("near")' = Log("near") /\ held'["near"] = <<>> /\ accepted'["near"] /\ heard'["far"] = heard["far"]
          /\ \A d \in {"shipped", "far", "bridge"} : held'[d] = held[d] /\ (accepted'[d] <=> accepted[d]) /\ ready'[d] = ready[d]
          /\ ready'["near"] = (IF ready["near"] = "closed" THEN "closed" ELSE "open")
      BY <1>0, <1>1, AcceptLog DEF NearAccepts
    <2> QED BY <1>0, <1>1, <2>1 DEF NearAccepts, ShipperSide, FarSide, idVars
  <1>2. CASE NearSends
    <2>0. sent["near"] + 1 # CloseEvent
      BY BridgeTypes DEF CloseEvent
    <2>1. /\ shipperId' = shipperId
          /\ over' = (IF accepted["shipped"] THEN Append(over, sent["near"] + 1) ELSE over)
          /\ accepted["shipped"] => held' = held
          /\ \A d \in {"near", "far", "bridge"} : held'[d] = held[d]
      BY <1>0, <1>2, <2>0 DEF NearSends, ThroughShipped
    <2>2. sent["near"] + 1 \in Int /\ sent["near"] + 1 # HeadMessage /\ sent'["far"] = sent["far"]
      BY <1>0, <1>2, BridgeTypes, SMTT(30) DEF HeadMessage, NearSends
    <2>3. Log("near")' = Log("near")
      BY <1>2, <2>1 DEF NearSends, Log
    <2>4. ShipperSide'
      BY <1>0, <1>2, <2>1, <2>3 DEF NearSends, ShipperSide
    <2>5. \A i \in 1..Len(over') : over'[i] # HeadMessage \/ farId = "unused"
      BY <1>0, <2>1, <2>2, SMTT(30) DEF FarSide
    <2> QED BY <1>0, <1>2, <2>1, <2>2, <2>4, <2>5 DEF NearSends, FarSide
  <1>3. CASE NearCloses
    <2>1. /\ over' = (IF accepted["shipped"] /\ ready["shipped"] # "closed" THEN Append(over, CloseEvent) ELSE over)
          /\ shipperId' = (IF accepted["shipped"] /\ ready["shipped"] # "closed" THEN "forgotten" ELSE shipperId)
          /\ accepted["shipped"] => held'["shipped"] = held["shipped"]
      BY <1>0, <1>3 DEF NearCloses, ThroughShipped
    <2>2. held'["far"] = held["far"] /\ heard'["far"] = heard["far"]
          /\ (IF accepted["near"] THEN held'["near"] = <<>> ELSE heard'["near"] = <<>>)
      BY <1>0, <1>3 DEF NearCloses, ShipperSide
    <2>3. ready'["near"] = "closed" /\ ready'["shipped"] = "closed" /\ ready'["far"] = ready["far"] /\ ready'["bridge"] = ready["bridge"]
      BY <1>0, <1>3 DEF NearCloses
    <2>4. ShipperSide'
      BY <1>0, <1>3, <2>1, <2>2, <2>3 DEF NearCloses, ShipperSide
    <2>5. \A i \in 1..Len(over') : over'[i] # HeadMessage \/ farId = "unused"
      BY <1>0, <1>h, <2>1 DEF FarSide
    <2> QED BY <1>0, <1>3, <2>2, <2>3, <2>4, <2>5 DEF NearCloses, FarSide
  <1>4. CASE Ship
    <2>1. /\ ready'["near"] = ready["near"] /\ ready'["far"] = ready["far"] /\ ready'["bridge"] = ready["bridge"]
          /\ ready'["shipped"] = (IF ready["shipped"] = "closed" THEN "closed" ELSE "open")
          /\ \A d \in {"near", "far", "bridge"} : held'[d] = held[d] /\ accepted'[d] = accepted[d]
          /\ accepted'["shipped"] /\ held'["shipped"] = <<>> /\ farId = "unused"
      BY <1>0, <1>4 DEF Ship, ShipperSide
    <2>2. Run(held["shipped"], 0, sent["near"], ready["near"] = "closed")
      BY <1>4 DEF Ship, ToFar
    <2>3. HasClose(held["shipped"]) <=> ready["near"] = "closed"
      BY <2>2, <1>s, <1>q, RunEnds
    <2>4. Log("near")' = Log("near")
      BY <1>4, <2>1 DEF Ship, Log
    <2> QED BY <1>0, <1>4, <2>1, <2>3, <2>4 DEF Ship, ShipperSide, FarSide
  <1>5. CASE MessageComesHome
    <2>1. Head(home) \in 0..MaxMessages /\ Head(home) # CloseEvent /\ Head(home) \in Int
      BY <1>h, <1>5, <1>q DEF MessageComesHome
    <2>2. CASE UNCHANGED <<heard, held>>
      <3>1. Log("near")' = Log("near")
        BY <2>2 DEF Log
      <3> QED BY <1>0, <1>5, <2>2, <3>1 DEF MessageComesHome, ShipperSide, FarSide, idVars
    <2>3. CASE ToEnd("near", <<Head(home)>>)
      <3>1. Log("near")' = Append(Log("near"), Head(home)) /\ held'["shipped"] = held["shipped"] /\ held'["far"] = held["far"]
            /\ heard'["far"] = heard["far"] /\ (IF accepted["near"] THEN held'["near"] = <<>> ELSE heard'["near"] = <<>>)
        BY <1>0, <1>5, <2>1, <2>3, ToEndLog DEF MessageComesHome
      <3>2. HasClose(Log("near"))' <=> HasClose(Log("near"))
        <4>1. HasClose(Append(Log("near"), Head(home))) <=> HasClose(Log("near"))
          BY <1>0, <2>1, CloseAppended
        <4> QED BY <3>1, <4>1 DEF HasClose
      <3> QED BY <1>0, <1>5, <3>1, <3>2 DEF MessageComesHome, ShipperSide, FarSide, idVars
    <2> QED BY <1>5, <2>2, <2>3 DEF MessageComesHome
  <1>6. CASE CloseComesHome
    <2>0. up /\ farId # "unused"
      BY <1>0, <1>6 DEF CloseComesHome, ShipperSide, FarSide
    <2>1. CASE shipperId # "known"
      <3>1. Log("near")' = Log("near")
        BY <1>6, <2>1 DEF CloseComesHome, Log, socketVars
      <3> QED BY <1>0, <1>6, <2>0, <2>1, <3>1 DEF CloseComesHome, ShipperSide, FarSide, socketVars
    <2>2. CASE shipperId = "known"
      <3>1. ToEnd("near", <<CloseEvent>>)
        BY <1>0, <1>6, <2>0, <2>2 DEF CloseComesHome, ShipperSide
      <3>2. held'["shipped"] = held["shipped"] /\ held'["far"] = held["far"] /\ accepted' = accepted
            /\ heard'["far"] = heard["far"] /\ (IF accepted["near"] THEN held'["near"] = <<>> ELSE heard'["near"] = <<>>)
        BY <1>0, <1>6, <1>h, <2>2, <3>1, ToEndLog DEF CloseComesHome
      <3>3. ready'["near"] = "closed" /\ ready'["far"] = ready["far"] /\ ready'["bridge"] = ready["bridge"] /\ shipperId' = "forgotten"
        BY <1>0, <1>6, <2>2 DEF CloseComesHome
      <3>4. ShipperSide'
        BY <1>0, <1>6, <2>0, <2>2, <3>2, <3>3 DEF CloseComesHome, ShipperSide
      <3>5. over' = over \/ over' = Append(over, CloseEvent)
        BY <1>6 DEF CloseComesHome
      <3>6. \A i \in 1..Len(over') : over'[i] # HeadMessage
        <4>1. \A i \in 1..Len(over) : over[i] # HeadMessage
          BY <1>0, <2>0 DEF FarSide
        <4>2. \A i \in 1..Len(Append(over, CloseEvent)) : Append(over, CloseEvent)[i] # HeadMessage
          BY <1>0, <1>h, <4>1
        <4> QED BY <3>5, <4>1, <4>2
      <3> QED BY <1>0, <1>6, <2>0, <3>2, <3>3, <3>4, <3>6 DEF CloseComesHome, FarSide
    <2> QED BY <2>1, <2>2
  <1>7. CASE FarCreated
    <2>1. up /\ shipperId # "unused" /\ farId = "unused"
      BY <1>0, <1>7, SMTT(30) DEF FarCreated, ShipperSide, FarSide
    <2>2. PICK k \in 1..Len(over) : over[k] = HeadMessage /\ Run(Line(early, over, k), 0, sent["near"], shipperId = "forgotten")
      BY <2>1 DEF ToFar
    <2>3. \A i \in 1..Len(over) : i # k => over[i] # HeadMessage
      BY <1>0, <1>s, <2>2, LineEvents, BridgeTypes
    <2>4. \A i \in 1..Len(over') : over'[i] # HeadMessage
      BY <1>0, <1>7, <2>3, SMTT(30) DEF FarCreated
    <2>5. /\ ready'["near"] = ready["near"] /\ ready'["shipped"] = ready["shipped"] /\ ready'["bridge"] = ready["bridge"]
          /\ ready'["far"] = (IF HasClose(early) THEN "closed" ELSE ready["far"])
          /\ held'["near"] = held["near"] /\ held'["shipped"] = held["shipped"]
      BY <1>0, <1>7 DEF FarCreated
    <2>6. Log("near")' = Log("near")
      BY <1>7, <2>5 DEF FarCreated, Log
    <2>7. ShipperSide'
      BY <1>0, <1>7, <2>1, <2>5, <2>6 DEF FarCreated, ShipperSide, FarSide
    <2> QED BY <1>0, <1>7, <2>1, <2>4, <2>5, <2>7 DEF FarCreated, FarSide
  <1>8. CASE EventComesOver
    <2>0. up /\ shipperId # "unused"
      BY <1>0, <1>8 DEF EventComesOver, ShipperSide
    <2>1. Head(over) \in 0..MaxMessages /\ Head(over) \in Int
      BY <1>h, <1>8, <1>q DEF EventComesOver
    <2>2. \A i \in 1..Len(over') : over'[i] # HeadMessage \/ farId = "unused"
      BY <1>0, <1>8 DEF EventComesOver, FarSide
    <2>3. CASE farId # "known"
      <3>1. Log("near")' = Log("near") /\ UNCHANGED <<ready, accepted, held, heard, farId, line, shipperId, home, up, sent, shape>>
        BY <1>8, <2>3 DEF EventComesOver, socketVars, Log
      <3> QED BY <1>0, <1>8, <2>0, <2>2, <2>3, <3>1, SMTT(30) DEF EventComesOver, ShipperSide, FarSide
    <2>4. CASE farId = "known"
      <3>1. ToEnd("far", <<Head(over)>>) /\ accepted' = accepted /\ early' = early
        BY <1>8, <2>4 DEF EventComesOver
      <3>2. Log("near")' = Log("near") /\ held'["shipped"] = held["shipped"] /\ held'["near"] = held["near"]
            /\ heard'["near"] = heard["near"] /\ (IF accepted["far"] THEN held'["far"] = <<>> ELSE heard'["far"] = <<>>)
        BY <1>0, <2>1, <3>1, ToEndLog
      <3>3. ready'["near"] = ready["near"] /\ ready'["shipped"] = ready["shipped"] /\ ready'["bridge"] = ready["bridge"]
            /\ ready'["far"] = (IF Head(over) = CloseEvent THEN "closed" ELSE ready["far"])
            /\ farId' = (IF Head(over) = CloseEvent THEN "forgotten" ELSE farId)
        BY <1>0, <1>8, <2>4 DEF EventComesOver
      <3>4. ShipperSide'
        BY <1>0, <1>8, <2>0, <2>4, <3>1, <3>2, <3>3 DEF EventComesOver, ShipperSide
      <3> QED BY <1>0, <1>8, <2>0, <2>2, <2>4, <3>1, <3>3, <3>4 DEF EventComesOver, FarSide
    <2> QED BY <2>3, <2>4
  <1>9. CASE FarAccepts
    <2>1. Log("near")' = Log("near") /\ held'["far"] = <<>> /\ accepted'["far"] /\ heard'["near"] = heard["near"]
          /\ \A d \in {"shipped", "near", "bridge"} : held'[d] = held[d] /\ (accepted'[d] <=> accepted[d]) /\ ready'[d] = ready[d]
          /\ ready'["far"] = (IF ready["far"] = "closed" THEN "closed" ELSE "open")
      BY <1>0, <1>9, AcceptLog DEF FarAccepts
    <2>2. ShipperSide'
      BY <1>0, <1>9, <2>1 DEF FarAccepts, ShipperSide, idVars
    <2>3. shape = "serve" => ready["bridge"] # "closed"
      BY <1>0, <1>9 DEF FarAccepts, AcceptEnd, FarSide
    <2> QED BY <1>0, <1>9, <2>1, <2>2, <2>3 DEF FarAccepts, FarSide, idVars
  <1>10. CASE FarSends
    <2>1. farId # "unused"
      BY <1>0, <1>10 DEF FarSends, CanFarSend, FarSide
    <2>2. Log("near")' = Log("near")
      BY <1>10 DEF FarSends, socketVars, Log
    <2> QED BY <1>0, <1>10, <2>1, <2>2 DEF FarSends, ShipperSide, FarSide, socketVars, idVars
  <1>11. CASE FarCloses
    <2>1. /\ ready'["near"] = ready["near"] /\ ready'["shipped"] = ready["shipped"]
          /\ ready'["far"] = "closed" /\ ready'["bridge"] = "closed"
          /\ farId # "unused" /\ farId' = "forgotten"
      BY <1>0, <1>11 DEF FarCloses, FarSide
    <2>2. Log("near")' = Log("near") /\ held'["shipped"] = held["shipped"] /\ held'["near"] = held["near"]
          /\ heard'["near"] = heard["near"] /\ (IF accepted["far"] THEN held'["far"] = <<>> ELSE heard'["far"] = <<>>)
      <3>1. CASE shape = "bind"
        BY <1>0, <1>11, <1>h, <3>1, ToEndLog DEF FarCloses
      <3>2. CASE shape = "serve"
        BY <1>0, <1>11, <3>2 DEF FarCloses, ShipperSide, Log
      <3> QED BY <1>0, <3>1, <3>2
    <2>3. ShipperSide'
      BY <1>0, <1>11, <2>1, <2>2 DEF FarCloses, ShipperSide
    <2> QED BY <1>0, <1>11, <2>1, <2>3 DEF FarCloses, FarSide
  <1>12. CASE Disposed
    <2>1. /\ up' = FALSE /\ over' = <<>> /\ home' = <<>> /\ early' = <<>> /\ accepted' = accepted
          /\ shipperId' = "forgotten" /\ farId' = (IF farId = "unused" THEN farId ELSE "forgotten")
          /\ UNCHANGED <<shape, line, sent>>
      BY <1>12 DEF Disposed
    <2>2. /\ \A e \in {"near", "far"} : IF accepted[e] THEN held'[e] = <<>> ELSE heard'[e] = <<>>
          /\ held'["shipped"] = held["shipped"]
          /\ farId = "unused" => held'["far"] = held["far"]
      <3>1. CASE UNCHANGED <<heard, held>>
        BY <1>0, <3>1 DEF ShipperSide
      <3>2. CASE ToEnd("far", <<CloseEvent>>) /\ farId = "known"
        BY <1>0, <1>h, <2>1, <3>2, ToEndLog DEF ShipperSide
      <3>3. CASE ToEnd("near", <<CloseEvent>>)
        BY <1>0, <1>h, <2>1, <3>3, ToEndLog DEF ShipperSide
      <3> QED BY <1>0, <1>12, <3>1, <3>2, <3>3 DEF Disposed
    <2>3. ready'["bridge"] = ready["bridge"] /\ (farId = "unused" \/ shape = "bind" => ready'["far"] = ready["far"])
      BY <1>0, <1>12 DEF Disposed
    <2>4. ShipperSide'
      BY <1>0, <2>1, <2>2 DEF ShipperSide
    <2> QED BY <1>0, <2>1, <2>2, <2>3, <2>4 DEF FarSide
  <1>13. CASE UNCHANGED bridgeVars
    BY <1>0, <1>13 DEF bridgeVars, socketVars, idVars, ShipperSide, FarSide, Log
  <1> QED BY <1>1, <1>2, <1>3, <1>4, <1>5, <1>6, <1>7, <1>8, <1>9, <1>10, <1>11, <1>12, <1>13 DEF BridgeNext

LEMMA RunEmpty ==
  ASSUME NEW a \in Nat PROVE Run(<<>>, a, a, FALSE)
  BY DEF Run

LEMMA ToNearStep ==
  ASSUME BridgeInv, [BridgeNext]_bridgeVars PROVE ToNear'
  <1> USE DEF BridgeInv
  <1>0. /\ BridgeType /\ ShipperSide /\ FarSide /\ ToNear
        /\ ready \in [Sockets -> {"connecting", "open", "closed"}] /\ Sockets = {"near", "shipped", "far", "bridge"}
        /\ up \in BOOLEAN /\ shipperId \in {"unused", "known", "forgotten"}
        /\ heard \in [{"near", "far"} -> Seq(0..MaxMessages)] /\ held \in [Sockets -> Seq(0..MaxMessages)]
        /\ Log("near") \in Seq(Int) /\ home \in Seq(Int) /\ shape \in {"serve", "bind"}
    BY BridgeTypes, LogType DEF BridgeType, Sockets
  <1>s. /\ MaxMessages \in Nat /\ sent["far"] \in 0..MaxMessages /\ sent["far"] \in Nat
        /\ sent \in [{"near", "far"} -> 0..MaxMessages]
        /\ CloseEvent \in 0..MaxMessages /\ CloseEvent \in Int
        /\ home # <<>> => Head(home) \in 0..MaxMessages
        /\ 0 \in Nat /\ (\A n \in Nat : 0 <= n) /\ (\A n \in 0..MaxMessages : n \in Nat) /\ sent["near"] \in Nat
    BY BridgeTypes, HeadTailProperties DEF CloseEvent
  <1>1. ASSUME UNCHANGED <<home, shipperId>>, Log("near")' = Log("near"), quit \subseteq quit', up' = up,
               sent'["far"] = sent["far"], ready'["bridge"] = "closed" <=> ready["bridge"] = "closed",
               ready'["near"] = "closed" <=> ready["near"] = "closed"
        PROVE  ToNear'
    BY <1>0, <1>1 DEF ToNear
  <1>2. CASE NearAccepts
    <2>1. Log("near")' = Log("near") /\ ready'["bridge"] = ready["bridge"]
          /\ ready'["near"] = (IF ready["near"] = "closed" THEN "closed" ELSE "open")
      BY <1>0, <1>2, AcceptLog DEF NearAccepts
    <2> QED BY <1>1, <1>2, <2>1 DEF NearAccepts, idVars
  <1>3. CASE NearSends
    <2>1. Log("near")' = Log("near")
      BY <1>0, <1>3 DEF NearSends, Log
    <2>2. shipperId' = shipperId
      BY <1>0, <1>3, BridgeTypes DEF NearSends, ThroughShipped, CloseEvent
    <2> QED BY <1>0, <1>1, <1>3, <1>s, <2>1, <2>2 DEF NearSends
  <1>4. CASE NearCloses
    <2>1. Log("near")' = Append(Log("near"), CloseEvent)
      <3>1. ToEnd("near", <<CloseEvent>>)
             \/ (accepted["near"] /\ heard' = [heard EXCEPT !["near"] = Append(@, CloseEvent)] /\ held'["near"] = held["near"])
             \/ (~accepted["near"] /\ held'["near"] = Append(held["near"], CloseEvent) /\ heard' = heard)
        BY <1>0, <1>4 DEF NearCloses
      <3>2. heard["near"] \in Seq(Int) /\ held["near"] \in Seq(Int)
        BY <1>0, <1>s, SeqMonotonic
      <3>3. CASE accepted["near"]
        <4>1. held["near"] = <<>> /\ held'["near"] = <<>> /\ heard'["near"] = Append(heard["near"], CloseEvent)
          BY <1>0, <1>4, <3>3 DEF NearCloses, ShipperSide
        <4> QED BY <3>2, <4>1, <1>s DEF Log
      <3>4. CASE ~accepted["near"]
        <4>1. heard["near"] = <<>> /\ held'["near"] = Append(held["near"], CloseEvent) /\ heard'["near"] = <<>>
          BY <1>0, <1>4, <3>4 DEF NearCloses, ShipperSide
        <4> QED BY <3>2, <4>1, <1>s DEF Log
      <3> QED BY <3>3, <3>4
    <2>2. PICK n \in 0..MaxMessages : Run(Log("near"), 0, n, FALSE)
      <3>1. PICK n \in 0..MaxMessages, c \in BOOLEAN : Run(Log("near"), 0, n, c)
        BY <1>0 DEF ToNear
      <3>2. ~HasClose(Log("near")) /\ n \in Nat /\ 0 \in Nat /\ 0 <= n
        BY <1>0, <1>4, <1>s DEF NearCloses, ShipperSide
      <3>3. c = FALSE
        BY <1>0, <3>1, <3>2, RunEnds
      <3> QED BY <3>1, <3>3
    <2>9. n \in Nat /\ 0 <= n
      BY <1>s
    <2>3. Run(Log("near")', 0, n, TRUE)
      <3>1. Log("near") \in Seq(Int) /\ 0 \in Nat
        BY <1>0
      <3>2. Run(Append(Log("near"), CloseEvent), 0, n, TRUE)
        BY <2>2, <2>9, <3>1, RunAppend
      <3> QED BY <2>1, <3>2
    <2>4. shipperId = "unused" => Run(Log("near")', 0, 0, TRUE)
      <3>1. shipperId = "unused" => Run(Log("near"), 0, 0, FALSE)
        BY <1>0, <1>4 DEF NearCloses, ToNear
      <3>2. 0 \in Nat /\ 0 <= 0
        OBVIOUS
      <3>3. Log("near") \in Seq(Int)
        BY <1>0
      <3>4. shipperId = "unused" => Run(Append(Log("near"), CloseEvent), 0, 0, TRUE)
        BY <3>1, <3>2, <3>3, RunAppend
      <3> QED BY <2>1, <3>4
    <2>5. shipperId' \in {"unused", "forgotten"} /\ (shipperId' = "unused" => shipperId = "unused") /\ ready'["near"] = "closed"
          /\ "near" \in quit'
      BY <1>0, <1>4 DEF NearCloses, ThroughShipped, ShipperSide
    <2> QED BY <2>3, <2>4, <2>5 DEF ToNear
  <1>5. CASE Ship
    <2>1. Log("near")' = Log("near") /\ ready'["near"] = ready["near"] /\ ready'["bridge"] = ready["bridge"] /\ up
          /\ shipperId = "unused" /\ farId = "unused" /\ home' = <<>> /\ sent'["far"] = 0 /\ ready["bridge"] = "open"
          /\ UNCHANGED <<up, quit, sent>>
      BY <1>0, <1>5 DEF Ship, Log, ShipperSide, FarSide
    <2>2. Run(Log("near"), 0, 0, ready["near"] = "closed")
      BY <1>0, <2>1 DEF ToNear
    <2>3. Run(held["shipped"], 0, sent["near"], ready["near"] = "closed")
      BY <2>1 DEF ToFar
    <2>4. HasClose(held["shipped"]) <=> ready["near"] = "closed"
      BY <1>s, <2>3, RunEnds, BridgeTypes
    <2>5. shipperId' = (IF ready["near"] = "closed" THEN "forgotten" ELSE "known")
      BY <1>5, <2>4 DEF Ship
    <2>6. ready["near"] # "closed" => Run(Log("near"), 0, 0, FALSE) /\ Run(<<>>, 0, 0, FALSE)
      BY <2>2, RunEmpty
    <2>7. 0 \in 0..sent'["far"] /\ (up' => shipperId' # "unused")
      BY <2>1, <2>5
    <2>8. up' /\ shipperId' = "known" => \E n \in 0..sent'["far"] :
            Run(Log("near")', 0, n, FALSE) /\ Run(home', n, sent'["far"], ready'["bridge"] = "closed")
      <3>1. sent'["far"] = 0 /\ (ready'["bridge"] = "closed") = FALSE /\ home' = <<>>
        BY <2>1
      <3>2. ready["near"] # "closed" => Run(Log("near")', 0, 0, FALSE) /\ Run(home', 0, 0, FALSE)
        BY <2>1, <2>6
      <3> QED BY <2>5, <2>7, <3>1, <3>2
    <2>9. ("near" \in quit)' = ("near" \in quit) /\ sent' = sent /\ up' = up
      BY <2>1
    <2> QED BY <1>0, <2>1, <2>7, <2>8, <2>9 DEF ToNear
  <1>6. CASE MessageComesHome
    <2>1. CASE shipperId # "known"
      BY <1>0, <1>6, <2>1 DEF MessageComesHome, ToNear, idVars, Log
    <2>2. CASE shipperId = "known"
      <3>1. up
        BY <1>0, <2>2 DEF ShipperSide
      <3>2. ToEnd("near", <<Head(home)>>) /\ Head(home) # CloseEvent /\ home # <<>> /\ home' = Tail(home)
        BY <1>0, <1>6, <2>2, <3>1 DEF MessageComesHome, ShipperSide
      <3>3. Log("near")' = Append(Log("near"), Head(home))
        BY <1>0, <1>s, <1>6, <3>2, ToEndLog DEF MessageComesHome
      <3>4. PICK n \in 0..sent["far"] : Run(Log("near"), 0, n, FALSE) /\ Run(home, n, sent["far"], ready["bridge"] = "closed")
        BY <1>0, <2>2, <3>1 DEF ToNear
      <3>5. n \in Nat /\ 0 <= n /\ n <= sent["far"] /\ (ready["bridge"] = "closed") \in BOOLEAN
        BY <1>s
      <3>6. n < sent["far"] /\ Head(home) = n + 1 /\ Run(Tail(home), n + 1, sent["far"], ready["bridge"] = "closed")
        <4>1. home \in Seq(Int) /\ sent["far"] \in Nat
          BY <1>0, <1>s
        <4> QED BY <3>2, <3>4, <3>5, <4>1, RunTail
      <3>7. Run(Log("near")', 0, n + 1, FALSE)
        <4>1. Log("near") \in Seq(Int) /\ 0 \in Nat
          BY <1>0
        <4>2. Run(Append(Log("near"), n + 1), 0, n + 1, FALSE)
          BY <3>4, <3>5, <4>1, RunAppend
        <4> QED BY <3>3, <3>6, <4>2
      <3>8. n + 1 \in 0..sent["far"] /\ n + 1 \in 0..MaxMessages
        BY <1>s, <3>5, <3>6
      <3>9. ~HasClose(Log("near"))'
        BY <3>7, <3>5 DEF Run, HasClose, CloseEvent
      <3> QED BY <1>0, <1>6, <2>2, <3>2, <3>6, <3>7, <3>8, <3>9 DEF MessageComesHome, ToNear, idVars
    <2> QED BY <2>1, <2>2
  <1>7. CASE CloseComesHome
    <2>1. CASE shipperId # "known"
      <3>1. Log("near")' = Log("near") /\ UNCHANGED <<shipperId, ready, quit, sent, up>>
        BY <1>7, <2>1 DEF CloseComesHome, socketVars, Log
      <3> QED BY <1>0, <2>1, <3>1 DEF ToNear
    <2>2. CASE shipperId = "known"
      <3>1. up
        BY <1>0, <2>2 DEF ShipperSide
      <3>2. ToEnd("near", <<CloseEvent>>) /\ Head(home) = CloseEvent /\ home # <<>> /\ accepted' = accepted
        BY <1>0, <1>7, <2>2, <3>1 DEF CloseComesHome, ShipperSide
      <3>3. Log("near")' = Append(Log("near"), CloseEvent)
        BY <1>0, <1>s, <3>2, ToEndLog
      <3>4. PICK n \in 0..sent["far"] : Run(Log("near"), 0, n, FALSE) /\ Run(home, n, sent["far"], ready["bridge"] = "closed")
        BY <1>0, <2>2, <3>1 DEF ToNear
      <3>5. n \in Nat /\ 0 <= n /\ n <= sent["far"] /\ (ready["bridge"] = "closed") \in BOOLEAN
        BY <1>s
      <3>6. n = sent["far"] /\ ready["bridge"] = "closed"
        <4>1. home \in Seq(Int) /\ sent["far"] \in Nat
          BY <1>0, <1>s
        <4> QED BY <3>2, <3>4, <3>5, <4>1, RunTail
      <3>7. Run(Log("near")', 0, sent["far"], TRUE)
        <4>1. Log("near") \in Seq(Int) /\ 0 \in Nat
          BY <1>0
        <4>2. Run(Append(Log("near"), CloseEvent), 0, n, TRUE)
          BY <3>4, <3>5, <4>1, RunAppend
        <4> QED BY <3>3, <3>6, <4>2
      <3>8. shipperId' = "forgotten" /\ ready'["bridge"] = ready["bridge"] /\ sent' = sent
        BY <1>0, <1>7, <2>2 DEF CloseComesHome
      <3> QED BY <1>s, <3>6, <3>7, <3>8 DEF ToNear
    <2> QED BY <2>1, <2>2
  <1>8. CASE FarCreated
    <2>1. Log("near")' = Log("near") /\ ready'["bridge"] = ready["bridge"] /\ ready'["near"] = ready["near"]
      BY <1>0, <1>8 DEF FarCreated, Log
    <2> QED BY <1>1, <1>8, <2>1 DEF FarCreated
  <1>9. CASE EventComesOver
    <2>1. CASE farId # "known"
      <3>1. Log("near")' = Log("near") /\ ready' = ready
        BY <1>9, <2>1 DEF EventComesOver, socketVars, Log
      <3> QED BY <1>1, <1>9, <3>1 DEF EventComesOver
    <2>2. CASE farId = "known"
      <3>1. ToEnd("far", <<Head(over)>>) /\ accepted' = accepted /\ Head(over) \in 0..MaxMessages
        BY <1>9, <2>2, BridgeTypes, HeadTailProperties, SMTT(30) DEF EventComesOver, HeadMessage
      <3>2. Log("near")' = Log("near")
        BY <1>0, <3>1, ToEndLog
      <3>3. ready'["bridge"] = ready["bridge"] /\ ready'["near"] = ready["near"]
        BY <1>0, <1>9, <2>2 DEF EventComesOver
      <3> QED BY <1>1, <1>9, <3>2, <3>3 DEF EventComesOver
    <2> QED BY <2>1, <2>2
  <1>10. CASE FarAccepts
    <2>1. Log("near")' = Log("near") /\ ready'["bridge"] = ready["bridge"] /\ ready'["near"] = ready["near"]
      BY <1>0, <1>10, AcceptLog DEF FarAccepts
    <2> QED BY <1>1, <1>10, <2>1 DEF FarAccepts, idVars
  <1>11. CASE FarSends
    <2>1. Log("near")' = Log("near") /\ UNCHANGED <<ready, shipperId, up, quit>> /\ home' = Append(home, sent["far"] + 1)
          /\ sent'["far"] = sent["far"] + 1 /\ farId # "unused"
      BY <1>0, <1>11, <1>s DEF FarSends, socketVars, idVars, Log, FarSide, CanFarSend
    <2>2. ready["bridge"] # "closed"
      BY <1>11 DEF FarSends, CanFarSend
    <2>3. ASSUME up, shipperId = "known"
          PROVE  \E n \in 0..sent'["far"] : Run(Log("near")', 0, n, FALSE) /\ Run(home', n, sent'["far"], FALSE)
      <3>1. PICK n \in 0..sent["far"] : Run(Log("near"), 0, n, FALSE) /\ Run(home, n, sent["far"], FALSE)
        BY <1>0, <2>2, <2>3 DEF ToNear
      <3>2. n \in Nat /\ n <= sent["far"] /\ n \in 0..(sent["far"] + 1)
        BY <1>s
      <3>3. Run(home', n, sent["far"] + 1, FALSE)
        BY <1>0, <1>s, <2>1, <3>1, <3>2, RunAppend
      <3> QED BY <2>1, <3>1, <3>2, <3>3
    <2>4. up => shipperId # "unused"
      BY <1>0, <2>1 DEF ShipperSide
    <2> QED BY <1>0, <2>1, <2>2, <2>3, <2>4 DEF ToNear
  <1>12. CASE FarCloses
    <2>1. farId # "unused" /\ ready'["bridge"] = "closed" /\ ready'["near"] = ready["near"] /\ UNCHANGED <<shipperId, up, sent>>
          /\ quit \subseteq quit'
      BY <1>0, <1>12 DEF FarCloses
    <2>2. Log("near")' = Log("near")
      <3>1. CASE shape = "bind"
        BY <1>0, <1>12, <1>s, <3>1, ToEndLog DEF FarCloses
      <3>2. CASE shape = "serve"
        BY <1>0, <1>12, <3>2 DEF FarCloses, Log
      <3> QED BY <1>0, <3>1, <3>2
    <2>3. up => shipperId # "unused"
      BY <1>0, <2>1 DEF ShipperSide
    <2>4. ASSUME up, shipperId = "known"
          PROVE  \E n \in 0..sent["far"] : Run(Log("near"), 0, n, FALSE) /\ Run(home', n, sent["far"], TRUE)
      <3>1. PICK n \in 0..sent["far"] : Run(Log("near"), 0, n, FALSE) /\ Run(home, n, sent["far"], ready["bridge"] = "closed")
        BY <1>0, <2>4 DEF ToNear
      <3>2. n \in Nat /\ n <= sent["far"]
        BY <1>s
      <3>3. CASE ready["bridge"] = "closed"
        BY <1>12, <3>1, <3>3 DEF FarCloses
      <3>4. CASE ready["bridge"] # "closed"
        <4>1. home' = Append(home, CloseEvent)
          BY <1>12, <2>4, <3>4 DEF FarCloses
        <4>2. Run(home', n, sent["far"], TRUE)
          BY <1>0, <1>s, <3>1, <3>2, <3>4, <4>1, RunAppend
        <4> QED BY <3>1, <4>2
      <3> QED BY <3>3, <3>4
    <2> QED BY <1>0, <2>1, <2>2, <2>3, <2>4 DEF ToNear
  <1>13. CASE Disposed
    <2>1. ~up'
      BY <1>13 DEF Disposed
    <2>2. CASE Log("near")' = Log("near")
      BY <1>0, <2>1, <2>2 DEF ToNear
    <2>3. CASE ToEnd("near", <<CloseEvent>>) /\ up /\ shipperId = "known"
      <3>1. Log("near")' = Append(Log("near"), CloseEvent)
        BY <1>0, <1>s, <1>13, <2>3, ToEndLog DEF Disposed
      <3>2. PICK n \in 0..sent["far"] : Run(Log("near"), 0, n, FALSE)
        BY <1>0, <2>3 DEF ToNear
      <3>3. Run(Log("near")', 0, n, TRUE) /\ n \in 0..MaxMessages
        <4>1. n \in Nat /\ 0 <= n /\ n \in 0..MaxMessages
          BY <1>s
        <4>2. Log("near") \in Seq(Int) /\ 0 \in Nat
          BY <1>0
        <4>3. Run(Append(Log("near"), CloseEvent), 0, n, TRUE)
          BY <3>2, <4>1, <4>2, RunAppend
        <4> QED BY <3>1, <4>1, <4>3
      <3> QED BY <2>1, <3>3 DEF ToNear
    <2>4. CASE ToEnd("far", <<CloseEvent>>)
      BY <1>0, <1>s, <1>13, <2>2, <2>4, ToEndLog DEF Disposed
    <2>5. CASE UNCHANGED <<heard, held>>
      BY <2>2, <2>5 DEF Log
    <2> QED BY <1>13, <2>3, <2>4, <2>5 DEF Disposed
  <1>14. CASE UNCHANGED bridgeVars
    BY <1>1, <1>14 DEF bridgeVars, socketVars, idVars, Log
  <1> QED BY <1>2, <1>3, <1>4, <1>5, <1>6, <1>7, <1>8, <1>9, <1>10, <1>11, <1>12, <1>13, <1>14 DEF BridgeNext

LEMMA ToFarStep ==
  ASSUME BridgeInv, [BridgeNext]_bridgeVars PROVE ToFar'
  <1> USE DEF BridgeInv
  <1>0. /\ BridgeType /\ ShipperSide /\ FarSide /\ ToFar /\ ToNear
        /\ ready \in [Sockets -> {"connecting", "open", "closed"}] /\ Sockets = {"near", "shipped", "far", "bridge"}
        /\ up \in BOOLEAN /\ shipperId \in {"unused", "known", "forgotten"} /\ farId \in {"unused", "known", "forgotten"}
        /\ heard \in [{"near", "far"} -> Seq(0..MaxMessages)] /\ held \in [Sockets -> Seq(0..MaxMessages)]
        /\ shape \in {"serve", "bind"}
    BY BridgeTypes DEF BridgeType, Sockets
  <1>q. /\ Log("far") \in Seq(Int) /\ over \in Seq(Int) /\ early \in Seq(Int) /\ held["shipped"] \in Seq(Int)
        /\ home \in Seq(Int)
    BY BridgeTypes, LogType
  <1>s. /\ MaxMessages \in Nat /\ sent["near"] \in 0..MaxMessages /\ sent["near"] \in Nat /\ 0 <= sent["near"]
        /\ sent \in [{"near", "far"} -> 0..MaxMessages] /\ sent["near"] + 1 \in Int
        /\ CloseEvent \in 0..MaxMessages /\ CloseEvent \in Int /\ CloseEvent # HeadMessage
        /\ 0 \in Nat /\ (\A n \in Nat : 0 <= n) /\ (\A n \in 0..MaxMessages : n \in Nat)
        /\ over # <<>> /\ Head(over) # HeadMessage => Head(over) \in 0..MaxMessages
    BY BridgeTypes, HeadTailProperties, SMTT(30) DEF CloseEvent, HeadMessage
  <1>1. ASSUME UNCHANGED <<over, early, farId, up, shipperId>>, Log("far")' = Log("far"), quit \subseteq quit',
               sent'["near"] = sent["near"], held'["shipped"] = held["shipped"],
               ready'["near"] = "closed" <=> ready["near"] = "closed"
        PROVE  ToFar'
    BY <1>0, <1>1 DEF ToFar
  <1>2. CASE NearAccepts
    <2>1. Log("far")' = Log("far") /\ held'["shipped"] = held["shipped"]
          /\ ready'["near"] = (IF ready["near"] = "closed" THEN "closed" ELSE "open")
      BY <1>0, <1>2, AcceptLog DEF NearAccepts
    <2> QED BY <1>1, <1>2, <2>1 DEF NearAccepts, idVars
  \* A message or a close is posted.
  <1>3. ASSUME NEW x \in Int, NEW b \in Nat, NEW c \in BOOLEAN,
               IF c THEN x = CloseEvent /\ b = sent["near"] ELSE x = sent["near"] + 1 /\ b = sent["near"] + 1,
               up, shipperId # "forgotten", ready["near"] # "closed",
               over' = (IF shipperId = "unused" THEN over ELSE Append(over, x)),
               held'["shipped"] = (IF shipperId = "unused" THEN Append(held["shipped"], x) ELSE held["shipped"]),
               c <=> ready'["near"] = "closed",
               shipperId' = (IF c /\ shipperId = "known" THEN "forgotten" ELSE shipperId),
               UNCHANGED <<early, farId, up>>, Log("far")' = Log("far"), quit \subseteq quit', sent'["near"] = b
        PROVE  ToFar'
    <2>0. \A s \in Seq(Int), a \in Nat : a <= sent["near"] /\ Run(s, a, sent["near"], FALSE) => Run(Append(s, x), a, b, c)
      BY <1>s, <1>3, RunAppend
    <2>1. farId = "known" => \E n \in 0..b : Run(Log("far"), 0, n, FALSE) /\ Run(Append(over, x), n, b, c)
      <3> SUFFICES ASSUME farId = "known"
                   PROVE  \E n \in 0..b : Run(Log("far"), 0, n, FALSE) /\ Run(Append(over, x), n, b, c)
        OBVIOUS
      <3>1. PICK n \in 0..sent["near"] : Run(Log("far"), 0, n, FALSE) /\ Run(over, n, sent["near"], FALSE)
        BY <1>0, <1>3 DEF ToFar
      <3>2. n \in Nat /\ n <= sent["near"] /\ n \in 0..b
        BY <1>s, <1>3
      <3> QED BY <1>q, <2>0, <3>1, <3>2
    <2>2. shipperId = "unused" => Run(Append(held["shipped"], x), 0, b, c)
      <3>1. shipperId = "unused" => Run(held["shipped"], 0, sent["near"], FALSE)
        BY <1>0, <1>3 DEF ToFar
      <3> QED BY <1>q, <1>s, <2>0, <3>1
    <2>3. farId = "unused" /\ shipperId # "unused" => \E k \in 1..Len(Append(over, x)) :
            Append(over, x)[k] = HeadMessage /\ Run(Line(early, Append(over, x), k), 0, b, c)
      <3> SUFFICES ASSUME farId = "unused", shipperId # "unused"
                   PROVE  \E k \in 1..Len(Append(over, x)) :
                            Append(over, x)[k] = HeadMessage /\ Run(Line(early, Append(over, x), k), 0, b, c)
        OBVIOUS
      <3>1. PICK k \in 1..Len(over) : over[k] = HeadMessage /\ Run(Line(early, over, k), 0, sent["near"], FALSE)
        BY <1>0, <1>3 DEF ToFar
      <3>2. Line(early, over, k) \in Seq(Int)
        BY <1>q, LineType
      <3>3. Run(Append(Line(early, over, k), x), 0, b, c)
        BY <1>s, <2>0, <3>1, <3>2
      <3>4. Line(early, Append(over, x), k) = Append(Line(early, over, k), x) /\ k \in 1..Len(Append(over, x)) /\ Append(over, x)[k] = over[k]
        BY <1>q, LineGrows
      <3> QED BY <3>1, <3>3, <3>4
    <2>4. up /\ "far" \notin quit => ~HasClose(Log("far"))
      BY <1>0, <1>3 DEF ToFar
    <2>5. /\ (shipperId' = "forgotten") = c \/ shipperId = "unused"
          /\ shipperId' = "unused" <=> shipperId = "unused"
      BY <1>0, <1>3
    <2>6. shipperId = "unused" => farId = "unused"
      BY <1>0, <1>3 DEF ShipperSide
    <2>7. (farId = "known")' => \E n \in 0..sent'["near"] :
             Run(Log("far")', 0, n, FALSE) /\ Run(over', n, sent'["near"], shipperId' = "forgotten")
      BY <1>3, <2>1, <2>5, <2>6
    <2>8. (up /\ farId = "unused" /\ shipperId # "unused")' => \E k \in 1..Len(over') :
             over'[k] = HeadMessage /\ Run(Line(early', over', k), 0, sent'["near"], shipperId' = "forgotten")
      BY <1>3, <2>3, <2>5
    <2>9. (up /\ shipperId = "unused")' => Run(held'["shipped"], 0, sent'["near"], ready'["near"] = "closed")
      BY <1>3, <2>2, <2>5
    <2>10. \E n \in 0..MaxMessages, d \in BOOLEAN : Run(Log("far")', 0, n, d)
      BY <1>0, <1>3 DEF ToFar
    <2>11. (up /\ "far" \notin quit)' => ~HasClose(Log("far")')
      BY <1>3, <2>4
    <2> QED BY <2>7, <2>8, <2>9, <2>10, <2>11 DEF ToFar
  <1>4. CASE NearSends
    <2>1. sent["near"] + 1 # CloseEvent /\ ready["near"] = "open" /\ up
      BY <1>4, <1>s DEF NearSends, CloseEvent
    <2>2. shipperId # "forgotten" /\ (accepted["shipped"] <=> shipperId # "unused")
      BY <1>0, <2>1 DEF ShipperSide
    <2>3. /\ over' = (IF shipperId = "unused" THEN over ELSE Append(over, sent["near"] + 1))
          /\ held'["shipped"] = (IF shipperId = "unused" THEN Append(held["shipped"], sent["near"] + 1) ELSE held["shipped"])
          /\ shipperId' = shipperId /\ held'["far"] = held["far"]
      BY <1>0, <1>4, <2>1, <2>2 DEF NearSends, ThroughShipped
    <2>4. Log("far")' = Log("far") /\ sent'["near"] = sent["near"] + 1 /\ sent["near"] + 1 \in Nat
      <3>1. heard' = heard
        BY <1>4 DEF NearSends
      <3>2. Log("far")' = Log("far")
        BY <2>3, <3>1 DEF Log
      <3>3. sent' = [sent EXCEPT !["near"] = @ + 1]
        BY <1>4 DEF NearSends
      <3>4. sent'["near"] = sent["near"] + 1 /\ sent["near"] + 1 \in Nat
        BY <1>s, <3>3
      <3> QED BY <3>2, <3>4
    <2>5. UNCHANGED <<early, farId, up, quit, ready>>
      BY <1>4 DEF NearSends
    <2> DEFINE x == sent["near"] + 1
    <2>6. x \in Int /\ x \in Nat /\ FALSE \in BOOLEAN /\ ready'["near"] # "closed" /\ quit \subseteq quit'
      BY <1>s, <2>1, <2>5
    <2>7. x = sent["near"] + 1 /\ sent'["near"] = x
      BY <2>4
    <2>8. over' = (IF shipperId = "unused" THEN over ELSE Append(over, x))
          /\ held'["shipped"] = (IF shipperId = "unused" THEN Append(held["shipped"], x) ELSE held["shipped"])
      BY <2>3
    <2>9. FALSE <=> ready'["near"] = "closed"
      BY <2>6
    <2>10. shipperId' = (IF FALSE /\ shipperId = "known" THEN "forgotten" ELSE shipperId)
      BY <2>3
    <2> HIDE DEF x
    <2> QED BY <1>3, <2>1, <2>2, <2>4, <2>5, <2>6, <2>7, <2>8, <2>9, <2>10
  <1>5. CASE NearCloses
    <2>1. ready["near"] # "closed" /\ up
      BY <1>5 DEF NearCloses
    <2>2. shipperId # "forgotten" /\ (accepted["shipped"] <=> shipperId # "unused") /\ ready["shipped"] # "closed"
      BY <1>0, <2>1 DEF ShipperSide
    <2>3. /\ over' = (IF shipperId = "unused" THEN over ELSE Append(over, CloseEvent))
          /\ held'["shipped"] = (IF shipperId = "unused" THEN Append(held["shipped"], CloseEvent) ELSE held["shipped"])
          /\ shipperId' = (IF shipperId = "known" THEN "forgotten" ELSE shipperId)
          /\ held'["far"] = held["far"] /\ heard'["far"] = heard["far"] /\ ready'["near"] = "closed"
      BY <1>0, <1>5, <2>1, <2>2 DEF NearCloses, ThroughShipped
    <2>4. Log("far")' = Log("far")
      BY <2>3 DEF Log
    <2>5. UNCHANGED <<early, farId, up, sent>> /\ quit \subseteq quit'
      BY <1>5 DEF NearCloses
    <2> QED BY <1>3, <1>s, <2>1, <2>2, <2>3, <2>4, <2>5
  <1>6. CASE Ship
    <2>1. /\ up /\ shipperId = "unused" /\ farId = "unused" /\ over = <<>> /\ early = <<>>
          /\ over' = Append(<<>> \o held["shipped"], HeadMessage) /\ UNCHANGED <<early, farId, up, quit, sent>>
          /\ held'["far"] = held["far"] /\ heard' = heard /\ shipperId' \in {"known", "forgotten"}
      BY <1>0, <1>6 DEF Ship, ShipperSide
    <2>2. Run(held["shipped"], 0, sent["near"], ready["near"] = "closed")
      BY <1>0, <2>1 DEF ToFar
    <2>3. HasClose(held["shipped"]) <=> ready["near"] = "closed"
      BY <1>q, <1>s, <2>2, RunEnds
    <2>4. (shipperId' = "forgotten") = (ready["near"] = "closed")
      BY <1>6, <2>3 DEF Ship
    <2> DEFINE s == held["shipped"]
    <2> DEFINE k == Len(s) + 1
    <2>5. Line(<<>>, Append(<<>> \o s, HeadMessage), k) = s /\ k \in 1..Len(Append(<<>> \o s, HeadMessage))
          /\ Append(<<>> \o s, HeadMessage)[k] = HeadMessage
      BY <1>q, LineStarts DEF HeadMessage
    <2> HIDE DEF s, k
    <2>6. k \in 1..Len(over') /\ over'[k] = HeadMessage /\ Line(early', over', k) = s
      BY <2>1, <2>5 DEF s
    <2>7. Run(Line(early', over', k), 0, sent'["near"], shipperId' = "forgotten")
      BY <2>1, <2>2, <2>4, <2>6 DEF s
    <2>8. \E j \in 1..Len(over') : over'[j] = HeadMessage /\ Run(Line(early', over', j), 0, sent'["near"], shipperId' = "forgotten")
      BY <2>6, <2>7
    <2>9. Log("far")' = Log("far")
      BY <2>1 DEF Log
    <2>10. up /\ "far" \notin quit => ~HasClose(Log("far"))
      BY <1>0, <2>1 DEF ToFar
    <2> QED BY <1>0, <2>1, <2>8, <2>9, <2>10 DEF ToFar
  <1>7. CASE MessageComesHome
    <2>1. Log("far")' = Log("far") /\ held'["shipped"] = held["shipped"]
      <3>1. CASE UNCHANGED <<heard, held>>
        BY <3>1 DEF Log
      <3>2. CASE ToEnd("near", <<Head(home)>>)
        BY <1>0, <1>7, <3>2, ToEndLog, BridgeTypes, HeadTailProperties DEF MessageComesHome
      <3> QED BY <1>7, <3>1, <3>2 DEF MessageComesHome
    <2> QED BY <1>1, <1>7, <2>1 DEF MessageComesHome, idVars
  <1>8. CASE CloseComesHome
    <2>1. CASE shipperId # "known"
      <3>1. Log("far")' = Log("far") /\ UNCHANGED <<over, shipperId, held, ready, early, farId, up, quit, sent>>
        BY <1>8, <2>1 DEF CloseComesHome, socketVars, Log
      <3> QED BY <1>1, <3>1
    <2>2. CASE shipperId = "known"
      <3>1. up
        BY <1>0, <2>2 DEF ShipperSide
      <3>2. ToEnd("near", <<CloseEvent>>) /\ Head(home) = CloseEvent /\ home # <<>> /\ accepted' = accepted
        BY <1>0, <1>8, <2>2, <3>1 DEF CloseComesHome, ShipperSide
      <3>3. Log("far")' = Log("far")
        BY <1>0, <1>s, <3>2, ToEndLog
      <3>4. PICK n \in 0..sent["far"] : Run(home, n, sent["far"], ready["bridge"] = "closed")
        BY <1>0, <2>2, <3>1 DEF ToNear
      <3>5. ready["bridge"] = "closed"
        <4>1. n \in Nat /\ n <= sent["far"] /\ sent["far"] \in Nat /\ (ready["bridge"] = "closed") \in BOOLEAN
          BY BridgeTypes
        <4> QED BY <1>q, <3>2, <3>4, <4>1, RunTail
      <3>6. farId = "forgotten"
        BY <1>0, <3>5 DEF FarSide
      <3>7. "far" \notin quit => ~HasClose(Log("far"))
        BY <1>0, <2>2, <3>1 DEF ToFar
      <3>8. shipperId' = "forgotten" /\ UNCHANGED <<farId, up, quit, sent>>
        BY <1>8, <2>2 DEF CloseComesHome
      <3> QED BY <1>0, <3>3, <3>6, <3>7, <3>8 DEF ToFar
    <2> QED BY <2>1, <2>2
  <1>9. CASE FarCreated
    <2>1. up /\ shipperId # "unused" /\ farId = "unused"
      BY <1>0, <1>9 DEF FarCreated, ShipperSide, FarSide
    <2>2. PICK k \in 1..Len(over) : over[k] = HeadMessage /\ Run(Line(early, over, k), 0, sent["near"], shipperId = "forgotten")
      BY <1>0, <2>1 DEF ToFar
    <2> DEFINE c == shipperId = "forgotten"
    <2>3. k = 1 /\ over # <<>>
      <3>1. \A i \in 1..Len(over) : i # k => over[i] # HeadMessage
        BY <1>q, <1>s, <2>2, LineEvents
      <3>2. over[1] = HeadMessage /\ 1 \in 1..Len(over)
        BY <1>9, <1>q DEF FarCreated
      <3> QED BY <3>1, <3>2
    <2>4. /\ Len(Line(early, over, 1)) = Len(early) + Len(over) - 1
          /\ \A i \in 1..Len(early) : Line(early, over, 1)[i] = early[i]
          /\ \A i \in 1..Len(over) : i > 1 => Line(early, over, 1)[Len(early) + i - 1] = over[i]
      BY <1>q, <2>2, <2>3, LineType, ZenonT(60)
    <2>5. Len(early) \in Nat /\ Len(over) \in Nat \ {0} /\ Tail(over) \in Seq(Int) /\ Len(Tail(over)) = Len(over) - 1
          /\ \A i \in 1..(Len(over) - 1) : Tail(over)[i] = over[i + 1]
      BY <1>q, <2>3
    <2>6. /\ Len(early) + Len(over) - 1 = sent["near"] + (IF c THEN 1 ELSE 0)
          /\ \A i \in 1..Len(early) : early[i] = IF i <= sent["near"] THEN i ELSE CloseEvent
          /\ \A i \in 1..(Len(over) - 1) :
               Tail(over)[i] = IF Len(early) + i <= sent["near"] THEN Len(early) + i ELSE CloseEvent
      <3>1. Len(early) + Len(over) - 1 = sent["near"] + (IF c THEN 1 ELSE 0)
        BY <1>s, <2>2, <2>3, <2>4 DEF Run
      <3>2. \A i \in 1..(Len(early) + Len(over) - 1) : Line(early, over, 1)[i] = IF i <= sent["near"] THEN i ELSE CloseEvent
        BY <1>s, <2>2, <2>3, <2>4 DEF Run
      <3>3. \A i \in 1..Len(early) : early[i] = IF i <= sent["near"] THEN i ELSE CloseEvent
        BY <2>4, <2>5, <3>2
      <3>4. ASSUME NEW i \in 1..(Len(over) - 1)
            PROVE  Tail(over)[i] = IF Len(early) + i <= sent["near"] THEN Len(early) + i ELSE CloseEvent
        <4>1. i + 1 \in 1..Len(over) /\ i + 1 > 1 /\ Len(early) + (i + 1) - 1 = Len(early) + i /\ Len(early) + i \in 1..(Len(early) + Len(over) - 1)
          BY <2>5
        <4>2. Line(early, over, 1)[Len(early) + i] = over[i + 1]
          BY <2>4, <4>1
        <4> QED BY <2>5, <3>2, <4>1, <4>2
      <3> QED BY <3>1, <3>3, <3>4
    <2>7. over' = Tail(over) /\ Log("far")' = early /\ shipperId' = shipperId /\ sent' = sent /\ up' = up
          /\ farId' = (IF HasClose(early) THEN "forgotten" ELSE "known")
      <3>1. heard["far"] = <<>> /\ held'["far"] = early
        BY <1>0, <1>9, <2>1 DEF FarCreated, FarSide, ShipperSide
      <3> QED BY <1>9, <1>q, <3>1 DEF FarCreated, Log
    <2>8. CASE HasClose(early)
      <3>1. PICK i \in 1..Len(early) : early[i] = CloseEvent
        BY <1>q, <2>8 DEF HasClose
      <3>2. i > sent["near"]
        BY <1>s, <2>5, <2>6, <3>1 DEF CloseEvent
      <3>3. c /\ Len(early) = sent["near"] + 1
        BY <1>s, <2>5, <2>6, <3>2
      <3>4. Run(early, 0, sent["near"], TRUE)
        BY <1>s, <2>5, <2>6, <3>3, SMTT(30) DEF Run
      <3> QED BY <1>s, <2>7, <2>8, <3>3, <3>4 DEF ToFar
    <2>9. CASE ~HasClose(early)
      <3>1. Len(early) <= sent["near"]
        <4> SUFFICES ASSUME Len(early) > sent["near"] PROVE FALSE
          BY <1>s, <2>5
        <4>1. Len(early) \in 1..Len(early) /\ Len(early) \in DOMAIN early
          BY <1>q, <1>s, <2>5, SMTT(30)
        <4>2. early[Len(early)] = CloseEvent
          <5>1. ~(Len(early) <= sent["near"])
            BY <1>s, <2>5
          <5> QED BY <2>6, <4>1, <5>1
        <4> QED BY <2>9, <4>1, <4>2 DEF HasClose
      <3>2. Run(early, 0, Len(early), FALSE)
        BY <1>s, <2>5, <2>6, <3>1 DEF Run
      <3>3. Run(Tail(over), Len(early), sent["near"], c)
        <4>1. Len(Tail(over)) = sent["near"] - Len(early) + (IF c THEN 1 ELSE 0)
          BY <1>s, <2>5, <2>6, SMTT(30)
        <4>2. \A i \in 1..Len(Tail(over)) : Tail(over)[i] = IF i <= sent["near"] - Len(early) THEN Len(early) + i ELSE CloseEvent
          BY <1>s, <2>5, <2>6, SMTT(30)
        <4> QED BY <4>1, <4>2 DEF Run
      <3>4. Len(early) \in 0..sent["near"] /\ Len(early) \in 0..MaxMessages
        BY <1>s, <2>5, <3>1
      <3> QED BY <1>s, <2>1, <2>7, <2>9, <3>2, <3>3, <3>4 DEF ToFar
    <2> QED BY <2>8, <2>9
  <1>10. CASE EventComesOver
    <2>0. up /\ shipperId # "unused" /\ over # <<>> /\ Head(over) # HeadMessage /\ over' = Tail(over)
          /\ UNCHANGED <<shipperId, up, quit, sent>> /\ Head(over) \in 0..MaxMessages
      BY <1>0, <1>10, <1>s DEF EventComesOver, ShipperSide
    <2>1. CASE farId = "unused"
      <3>1. early' = Append(early, Head(over)) /\ UNCHANGED <<heard, held, ready, farId>>
        BY <1>10, <2>1 DEF EventComesOver, socketVars
      <3>2. PICK k \in 1..Len(over) : over[k] = HeadMessage /\ Run(Line(early, over, k), 0, sent["near"], shipperId = "forgotten")
        BY <1>0, <2>0, <2>1 DEF ToFar
      <3>3. k \in 2..Len(over)
        BY <1>q, <2>0, <3>2
      <3>4. Line(early', over', k - 1) = Line(early, over, k) /\ k - 1 \in 1..Len(over') /\ over'[k - 1] = over[k]
        BY <1>q, <2>0, <3>1, <3>3, LineMoves
      <3>5. Log("far")' = Log("far") /\ (up /\ "far" \notin quit /\ HasClose(Log("far")) => Run(Log("far"), 0, sent["near"], TRUE) /\ shipperId = "forgotten")
        BY <1>0, <3>1 DEF Log, ToFar
      <3>6. \E j \in 1..Len(over') : over'[j] = HeadMessage /\ Run(Line(early', over', j), 0, sent'["near"], shipperId' = "forgotten")
        BY <2>0, <3>2, <3>4
      <3> QED BY <1>0, <2>0, <2>1, <3>1, <3>5, <3>6 DEF ToFar
    <2>2. CASE farId = "forgotten"
      <3>1. Log("far")' = Log("far") /\ UNCHANGED <<heard, held, ready, farId>>
        BY <1>10, <2>2 DEF EventComesOver, socketVars, Log
      <3> QED BY <1>0, <2>0, <2>2, <3>1 DEF ToFar
    <2>3. CASE farId = "known"
      <3>1. ToEnd("far", <<Head(over)>>) /\ accepted' = accepted /\ farId' = (IF Head(over) = CloseEvent THEN "forgotten" ELSE farId)
        BY <1>10, <2>3 DEF EventComesOver
      <3>2. Log("far")' = Append(Log("far"), Head(over))
        BY <1>0, <2>0, <3>1, ToEndLog
      <3>3. PICK n \in 0..sent["near"] : Run(Log("far"), 0, n, FALSE) /\ Run(over, n, sent["near"], shipperId = "forgotten")
        BY <1>0, <2>3 DEF ToFar
      <3>4. n \in Nat /\ 0 <= n /\ n <= sent["near"] /\ (shipperId = "forgotten") \in BOOLEAN
        BY <1>s
      <3>5. CASE Head(over) = CloseEvent
        <4>1. n = sent["near"] /\ shipperId = "forgotten"
          BY <1>q, <1>s, <2>0, <3>3, <3>4, <3>5, RunTail
        <4>2. Run(Append(Log("far"), CloseEvent), 0, n, TRUE)
          BY <1>q, <1>s, <3>3, <3>4, RunAppend
        <4>3. Run(Log("far")', 0, sent["near"], TRUE)
          BY <3>2, <3>5, <4>1, <4>2
        <4> QED BY <1>s, <2>0, <3>1, <3>5, <4>1, <4>3 DEF ToFar
      <3>6. CASE Head(over) # CloseEvent
        <4>1. n < sent["near"] /\ Head(over) = n + 1 /\ Run(Tail(over), n + 1, sent["near"], shipperId = "forgotten")
          BY <1>q, <1>s, <2>0, <3>3, <3>4, <3>6, RunTail
        <4>2. Run(Append(Log("far"), n + 1), 0, n + 1, FALSE)
          BY <1>q, <1>s, <3>3, <3>4, RunAppend
        <4>3. Run(Log("far")', 0, n + 1, FALSE)
          BY <3>2, <4>1, <4>2
        <4>4. n + 1 \in 0..sent["near"] /\ n + 1 \in 0..MaxMessages /\ 0 <= n + 1 /\ n + 1 \in Nat
          BY <1>s, <3>4, <4>1
        <4>5. ~HasClose(Log("far")')
          BY <4>3, <4>4 DEF Run, HasClose, CloseEvent
        <4> QED BY <2>0, <2>3, <3>1, <3>6, <4>1, <4>3, <4>4, <4>5 DEF ToFar
      <3> QED BY <3>5, <3>6
    <2> QED BY <1>0, <2>1, <2>2, <2>3
  <1>11. CASE FarAccepts
    <2>1. Log("far")' = Log("far") /\ held'["shipped"] = held["shipped"] /\ ready'["near"] = ready["near"]
      BY <1>0, <1>11, AcceptLog DEF FarAccepts
    <2> QED BY <1>1, <1>11, <2>1 DEF FarAccepts, idVars
  <1>12. CASE FarSends
    <2>1. Log("far")' = Log("far") /\ sent'["near"] = sent["near"]
      BY <1>12, <1>s DEF FarSends, socketVars, Log
    <2> QED BY <1>1, <1>12, <2>1 DEF FarSends, socketVars, idVars
  <1>13. CASE FarCloses
    <2>1. farId # "unused" /\ farId' = "forgotten" /\ UNCHANGED <<shipperId, up, sent>> /\ quit \subseteq quit'
          /\ (shape = "bind" => "far" \in quit' /\ up /\ ready["far"] # "closed")
      BY <1>0, <1>13 DEF FarCloses, FarSide
    <2>2. up => shipperId # "unused"
      BY <1>0, <2>1 DEF ShipperSide
    <2>3. CASE shape = "serve"
      <3>1. Log("far")' = Log("far")
        BY <1>0, <1>13, <2>3 DEF FarCloses, Log
      <3> QED BY <1>0, <2>1, <2>2, <3>1 DEF ToFar
    <2>4. CASE shape = "bind"
      <3>1. farId = "known" /\ ToEnd("far", <<CloseEvent>>) /\ accepted' = accepted
        BY <1>0, <1>13, <2>1, <2>4 DEF FarCloses, FarSide
      <3>2. Log("far")' = Append(Log("far"), CloseEvent)
        BY <1>0, <1>s, <3>1, ToEndLog
      <3>3. PICK n \in 0..sent["near"] : Run(Log("far"), 0, n, FALSE)
        BY <1>0, <3>1 DEF ToFar
      <3>4. n \in Nat /\ 0 <= n /\ n \in 0..MaxMessages
        BY <1>s
      <3>5. Run(Append(Log("far"), CloseEvent), 0, n, TRUE)
        BY <1>q, <1>s, <3>3, <3>4, RunAppend
      <3> QED BY <2>1, <2>2, <2>4, <3>2, <3>4, <3>5 DEF ToFar
    <2> QED BY <1>0, <2>3, <2>4
  <1>14. CASE Disposed
    <2>1. ~up' /\ farId' # "known" /\ accepted' = accepted
      BY <1>0, <1>14 DEF Disposed
    <2>2. CASE Log("far")' = Log("far")
      BY <1>0, <2>1, <2>2 DEF ToFar
    <2>3. CASE ToEnd("far", <<CloseEvent>>) /\ farId = "known"
      <3>2. Log("far")' = Append(Log("far"), CloseEvent)
        BY <1>0, <1>s, <2>1, <2>3, ToEndLog
      <3>3. PICK n \in 0..sent["near"] : Run(Log("far"), 0, n, FALSE)
        BY <1>0, <2>3 DEF ToFar
      <3>4. n \in Nat /\ 0 <= n /\ n \in 0..MaxMessages
        BY <1>s
      <3>5. Run(Append(Log("far"), CloseEvent), 0, n, TRUE)
        BY <1>q, <1>s, <3>3, <3>4, RunAppend
      <3> QED BY <2>1, <3>2, <3>4, <3>5 DEF ToFar
    <2>4. CASE ToEnd("near", <<CloseEvent>>)
      BY <1>0, <1>s, <2>1, <2>2, <2>4, ToEndLog
    <2>5. CASE UNCHANGED <<heard, held>>
      BY <2>2, <2>5 DEF Log
    <2> QED BY <1>14, <2>3, <2>4, <2>5 DEF Disposed
  <1>15. CASE UNCHANGED bridgeVars
    BY <1>1, <1>15 DEF bridgeVars, socketVars, idVars, Log
  <1> QED BY <1>2, <1>4, <1>5, <1>6, <1>7, <1>8, <1>9, <1>10, <1>11, <1>12, <1>13, <1>14, <1>15 DEF BridgeNext

LEMMA BridgeInitially == BridgeInit => BridgeInv
  <1> SUFFICES ASSUME BridgeInit PROVE BridgeInv
    OBVIOUS
  <1>0. MaxMessages \in Nat /\ 0 \in 0..MaxMessages
    BY BridgeAssumption
  <1>1. BridgeType
    BY <1>0 DEF BridgeInit, BridgeType, Sockets
  <1>2. /\ Log("near") = <<>> /\ Log("far") = <<>> /\ held["shipped"] = <<>> /\ ready["near"] # "closed"
        /\ ready["shipped"] # "closed" /\ sent["near"] = 0 /\ sent["far"] = 0
    BY DEF BridgeInit, Log, Sockets
  <1>3. ~HasClose(<<>>)
    BY DEF HasClose
  <1>4. Run(<<>>, 0, 0, FALSE)
    BY RunEmpty
  <1>5. ShipperSide
    BY <1>2, <1>3 DEF BridgeInit, ShipperSide, Sockets
  <1>6. FarSide
    BY <1>2 DEF BridgeInit, FarSide, Sockets
  <1>7. ToFar
    BY <1>0, <1>2, <1>3, <1>4 DEF BridgeInit, ToFar
  <1>8. ToNear
    BY <1>0, <1>2, <1>3, <1>4 DEF BridgeInit, ToNear
  <1> QED BY <1>1, <1>5, <1>6, <1>7, <1>8 DEF BridgeInv

LEMMA BridgeAlways == BridgeSpec => []BridgeInv
  <1>1. BridgeInv /\ [BridgeNext]_bridgeVars => BridgeInv'
    BY BridgeTypeStep, SidesStep, ToFarStep, ToNearStep DEF BridgeInv
  <1> QED BY BridgeInitially, <1>1, PTL DEF BridgeSpec

\* What an end has been given is the other one's messages, in order and without a gap,
\* and nothing after a close.
LEMMA RunInOrder ==
  ASSUME NEW n \in Nat, NEW c \in BOOLEAN, NEW s \in Seq(Int), Run(s, 0, n, c)
  PROVE  /\ SubSeq(s, 1, Len(s) - (IF HasClose(s) THEN 1 ELSE 0)) = Numbers(n)
         /\ c => s = Append(Numbers(n), CloseEvent)
  <1>1. Numbers(n) \in Seq(Int) /\ Len(Numbers(n)) = n /\ \A i \in 1..n : Numbers(n)[i] = i
    <2>1. Numbers(n) \in [1..n -> Int]
      BY DEF Numbers
    <2>2. \A f \in [1..n -> Int] : f \in Seq(Int) /\ Len(f) = n
      OBVIOUS
    <2> QED BY <2>1, <2>2 DEF Numbers
  <1>2. (HasClose(s) <=> c) /\ Len(s) = n + (IF c THEN 1 ELSE 0) /\ \A i \in 1..Len(s) : s[i] = IF i <= n THEN i ELSE CloseEvent
    <2>1. 0 \in Nat /\ 0 <= n
      OBVIOUS
    <2>2. HasClose(s) <=> c
      BY <2>1, RunEnds
    <2> QED BY <2>2 DEF Run
  <1> DEFINE t == SubSeq(s, 1, n)
  <1>3. n <= Len(s)
    BY <1>2
  <1>4. t \in Seq(Int) /\ Len(t) = n /\ \A i \in 1..n : t[i] = s[i]
    BY <1>3, SubSeqProperties
  <1>5. t = Numbers(n)
    <2>1. \A i \in 1..n : t[i] = Numbers(n)[i]
      BY <1>1, <1>2, <1>3, <1>4
    <2> HIDE DEF t
    <2> QED BY <1>1, <1>4, <2>1, SeqEqual
  <1>6. Len(s) - (IF HasClose(s) THEN 1 ELSE 0) = n
    BY <1>2
  <1>7. c => s = Append(Numbers(n), CloseEvent)
    <2> SUFFICES ASSUME c PROVE s = Append(Numbers(n), CloseEvent)
      OBVIOUS
    <2> DEFINE u == Append(Numbers(n), CloseEvent)
    <2>1. u \in Seq(Int) /\ Len(u) = n + 1 /\ u[n + 1] = CloseEvent /\ \A i \in 1..n : u[i] = i
      BY <1>1 DEF CloseEvent
    <2>2. \A i \in 1..Len(s) : s[i] = u[i]
      BY <1>2, <2>1
    <2> HIDE DEF u
    <2>3. s = u
      BY <1>2, <2>1, <2>2, SeqEqual
    <2> QED BY <2>3 DEF u
  <1> QED BY <1>5, <1>6, <1>7

THEOREM EventsDeliveredAlways == BridgeSpec => []EventsDelivered
  <1>1. BridgeInv => EventsDelivered
    <2> SUFFICES ASSUME BridgeInv PROVE EventsDelivered
      OBVIOUS
    <2> USE DEF BridgeInv
    <2>0. DOMAIN Other = {"near", "far"} /\ Other["near"] = "far" /\ Other["far"] = "near"
      BY DEF Other
    <2>1. \A e \in {"near", "far"} : Log(e) \in Seq(Int)
      BY LogType
    <2>2. \A e \in {"near", "far"} : \E n \in 0..MaxMessages, c \in BOOLEAN : Run(Log(e), 0, n, c)
      BY DEF ToFar, ToNear
    <2>3. InOrder
      <3> SUFFICES ASSUME NEW e \in {"near", "far"}
                   PROVE  SubSeq(Log(e), 1, Len(Log(e)) - (IF HasClose(Log(e)) THEN 1 ELSE 0))
                            = Numbers(Len(Log(e)) - (IF HasClose(Log(e)) THEN 1 ELSE 0))
        BY <2>0 DEF InOrder, Log
      <3>1. PICK n \in 0..MaxMessages, c \in BOOLEAN : Run(Log(e), 0, n, c)
        BY <2>2
      <3>2. n \in Nat
        BY BridgeAssumption
      <3>3. SubSeq(Log(e), 1, Len(Log(e)) - (IF HasClose(Log(e)) THEN 1 ELSE 0)) = Numbers(n)
        BY <2>1, <3>1, <3>2, RunInOrder
      <3>4. Len(Log(e)) - (IF HasClose(Log(e)) THEN 1 ELSE 0) = n
        <4>1. 0 \in Nat /\ 0 <= n
          BY <3>2
        <4>2. (HasClose(Log(e)) <=> c) /\ (c => Len(Log(e)) = n - 0 + 1) /\ (~c => Len(Log(e)) = n - 0)
          BY <2>1, <3>1, <3>2, <4>1, RunEnds
        <4> QED BY <3>2, <4>2
      <3> QED BY <3>3, <3>4
    <2>4. CloseIsLast
      <3>1. sent["near"] \in Nat /\ sent["far"] \in Nat
        BY BridgeTypes, BridgeAssumption
      <3>2. up /\ "far" \notin quit /\ HasClose(Log("far")) => Log("far") = Append(Numbers(sent["near"]), CloseEvent)
        BY <2>1, <3>1, RunInOrder DEF ToFar
      <3>3. up /\ "near" \notin quit /\ HasClose(Log("near")) => Log("near") = Append(Numbers(sent["far"]), CloseEvent)
        BY <2>1, <3>1, RunInOrder DEF ToNear
      <3> QED BY <2>0, <3>2, <3>3 DEF CloseIsLast, Log
    <2>5. NothingStranded
      <3> SUFFICES ASSUME early # <<>> PROVE farId = "unused" /\ \E i \in DOMAIN over : over[i] = HeadMessage
        BY DEF NothingStranded
      <3>1. farId = "unused" /\ up /\ shipperId # "unused"
        BY DEF FarSide, ShipperSide, BridgeType
      <3>2. \E k \in 1..Len(over) : over[k] = HeadMessage
        BY <3>1 DEF ToFar
      <3>3. DOMAIN over = 1..Len(over)
        BY BridgeTypes
      <3> QED BY <3>1, <3>2, <3>3
    <2> QED BY <2>3, <2>4, <2>5 DEF EventsDelivered
  <1> QED BY <1>1, BridgeAlways, PTL

-----------------------------------------------------------------------------
(* Static assets (static-assets.ts).                                         *)

FetchStates == {"idle", "assets", "looking", "found", "worker", "rejected", "done"}
RuleStamps == [RuleFiles -> Nat]

FetchRecords ==
  [at : FetchStates, kind : {"get", "post", "upgrade"}, url : Urls, path : Urls,
   left : {<<>>, <<"index">>, <<"f.txt">>, <<"p/index", "p.html">>, <<"p.html">>},
   last : {<<>>, <<"index">>, <<"404">>}, status : Nat,
   by : {"none", "asset", "worker", "server", "error"}, file : AssetFiles \cup {"none"},
   began : RuleStamps, used : RuleStamps, refused : BOOLEAN]

AssetsTyped ==
  /\ html \in {"none", "auto-trailing-slash", "force-trailing-slash", "drop-trailing-slash"}
  /\ notFound \in {"none", "404-page", "single-page-application"}
  /\ disk \subseteq AssetFiles /\ missing \subseteq AssetFiles
  /\ ruleDisk \in [RuleFiles -> RuleVersions]
  /\ ruleCache \in [RuleFiles -> [stamp : Nat, rules : Nat]]
  /\ fetch \in FetchRecords

\* What is not on the disk has been missing since the request began, at some time.
AbsenceSeen == fetch.at # "idle" => AssetFiles \ disk \subseteq missing

\* The asset layer has reads only, and those the worker that runs first has refused.
ReadsOnly == fetch.at \in {"assets", "looking", "found"} =>
  /\ CanServeAssets(fetch.kind)
  /\ script /\ fetch.url \in first => fetch.refused

\* Every candidate that has been passed over was missing.
PassedOver ==
  /\ fetch.at \in {"assets", "looking"} => fetch.file = "none"
  /\ fetch.at = "looking" =>
       \/ fetch.left = Candidates(fetch.path)
       \/ /\ fetch.left = <<"p.html">> /\ Candidates(fetch.path) = <<"p/index", "p.html">>
          /\ "p/index" \in missing
       \/ fetch.left = <<>> /\ Wanted \subseteq missing

\* The file that is to be served is the best one that was there all along.
BestFound == fetch.at = "found" =>
  /\ fetch.status \in {200, 404}
  /\ fetch.status = 404 => Wanted \subseteq missing
  /\ fetch.file \in Wanted => Before(fetch.file) \subseteq missing
  /\ fetch.file \notin Wanted => Wanted \subseteq missing

WorkerLast == fetch.at = "worker" =>
  /\ fetch.url \notin first /\ CanServeAssets(fetch.kind) => Wanted \subseteq missing
  /\ fetch.url \in first => fetch.file = "none"

\* Parsed rules are no older than their stamp, and those of the request no older than it.
RulesFresh ==
  /\ \A r \in RuleFiles : ruleCache[r].stamp \in RuleVersions => ruleCache[r].rules >= ruleCache[r].stamp
  /\ \A r \in RuleFiles : fetch.used[r] >= fetch.began[r]
  /\ fetch.by = "error" => fetch.at = "done"
  /\ fetch.at # "idle" /\ fetch.by # "error" => \A r \in RuleFiles : ruleDisk[r] >= fetch.began[r]

AssetsIInv == AssetsTyped /\ AbsenceSeen /\ ReadsOnly /\ PassedOver /\ BestFound /\ WorkerLast /\ RulesFresh /\ AssetsTrue

\* The files that resolveFile tries for a URL.
LEMMA CandidatesAre ==
  ASSUME NEW q \in Urls
  PROVE  /\ Candidates(q) \in {<<>>, <<"index">>, <<"f.txt">>, <<"p/index", "p.html">>}
         /\ Candidates(q) \in Seq(AssetFiles)
         /\ \A i \in DOMAIN Candidates(q) : Candidates(q)[i] \in AssetFiles /\ Candidates(q)[i] # "none"
<1>1. Candidates(q) \in {<<>>, <<"index">>, <<"f.txt">>, <<"p/index", "p.html">>}
  <2>1. CASE q = "/" BY <2>1 DEF Candidates
  <2>2. CASE q = "/f.txt" BY <2>2 DEF Candidates
  <2>3. CASE q \notin {"/", "/f.txt"} BY <2>3 DEF Candidates, Urls
  <2> QED BY <2>1, <2>2, <2>3
<1>2. CASE Candidates(q) = <<>> BY <1>2
<1>3. CASE Candidates(q) = <<"index">> BY <1>3 DEF AssetFiles
<1>4. CASE Candidates(q) = <<"f.txt">> BY <1>4 DEF AssetFiles
<1>5. CASE Candidates(q) = <<"p/index", "p.html">> BY <1>5 DEF AssetFiles
<1> QED BY <1>1, <1>2, <1>3, <1>4, <1>5

\* Which files are wanted, and which come before one of them.
LEMMA WantedAre ==
  ASSUME fetch.path \in Urls
  PROVE  /\ Candidates(fetch.path) = <<>> => Wanted = {}
         /\ \A f : Candidates(fetch.path) = <<f>> => Wanted = {f} /\ Before(f) = {}
         /\ Candidates(fetch.path) = <<"p/index", "p.html">> =>
              /\ Wanted = {"p/index", "p.html"} /\ Before("p/index") = {} /\ Before("p.html") = {"p/index"}
         /\ \A f : Before(f) \subseteq Wanted
         /\ Wanted \subseteq AssetFiles
<1> DEFINE c == Candidates(fetch.path)
<1>1. CASE c = <<>>
  BY <1>1 DEF Wanted, Before
<1>2. ASSUME NEW f, c = <<f>> PROVE Wanted = {f} /\ Before(f) = {}
  <2>1. DOMAIN c = {1} /\ c[1] = f
    BY <1>2
  <2>2. 1..1 = {1}
    OBVIOUS
  <2> QED BY <2>1, <2>2 DEF Wanted, Before
<1>3. ASSUME c = <<"p/index", "p.html">>
      PROVE  Wanted = {"p/index", "p.html"} /\ Before("p/index") = {} /\ Before("p.html") = {"p/index"}
  <2>1. DOMAIN c = {1, 2} /\ c[1] = "p/index" /\ c[2] = "p.html"
    BY <1>3
  <2>2. 1..1 = {1} /\ 1..2 = {1, 2}
    OBVIOUS
  <2> QED BY <2>1, <2>2 DEF Wanted, Before
<1>4. \A f : Before(f) \subseteq Wanted
  BY DEF Wanted, Before
<1>5. Wanted \subseteq AssetFiles
  BY CandidatesAre DEF Wanted
<1> QED BY <1>1, <1>2, <1>3, <1>4, <1>5

\* Where a slash is put or dropped, it is so once, and the same files are meant.
LEMMA MovedOnce ==
  ASSUME NEW q \in Urls
  PROVE  /\ Moved(q) \in Urls /\ Moved(Moved(q)) = Moved(q)
         /\ Candidates(Moved(q)) = Candidates(q)
<1>1. CASE html = "force-trailing-slash" BY <1>1 DEF Moved, Candidates, Urls
<1>2. CASE html = "drop-trailing-slash" BY <1>2 DEF Moved, Candidates, Urls
<1>3. CASE html \notin {"force-trailing-slash", "drop-trailing-slash"} BY <1>3 DEF Moved, Candidates, Urls
<1> QED BY <1>1, <1>2, <1>3

\* What is still to be tried is a sequence of files.
LEMMA TriedAreFiles ==
  ASSUME NEW left \in {<<>>, <<"index">>, <<"f.txt">>, <<"p/index", "p.html">>, <<"p.html">>},
         NEW last \in {<<>>, <<"index">>, <<"404">>}
  PROVE  left \in Seq(AssetFiles) /\ last \in Seq(AssetFiles)
<1>1. <<>> \in Seq(AssetFiles) /\ \A f \in AssetFiles : <<f>> \in Seq(AssetFiles)
  OBVIOUS
<1>2. <<"p/index", "p.html">> \in Seq(AssetFiles)
  BY DEF AssetFiles
<1>3. {"index", "f.txt", "p.html", "404"} \subseteq AssetFiles
  BY DEF AssetFiles
<1> QED BY <1>1, <1>2, <1>3

\* The next file to look for.
LEMMA NextTried ==
  ASSUME NEW left \in {<<>>, <<"index">>, <<"f.txt">>, <<"p/index", "p.html">>, <<"p.html">>},
         NEW last \in {<<>>, <<"index">>, <<"404">>}, left \o last # <<>>
  PROVE  /\ left # <<>> => Head(left \o last) = Head(left)
         /\ left = <<>> => Head(left \o last) = Head(last) /\ last # <<>> /\ Tail(last) = <<>>
         /\ Head(left \o last) \in AssetFiles
         /\ left = <<"p/index", "p.html">> => Head(left) = "p/index" /\ Tail(left) = <<"p.html">>
         /\ \A f : left = <<f>> => Head(left) = f /\ Tail(left) = <<>>
<1>1. left \in Seq(AssetFiles) /\ last \in Seq(AssetFiles)
  BY TriedAreFiles
<1>2. CASE left = <<>>
  <2>1. left \o last = last
    BY <1>1, <1>2
  <2>2. last \in {<<"index">>, <<"404">>}
    BY <2>1
  <2>3. Head(last) \in AssetFiles /\ Tail(last) = <<>>
    <3>1. CASE last = <<"index">> BY <3>1 DEF AssetFiles
    <3>2. CASE last = <<"404">> BY <3>2 DEF AssetFiles
    <3> QED BY <2>2, <3>1, <3>2
  <2>4. last # <<>>
    BY <2>2
  <2> QED BY <1>2, <2>1, <2>3, <2>4
<1>3. CASE left # <<>>
  <2>1. Len(left) >= 1
    BY <1>3
  <2>2. (left \o last)[1] = left[1] /\ Head(left \o last) = (left \o last)[1] /\ Head(left) = left[1]
    BY <1>1, <2>1
  <2>3. left[1] \in AssetFiles
    BY <1>1, <2>1
  <2>4. left = <<"p/index", "p.html">> => Head(left) = "p/index" /\ Tail(left) = <<"p.html">>
    OBVIOUS
  <2>5. \A f : left = <<f>> => Head(left) = f /\ Tail(left) = <<>>
    OBVIOUS
  <2> QED BY <1>3, <2>2, <2>3, <2>4, <2>5
<1> QED BY <1>2, <1>3

\* A request with one field changed is a request.
SetAt(q, a) == [q EXCEPT !.at = a]
SetStatus(q, n) == [q EXCEPT !.status = n]
SetBy(q, b) == [q EXCEPT !.by = b]
SetUsed(q, u) == [q EXCEPT !.used = u]
SetPath(q, p) == [q EXCEPT !.path = p]

LEMMA RequestUpdates ==
  /\ \A q \in FetchRecords : \A a \in FetchStates : SetAt(q, a) \in FetchRecords
  /\ \A q \in FetchRecords : \A n \in Nat : SetStatus(q, n) \in FetchRecords
  /\ \A q \in FetchRecords : \A b \in {"none", "asset", "worker", "server", "error"} : SetBy(q, b) \in FetchRecords
  /\ \A q \in FetchRecords : \A u \in RuleStamps : SetUsed(q, u) \in FetchRecords
  /\ \A q \in FetchRecords : \A p \in Urls : SetPath(q, p) \in FetchRecords
<1>1. \A q \in FetchRecords : \A a \in FetchStates : SetAt(q, a) \in FetchRecords
  BY DEF FetchRecords, SetAt
<1>2. \A q \in FetchRecords : \A n \in Nat : SetStatus(q, n) \in FetchRecords
  BY DEF FetchRecords, SetStatus
<1>3. \A q \in FetchRecords : \A b \in {"none", "asset", "worker", "server", "error"} : SetBy(q, b) \in FetchRecords
  BY DEF FetchRecords, SetBy
<1>4. \A q \in FetchRecords : \A u \in RuleStamps : SetUsed(q, u) \in FetchRecords
  BY DEF FetchRecords, SetUsed
<1>5. \A q \in FetchRecords : \A p \in Urls : SetPath(q, p) \in FetchRecords
  BY DEF FetchRecords, SetPath
<1> QED BY <1>1, <1>2, <1>3, <1>4, <1>5

\* Rules that are consulted are at least as new as the file was when that began.
LEMMA ConsultsFresh ==
  ASSUME AssetsAssumption, AssetsTyped, RulesFresh, NEW r \in RuleFiles, NEW v \in RuleVersions, Consults(r, v)
  PROVE  /\ ruleDisk' \in [RuleFiles -> RuleVersions]
         /\ ruleCache' \in [RuleFiles -> [stamp : Nat, rules : Nat]]
         /\ \A s \in RuleFiles : ruleDisk'[s] >= ruleDisk[s]
         /\ \A s \in RuleFiles : ruleCache'[s].stamp \in RuleVersions => ruleCache'[s].rules >= ruleCache'[s].stamp
         /\ ruleCache'[r].rules \in Nat /\ ruleCache'[r].rules >= ruleDisk[r]
<1>1. RuleVersions \subseteq Nat /\ 0 \in RuleVersions
  BY DEF RuleVersions, AssetsAssumption
<1>2. v >= ruleDisk[r] /\ ruleDisk[r] \in RuleVersions /\ ruleDisk[r] \in Nat /\ v \in Nat
  <2>1. ruleDisk[r] \in RuleVersions
    BY DEF AssetsTyped
  <2>2. ruleDisk[r] \in Nat /\ v \in Nat
    BY <1>1, <2>1
  <2>3. v = ruleDisk[r] \/ v > ruleDisk[r]
    BY DEF Consults, Later
  <2> QED BY <2>1, <2>2, <2>3
<1> DEFINE c == Consulted(r, v)
<1>3. c \in [stamp : Nat, rules : Nat] /\ c.rules >= c.stamp /\ c.stamp = ruleDisk[r]
  <2>1. CASE ruleCache[r].stamp = ruleDisk[r]
    BY <1>1, <1>2, <2>1 DEF Consulted, AssetsTyped, RulesFresh
  <2>2. CASE ruleCache[r].stamp # ruleDisk[r]
    <3> DEFINE n == IF ruleDisk[r] = 0 THEN 0 ELSE v
    <3>1. c = [stamp |-> ruleDisk[r], rules |-> n]
      BY <2>2 DEF Consulted
    <3>2. n \in Nat /\ n >= ruleDisk[r]
      BY <1>2
    <3> HIDE DEF n, c
    <3> QED BY <1>2, <3>1, <3>2
  <2> QED BY <2>1, <2>2
<1> HIDE DEF c
<1>4. ruleCache' = [ruleCache EXCEPT ![r] = c] /\ ruleDisk' = [ruleDisk EXCEPT ![r] = v]
  BY DEF Consults, c
<1>5. ruleDisk' \in [RuleFiles -> RuleVersions]
  BY <1>4 DEF AssetsTyped
<1>6. ruleCache' \in [RuleFiles -> [stamp : Nat, rules : Nat]]
  BY <1>3, <1>4 DEF AssetsTyped
<1>7. \A s \in RuleFiles : ruleDisk'[s] >= ruleDisk[s]
  <2> SUFFICES ASSUME NEW s \in RuleFiles PROVE ruleDisk'[s] >= ruleDisk[s]
    OBVIOUS
  <2>1. ruleDisk[s] \in Nat
    BY <1>1 DEF AssetsTyped
  <2>2. ruleDisk'[s] = IF s = r THEN v ELSE ruleDisk[s]
    BY <1>4 DEF AssetsTyped
  <2> QED BY <1>2, <2>1, <2>2
<1>8. ruleCache'[r] = c /\ \A s \in RuleFiles : s # r => ruleCache'[s] = ruleCache[s]
  BY <1>4 DEF AssetsTyped
<1>9. \A s \in RuleFiles : ruleCache'[s].stamp \in RuleVersions => ruleCache'[s].rules >= ruleCache'[s].stamp
  BY <1>3, <1>8 DEF RulesFresh
<1>10. ruleCache'[r].rules \in Nat /\ ruleCache'[r].rules >= ruleDisk[r]
  BY <1>3, <1>8
<1> QED BY <1>5, <1>6, <1>7, <1>9, <1>10

\* The invariant holds at the start, and every action keeps it.
LEMMA AssetsStart ==
  ASSUME AssetsAssumption, AssetsInit
  PROVE  AssetsIInv
<1>1. AssetsTyped
  BY SMTT(30) DEF AssetsAssumption, AssetsInit, AssetsTyped, NoFetch, NoCache, RuleVersions, RuleFiles, RuleStamps, Urls,
         AssetFiles, FetchStates, FetchRecords
<1>2. RulesFresh
  BY DEF AssetsAssumption, AssetsInit, RulesFresh, NoFetch, NoCache, RuleVersions
<1>3. fetch.at = "idle"
  BY DEF AssetsInit, NoFetch
<1> QED BY <1>1, <1>2, <1>3 DEF AssetsIInv, AbsenceSeen, ReadsOnly, PassedOver, BestFound, WorkerLast, AssetsTrue

\* A step that leaves the request alone and only adds to what has been missing.
LEMMA RequestUntouched ==
  ASSUME AssetsIInv, UNCHANGED <<assetConfig, fetch>>, missing \subseteq missing'
  PROVE  (ReadsOnly /\ PassedOver /\ BestFound /\ WorkerLast /\ AssetsTrue)'
<1>3. Wanted' = Wanted /\ \A f : Before(f)' = Before(f)
  BY DEF assetConfig, Wanted, Before, Candidates
<1>4. ReadsOnly'
  BY DEF AssetsIInv, ReadsOnly, CanServeAssets, assetConfig
<1>5. PassedOver'
  BY <1>3 DEF AssetsIInv, PassedOver, Candidates, assetConfig
<1>6. BestFound'
  BY <1>3 DEF AssetsIInv, BestFound, Before, Wanted, Candidates, assetConfig
<1>7. WorkerLast'
  BY <1>3 DEF AssetsIInv, WorkerLast, CanServeAssets, assetConfig
<1>8. AssetsTrue'
  BY <1>3 DEF AssetsIInv, AssetsTrue, CanServeAssets, assetConfig, Before, Wanted, Candidates, Moved
<1> QED BY <1>4, <1>5, <1>6, <1>7, <1>8

LEMMA FileChangesKeeps ==
  ASSUME AssetsIInv, NEW g \in AssetFiles, FileChanges(g)
  PROVE  AssetsIInv'
<1>1. missing \subseteq missing' /\ UNCHANGED <<assetConfig, fetch, ruleDisk, ruleCache>>
  BY DEF FileChanges
<1>2. (ReadsOnly /\ PassedOver /\ BestFound /\ WorkerLast /\ AssetsTrue)'
  BY <1>1, RequestUntouched
<1>3. AssetsTyped'
  BY DEF AssetsIInv, AssetsTyped, FileChanges, assetConfig
<1>4. AbsenceSeen'
  BY DEF AssetsIInv, AbsenceSeen, FileChanges
<1>5. RulesFresh'
  BY <1>1 DEF AssetsIInv, RulesFresh
<1> QED BY <1>2, <1>3, <1>4, <1>5 DEF AssetsIInv

LEMMA RuleEditedKeeps ==
  ASSUME AssetsAssumption, AssetsIInv, NEW r \in RuleFiles, NEW v \in RuleVersions, RuleEdited(r, v)
  PROVE  AssetsIInv'
<1>1. UNCHANGED <<assetConfig, disk, missing, fetch, ruleCache>> /\ v > ruleDisk[r]
  BY DEF RuleEdited, Later
<1>2. (ReadsOnly /\ PassedOver /\ BestFound /\ WorkerLast /\ AssetsTrue)'
  BY <1>1, RequestUntouched
<1>3. AssetsTyped'
  BY <1>1 DEF AssetsIInv, AssetsTyped, RuleEdited, assetConfig
<1>4. AbsenceSeen'
  BY <1>1 DEF AssetsIInv, AbsenceSeen
<1>5. \A s \in RuleFiles : ruleDisk'[s] >= ruleDisk[s] /\ ruleDisk'[s] \in Nat /\ ruleDisk[s] \in Nat
  <2>1. RuleVersions \subseteq Nat
    BY DEF RuleVersions, AssetsAssumption
  <2> TAKE s \in RuleFiles
  <2>2. ruleDisk[s] \in Nat /\ v \in Nat
    BY <2>1 DEF AssetsIInv, AssetsTyped
  <2>3. ruleDisk'[s] = IF s = r THEN v ELSE ruleDisk[s]
    BY DEF RuleEdited, AssetsIInv, AssetsTyped
  <2> QED BY <1>1, <2>2, <2>3
<1>6. \A s \in RuleFiles : fetch.began[s] \in Nat
  BY DEF AssetsIInv, AssetsTyped, FetchRecords, RuleStamps
<1>7. RulesFresh'
  BY <1>1, <1>5, <1>6 DEF AssetsIInv, RulesFresh
<1> QED BY <1>2, <1>3, <1>4, <1>7 DEF AssetsIInv

LEMMA RulesGoneKeeps ==
  ASSUME AssetsAssumption, AssetsIInv, NEW r \in RuleFiles, RulesGone(r)
  PROVE  AssetsIInv'
<1>1. UNCHANGED <<assetConfig, disk, missing, ruleCache>> /\ ruleDisk' = [ruleDisk EXCEPT ![r] = 0]
  BY DEF RulesGone
<1>2. fetch' = [fetch EXCEPT !.at = "done", !.status = 500, !.by = "error"] /\ fetch.at # "idle"
  BY DEF RulesGone, Answer, RuleFiles
<1>3. AssetsTyped'
  <2>1. 0 \in RuleVersions
    BY DEF RuleVersions, AssetsAssumption
  <2>2. fetch' \in FetchRecords
    <3>1. fetch \in FetchRecords
      BY DEF AssetsIInv, AssetsTyped
    <3>2. "done" \in FetchStates /\ 500 \in Nat
      BY DEF FetchStates
    <3>3. SetBy(SetStatus(SetAt(fetch, "done"), 500), "error") \in FetchRecords
      BY <3>1, <3>2, RequestUpdates
    <3>4. fetch' = SetBy(SetStatus(SetAt(fetch, "done"), 500), "error")
      BY <1>2, <3>1 DEF FetchRecords, SetAt, SetStatus, SetBy
    <3> QED BY <3>3, <3>4
  <2> QED BY <1>1, <2>1, <2>2 DEF AssetsIInv, AssetsTyped, assetConfig
<1>4. fetch'.at = "done" /\ fetch'.by = "error" /\ fetch'.used = fetch.used /\ fetch'.began = fetch.began
  BY <1>2 DEF AssetsIInv, AssetsTyped, FetchRecords
<1>5. AbsenceSeen'
  BY <1>1, <1>2 DEF AssetsIInv, AbsenceSeen
<1>6. RulesFresh'
  BY <1>1, <1>4 DEF AssetsIInv, RulesFresh
<1>7. (ReadsOnly /\ PassedOver /\ BestFound /\ WorkerLast)'
  BY <1>4 DEF ReadsOnly, PassedOver, BestFound, WorkerLast
<1>8. AssetsTrue'
  BY <1>4 DEF AssetsTrue
<1> QED BY <1>3, <1>5, <1>6, <1>7, <1>8 DEF AssetsIInv

LEMMA FoundKeeps ==
  ASSUME AssetsAssumption, AssetsIInv, Found
  PROVE  AssetsIInv'
<1> DEFINE f == Head(fetch.left \o fetch.last)
           n == IF fetch.left = <<>> THEN LastStatus ELSE 200
<1>1. UNCHANGED <<assetConfig, disk, missing, ruleDisk, ruleCache>> /\ fetch.at = "looking" /\ fetch.left \o fetch.last # <<>>
  BY DEF Found
<1>2. fetch' = [fetch EXCEPT !.at = "found", !.file = f, !.status = n]
  BY DEF Found
<1>t. fetch.path \in Urls
      /\ fetch.left \in {<<>>, <<"index">>, <<"f.txt">>, <<"p/index", "p.html">>, <<"p.html">>}
      /\ fetch.last \in {<<>>, <<"index">>, <<"404">>}
  BY DEF AssetsIInv, AssetsTyped, FetchRecords
<1>3. f \in AssetFiles /\ (fetch.left # <<>> => f = Head(fetch.left))
  BY <1>1, <1>t, NextTried
<1>4. n \in {200, 404} /\ (fetch.left # <<>> => n = 200)
  BY DEF LastStatus
<1>5. fetch.left # <<>> => f \in Wanted /\ Before(f) \subseteq missing
  <2> SUFFICES ASSUME fetch.left # <<>> PROVE f \in Wanted /\ Before(f) \subseteq missing
    OBVIOUS
  <2>1. CASE fetch.left = Candidates(fetch.path)
    <3>1. CASE Candidates(fetch.path) = <<"index">>
      BY <1>3, <2>1, <3>1, <1>t, WantedAre
    <3>2. CASE Candidates(fetch.path) = <<"f.txt">>
      BY <1>3, <2>1, <3>2, <1>t, WantedAre
    <3>3. CASE Candidates(fetch.path) = <<"p/index", "p.html">>
      BY <1>3, <2>1, <3>3, <1>t, WantedAre
    <3> QED BY <2>1, <3>1, <3>2, <3>3, <1>t, CandidatesAre
  <2>2. CASE /\ fetch.left = <<"p.html">> /\ Candidates(fetch.path) = <<"p/index", "p.html">>
             /\ "p/index" \in missing
    BY <1>3, <2>2, <1>t, WantedAre
  <2> QED BY <1>1, <2>1, <2>2 DEF AssetsIInv, PassedOver
<1>6. fetch.left = <<>> => Wanted \subseteq missing
  <2> SUFFICES ASSUME fetch.left = <<>> PROVE Wanted \subseteq missing
    OBVIOUS
  <2>1. CASE fetch.left = Candidates(fetch.path)
    BY <2>1, <1>t, WantedAre
  <2> QED BY <1>1, <2>1 DEF AssetsIInv, PassedOver
<1> HIDE DEF f, n
<1>7. AssetsTyped'
  <2>1. n \in Nat
    BY <1>4
  <2>2. fetch' \in FetchRecords
    BY <1>2, <1>3, <2>1 DEF AssetsIInv, AssetsTyped, FetchRecords, FetchStates
  <2> QED BY <1>1, <2>2 DEF AssetsIInv, AssetsTyped, assetConfig
<1>8. /\ fetch'.at = "found" /\ fetch'.file = f /\ fetch'.status = n /\ fetch'.path = fetch.path
      /\ fetch'.kind = fetch.kind /\ fetch'.url = fetch.url /\ fetch'.refused = fetch.refused
      /\ fetch'.by = fetch.by /\ fetch'.used = fetch.used /\ fetch'.began = fetch.began
  BY <1>2 DEF AssetsIInv, AssetsTyped, FetchRecords
<1>9. AbsenceSeen'
  BY <1>1 DEF AssetsIInv, AbsenceSeen
<1>10. Wanted' = Wanted /\ Before(f)' = Before(f') /\ Before(fetch.file)' = Before(f)
  BY <1>1, <1>8 DEF Wanted, Before, Candidates, assetConfig
<1>11. BestFound'
  <2>1. Before(f) \subseteq Wanted
    BY <1>t, WantedAre
  <2> QED BY <1>1, <1>4, <1>5, <1>6, <1>8, <1>10, <2>1 DEF BestFound
<1>12. (PassedOver /\ WorkerLast /\ AssetsTrue)'
  BY <1>8 DEF PassedOver, WorkerLast, AssetsTrue
<1>13. ReadsOnly'
  BY <1>1, <1>8 DEF AssetsIInv, ReadsOnly, CanServeAssets, assetConfig
<1>14. RulesFresh'
  BY <1>1, <1>8 DEF AssetsIInv, RulesFresh
<1> QED BY <1>7, <1>9, <1>11, <1>12, <1>13, <1>14 DEF AssetsIInv

LEMMA NotThereKeeps ==
  ASSUME AssetsAssumption, AssetsIInv, NotThere
  PROVE  AssetsIInv'
<1> DEFINE f == Head(fetch.left \o fetch.last)
<1>1. /\ UNCHANGED <<assetConfig, disk, missing, ruleDisk, ruleCache>> /\ fetch.at = "looking"
      /\ fetch.left \o fetch.last # <<>> /\ f \notin disk
  BY DEF NotThere
<1>2. fetch' = IF fetch.left # <<>> THEN [fetch EXCEPT !.left = Tail(fetch.left)]
                                    ELSE [fetch EXCEPT !.last = Tail(fetch.last)]
  BY DEF NotThere
<1>t. fetch.path \in Urls
      /\ fetch.left \in {<<>>, <<"index">>, <<"f.txt">>, <<"p/index", "p.html">>, <<"p.html">>}
      /\ fetch.last \in {<<>>, <<"index">>, <<"404">>}
  BY DEF AssetsIInv, AssetsTyped, FetchRecords
<1>3. f \in AssetFiles /\ (fetch.left # <<>> => f = Head(fetch.left)) /\ (fetch.left = <<>> => Tail(fetch.last) = <<>>)
  BY <1>1, <1>t, NextTried
<1>4. f \in missing
  BY <1>1, <1>3 DEF AssetsIInv, AbsenceSeen
<1>a. /\ fetch.left = <<"p/index", "p.html">> => Head(fetch.left) = "p/index" /\ Tail(fetch.left) = <<"p.html">>
      /\ \A g : fetch.left = <<g>> => Head(fetch.left) = g /\ Tail(fetch.left) = <<>>
  BY <1>1, <1>t, NextTried
<1>5. /\ fetch'.at = "looking" /\ fetch'.file = fetch.file /\ fetch'.status = fetch.status /\ fetch'.path = fetch.path
      /\ fetch'.kind = fetch.kind /\ fetch'.url = fetch.url /\ fetch'.refused = fetch.refused
      /\ fetch'.by = fetch.by /\ fetch'.used = fetch.used /\ fetch'.began = fetch.began
      /\ fetch'.left = IF fetch.left # <<>> THEN Tail(fetch.left) ELSE fetch.left
  BY <1>1, <1>2 DEF AssetsIInv, AssetsTyped, FetchRecords
<1>6. Wanted' = Wanted /\ Candidates(fetch.path)' = Candidates(fetch.path)
  BY <1>1, <1>5 DEF Wanted, Candidates, assetConfig
<1> HIDE DEF f
<1>7. AssetsTyped'
  <2>1. fetch.left # <<>> => Tail(fetch.left) \in {<<>>, <<"p.html">>}
    BY <1>t, <1>a
  <2>2. CASE fetch.left # <<>>
    BY <1>1, <1>2, <2>1, <2>2 DEF AssetsIInv, AssetsTyped, FetchRecords, assetConfig
  <2>3. CASE fetch.left = <<>>
    BY <1>1, <1>2, <1>3, <2>3 DEF AssetsIInv, AssetsTyped, FetchRecords, assetConfig
  <2> QED BY <2>2, <2>3
<1>8. \/ /\ fetch'.left = <<"p.html">> /\ Candidates(fetch.path) = <<"p/index", "p.html">>
         /\ "p/index" \in missing
      \/ fetch'.left = <<>> /\ Wanted \subseteq missing
  <2>1. CASE fetch.left = <<>>
    <3>1. Wanted \subseteq missing
      <4>1. CASE fetch.left = Candidates(fetch.path)
        BY <2>1, <4>1, <1>t, WantedAre
      <4> QED BY <1>1, <2>1, <4>1 DEF AssetsIInv, PassedOver
    <3> QED BY <1>5, <2>1, <3>1
  <2>2. CASE fetch.left = Candidates(fetch.path) /\ fetch.left # <<>>
    <3>1. CASE fetch.left = <<"index">>
      BY <1>3, <1>4, <1>5, <1>a, <2>2, <3>1, <1>t, WantedAre
    <3>2. CASE fetch.left = <<"f.txt">>
      BY <1>3, <1>4, <1>5, <1>a, <2>2, <3>2, <1>t, WantedAre
    <3>3. CASE fetch.left = <<"p/index", "p.html">>
      BY <1>3, <1>4, <1>5, <1>a, <2>2, <3>3
    <3> QED BY <2>2, <3>1, <3>2, <3>3, <1>t, CandidatesAre
  <2>3. CASE /\ fetch.left = <<"p.html">> /\ Candidates(fetch.path) = <<"p/index", "p.html">>
             /\ "p/index" \in missing
    BY <1>3, <1>4, <1>5, <1>a, <2>3, <1>t, WantedAre
  <2> QED BY <1>1, <2>1, <2>2, <2>3 DEF AssetsIInv, PassedOver
<1>9. PassedOver'
  BY <1>1, <1>5, <1>6, <1>8 DEF AssetsIInv, PassedOver
<1>10. AbsenceSeen'
  BY <1>1 DEF AssetsIInv, AbsenceSeen
<1>12. (BestFound /\ WorkerLast /\ AssetsTrue)'
  BY <1>5 DEF BestFound, WorkerLast, AssetsTrue
<1>13. ReadsOnly'
  BY <1>1, <1>5 DEF AssetsIInv, ReadsOnly, CanServeAssets, assetConfig
<1>14. RulesFresh'
  BY <1>1, <1>5 DEF AssetsIInv, RulesFresh
<1> QED BY <1>7, <1>9, <1>10, <1>12, <1>13, <1>14 DEF AssetsIInv

\* A request that leaves the asset layer: to the worker, if it may be asked, or answered.
LEMMA NextAfterKeeps ==
  ASSUME AssetsAssumption, AssetsIInv, NEW q \in FetchRecords, fetch' = NextAfter(q),
         UNCHANGED <<assetConfig, disk, missing>>,
         fetch.at \in {"looking", "found"},
         q.at = fetch.at, q.kind = fetch.kind, q.url = fetch.url, q.path = fetch.path, q.refused = fetch.refused,
         q.by # "error", q.status \in {200, 404}, q.began = fetch.began,
         ruleDisk' \in [RuleFiles -> RuleVersions],
         ruleCache' \in [RuleFiles -> [stamp : Nat, rules : Nat]],
         \A s \in RuleFiles : ruleCache'[s].stamp \in RuleVersions => ruleCache'[s].rules >= ruleCache'[s].stamp,
         \A s \in RuleFiles : ruleDisk'[s] >= fetch.began[s],
         \A s \in RuleFiles : q.used[s] >= fetch.began[s],
         q.status = 404 => Wanted \subseteq missing,
         q.file \in Wanted => Before(q.file) \subseteq missing,
         q.file \notin Wanted => Wanted \subseteq missing
  PROVE  AssetsIInv'
<1> DEFINE asks == q.status = 404 /\ script /\ ~q.refused
<1>1. CASE asks
  <2>1. fetch' = [q EXCEPT !.at = "worker"]
    BY <1>1 DEF NextAfter
  <2>2. fetch' \in FetchRecords
    <3>1. "worker" \in FetchStates
      BY DEF FetchStates
    <3> QED BY <2>1, <3>1, RequestUpdates DEF SetAt
  <2>3. /\ fetch'.at = "worker" /\ fetch'.by = q.by /\ fetch'.path = fetch.path /\ fetch'.used = q.used
        /\ fetch'.began = fetch.began
    BY <2>1 DEF FetchRecords
  <2>4. Wanted' = Wanted
    BY <2>3 DEF Wanted, Candidates, assetConfig
  <2>5. AssetsTyped'
    BY <2>2 DEF AssetsIInv, AssetsTyped, assetConfig
  <2>6. AbsenceSeen'
    BY DEF AssetsIInv, AbsenceSeen
  <2>7. WorkerLast'
    <3>1. fetch.url \notin first
      BY <1>1 DEF AssetsIInv, ReadsOnly
    <3>2. fetch'.url \notin first'
      BY <2>1, <3>1 DEF FetchRecords, assetConfig
    <3> QED BY <1>1, <2>4, <3>2 DEF WorkerLast
  <2>8. RulesFresh'
    <3>1. q.by # "error"
      OBVIOUS
    <3> QED BY <2>3, <3>1 DEF RulesFresh
  <2>9. (ReadsOnly /\ PassedOver /\ BestFound /\ AssetsTrue)'
    BY <2>3 DEF ReadsOnly, PassedOver, BestFound, AssetsTrue
  <2> QED BY <2>5, <2>6, <2>7, <2>8, <2>9 DEF AssetsIInv
<1>2. CASE ~asks
  <2>1. fetch' = [q EXCEPT !.at = "done", !.by = "asset"]
    BY <1>2 DEF NextAfter
  <2>2. fetch' \in FetchRecords
    <3>1. "done" \in FetchStates
      BY DEF FetchStates
    <3>2. SetBy(SetAt(q, "done"), "asset") \in FetchRecords
      BY <3>1, RequestUpdates
    <3>3. fetch' = SetBy(SetAt(q, "done"), "asset")
      BY <2>1 DEF FetchRecords, SetAt, SetBy
    <3> QED BY <3>2, <3>3
  <2>3. /\ fetch'.at = "done" /\ fetch'.by = "asset" /\ fetch'.path = fetch.path /\ fetch'.used = q.used
        /\ fetch'.began = fetch.began /\ fetch'.kind = fetch.kind /\ fetch'.url = fetch.url
        /\ fetch'.refused = fetch.refused /\ fetch'.file = q.file /\ fetch'.status = q.status
    BY <2>1 DEF FetchRecords
  <2>4. Wanted' = Wanted /\ Before(fetch.file)' = Before(q.file)
    BY <2>3 DEF Wanted, Before, Candidates, assetConfig
  <2>5. AssetsTyped'
    BY <2>2 DEF AssetsIInv, AssetsTyped, assetConfig
  <2>6. AbsenceSeen'
    BY DEF AssetsIInv, AbsenceSeen
  <2>7. RulesFresh'
    BY <2>3 DEF RulesFresh
  <2>8. (ReadsOnly /\ PassedOver /\ BestFound /\ WorkerLast)'
    BY <2>3 DEF ReadsOnly, PassedOver, BestFound, WorkerLast
  <2>9. CanServeAssets(fetch.kind) /\ (script /\ fetch.url \in first => fetch.refused)
    BY DEF AssetsIInv, ReadsOnly
  <2>10. AssetsTrue'
    <3>1. /\ CanServeAssets(fetch'.kind)
          /\ script' /\ fetch'.url \in first' => fetch'.refused
      BY <2>3, <2>9 DEF assetConfig
    <3>2. /\ fetch'.file \in Wanted' => Before(fetch.file)' \subseteq missing'
          /\ fetch'.file \notin Wanted' => Wanted' \subseteq missing'
      BY <2>3, <2>4
    <3>3. fetch'.status # 307
      BY <2>3
    <3>4. \A r \in RuleFiles : fetch'.used[r] >= fetch'.began[r]
      BY <2>3
    <3> QED BY <2>3, <3>1, <3>2, <3>3, <3>4 DEF AssetsTrue, CanServeAssets
  <2> QED BY <2>5, <2>6, <2>7, <2>8, <2>10 DEF AssetsIInv
<1> QED BY <1>1, <1>2

LEMMA NothingFoundKeeps ==
  ASSUME AssetsAssumption, AssetsIInv, NothingFound
  PROVE  AssetsIInv'
<1> DEFINE q == [fetch EXCEPT !.status = 404]
<1>1. /\ UNCHANGED <<assetConfig, disk, missing, ruleDisk, ruleCache>> /\ fetch.at = "looking"
      /\ fetch.left \o fetch.last = <<>> /\ fetch' = NextAfter(q)
  BY DEF NothingFound
<1>2. q \in FetchRecords
  <2>1. fetch \in FetchRecords /\ 404 \in Nat
    BY DEF AssetsIInv, AssetsTyped
  <2> QED BY <2>1, RequestUpdates DEF SetStatus
<1>3. /\ q.at = fetch.at /\ q.kind = fetch.kind /\ q.url = fetch.url /\ q.path = fetch.path /\ q.refused = fetch.refused
      /\ q.by = fetch.by /\ q.status = 404 /\ q.began = fetch.began /\ q.used = fetch.used /\ q.file = fetch.file
  BY DEF AssetsIInv, AssetsTyped, FetchRecords
<1>t. fetch.path \in Urls
      /\ fetch.left \in {<<>>, <<"index">>, <<"f.txt">>, <<"p/index", "p.html">>, <<"p.html">>}
      /\ fetch.last \in {<<>>, <<"index">>, <<"404">>}
  BY DEF AssetsIInv, AssetsTyped, FetchRecords
<1>4. fetch.left = <<>>
  <2>1. fetch.left \in Seq(AssetFiles) /\ fetch.last \in Seq(AssetFiles)
    BY <1>t, TriedAreFiles
  <2>2. Len(fetch.left \o fetch.last) = Len(fetch.left) + Len(fetch.last)
    BY <2>1
  <2>3. Len(fetch.left \o fetch.last) = 0
    BY <1>1
  <2>4. Len(fetch.left) = 0
    <3>1. Len(fetch.left) \in Nat /\ Len(fetch.last) \in Nat
      BY <2>1
    <3> DEFINE a == Len(fetch.left)
               b == Len(fetch.last)
    <3>2. a \in Nat /\ b \in Nat /\ a + b = 0
      BY <2>2, <2>3, <3>1
    <3> HIDE DEF a, b
    <3>3. a = 0
      BY <3>2
    <3> QED BY <3>3 DEF a
  <2> QED BY <2>1, <2>4
<1>5. Wanted \subseteq missing
  <2>1. CASE fetch.left = Candidates(fetch.path)
    BY <1>4, <2>1, <1>t, WantedAre
  <2> QED BY <1>1, <1>4, <2>1 DEF AssetsIInv, PassedOver
<1>6. Before(fetch.file) \subseteq missing
  BY <1>5, <1>t, WantedAre
<1>7. fetch.by # "error"
  BY <1>1 DEF AssetsIInv, RulesFresh
<1>8. /\ ruleDisk' \in [RuleFiles -> RuleVersions] /\ ruleCache' \in [RuleFiles -> [stamp : Nat, rules : Nat]]
      /\ \A s \in RuleFiles : ruleCache'[s].stamp \in RuleVersions => ruleCache'[s].rules >= ruleCache'[s].stamp
      /\ \A s \in RuleFiles : ruleDisk'[s] >= fetch.began[s]
      /\ \A s \in RuleFiles : fetch.used[s] >= fetch.began[s]
  BY <1>1, <1>7 DEF AssetsIInv, AssetsTyped, RulesFresh
<1> HIDE DEF q
<1>9. fetch.at \in {"looking", "found"} /\ q.status \in {200, 404} /\ q.by # "error" /\ Before(q.file) \subseteq missing
  BY <1>1, <1>3, <1>6, <1>7
<1>10. \A s \in RuleFiles : q.used[s] >= fetch.began[s]
  BY <1>3, <1>8
<1> QED BY <1>1, <1>2, <1>3, <1>5, <1>8, <1>9, <1>10, NextAfterKeeps

LEMMA ServeFileKeeps ==
  ASSUME AssetsAssumption, AssetsIInv, NEW v \in RuleVersions, ServeFile(v)
  PROVE  AssetsIInv'
<1> DEFINE u == ruleCache'["headers"].rules
           q == [fetch EXCEPT !.used["headers"] = u]
<1>1. /\ UNCHANGED <<assetConfig, disk, missing>> /\ fetch.at = "found" /\ fetch' = NextAfter(q)
      /\ Consults("headers", v) /\ "headers" \in RuleFiles
  BY DEF ServeFile, RuleFiles
<1>2. AssetsTyped /\ RulesFresh
  BY DEF AssetsIInv
<1>3. /\ ruleDisk' \in [RuleFiles -> RuleVersions]
      /\ ruleCache' \in [RuleFiles -> [stamp : Nat, rules : Nat]]
      /\ \A s \in RuleFiles : ruleDisk'[s] >= ruleDisk[s]
      /\ \A s \in RuleFiles : ruleCache'[s].stamp \in RuleVersions => ruleCache'[s].rules >= ruleCache'[s].stamp
      /\ u \in Nat /\ u >= ruleDisk["headers"]
  BY <1>1, <1>2, ConsultsFresh
<1>4. fetch.by # "error"
  BY <1>1 DEF AssetsIInv, RulesFresh
<1> HIDE DEF u
<1>5. /\ fetch \in FetchRecords /\ fetch.used \in [RuleFiles -> Nat] /\ fetch.began \in [RuleFiles -> Nat]
  BY <1>2 DEF AssetsTyped, FetchRecords, RuleStamps
<1>6. q = [fetch EXCEPT !.used = [fetch.used EXCEPT !["headers"] = u]]
  BY <1>5 DEF FetchRecords
<1>7. [fetch.used EXCEPT !["headers"] = u] \in RuleStamps
  BY <1>3, <1>5 DEF RuleStamps
<1>8. q \in FetchRecords
  <2> HIDE DEF q
  <2> QED BY <1>5, <1>6, <1>7 DEF FetchRecords
<1>9. /\ q.at = fetch.at /\ q.kind = fetch.kind /\ q.url = fetch.url /\ q.path = fetch.path /\ q.refused = fetch.refused
      /\ q.by = fetch.by /\ q.status = fetch.status /\ q.began = fetch.began /\ q.file = fetch.file
      /\ q.used = [fetch.used EXCEPT !["headers"] = u]
  <2> HIDE DEF q
  <2> QED BY <1>5, <1>6 DEF FetchRecords
<1> HIDE DEF q
<1>n. \A s \in RuleFiles : ruleDisk[s] \in Nat /\ ruleDisk'[s] \in Nat
  <2>1. RuleVersions \subseteq Nat
    BY DEF RuleVersions, AssetsAssumption
  <2> QED BY <1>2, <1>3, <2>1 DEF AssetsTyped
<1>10. \A s \in RuleFiles : ruleDisk[s] >= fetch.began[s]
  BY <1>1, <1>2, <1>4 DEF RulesFresh
<1>11. \A s \in RuleFiles : ruleDisk'[s] >= fetch.began[s]
  BY <1>3, <1>5, <1>10, <1>n
<1>12. \A s \in RuleFiles : q.used[s] >= fetch.began[s]
  <2> TAKE s \in RuleFiles
  <2>1. q.used[s] = IF s = "headers" THEN u ELSE fetch.used[s]
    BY <1>5, <1>9
  <2>2. fetch.used[s] >= fetch.began[s]
    BY <1>2 DEF RulesFresh
  <2> QED BY <1>1, <1>3, <1>5, <1>10, <1>n, <2>1, <2>2
<1>13. /\ q.status \in {200, 404} /\ (q.status = 404 => Wanted \subseteq missing)
       /\ (q.file \in Wanted => Before(q.file) \subseteq missing)
       /\ (q.file \notin Wanted => Wanted \subseteq missing)
  BY <1>1, <1>9 DEF AssetsIInv, BestFound
<1>14. fetch.at \in {"looking", "found"} /\ q.by # "error"
  BY <1>1, <1>4, <1>9
<1> QED BY <1>1, <1>3, <1>8, <1>9, <1>11, <1>12, <1>13, <1>14, NextAfterKeeps

LEMMA AssetsBeginKeeps ==
  ASSUME AssetsAssumption, AssetsIInv, NEW v \in RuleVersions, AssetsBegin(v)
  PROVE  AssetsIInv'
<1> DEFINE used == ruleCache'["redirects"].rules
           path == IF moves[used] = "rewrite" /\ fetch.url = "/p" THEN "/f.txt" ELSE fetch.url
           now == [fetch.used EXCEPT !["redirects"] = used]
           asked == SetUsed(SetPath(fetch, path), now)
<1>1. /\ UNCHANGED <<assetConfig, disk, missing>> /\ fetch.at = "assets"
      /\ Consults("redirects", v) /\ "redirects" \in RuleFiles
  BY DEF AssetsBegin, RuleFiles
<1>2. AssetsTyped /\ RulesFresh /\ AbsenceSeen /\ ReadsOnly /\ PassedOver
  BY DEF AssetsIInv
<1>3. /\ ruleDisk' \in [RuleFiles -> RuleVersions]
      /\ ruleCache' \in [RuleFiles -> [stamp : Nat, rules : Nat]]
      /\ \A s \in RuleFiles : ruleDisk'[s] >= ruleDisk[s]
      /\ \A s \in RuleFiles : ruleCache'[s].stamp \in RuleVersions => ruleCache'[s].rules >= ruleCache'[s].stamp
      /\ used \in Nat /\ used >= ruleDisk["redirects"]
  BY <1>1, <1>2, ConsultsFresh
<1>4. fetch.by # "error"
  BY <1>1, <1>2 DEF RulesFresh
<1>5. fetch \in FetchRecords /\ fetch.used \in [RuleFiles -> Nat] /\ fetch.began \in [RuleFiles -> Nat] /\ fetch.url \in Urls
  BY <1>2 DEF AssetsTyped, FetchRecords, RuleStamps
<1>6. [fetch EXCEPT !.path = path, !.used["redirects"] = used] = asked
  BY <1>5 DEF FetchRecords, SetUsed, SetPath
<1>7. \/ fetch' = [asked EXCEPT !.at = "done", !.status = 302, !.by = "asset"]
      \/ fetch' = [asked EXCEPT !.at = "done", !.status = 307, !.by = "asset"]
      \/ fetch' = [asked EXCEPT !.at = "looking", !.left = Candidates(path), !.last = LastResort]
  <2> DEFINE asked0 == [fetch EXCEPT !.path = path, !.used["redirects"] = used]
  <2>1. fetch' = IF moves[used] = "redirect" /\ fetch.url = "/p"
                   THEN [asked0 EXCEPT !.at = "done", !.status = 302, !.by = "asset"]
                 ELSE IF Moved(path) # path
                   THEN [asked0 EXCEPT !.at = "done", !.status = 307, !.by = "asset"]
                 ELSE [asked0 EXCEPT !.at = "looking", !.left = Candidates(path), !.last = LastResort]
    BY DEF AssetsBegin
  <2>2. asked0 = asked
    BY <1>6
  <2> HIDE DEF asked0, asked, path, used
  <2> QED BY <2>1, <2>2
<1>8. path \in Urls
  BY <1>5 DEF Urls
<1>9. now \in RuleStamps
  <2> HIDE DEF used
  <2> QED BY <1>3, <1>5 DEF RuleStamps
<1> HIDE DEF used, path, now
<1>10. asked \in FetchRecords
  BY <1>5, <1>8, <1>9, RequestUpdates
<1>11. /\ asked.kind = fetch.kind /\ asked.url = fetch.url /\ asked.path = path /\ asked.refused = fetch.refused
       /\ asked.by = fetch.by /\ asked.began = fetch.began /\ asked.file = fetch.file /\ asked.used = now
  BY <1>5 DEF FetchRecords, SetUsed, SetPath
<1> HIDE DEF asked
<1>n. \A s \in RuleFiles : ruleDisk[s] \in Nat /\ ruleDisk'[s] \in Nat
  <2>1. RuleVersions \subseteq Nat
    BY DEF RuleVersions, AssetsAssumption
  <2> QED BY <1>2, <1>3, <2>1 DEF AssetsTyped
<1>12. \A s \in RuleFiles : ruleDisk[s] >= fetch.began[s]
  BY <1>1, <1>2, <1>4 DEF RulesFresh
<1>13. \A s \in RuleFiles : ruleDisk'[s] >= fetch.began[s]
  BY <1>3, <1>5, <1>12, <1>n
<1>14. \A s \in RuleFiles : now[s] >= fetch.began[s]
  <2> TAKE s \in RuleFiles
  <2>1. now[s] = IF s = "redirects" THEN used ELSE fetch.used[s]
    BY <1>5 DEF now
  <2>2. fetch.used[s] >= fetch.began[s]
    BY <1>2 DEF RulesFresh
  <2> QED BY <1>1, <1>3, <1>5, <1>12, <1>n, <2>1, <2>2
<1>15. AbsenceSeen'
  BY <1>1, <1>2 DEF AbsenceSeen
<1>16. /\ CanServeAssets(fetch.kind) /\ (script /\ fetch.url \in first => fetch.refused) /\ fetch.file = "none"
  BY <1>1, <1>2 DEF ReadsOnly, PassedOver
<1>17. ASSUME NEW n \in {302, 307}, fetch' = [asked EXCEPT !.at = "done", !.status = n, !.by = "asset"]
       PROVE  AssetsIInv'
  <2>1. /\ fetch'.at = "done" /\ fetch'.by = "asset" /\ fetch'.status = n /\ fetch'.path = path
        /\ fetch'.kind = fetch.kind /\ fetch'.url = fetch.url /\ fetch'.refused = fetch.refused
        /\ fetch'.file = "none" /\ fetch'.used = now /\ fetch'.began = fetch.began
    BY <1>10, <1>11, <1>16, <1>17 DEF FetchRecords
  <2>2. fetch' \in FetchRecords
    <3>1. "done" \in FetchStates /\ n \in Nat
      BY DEF FetchStates
    <3>2. SetBy(SetStatus(SetAt(asked, "done"), n), "asset") \in FetchRecords
      BY <1>10, <3>1, RequestUpdates
    <3>3. fetch' = SetBy(SetStatus(SetAt(asked, "done"), n), "asset")
      BY <1>10, <1>17 DEF FetchRecords, SetAt, SetStatus, SetBy
    <3> QED BY <3>2, <3>3
  <2>3. AssetsTyped'
    BY <1>1, <1>2, <1>3, <2>2 DEF AssetsTyped, assetConfig
  <2>4. RulesFresh'
    BY <1>3, <1>13, <1>14, <2>1 DEF RulesFresh
  <2>5. (ReadsOnly /\ PassedOver /\ BestFound /\ WorkerLast)'
    BY <2>1 DEF ReadsOnly, PassedOver, BestFound, WorkerLast
  <2>6. fetch'.file \notin Wanted'
    <3>1. \A i \in DOMAIN Candidates(path) : Candidates(path)[i] # "none"
      BY <1>8, CandidatesAre
    <3>3. Wanted' = {Candidates(path)[i] : i \in DOMAIN Candidates(path)}
      BY <1>1, <2>1 DEF Wanted, Candidates, assetConfig
    <3> QED BY <2>1, <3>1, <3>3
  <2>7. /\ Moved(Moved(fetch.path))' = Moved(fetch.path)'
        /\ Candidates(Moved(fetch.path))' = Candidates(fetch.path)'
    <3>1. Moved(Moved(path)) = Moved(path) /\ Candidates(Moved(path)) = Candidates(path)
      BY <1>8, MovedOnce
    <3>2. Moved(fetch.path)' = Moved(path) /\ Candidates(fetch.path)' = Candidates(path)
      BY <1>1, <2>1 DEF Moved, Candidates, assetConfig
    <3>3. Moved(Moved(fetch.path))' = Moved(Moved(path)) /\ Candidates(Moved(fetch.path))' = Candidates(Moved(path))
      BY <1>1, <2>1 DEF Moved, Candidates, assetConfig
    <3> QED BY <3>1, <3>2, <3>3
  <2>8. AssetsTrue'
    <3>1. /\ CanServeAssets(fetch'.kind)
          /\ script' /\ fetch'.url \in first' => fetch'.refused
      BY <1>1, <1>16, <2>1 DEF assetConfig
    <3>2. fetch'.status \notin {200, 404}
      BY <2>1
    <3>3. \A r \in RuleFiles : fetch'.used[r] >= fetch'.began[r]
      BY <1>14, <2>1
    <3> QED BY <2>1, <2>6, <2>7, <3>1, <3>2, <3>3 DEF AssetsTrue, CanServeAssets
  <2> QED BY <1>15, <2>3, <2>4, <2>5, <2>8 DEF AssetsIInv
<1>18. ASSUME fetch' = [asked EXCEPT !.at = "looking", !.left = Candidates(path), !.last = LastResort]
       PROVE  AssetsIInv'
  <2>1. /\ fetch'.at = "looking" /\ fetch'.by = fetch.by /\ fetch'.path = path /\ fetch'.left = Candidates(path)
        /\ fetch'.kind = fetch.kind /\ fetch'.url = fetch.url /\ fetch'.refused = fetch.refused
        /\ fetch'.file = "none" /\ fetch'.used = now /\ fetch'.began = fetch.began
    BY <1>10, <1>11, <1>16, <1>18 DEF FetchRecords
  <2>2. fetch' \in FetchRecords
    <3>1. "looking" \in FetchStates
      BY DEF FetchStates
    <3>2. SetAt(asked, "looking") \in FetchRecords
      BY <1>10, <3>1, RequestUpdates
    <3>3. fetch' = [SetAt(asked, "looking") EXCEPT !.left = Candidates(path), !.last = LastResort]
      BY <1>10, <1>18 DEF FetchRecords, SetAt
    <3>4. /\ Candidates(path) \in {<<>>, <<"index">>, <<"f.txt">>, <<"p/index", "p.html">>, <<"p.html">>}
          /\ LastResort \in {<<>>, <<"index">>, <<"404">>}
      BY <1>8, CandidatesAre DEF LastResort
    <3>5. \A q \in FetchRecords : \A a, b :
            /\ a \in {<<>>, <<"index">>, <<"f.txt">>, <<"p/index", "p.html">>, <<"p.html">>}
            /\ b \in {<<>>, <<"index">>, <<"404">>}
            => [q EXCEPT !.left = a, !.last = b] \in FetchRecords
      BY DEF FetchRecords
    <3> QED BY <3>2, <3>3, <3>4, <3>5
  <2>3. AssetsTyped'
    BY <1>1, <1>2, <1>3, <2>2 DEF AssetsTyped, assetConfig
  <2>4. RulesFresh'
    BY <1>3, <1>4, <1>13, <1>14, <2>1 DEF RulesFresh
  <2>5. ReadsOnly'
    BY <1>1, <1>16, <2>1 DEF ReadsOnly, CanServeAssets, assetConfig
  <2>6. PassedOver'
    <3>1. Candidates(fetch.path)' = Candidates(path)
      BY <1>1, <2>1 DEF Candidates, assetConfig
    <3> QED BY <2>1, <3>1 DEF PassedOver
  <2>7. (BestFound /\ WorkerLast /\ AssetsTrue)'
    BY <2>1 DEF BestFound, WorkerLast, AssetsTrue
  <2> QED BY <1>15, <2>3, <2>4, <2>5, <2>6, <2>7 DEF AssetsIInv
<1> QED BY <1>7, <1>17, <1>18

LEMMA FetchArrivesKeeps ==
  ASSUME AssetsAssumption, AssetsIInv, NEW kind \in {"get", "post", "upgrade"}, NEW url \in Urls, FetchArrives(kind, url)
  PROVE  AssetsIInv'
<1> DEFINE a == IF script /\ (url \in first \/ ~CanServeAssets(kind)) THEN "worker"
                ELSE IF CanServeAssets(kind) THEN "assets" ELSE "rejected"
<1>1. /\ UNCHANGED <<assetConfig, disk, ruleDisk, ruleCache>> /\ missing' = AssetFiles \ disk
      /\ fetch' = [NoFetch EXCEPT !.kind = kind, !.url = url, !.path = url, !.began = ruleDisk, !.used = ruleDisk, !.at = a]
  BY DEF FetchArrives
<1>2. AssetsTyped /\ RulesFresh
  BY DEF AssetsIInv
<1>3. a \in {"worker", "assets", "rejected"}
  OBVIOUS
<1>4. /\ a = "assets" => CanServeAssets(kind) /\ ~(script /\ url \in first)
      /\ a = "worker" => url \in first \/ ~CanServeAssets(kind)
  OBVIOUS
<1> HIDE DEF a
<1>5. fetch' = [at |-> a, kind |-> kind, url |-> url, path |-> url, left |-> <<>>, last |-> <<>>,
                status |-> 200, by |-> "none", file |-> "none", began |-> ruleDisk, used |-> ruleDisk, refused |-> FALSE]
  BY <1>1 DEF NoFetch
<1>f. /\ fetch'.at = a /\ fetch'.kind = kind /\ fetch'.url = url /\ fetch'.by = "none" /\ fetch'.file = "none"
      /\ fetch'.began = ruleDisk /\ fetch'.used = ruleDisk
  BY <1>5
<1>u. UNCHANGED assetConfig /\ ruleDisk' = ruleDisk /\ ruleCache' = ruleCache
  BY <1>1
<1>6. ruleDisk \in RuleStamps
  BY <1>2 DEF AssetsTyped, RuleStamps, RuleVersions, AssetsAssumption
<1>7. fetch' \in FetchRecords
  BY <1>3, <1>5, <1>6 DEF FetchRecords, FetchStates
<1>8. AssetsTyped'
  BY <1>1, <1>2, <1>7 DEF AssetsTyped, assetConfig
<1>9. AbsenceSeen'
  BY <1>1 DEF AbsenceSeen
<1>10. ReadsOnly'
  BY <1>1, <1>3, <1>4, <1>5 DEF ReadsOnly, CanServeAssets, assetConfig
<1>11. (PassedOver /\ BestFound /\ AssetsTrue)'
  BY <1>3, <1>5 DEF PassedOver, BestFound, AssetsTrue
<1>12. WorkerLast'
  BY <1>u, <1>4, <1>f DEF WorkerLast, CanServeAssets, assetConfig
<1>13. RulesFresh'
  <2>1. \A s \in RuleFiles : ruleDisk[s] >= ruleDisk[s]
    BY <1>6 DEF RuleStamps
  <2>2. /\ fetch'.used = ruleDisk /\ fetch'.began = ruleDisk /\ fetch'.by = "none"
        /\ ruleDisk' = ruleDisk /\ ruleCache' = ruleCache
    BY <1>f, <1>u
  <2> QED BY <1>2, <2>1, <2>2 DEF RulesFresh
<1> QED BY <1>8, <1>9, <1>10, <1>11, <1>12, <1>13 DEF AssetsIInv

LEMMA WorkerAndServerKeep ==
  ASSUME AssetsAssumption, AssetsIInv, Reject \/ (\E status \in {200, 404} : WorkerAnswers(status)) \/ FetchOver
  PROVE  AssetsIInv'
<1>1. AssetsTyped /\ RulesFresh /\ AbsenceSeen /\ fetch \in FetchRecords
  BY DEF AssetsIInv, AssetsTyped
<1>2. ASSUME NEW n \in Nat, NEW b \in {"worker", "server"}, Answer(n, b), fetch.at \in {"worker", "rejected"},
             fetch.at = "rejected" => b = "server",
             UNCHANGED <<assetConfig, disk, ruleDisk, ruleCache, missing, changes, fetches>>
      PROVE  AssetsIInv'
  <2>1. fetch' = SetBy(SetStatus(SetAt(fetch, "done"), n), b)
    BY <1>1, <1>2 DEF Answer, FetchRecords, SetAt, SetStatus, SetBy
  <2>2. fetch' \in FetchRecords
    <3>1. "done" \in FetchStates
      BY DEF FetchStates
    <3> QED BY <1>1, <2>1, <3>1, RequestUpdates
  <2>3. /\ fetch'.at = "done" /\ fetch'.by = b /\ fetch'.path = fetch.path /\ fetch'.kind = fetch.kind
        /\ fetch'.url = fetch.url /\ fetch'.used = fetch.used /\ fetch'.began = fetch.began
    BY <1>1, <2>1 DEF FetchRecords, SetAt, SetStatus, SetBy
  <2>4. Wanted' = Wanted
    BY <1>2, <2>3 DEF Wanted, Candidates, assetConfig
  <2>5. AssetsTyped'
    BY <1>1, <1>2, <2>2 DEF AssetsTyped, assetConfig
  <2>6. AbsenceSeen'
    BY <1>1, <1>2 DEF AbsenceSeen
  <2>7. (ReadsOnly /\ PassedOver /\ BestFound /\ WorkerLast)'
    BY <2>3 DEF ReadsOnly, PassedOver, BestFound, WorkerLast
  <2>8. fetch.by # "error"
    BY <1>1, <1>2 DEF RulesFresh
  <2>9. RulesFresh'
    BY <1>1, <1>2, <2>3, <2>8 DEF RulesFresh
  <2>10. b = "worker" /\ fetch.url \notin first /\ CanServeAssets(fetch.kind) => Wanted \subseteq missing
    BY <1>2 DEF AssetsIInv, WorkerLast
  <2>11. AssetsTrue'
    BY <1>1, <1>2, <2>3, <2>4, <2>10 DEF AssetsTrue, CanServeAssets, assetConfig, RulesFresh
  <2> QED BY <2>5, <2>6, <2>7, <2>9, <2>11 DEF AssetsIInv
<1>3. CASE Reject
  BY <1>2, <1>3 DEF Reject
<1>4. ASSUME NEW status \in {200, 404}, WorkerAnswers(status) PROVE AssetsIInv'
  <2>1. CASE status = 404 /\ fetch.url \in first /\ CanServeAssets(fetch.kind)
    <3>1. /\ fetch' = [fetch EXCEPT !.at = "assets", !.refused = TRUE] /\ fetch.at = "worker"
          /\ UNCHANGED <<assetConfig, disk, ruleDisk, ruleCache, missing, changes, fetches>>
      BY <1>4, <2>1 DEF WorkerAnswers
    <3>2. fetch' \in FetchRecords
      BY <1>1, <3>1 DEF FetchRecords, FetchStates
    <3>3. /\ fetch'.at = "assets" /\ fetch'.refused = TRUE /\ fetch'.file = fetch.file /\ fetch'.kind = fetch.kind
          /\ fetch'.by = fetch.by /\ fetch'.used = fetch.used /\ fetch'.began = fetch.began
      BY <1>1, <3>1 DEF FetchRecords
    <3>4. fetch.file = "none"
      BY <2>1, <3>1 DEF AssetsIInv, WorkerLast
    <3>5. AssetsTyped'
      BY <1>1, <3>1, <3>2 DEF AssetsTyped, assetConfig
    <3>6. AbsenceSeen'
      BY <1>1, <3>1 DEF AbsenceSeen
    <3>7. ReadsOnly'
      BY <2>1, <3>1, <3>3 DEF ReadsOnly, CanServeAssets
    <3>8. (PassedOver /\ BestFound /\ WorkerLast /\ AssetsTrue)'
      BY <3>3, <3>4 DEF PassedOver, BestFound, WorkerLast, AssetsTrue
    <3>9. RulesFresh'
      BY <1>1, <3>1, <3>3 DEF RulesFresh
    <3> QED BY <3>5, <3>6, <3>7, <3>8, <3>9 DEF AssetsIInv
  <2>2. CASE ~(status = 404 /\ fetch.url \in first /\ CanServeAssets(fetch.kind))
    BY <1>2, <1>4, <2>2 DEF WorkerAnswers
  <2> QED BY <2>1, <2>2
<1>5. CASE FetchOver
  <2>1. /\ fetch' = NoFetch /\ missing' = {} /\ UNCHANGED <<assetConfig, disk, ruleDisk, ruleCache>>
    BY <1>5 DEF FetchOver
  <2>2. NoFetch \in FetchRecords
    BY DEF NoFetch, FetchRecords, FetchStates, RuleStamps, RuleFiles, Urls
  <2>3. NoFetch.at = "idle" /\ NoFetch.by = "none" /\ NoFetch.used = NoFetch.began /\ NoFetch.used \in [RuleFiles -> {0}]
    BY DEF NoFetch
  <2>4. AssetsTyped'
    BY <1>1, <2>1, <2>2 DEF AssetsTyped, assetConfig
  <2>5. (AbsenceSeen /\ ReadsOnly /\ PassedOver /\ BestFound /\ WorkerLast /\ AssetsTrue)'
    BY <2>1, <2>3 DEF AbsenceSeen, ReadsOnly, PassedOver, BestFound, WorkerLast, AssetsTrue
  <2>6. \A s \in RuleFiles : NoFetch.used[s] >= NoFetch.began[s]
    BY <2>3
  <2>7. RulesFresh'
    BY <1>1, <2>1, <2>3, <2>6 DEF RulesFresh
  <2> QED BY <2>4, <2>5, <2>7 DEF AssetsIInv
<1> QED BY <1>3, <1>4, <1>5

LEMMA AssetsStep ==
  ASSUME AssetsAssumption, AssetsIInv, [AssetsNext]_assetVars
  PROVE  AssetsIInv'
<1>1. CASE UNCHANGED assetVars
  <2>1. UNCHANGED <<assetConfig, fetch, disk, missing, ruleDisk, ruleCache>>
    BY <1>1 DEF assetVars, assetConfig
  <2>2. (ReadsOnly /\ PassedOver /\ BestFound /\ WorkerLast /\ AssetsTrue)'
    BY <2>1, RequestUntouched
  <2>3. (AssetsTyped /\ AbsenceSeen /\ RulesFresh)'
    BY <2>1 DEF AssetsIInv, AssetsTyped, AbsenceSeen, RulesFresh, assetConfig
  <2> QED BY <2>2, <2>3 DEF AssetsIInv
<1>2. ASSUME NEW g \in AssetFiles, FileChanges(g) PROVE AssetsIInv'
  BY <1>2, FileChangesKeeps
<1>3. ASSUME NEW r \in RuleFiles, RulesGone(r) PROVE AssetsIInv'
  BY <1>3, RulesGoneKeeps
<1>4. ASSUME NEW r \in RuleFiles, NEW v \in RuleVersions, RuleEdited(r, v) PROVE AssetsIInv'
  BY <1>4, RuleEditedKeeps
<1>5. ASSUME NEW v \in RuleVersions, AssetsBegin(v) PROVE AssetsIInv'
  BY <1>5, AssetsBeginKeeps
<1>6. ASSUME NEW v \in RuleVersions, ServeFile(v) PROVE AssetsIInv'
  BY <1>6, ServeFileKeeps
<1>7. CASE Found
  BY <1>7, FoundKeeps
<1>8. CASE NotThere
  BY <1>8, NotThereKeeps
<1>9. CASE NothingFound
  BY <1>9, NothingFoundKeeps
<1>10. ASSUME NEW kind \in {"get", "post", "upgrade"}, NEW url \in Urls, FetchArrives(kind, url) PROVE AssetsIInv'
  BY <1>10, FetchArrivesKeeps
<1>11. CASE Reject \/ (\E status \in {200, 404} : WorkerAnswers(status)) \/ FetchOver
  BY <1>11, WorkerAndServerKeep
<1> QED BY <1>1, <1>2, <1>3, <1>4, <1>5, <1>6, <1>7, <1>8, <1>9, <1>10, <1>11 DEF AssetsNext

\* Whatever happens on disk while a request is answered, a file is given to reads only and
\* is the best one that was there all along; a worker that runs first has its say before, and
\* one that does not only when every file that would do was missing; rules are never older
\* than the request.
THEOREM AssetsTrueAlways == AssetsSpec => []AssetsTrue
<1>1. AssetsInit => AssetsIInv
  BY AssetsStart, AssetsAssumption
<1>2. AssetsIInv /\ [AssetsNext]_assetVars => AssetsIInv'
  BY AssetsStep, AssetsAssumption
<1>3. AssetsIInv => AssetsTrue
  BY DEF AssetsIInv
<1> QED BY <1>1, <1>2, <1>3, PTL DEF AssetsSpec

-----------------------------------------------------------------------------
(* Dynamic workers (worker-loader.ts).                                       *)

\* The code is asked for by the first call, if it is not there, and the thread is made
\* by the boot.
BootOnce ==
  /\ stubBoot = "none" => callbacks = 0
  /\ callbacks <= 1
  /\ stubBoot \in {"none", "code", "writing"} => spawned = 0
  /\ spawned <= 1

\* A call that the thread has not seen has not run.
RunOnce == \A c \in LoaderCalls :
  /\ loaderCall[c] \in {"idle", "waiting", "posted", "late"} => handled[c] = 0
  /\ handled[c] <= 1
  /\ loaderCall[c] = "posted" => stubBoot = "ready"

LoaderInv == LoaderType /\ BootOnce /\ RunOnce

\* The safety part of LoaderServes.
LoaderOnce ==
  /\ callbacks <= 1 /\ spawned <= 1
  /\ \A c \in LoaderCalls :
       /\ handled[c] <= 1
       /\ loaderCall[c] = "posted" => stubBoot = "ready"

LEMMA LoaderStart == LoaderInit => LoaderInv
<1> SUFFICES ASSUME LoaderInit PROVE LoaderInv
  OBVIOUS
<1>1. LoaderType
  BY DEF LoaderInit, LoaderType
<1>2. BootOnce
  BY DEF LoaderInit, BootOnce
<1>3. RunOnce
  BY DEF LoaderInit, RunOnce
<1> QED BY <1>1, <1>2, <1>3 DEF LoaderInv

LEMMA LoaderStep == LoaderInv /\ [LoaderNext]_loaderVars => LoaderInv'
<1> SUFFICES ASSUME LoaderInv, [LoaderNext]_loaderVars PROVE LoaderInv'
  OBVIOUS
<1> USE DEF LoaderInv, LoaderType
<1>1. CASE UNCHANGED loaderVars
  BY <1>1 DEF loaderVars, BootOnce, RunOnce
<1>2. ASSUME NEW c \in LoaderCalls, Send(c) PROVE LoaderInv'
  <2>1. LoaderType'
    BY <1>2 DEF Send, EnsureReady, Boot
  <2>2. BootOnce'
    BY <1>2 DEF Send, EnsureReady, Boot, BootOnce
  <2>3. RunOnce'
    BY <1>2 DEF Send, EnsureReady, Boot, RunOnce
  <2> QED BY <2>1, <2>2, <2>3
<1>3. ASSUME NEW c \in LoaderCalls, AfterBoot(c) PROVE LoaderInv'
  <2>1. LoaderType'
    BY <1>3 DEF AfterBoot
  <2>2. BootOnce'
    BY <1>3 DEF AfterBoot, BootOnce
  <2>3. RunOnce'
    BY <1>3 DEF AfterBoot, RunOnce
  <2> QED BY <2>1, <2>2, <2>3
<1>4. ASSUME NEW c \in LoaderCalls, HandleCommand(c) PROVE LoaderInv'
  <2>1. LoaderType'
    BY <1>4 DEF HandleCommand, Result
  <2>2. BootOnce'
    BY <1>4 DEF HandleCommand, BootOnce
  <2>3. RunOnce'
    BY <1>4 DEF HandleCommand, Result, RunOnce
  <2> QED BY <2>1, <2>2, <2>3
<1>5. CASE ResolveCode
  BY <1>5 DEF ResolveCode, BootOnce, RunOnce
<1>6. CASE WriteModules
  BY <1>6 DEF WriteModules, BootOnce, RunOnce
<1>7. CASE InitEnds
  BY <1>7 DEF InitEnds, BootOnce, RunOnce
<1>8. CASE ThreadFails
  <2>1. LoaderType'
    BY <1>8 DEF ThreadFails
  <2>2. BootOnce'
    BY <1>8 DEF ThreadFails, BootOnce
  <2>3. RunOnce'
    BY <1>8 DEF ThreadFails, RunOnce
  <2> QED BY <2>1, <2>2, <2>3
<1>9. CASE DisposeStub
  BY <1>9 DEF DisposeStub, BootOnce, RunOnce
<1> QED BY <1>1, <1>2, <1>3, <1>4, <1>5, <1>6, <1>7, <1>8, <1>9 DEF LoaderNext

\* However many calls meet in a dynamic worker, its code is asked for once and one thread
\* is made; each call runs at most once, and only when the module is there.
THEOREM LoaderOnceAlways == LoaderSpec => []LoaderOnce
<1>1. LoaderInv => LoaderOnce
  BY DEF LoaderInv, BootOnce, RunOnce, LoaderOnce
<1> QED BY LoaderStart, LoaderStep, <1>1, PTL DEF LoaderSpec
=============================================================================
