------------------------------- MODULE Stream -------------------------------
(***************************************************************************)
(* One body that crosses threads (src/worker-thread/stream-shared.ts):     *)
(* pumpStream and OutboundStreamRegistry on the sending side,              *)
(* StreamReceiver on the other, `fwd' and `back' the message channels.     *)
(* Main and a worker both send and receive; bodies share nothing.          *)
(*                                                                         *)
(* Chunks are numbered.  A ReadableStream is what the standard makes of    *)
(* it: pull runs after start, after a chunk was enqueued and when the      *)
(* consumer reads, whenever a read is waiting or the queue has room.       *)
(***************************************************************************)
EXTENDS Integers, Sequences

CONSTANTS
  MaxChunks,   \* bound: chunks of the source
  Window       \* STREAM_BACKPRESSURE_WINDOW

ASSUME StreamAssumption == MaxChunks \in Nat /\ Window \in Nat \ {0}

Chunks == 1..MaxChunks
End    == 0               \* the message that the source has ended
Fault  == MaxChunks + 1   \* the message that it failed
Events == 0..(MaxChunks + 1)

VARIABLES
  pump,      \* the loop of pumpStream: before it, in reader.read(), parked in acquireCredit, over
  read,      \* chunks read from the source
  source,    \* how the source ended: "open", "end", "error"; "cut" when the pump gave it up
  alive,     \* neither thread of the channel has been torn down
  credits,   \* credits of the registered stream
  fwd,       \* messages to the receiver
  back,      \* messages to the sender: "ack", "cancel"
  ctrl,      \* the reconstructed stream: none, announced, opened, its controller
             \* registered (started), its controller gone
  pending,   \* _pending: events that came before the controller
  forsaken,  \* the id is in _cancelled
  queue,     \* chunks in the queue of the reconstructed stream
  want,      \* the consumer waits in a read()
  seen,      \* chunks the consumer has read
  bodyFate       \* what the consumer knows: "open", "done", "error", "cancelled", "torn"

sendVars == <<pump, read, source, credits>>
recvVars == <<ctrl, pending, forsaken, queue, want, seen, bodyFate>>
streamVars == <<sendVars, alive, fwd, back, recvVars>>

StreamType ==
  /\ pump \in {"idle", "reading", "parked", "over"}
  /\ read \in 0..MaxChunks
  /\ source \in {"open", "end", "error", "cut"}
  /\ alive \in BOOLEAN
  /\ credits \in Nat
  /\ fwd \in Seq(Events)
  /\ back \in Seq({"ack", "cancel"})
  /\ ctrl \in {"none", "announced", "opened", "started", "gone"}
  /\ pending \in Seq(Events)
  /\ forsaken \in BOOLEAN
  /\ queue \in Seq(Chunks)
  /\ want \in BOOLEAN
  /\ seen \in Seq(Chunks)
  /\ bodyFate \in {"open", "done", "error", "cancelled", "torn"}

StreamInit ==
  /\ pump = "idle" /\ read = 0 /\ source = "open" /\ alive = TRUE /\ credits = Window
  /\ fwd = <<>> /\ back = <<>>
  /\ ctrl = "none" /\ pending = <<>> /\ forsaken = FALSE
  /\ queue = <<>> /\ want = FALSE /\ seen = <<>> /\ bodyFate = "open"

-----------------------------------------------------------------------------
(* The sender.                                                             *)

\* The head of the response or request has been posted, so the receiver knows
\* the id.  getReader() of a body that is locked throws: the stream fails.
StartPump ==
  /\ pump = "idle" /\ alive
  /\ ctrl' = "announced"
  /\ \/ pump' = "reading" /\ UNCHANGED <<source, fwd>>
     \/ pump' = "over" /\ source' = "error" /\ fwd' = Append(fwd, Fault)
  /\ UNCHANGED <<read, alive, credits, back, pending, forsaken, queue, want, seen, bodyFate>>

\* A chunk is read; acquireCredit takes a credit or parks.
ReadChunk ==
  /\ pump = "reading" /\ alive
  /\ read < MaxChunks
  /\ read' = read + 1
  /\ IF credits > 0
       THEN credits' = credits - 1 /\ fwd' = Append(fwd, read + 1) /\ pump' = pump
       ELSE pump' = "parked" /\ UNCHANGED <<credits, fwd>>
  /\ UNCHANGED <<source, alive, back, recvVars>>

SourceEnds ==
  /\ pump = "reading" /\ alive
  /\ pump' = "over"
  /\ \/ source' = "end" /\ fwd' = Append(fwd, End)
     \/ source' = "error" /\ fwd' = Append(fwd, Fault)
  /\ UNCHANGED <<read, alive, credits, back, recvVars>>

\* Mutant: a grant does not wake the parked pump.
AckArrives_NoWake ==
  /\ back # <<>> /\ Head(back) = "ack"
  /\ back' = Tail(back)
  /\ credits' = IF pump \in {"reading", "parked"} THEN credits + 1 ELSE credits
  /\ UNCHANGED <<pump, fwd, read, source, alive, recvVars>>

\* grantCredit: a parked pump goes on with the chunk it holds.
AckArrives ==
  /\ back # <<>> /\ Head(back) = "ack"
  /\ back' = Tail(back)
  /\ CASE pump = "reading" -> credits' = credits + 1 /\ UNCHANGED <<pump, fwd>>
       [] pump = "parked"  -> pump' = "reading" /\ fwd' = Append(fwd, read) /\ credits' = credits
       [] OTHER            -> UNCHANGED <<pump, fwd, credits>>
  /\ UNCHANGED <<read, source, alive, recvVars>>

\* cancel: the reader is cancelled, which ends a read under way, or the parked
\* pump wakes without its entry; both post a terminator.
CancelArrives ==
  /\ back # <<>> /\ Head(back) = "cancel"
  /\ back' = Tail(back)
  /\ IF pump \in {"reading", "parked"}
       THEN pump' = "over" /\ source' = "cut" /\ fwd' = Append(fwd, End)
       ELSE UNCHANGED <<pump, source, fwd>>
  /\ UNCHANGED <<read, alive, credits, recvVars>>

-----------------------------------------------------------------------------
(* The receiver.                                                           *)

HasRoom(q, w) == w \/ Len(q) < Window

\* The ReadableStream's pull, which grants a credit.
Pulls(q, w) == back' = IF HasRoom(q, w) THEN Append(back, "ack") ELSE back

\* The consumer is told of the outcome once the queue is empty.
CloseRequested == ctrl = "gone"

\* _apply of an event that finds a controller.
Enqueue(c) ==
  /\ IF want THEN seen' = Append(seen, c) /\ want' = FALSE /\ queue' = queue
             ELSE queue' = Append(queue, c) /\ UNCHANGED <<seen, want>>
  /\ Pulls(queue', want')
  /\ UNCHANGED <<ctrl, bodyFate>>
Close ==
  /\ ctrl' = "gone"
  /\ bodyFate' = IF queue = <<>> THEN "done" ELSE bodyFate
  /\ want' = FALSE
  /\ UNCHANGED <<queue, seen, back>>
Break(how) ==
  /\ ctrl' = "gone"
  /\ bodyFate' = how
  /\ queue' = <<>>
  /\ want' = FALSE
  /\ UNCHANGED <<seen, back>>

\* _onEvent: drop what a cancelled stream still gets, and forget the id with the
\* terminator; keep what comes before the controller; apply the rest.
EventArrives ==
  /\ fwd # <<>>
  /\ fwd' = Tail(fwd)
  /\ LET e == Head(fwd) IN
     IF forsaken
       THEN /\ forsaken' = (e \in Chunks)
            /\ UNCHANGED <<ctrl, pending, queue, want, seen, bodyFate, back>>
       ELSE /\ forsaken' = forsaken
            /\ CASE ctrl \in {"announced", "opened"} ->
                      pending' = Append(pending, e) /\ UNCHANGED <<ctrl, queue, want, seen, bodyFate, back>>
                 [] ctrl = "started" /\ e \in Chunks -> Enqueue(e) /\ pending' = pending
                 [] ctrl = "started" /\ e = End      -> Close /\ pending' = pending
                 [] ctrl = "started" /\ e = Fault    -> Break("error") /\ pending' = pending
  /\ UNCHANGED <<sendVars, alive>>

OpenStream ==
  /\ ctrl = "announced" /\ alive /\ ~forsaken
  /\ ctrl' = "opened"
  /\ UNCHANGED <<sendVars, alive, fwd, back, pending, forsaken, queue, want, seen, bodyFate>>

\* Mutant: what came before the controller is dropped.
StartController_Fresh ==
  /\ ctrl = "opened" /\ alive
  /\ pending' = <<>> /\ ctrl' = "started" /\ Pulls(<<>>, FALSE)
  /\ UNCHANGED <<sendVars, alive, fwd, forsaken, queue, want, seen, bodyFate>>

\* start(): the events that came early are applied in one go, and the stream
\* pulls for the first time.  On Bun this may be as late as the first read.
StartController ==
  /\ ctrl = "opened" /\ alive
  /\ pending' = <<>>
  /\ LET ended(e) == pending # <<>> /\ pending[Len(pending)] = e
         early    == IF ended(End) THEN SubSeq(pending, 1, Len(pending) - 1) ELSE pending
     IN \/ /\ ended(End)
           /\ ctrl' = "gone" /\ queue' = early /\ back' = back
           /\ bodyFate' = IF early = <<>> THEN "done" ELSE bodyFate
        \/ /\ ended(Fault)
           /\ ctrl' = "gone" /\ queue' = <<>> /\ back' = back
           /\ bodyFate' = "error"
        \/ /\ ~ended(End) /\ ~ended(Fault)
           /\ ctrl' = "started" /\ queue' = early /\ Pulls(early, FALSE)
           /\ bodyFate' = bodyFate
  /\ UNCHANGED <<sendVars, alive, fwd, forsaken, want, seen>>

\* The consumer reads: a chunk from the queue, or it waits for one.
Readable == bodyFate = "open" /\ ctrl \in {"started", "gone"} /\ ~want
ConsumerReads ==
  /\ Readable
  /\ IF queue # <<>>
       THEN /\ seen' = Append(seen, Head(queue))
            /\ queue' = Tail(queue)
            /\ want' = want
            /\ bodyFate' = IF CloseRequested /\ Tail(queue) = <<>> THEN "done" ELSE bodyFate
            /\ IF CloseRequested THEN back' = back ELSE Pulls(queue', FALSE)
       ELSE want' = TRUE /\ Pulls(queue, TRUE) /\ UNCHANGED <<seen, queue, bodyFate>>
  /\ UNCHANGED <<sendVars, alive, fwd, ctrl, pending, forsaken>>

\* The id is stale from now on.
Forsake ==
  /\ forsaken' = TRUE
  /\ pending' = <<>>
  /\ queue' = <<>>
  /\ want' = FALSE
  /\ ctrl' = "gone"
  /\ bodyFate' = "cancelled"
  /\ back' = IF alive THEN Append(back, "cancel") ELSE back
  /\ UNCHANGED <<sendVars, alive, fwd, seen>>

\* The consumer cancels, or the stream is collected before its end.
ConsumerCancels ==
  /\ bodyFate = "open" /\ ctrl \in {"opened", "started", "gone"}
  /\ Forsake

\* The dispatcher cancels a stream that nobody will read (rpc-shared.ts, entry.ts).
DispatcherCancels ==
  /\ bodyFate = "open" /\ ctrl \in {"announced", "opened", "started"} /\ alive
  /\ Forsake

\* One of the threads is disposed of: what is in flight is lost, the pump stops
\* without a message, a stream with a controller fails, and a response that was
\* not opened is rejected.  A stream whose start() has not run is left alone.
DisposeAll ==
  /\ alive /\ pump # "idle"
  /\ alive' = FALSE
  /\ fwd' = <<>> /\ back' = <<>>
  /\ pump' = "over"
  /\ source' = IF source = "open" THEN "cut" ELSE source
  /\ pending' = <<>> /\ forsaken' = FALSE
  /\ IF ctrl \in {"opened", "gone"}
       THEN UNCHANGED <<ctrl, queue, want, bodyFate>>
       ELSE ctrl' = "gone" /\ queue' = <<>> /\ want' = FALSE /\ bodyFate' = "torn"
  /\ UNCHANGED <<read, credits, seen>>

StreamNext ==
  \/ StartPump \/ ReadChunk \/ SourceEnds \/ AckArrives \/ CancelArrives
  \/ EventArrives \/ OpenStream \/ StartController \/ ConsumerReads
  \/ ConsumerCancels \/ DispatcherCancels \/ DisposeAll

-----------------------------------------------------------------------------
(***************************************************************************)
(* Messages arrive, the source goes on and ends, the dispatcher opens the  *)
(* stream and the consumer reads to the end or cancels.                    *)
(***************************************************************************)
StreamFair ==
  /\ WF_streamVars(ReadChunk \/ SourceEnds)
  /\ WF_streamVars(AckArrives \/ CancelArrives)
  /\ WF_streamVars(EventArrives)
  /\ WF_streamVars(OpenStream \/ StartController)
  /\ WF_streamVars(ConsumerReads)

StreamSpec == StreamInit /\ [][StreamNext]_streamVars /\ StreamFair

\* The body is a lossless channel, until one side gives up.
Body == INSTANCE Channel WITH
  log <- [i \in 1..read |-> i],
  ending <- IF source = "cut" THEN "open" ELSE source,
  got <- seen,
  outcome <- bodyFate

\* Chunks reach the consumer in order and without a gap although they are
\* buffered in three places, and a body that was cut short never looks complete
\* (stream-shared.ts, _onEvent, start, pumpStream).
BodyIsChannel == Body!ChannelSpec

\* A consumer that reads on learns how the body ended: the pump never waits for
\* a credit that the receiver will not grant (acquireCredit, pull).  disposeAll
\* fails only streams that have started.  Once the consumer is done with the body
\* the source is released, also when its pump was parked (cancel, disposeAll).
BodyEnds ==
  /\ []<>(pump = "idle" \/ bodyFate # "open" \/ (~alive /\ ctrl = "opened"))
  /\ []<>(bodyFate = "open" \/ pump = "over")
=============================================================================
