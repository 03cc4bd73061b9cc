------------------------------- MODULE Tracing -------------------------------
(***************************************************************************)
(* Traces (tracing/store.ts, tracing/span.ts): main keeps one store, a     *)
(* table of spans with a cap, and streams it to the dashboard (cli/dev.ts, *)
(* dashboard/views/traces.tsx).  Spans of worker threads arrive as         *)
(* messages (worker-thread/remote-trace-store.ts).  The trace command      *)
(* opens the same file (cli/traces.ts).                                    *)
(***************************************************************************)
EXTENDS Integers, Sequences, FiniteSets

CONSTANTS
  Traces,     \* 1..n: each trace is started once, in this order
  Parents,    \* those in which a binding is called
  Cap,        \* TRACE_CAP
  Batch,      \* PRUNE_BATCH
  MaxBuffer,  \* events that a viewer's socket holds back
  MaxPosted,  \* bound of the messages that are under way
  MaxUpsets,  \* bound of what is not a span's own doing: stops, viewers, ...
  CliAnytime  \* whether `lopata trace' is also run while the server runs

ASSUME TraceAssumption ==
  /\ IsFiniteSet(Traces) /\ Traces = 1..Cardinality(Traces) /\ Parents \subseteq Traces
  /\ Cap \in Nat /\ Batch \in Nat \ {0} /\ MaxBuffer \in Nat /\ MaxUpsets \in Nat
  /\ MaxPosted \in Nat \ {0}
  /\ CliAnytime \in BOOLEAN

Root(t) == <<t, "root">>
Child(t) == <<t, "child">>    \* a binding call in the worker thread
Spans == {Root(t) : t \in Traces} \cup {Child(t) : t \in Parents}
IsRoot(s) == s[2] = "root"

VARIABLES
  spanStore,  \* rows, startTimeCache, rootSpanCount
  work,       \* what became of the work of each span
  away,       \* traces whose root is in the thread: alarms, queues, workflows
  posted,     \* messages from the thread
  viewer,     \* a dashboard: its socket's filter and buffer, and what it shows
  evicted,    \* spans that lost their cache entry while they ran
  serving,    \* whether the server runs
  upsets

traceVars == <<spanStore, work, away, posted, viewer, evicted, serving, upsets>>

NoSpan == [status |-> "unset", at |-> "absent"]
OpenSpan == [status |-> "unset", at |-> "open"]
Statuses == {"unset", "ok", "error"}
TraceMessage(op, s, status) == [op |-> op, span |-> s, status |-> status]
NoViewer == [status |-> "all", buffer |-> <<>>, on |-> FALSE,
             shows |-> [t \in Traces |-> "none"], missed |-> FALSE]
Upset == upsets < MaxUpsets /\ upsets' = upsets + 1

TraceType ==
  /\ spanStore.row \in [Spans -> [status : Statuses, at : {"absent", "open", "over"}]]
  /\ spanStore.cached \subseteq Spans /\ spanStore.roots \in Int
  /\ work \in [Spans -> {"none", "running", "ok", "error", "cut"}]
  /\ away \subseteq Traces /\ evicted \subseteq Spans
  /\ viewer.shows \in [Traces -> Statuses \cup {"none"}]

TraceInit ==
  /\ spanStore = [row |-> [s \in Spans |-> NoSpan], cached |-> {}, roots |-> 0]
  /\ work = [s \in Spans |-> "none"]
  /\ away = {} /\ posted = <<>> /\ evicted = {}
  /\ viewer = NoViewer
  /\ serving = TRUE /\ upsets = 0

-----------------------------------------------------------------------------
(* The store.                                                               *)

SpanRows(store) == {s \in Spans : store.row[s].at # "absent"}

RootTraces(store) == {t \in Traces : Root(t) \in SpanRows(store)}

\* ORDER BY start_time LIMIT: a root that arrives late may be among them itself.
Oldest(store) ==
  {t \in RootTraces(store) : Cardinality({u \in RootTraces(store) : u < t}) < Batch}

Pruned_StillCounted(store) ==
  [store EXCEPT !.row = [s \in Spans |-> IF s[1] \in Oldest(store) THEN NoSpan ELSE @[s]]]

\* The oldest root rows go, and with them whatever there is of their traces.
Pruned(store) ==
  [store EXCEPT !.row = [s \in Spans |-> IF s[1] \in Oldest(store) THEN NoSpan ELSE @[s]],
                !.roots = @ - Cardinality(Oldest(store))]

Inserted(store, s) ==
  LET next == [store EXCEPT !.row[s] = OpenSpan, !.cached = @ \cup {s},
                            !.roots = IF IsRoot(s) THEN @ + 1 ELSE @]
  IN  IF IsRoot(s) /\ next.roots > Cap THEN Pruned(next) ELSE next

\* UPDATE ... WHERE span_id finds the row or does not.
AllEnded(store, spans, status) ==
  [store EXCEPT !.row = [s \in Spans |->
                  IF s \in spans \cap store.cached /\ @[s].at # "absent"
                  THEN [status |-> status, at |-> "over"] ELSE @[s]],
                !.cached = @ \ spans]
Ended(store, s, status) == AllEnded(store, {s}, status)

Flagged(store, s) ==
  [store EXCEPT !.row[s] = IF @.at = "absent" THEN @ ELSE [@ EXCEPT !.status = "error"]]

Cleaned(store) ==
  [store EXCEPT !.row = [s \in Spans |->
     IF @[s].at = "open" THEN [status |-> "error", at |-> "over"] ELSE @[s]]]
-----------------------------------------------------------------------------
(* The live stream, as far as the roots go: events of children only change  *)
(* the counts shown with a trace.                                           *)

Filtered(status) == viewer.status # "all" /\ status \notin {"unset", viewer.status}

Heard(v, kind, s, status) ==
  IF ~IsRoot(s) \/ ~v.on \/ Filtered(status) THEN v
  ELSE IF Len(v.buffer) < MaxBuffer
       THEN [v EXCEPT !.buffer = Append(@, TraceMessage(kind, s, status))]
       ELSE [v EXCEPT !.missed = TRUE]

\* The ends of several roots with an error, as far as the buffer has room.
HeardAll(v, events) ==
  LET room == MaxBuffer - Len(v.buffer)
  IN  IF ~v.on \/ Filtered("error") THEN v
      ELSE [v EXCEPT !.buffer = @ \o SubSeq(events, 1, IF Len(events) < room THEN Len(events) ELSE room),
                     !.missed = @ \/ Len(events) > room]

InsertSpan(s) ==
  /\ spanStore' = Inserted(spanStore, s)
  /\ viewer' = Heard(viewer, "start", s, "unset")

EndSpan(s, status) ==
  /\ spanStore' = Ended(spanStore, s, status)
  /\ viewer' = IF s \in spanStore.cached /\ s \in SpanRows(spanStore)
               THEN Heard(viewer, "end", s, status) ELSE viewer

\* A batch: a root's start replaces what is shown, its end changes what is there;
\* what comes last is seen.
Shown(v, t) ==
  LET mine == {i \in 1..Len(v.buffer) : v.buffer[i].span[1] = t}
      last == CHOOSE i \in mine : \A j \in mine : j <= i
  IN  IF mine = {} \/ (v.shows[t] = "none" /\ \A i \in mine : v.buffer[i].op = "end")
      THEN v.shows[t] ELSE v.buffer[last].status

AllShown == [t \in Traces |-> Shown(viewer, t)]

Flush ==
  /\ viewer.buffer # <<>>
  /\ viewer' = [viewer EXCEPT !.buffer = <<>>, !.shows = AllShown]
  /\ UNCHANGED <<spanStore, work, away, posted, evicted, serving, upsets>>

\* open and every change of the filter send the traces there are; the buffer stays.
Watch(status) ==
  /\ viewer.on => status # viewer.status
  /\ Upset
  /\ viewer' = [viewer EXCEPT !.on = TRUE, !.status = status, !.missed = viewer.buffer # <<>>,
       !.shows = [t \in Traces |->
          LET root == spanStore.row[Root(t)]
          IN  IF root.at = "absent" \/ (status # "all" /\ root.status # status)
              THEN "none" ELSE root.status]]
  /\ UNCHANGED <<spanStore, work, away, posted, evicted, serving>>
-----------------------------------------------------------------------------
(* Spans of main: a request, which the worker thread answers.               *)

RootStarts(t) ==
  /\ work[Root(t)] = "none"
  /\ \A u \in Traces : u < t => work[Root(u)] # "none"
  /\ work' = [work EXCEPT ![Root(t)] = "running"]
  /\ InsertSpan(Root(t))
  /\ UNCHANGED <<away, posted, evicted, serving, upsets>>

OnTheWay(s) == \E i \in 1..Len(posted) : posted[i].span = s
Posts(messages) == Len(posted) < MaxPosted /\ posted' = posted \o messages

SpanStarts(s) ==
  /\ work[s] = "none"
  /\ work' = [work EXCEPT ![s] = "running"]
  /\ Posts(<<TraceMessage("insert", s, "unset")>>)
  /\ UNCHANGED <<spanStore, viewer, evicted, serving, upsets>>

\* An alarm, a queue batch or a workflow run starts a trace in its thread.
AwayStarts(t) ==
  /\ \A u \in Traces : u < t => work[Root(u)] # "none"
  /\ SpanStarts(Root(t))
  /\ away' = away \cup {t}

ChildStarts(t) ==
  /\ work[Root(t)] = "running"
  /\ SpanStarts(Child(t))
  /\ UNCHANGED away

\* A 5xx response is flagged first; then succeed() reads the flag and ends.
Ending(s, how) ==
  IF how = "5xx" THEN <<TraceMessage("flag", s, "error"), TraceMessage("end", s, "error")>>
  ELSE <<TraceMessage("end", s, how)>>
Outcome(how) == IF how = "5xx" THEN "error" ELSE how

SpanEnds(s, how) ==
  /\ ~IsRoot(s) \/ s[1] \in away
  /\ work[s] = "running"
  /\ work' = [work EXCEPT ![s] = Outcome(how)]
  /\ Posts(Ending(s, how))
  /\ UNCHANGED <<spanStore, viewer, away, evicted, serving, upsets>>

\* The answer to main's request; a child may go on under waitUntil.
Replies(t, how) ==
  /\ t \notin away
  /\ work[Root(t)] = "running"
  /\ work' = [work EXCEPT ![Root(t)] = how]
  /\ Posts(<<TraceMessage("result", Root(t), how)>>)
  /\ UNCHANGED <<spanStore, viewer, away, evicted, serving, upsets>>

ReceiveTrace ==
  /\ posted # <<>>
  /\ LET m == Head(posted) IN
       \/ m.op = "insert" /\ InsertSpan(m.span)
       \/ m.op = "flag" /\ spanStore' = Flagged(spanStore, m.span) /\ UNCHANGED viewer
       \/ m.op \in {"end", "result"} /\ EndSpan(m.span, m.status)
  /\ posted' = Tail(posted)
  /\ UNCHANGED <<work, away, evicted, serving, upsets>>

\* terminate(): main's pending requests are rejected one by one.  Traces that have reached
\* main are still applied, the other messages are lost; a result that is still read finds
\* its request rejected and its span no longer cached.
Unanswered == {s \in Spans : /\ IsRoot(s) /\ s[1] \notin away
                             /\ work[s] # "none" /\ s \in spanStore.cached}
\* The ends of the spans that have a row, in the order in which the requests came.
Rejections ==
  LET spans == Unanswered \cap SpanRows(spanStore)
      n == Cardinality(spans)
  IN  {events \in [1..n -> {TraceMessage("end", s, "error") : s \in spans}] :
         /\ \A s \in spans : \E i \in 1..n : events[i].span = s
         /\ \A i, j \in 1..n : i < j => events[i].span[1] < events[j].span[1]}

Lost(n, s) == \E i \in n+1..Len(posted) : posted[i].span = s

ThreadStops ==
  /\ Upset
  /\ \E n \in 0..Len(posted) :
       /\ posted' = SubSeq(posted, 1, n)
       /\ work' = [s \in Spans |->
            IF s \in Unanswered THEN "error"
            ELSE IF work[s] = "running" \/ Lost(n, s) THEN "cut" ELSE work[s]]
  /\ spanStore' = AllEnded(spanStore, Unanswered, "error")
  /\ \E events \in Rejections : viewer' = HeardAll(viewer, events)
  /\ UNCHANGED <<away, evicted, serving>>
-----------------------------------------------------------------------------
(* The store's own doings.                                                  *)

ClearTraces ==
  /\ SpanRows(spanStore) # {} /\ Upset
  /\ spanStore' = [row |-> [s \in Spans |-> NoSpan], cached |-> {}, roots |-> 0]
  /\ UNCHANGED <<work, away, posted, viewer, evicted, serving>>

\* A span of more than STALE_SPAN_TTL_MS: nobody can end its row any more.
EvictStale(s) ==
  /\ s \in spanStore.cached /\ Upset
  /\ spanStore' = [spanStore EXCEPT !.cached = @ \ {s}]
  /\ evicted' = evicted \cup {s}
  /\ UNCHANGED <<work, away, posted, viewer, serving>>

\* close() ends what is cached, a kill does not.
ServerStops(closed) ==
  /\ Upset
  /\ serving' = FALSE
  /\ spanStore' = [IF closed THEN AllEnded(spanStore, spanStore.cached, "error") ELSE spanStore
                   EXCEPT !.cached = {}]
  /\ work' = [s \in Spans |->
       IF work[s] = "running" \/ spanStore.row[s].at = "open" \/ OnTheWay(s)
       THEN "cut" ELSE work[s]]
  /\ posted' = <<>>
  /\ viewer' = NoViewer
  /\ UNCHANGED <<away, evicted>>

\* The constructor: it counts the root rows and ends every row that is still open.
ServerStarts ==
  /\ serving' = TRUE
  /\ spanStore' = [Cleaned(spanStore) EXCEPT !.roots = Cardinality(RootTraces(spanStore))]
  /\ UNCHANGED <<work, away, posted, viewer, evicted, upsets>>

\* `lopata trace list' constructs a store of its own over the same file.
CliTraces ==
  /\ serving => CliAnytime
  /\ spanStore' = Cleaned(spanStore)
  /\ UNCHANGED <<work, away, posted, viewer, evicted, serving, upsets>>

TraceNext ==
  \/ /\ serving
     /\ \/ \E t \in Traces : RootStarts(t) \/ AwayStarts(t)
        \/ \E t \in Parents : ChildStarts(t)
        \/ \E s \in Spans, how \in {"ok", "error", "5xx"} : SpanEnds(s, how)
        \/ \E t \in Traces, how \in {"ok", "error"} : Replies(t, how)
        \/ ReceiveTrace \/ ThreadStops \/ ClearTraces
        \/ \E s \in Spans : EvictStale(s)
        \/ Flush \/ \E status \in {"all", "error"} : Watch(status)
        \/ \E closed \in BOOLEAN : ServerStops(closed)
  \/ ~serving /\ ServerStarts
  \/ CliTraces

TraceSpec == TraceInit /\ [][TraceNext]_traceVars
-----------------------------------------------------------------------------
\* A row that has ended says how its work ended, through 5xx flags, messages from
\* the thread, restarts and the cleanup after a crash; a row that is still open has
\* work that runs, was cut off, was evicted, or whose end is on the way (endSpan,
\* RemoteTraceStore).  The counter that enforces the cap is the number of root rows
\* (enforceTraceCap, clearTraces).  A dashboard that shows all traces and missed no
\* event shows the status of every root that has ended (trace-stream).
SpansTrue ==
  /\ \A s \in SpanRows(spanStore) :
       /\ spanStore.row[s].at = "over" =>
            (spanStore.row[s].status = "ok" <=> work[s] = "ok")
       /\ spanStore.row[s].at = "open" =>
            work[s] \in {"running", "cut"} \/ s \in evicted \/ OnTheWay(s)
  /\ spanStore.roots = Cardinality(RootTraces(spanStore))
  /\ spanStore.roots <= Cap
  /\ viewer.on /\ viewer.status = "all" /\ viewer.buffer = <<>> /\ ~viewer.missed =>
       \A t \in Traces : spanStore.row[Root(t)].at = "over" =>
         viewer.shows[t] = spanStore.row[Root(t)].status
=============================================================================
