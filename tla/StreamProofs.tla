----------------------------- MODULE StreamProofs -----------------------------
(***************************************************************************)
(* A body that crosses threads implements Channel, for any source and any  *)
(* window.                                                                 *)
(***************************************************************************)
EXTENDS Stream, SequenceTheorems, TLAPS

(***************************************************************************)
(* The chunks a consumer has not read yet lie in three places, one behind  *)
(* the other: the queue of its stream, the events that came before the     *)
(* stream, and the channel.  They are numbered on without a gap, and the   *)
(* terminator comes last.                                                  *)
(***************************************************************************)
Ready == Len(seen) + Len(queue)

\* Nothing is behind a terminator.
LastOnly(line) == \A i \in 1..Len(line) : line[i] \notin Chunks => i = Len(line)
NumberedFrom(line, n) == \A i \in 1..Len(line) : line[i] \in Chunks => line[i] = n + i
AllChunks(line) == \A i \in 1..Len(line) : line[i] \in Chunks

SeenInOrder ==
  /\ \A i \in 1..Len(seen) : seen[i] = i
  /\ \A i \in 1..Len(queue) : queue[i] = Len(seen) + i
  /\ Ready <= read

Phases ==
  /\ pump = "idle" <=> ctrl = "none"
  /\ pump = "idle" => read = 0 /\ fwd = <<>>
  /\ pump = "parked" => read # 0
  /\ pump = "over" <=> source # "open"
  /\ pump # "over" => alive
  /\ ~alive => fwd = <<>> /\ back = <<>> /\ ctrl \in {"opened", "gone"}
  /\ ctrl # "gone" => bodyFate = "open" /\ ~forsaken
  /\ bodyFate # "open" => queue = <<>>
  /\ forsaken => bodyFate = "cancelled"
  /\ ctrl \notin {"announced", "opened"} \/ ~alive => pending = <<>>
  /\ ctrl \in {"none", "announced", "opened"} => queue = <<>> /\ seen = <<>>
  /\ want => ctrl = "started" /\ queue = <<>>
  /\ ctrl = "gone" /\ ~forsaken => fwd = <<>> /\ pump = "over"
  /\ ctrl = "gone" /\ bodyFate = "open" => source = "end" /\ read = Ready /\ queue # <<>>

\* The receiver cancels what it has given up.
Cancels == \A i \in 1..Len(back) : back[i] = "cancel" => ctrl = "gone"

Lines ==
  /\ LastOnly(fwd) /\ LastOnly(pending)
  /\ pump # "over" => AllChunks(fwd) /\ AllChunks(pending)
  /\ pending # <<>> /\ pending[Len(pending)] \notin Chunks => fwd = <<>>

Terminator == IF source = "end" THEN End ELSE Fault

Numbered ==
  ctrl # "gone" /\ alive =>
    /\ NumberedFrom(pending, Ready)
    /\ NumberedFrom(fwd, Ready + Len(pending))
    /\ pump = "reading" => read = Ready + Len(pending) + Len(fwd)
    /\ pump = "parked" => read = Ready + Len(pending) + Len(fwd) + 1
    /\ pump = "over" =>
         /\ source \in {"end", "error"}
         /\ read = Ready + Len(pending) + Len(fwd) - 1
         /\ IF fwd # <<>> THEN fwd[Len(fwd)] = Terminator
                          ELSE pending # <<>> /\ pending[Len(pending)] = Terminator

StreamInv == StreamType /\ SeenInOrder /\ Phases /\ Cancels /\ Lines /\ Numbered

-----------------------------------------------------------------------------
(* Lines of events.                                                        *)

LEMMA EventKinds ==
  /\ Chunks \subseteq Nat \ {0} /\ Chunks \subseteq Events
  /\ End \in Events \ Chunks /\ Fault \in Events \ Chunks /\ End # Fault
  /\ \A e \in Events : e \in Chunks \/ e = End \/ e = Fault
BY StreamAssumption DEF Chunks, Events, End, Fault

LEMMA AppendLine ==
  ASSUME NEW line \in Seq(Events), NEW e \in Events, AllChunks(line)
  PROVE  /\ Append(line, e) \in Seq(Events) /\ Len(Append(line, e)) = Len(line) + 1
         /\ Append(line, e)[Len(Append(line, e))] = e
         /\ LastOnly(Append(line, e))
         /\ e \in Chunks => AllChunks(Append(line, e))
         /\ \A n \in Nat : NumberedFrom(line, n) /\ (e \in Chunks => e = n + Len(line) + 1) =>
                             NumberedFrom(Append(line, e), n)
BY DEF AllChunks, LastOnly, NumberedFrom

LEMMA TailLine ==
  ASSUME NEW line \in Seq(Events), line # <<>>
  PROVE  /\ Tail(line) \in Seq(Events) /\ Len(Tail(line)) = Len(line) - 1
         /\ Head(line) \in Events /\ Head(line) = line[1]
         /\ LastOnly(line) => LastOnly(Tail(line))
         /\ AllChunks(line) => AllChunks(Tail(line))
         /\ LastOnly(line) /\ Head(line) \notin Chunks => Tail(line) = <<>> /\ Len(line) = 1
         /\ Tail(line) # <<>> => Tail(line)[Len(Tail(line))] = line[Len(line)]
         /\ Tail(line) = <<>> => line[Len(line)] = Head(line)
         /\ \A n \in Nat : NumberedFrom(line, n) =>
              /\ NumberedFrom(Tail(line), n + 1)
              /\ Head(line) \in Chunks => Head(line) = n + 1
<1>1. /\ Tail(line) \in Seq(Events) /\ Len(Tail(line)) = Len(line) - 1
      /\ Head(line) \in Events /\ Head(line) = line[1]
      /\ \A i \in 1..Len(Tail(line)) : Tail(line)[i] = line[i + 1]
  OBVIOUS
<1>2. Len(line) \in Nat \ {0}
  OBVIOUS
<1>3. Tail(line) = <<>> <=> Len(line) = 1
  BY <1>1, <1>2, EmptySeq
<1>4. ASSUME LastOnly(line) PROVE LastOnly(Tail(line))
  <2>1. SUFFICES ASSUME NEW i \in 1..Len(Tail(line)), Tail(line)[i] \notin Chunks
                 PROVE  i = Len(Tail(line))
    BY DEF LastOnly
  <2>2. i + 1 \in 1..Len(line) /\ line[i + 1] \notin Chunks
    BY <1>1, <1>2, <2>1
  <2>3. i + 1 = Len(line)
    BY <1>4, <2>2 DEF LastOnly
  <2>4. i \in Int /\ Len(line) \in Int /\ Len(Tail(line)) = Len(line) - 1
    BY <1>1, <1>2
  <2>5. QED
    BY <2>3, <2>4
<1>5. AllChunks(line) => AllChunks(Tail(line))
  BY <1>1, <1>2 DEF AllChunks
<1>6. ASSUME LastOnly(line), Head(line) \notin Chunks PROVE Tail(line) = <<>> /\ Len(line) = 1
  <2>1. 1 \in 1..Len(line) /\ line[1] \notin Chunks
    BY <1>1, <1>2, <1>6
  <2>2. Len(line) = 1
    BY <1>6, <2>1 DEF LastOnly
  <2>3. QED
    BY <1>3, <2>2
<1>7. /\ Tail(line) # <<>> => Tail(line)[Len(Tail(line))] = line[Len(line)]
      /\ Tail(line) = <<>> => line[Len(line)] = Head(line)
  BY <1>1, <1>2, <1>3
<1>8. ASSUME NEW n \in Nat, NumberedFrom(line, n)
      PROVE  NumberedFrom(Tail(line), n + 1) /\ (Head(line) \in Chunks => Head(line) = n + 1)
  BY <1>1, <1>2, <1>8 DEF NumberedFrom
<1>9. QED
  BY <1>1, <1>4, <1>5, <1>6, <1>7, <1>8

LEMMA EmptyLine ==
  /\ <<>> \in Seq(Events) /\ Len(<<>>) = 0 /\ LastOnly(<<>>) /\ AllChunks(<<>>)
  /\ \A n \in Nat : NumberedFrom(<<>>, n)
BY DEF LastOnly, AllChunks, NumberedFrom

LEMMA Lengths ==
  ASSUME StreamType
  PROVE  /\ Len(seen) \in Nat /\ Len(queue) \in Nat /\ Len(fwd) \in Nat /\ Len(pending) \in Nat
         /\ read \in Nat /\ Ready \in Nat
         /\ queue \in Seq(Events)
         /\ queue = <<>> => Len(queue) = 0
         /\ seen = <<>> => Len(seen) = 0
         /\ fwd = <<>> <=> Len(fwd) = 0
         /\ pending = <<>> <=> Len(pending) = 0
<1>1. seen \in Seq(Chunks) /\ queue \in Seq(Chunks) /\ fwd \in Seq(Events) /\ pending \in Seq(Events)
  BY DEF StreamType
<1>2. queue \in Seq(Events)
  BY <1>1, EventKinds, SeqMonotonic
<1>3. read \in Nat
  BY StreamAssumption DEF StreamType
<1>4. QED
  BY <1>1, <1>2, <1>3, EmptySeq DEF Ready

-----------------------------------------------------------------------------
(* What a step may do to what a consumer sees.                             *)

Same == UNCHANGED <<read, source, seen, bodyFate>>
Takes ==
  /\ bodyFate = "open" /\ Len(seen) < read
  /\ seen' = Append(seen, Len(seen) + 1) /\ UNCHANGED <<read, source, bodyFate>>
Ends ==
  /\ bodyFate = "open" /\ bodyFate' = "done" /\ source = "end" /\ UNCHANGED <<read, source>>
  /\ \/ seen' = seen /\ read = Len(seen)
     \/ seen' = Append(seen, Len(seen) + 1) /\ read = Len(seen) + 1
Fails ==
  /\ bodyFate = "open" /\ bodyFate' = "error" /\ source = "error" /\ UNCHANGED <<read, source, seen>>

-----------------------------------------------------------------------------
(* Every step keeps the invariant.                                         *)

LEMMA InitCase == StreamInit => StreamInv
<1>1. SUFFICES ASSUME StreamInit PROVE StreamInv
  OBVIOUS
<1>2. StreamType
  <2>1. Window \in Nat /\ 0 \in 0..MaxChunks
    BY StreamAssumption
  <2>2. <<>> \in Seq(Events) /\ <<>> \in Seq(Chunks) /\ <<>> \in Seq({"ack", "cancel"})
    BY EmptySeq
  <2>3. QED
    BY <1>1, <2>1, <2>2 DEF StreamInit, StreamType
<1>3. SeenInOrder
  BY <1>1 DEF StreamInit, SeenInOrder, Ready
<1>4. Phases
  BY <1>1 DEF StreamInit, Phases
<1>5. Lines
  BY <1>1, EmptyLine DEF StreamInit, Lines
<1>6. Numbered
  BY <1>1, <1>2, Lengths, EmptyLine DEF StreamInit, Numbered
<1>7. Cancels
  BY <1>1 DEF StreamInit, Cancels
<1>8. QED
  BY <1>2, <1>3, <1>4, <1>5, <1>6, <1>7 DEF StreamInv

LEMMA StartPumpCase ==
  ASSUME StreamInv, StartPump
  PROVE  StreamInv'
<1>1. /\ pump = "idle" /\ alive /\ ctrl' = "announced"
      /\ UNCHANGED <<read, alive, credits, back, pending, forsaken, queue, want, seen, bodyFate>>
      /\ \/ pump' = "reading" /\ UNCHANGED <<source, fwd>>
         \/ pump' = "over" /\ source' = "error" /\ fwd' = Append(fwd, Fault)
  BY DEF StartPump
<1>2. /\ StreamType /\ SeenInOrder /\ Phases /\ Lines
      /\ fwd \in Seq(Events) /\ Fault \in Events
  BY EventKinds DEF StreamInv, StreamType
<1>3. /\ read = 0 /\ fwd = <<>> /\ pending = <<>> /\ queue = <<>> /\ seen = <<>>
      /\ source = "open" /\ bodyFate = "open" /\ ~forsaken /\ ctrl = "none"
  BY <1>1, <1>2 DEF Phases
<1>4. \/ fwd' = <<>> /\ pump' = "reading" /\ source' = "open"
      \/ fwd' = <<Fault>> /\ pump' = "over" /\ source' = "error"
  BY <1>1, <1>3
<1>5. StreamType'
  BY <1>1, <1>2, <1>4, EmptyLine DEF StreamType
<1>6. SeenInOrder'
  BY <1>1, <1>2 DEF SeenInOrder, Ready
<1>7. Phases'
  BY <1>1, <1>2, <1>3, <1>4 DEF Phases
<1>8. /\ LastOnly(<<Fault>>) /\ <<Fault>>[1] = Fault /\ Len(<<Fault>>) = 1 /\ <<Fault>> # <<>>
      /\ NumberedFrom(<<Fault>>, 0)
  BY EventKinds DEF LastOnly, NumberedFrom
<1>9. Lines'
  BY <1>1, <1>3, <1>4, <1>8, EmptyLine DEF Lines
<1>10. Ready' = 0 /\ Len(pending') = 0
  BY <1>1, <1>3 DEF Ready
<1>11. Numbered'
  BY <1>1, <1>3, <1>4, <1>8, <1>10, EmptyLine DEF Numbered, Terminator
<1>12. Cancels'
  BY <1>1, <1>3 DEF StreamInv, Cancels
<1>13. QED
  BY <1>5, <1>6, <1>7, <1>9, <1>11, <1>12 DEF StreamInv

LEMMA ReadChunkCase ==
  ASSUME StreamInv, ReadChunk
  PROVE  StreamInv'
<1>1. /\ pump = "reading" /\ alive /\ read < MaxChunks /\ read' = read + 1
      /\ UNCHANGED <<source, alive, back, ctrl, pending, forsaken, queue, want, seen, bodyFate>>
      /\ \/ credits > 0 /\ credits' = credits - 1 /\ fwd' = Append(fwd, read + 1) /\ pump' = "reading"
         \/ pump' = "parked" /\ UNCHANGED <<credits, fwd>>
  BY DEF ReadChunk, recvVars
<1>2. StreamType /\ SeenInOrder /\ Phases /\ Lines /\ Numbered /\ source = "open"
  BY <1>1 DEF StreamInv, Phases
<1>3. /\ Len(seen) \in Nat /\ Len(queue) \in Nat /\ Len(fwd) \in Nat /\ Len(pending) \in Nat
      /\ read \in Nat /\ Ready \in Nat /\ fwd \in Seq(Events) /\ credits \in Nat
  BY <1>2, Lengths DEF StreamType
<1>4. read + 1 \in Chunks /\ read + 1 \in Events
  BY <1>1, <1>3, StreamAssumption DEF Chunks, Events
<1>5. AllChunks(fwd) /\ LastOnly(fwd)
  BY <1>1, <1>2 DEF Lines
<1>6. /\ fwd' \in Seq(Events) /\ AllChunks(fwd') /\ LastOnly(fwd')
      /\ pump' = "reading" => Len(fwd') = Len(fwd) + 1
      /\ pump' = "parked" => Len(fwd') = Len(fwd)
  <2>1. CASE fwd' = Append(fwd, read + 1) /\ pump' = "reading"
    BY <2>1, <1>3, <1>4, <1>5, AppendLine
  <2>2. CASE fwd' = fwd /\ pump' = "parked"
    BY <2>2, <1>3, <1>5
  <2>3. QED
    BY <1>1, <2>1, <2>2
<1>7. StreamType'
  <2>1. credits' \in Nat
    BY <1>1, <1>3
  <2>2. read' \in 0..MaxChunks
    BY <1>1, <1>3, StreamAssumption
  <2>3. pump' \in {"reading", "parked"}
    BY <1>1
  <2>4. QED
    BY <1>1, <1>2, <1>6, <2>1, <2>2, <2>3 DEF StreamType
<1>8. SeenInOrder'
  BY <1>1, <1>2, <1>3 DEF SeenInOrder, Ready
<1>9. Phases'
  <2>1. pump' \in {"reading", "parked"} /\ ctrl # "none" /\ ~(ctrl = "gone" /\ bodyFate = "open")
    BY <1>1, <1>2 DEF Phases
  <2>2. ~(ctrl = "gone" /\ ~forsaken)
    BY <1>1, <1>2 DEF Phases
  <2>3. QED
    BY <1>1, <1>2, <1>3, <2>1, <2>2 DEF Phases
<1>10. Lines'
  <2>1. pending # <<>> => pending[Len(pending)] \in Chunks
    BY <1>1, <1>2, <1>3, Lengths DEF Lines, AllChunks
  <2>2. QED
    BY <1>1, <1>2, <1>6, <2>1 DEF Lines
<1>11. Numbered'
  <2>1. SUFFICES ASSUME ctrl # "gone" PROVE Numbered'
    BY <1>1 DEF Numbered
  <2>2. /\ NumberedFrom(pending, Ready) /\ NumberedFrom(fwd, Ready + Len(pending))
        /\ read = Ready + Len(pending) + Len(fwd)
    BY <1>1, <1>2, <2>1 DEF Numbered
  <2>3. NumberedFrom(fwd', Ready + Len(pending))
    <3>1. CASE fwd' = Append(fwd, read + 1)
      <4>1. Ready + Len(pending) \in Nat /\ read + 1 = (Ready + Len(pending)) + Len(fwd) + 1
        BY <1>3, <2>2
      <4>2. QED
        BY <1>3, <1>4, <1>5, <2>2, <3>1, <4>1, AppendLine
    <3>2. QED
      BY <1>1, <2>2, <3>1
  <2>4. /\ pump' = "reading" => read' = Ready + Len(pending) + Len(fwd')
        /\ pump' = "parked" => read' = Ready + Len(pending) + Len(fwd') + 1
    BY <1>1, <1>3, <1>6, <2>2, SMTT(30)
  <2>5. Ready' = Ready /\ pump' # "over" /\ pending' = pending
    BY <1>1 DEF Ready
  <2>6. QED
    BY <2>2, <2>3, <2>4, <2>5 DEF Numbered
<1>12. Cancels'
  BY <1>1 DEF StreamInv, Cancels
<1>13. QED
  BY <1>7, <1>8, <1>9, <1>10, <1>11, <1>12 DEF StreamInv

LEMMA SourceEndsCase ==
  ASSUME StreamInv, SourceEnds
  PROVE  StreamInv'
<1> DEFINE e == IF source' = "end" THEN End ELSE Fault
<1>1. /\ pump = "reading" /\ alive /\ pump' = "over" /\ source' \in {"end", "error"}
      /\ fwd' = Append(fwd, e)
      /\ UNCHANGED <<read, alive, credits, back, ctrl, pending, forsaken, queue, want, seen, bodyFate>>
  BY DEF SourceEnds, recvVars
<1>2. StreamType /\ SeenInOrder /\ Phases /\ Lines /\ Numbered /\ source = "open"
  BY <1>1 DEF StreamInv, Phases
<1>3. /\ Len(seen) \in Nat /\ Len(queue) \in Nat /\ Len(fwd) \in Nat /\ Len(pending) \in Nat
      /\ read \in Nat /\ Ready \in Nat /\ fwd \in Seq(Events)
  BY <1>2, Lengths DEF StreamType
<1>4. e \in Events \ Chunks
  BY EventKinds
<1>5. AllChunks(fwd) /\ LastOnly(fwd) /\ AllChunks(pending)
  BY <1>1, <1>2 DEF Lines
<1> HIDE DEF e
<1>6. /\ fwd' \in Seq(Events) /\ LastOnly(fwd') /\ Len(fwd') = Len(fwd) + 1
      /\ fwd'[Len(fwd')] = e /\ fwd' # <<>>
      /\ \A n \in Nat : NumberedFrom(fwd, n) => NumberedFrom(fwd', n)
  BY <1>1, <1>3, <1>4, <1>5, AppendLine, EmptySeq
<1>7. StreamType'
  BY <1>1, <1>2, <1>6 DEF StreamType
<1>8. SeenInOrder'
  BY <1>1, <1>2, <1>3 DEF SeenInOrder, Ready
<1>9. ~(ctrl = "gone" /\ ~forsaken) /\ ctrl # "none"
  BY <1>1, <1>2 DEF Phases
<1>10. Phases'
  BY <1>1, <1>2, <1>9 DEF Phases
<1>11. Lines'
  <2>1. pending # <<>> => pending[Len(pending)] \in Chunks
    BY <1>2, <1>3, <1>5, Lengths DEF AllChunks
  <2>2. QED
    BY <1>1, <1>2, <1>6, <2>1 DEF Lines
<1>12. Numbered'
  <2>1. SUFFICES ASSUME ctrl # "gone" PROVE Numbered'
    BY <1>1 DEF Numbered
  <2>2. /\ NumberedFrom(pending, Ready) /\ NumberedFrom(fwd, Ready + Len(pending))
        /\ read = Ready + Len(pending) + Len(fwd)
    BY <1>1, <1>2, <2>1 DEF Numbered
  <2>3. Ready' = Ready /\ pending' = pending /\ Terminator' = e /\ Ready + Len(pending) \in Nat
    BY <1>1, <1>3 DEF Ready, Terminator, e
  <2>4. read' = Ready + Len(pending) + Len(fwd') - 1
    BY <1>1, <1>3, <1>6, <2>2
  <2>5. NumberedFrom(fwd', Ready + Len(pending))
    BY <1>6, <2>2, <2>3
  <2>6. QED
    BY <1>1, <1>6, <2>2, <2>3, <2>4, <2>5 DEF Numbered
<1>13. Cancels'
  BY <1>1 DEF StreamInv, Cancels
<1>14. QED
  BY <1>7, <1>8, <1>10, <1>11, <1>12, <1>13 DEF StreamInv

\* The receiver grants a credit that nobody waits for, or that the parked pump waits for.
LEMMA AckArrivesCase ==
  ASSUME StreamInv, AckArrives
  PROVE  StreamInv'
<1>1. /\ back # <<>> /\ back' = Tail(back)
      /\ UNCHANGED <<read, source, alive, ctrl, pending, forsaken, queue, want, seen, bodyFate>>
  BY DEF AckArrives, recvVars
<1>2. StreamType /\ SeenInOrder /\ Phases /\ Lines /\ Numbered
  BY DEF StreamInv
<1>3. /\ Len(seen) \in Nat /\ Len(queue) \in Nat /\ Len(fwd) \in Nat /\ Len(pending) \in Nat
      /\ read \in Nat /\ Ready \in Nat /\ fwd \in Seq(Events) /\ credits \in Nat
      /\ back \in Seq({"ack", "cancel"})
  BY <1>2, Lengths DEF StreamType
<1>4. /\ back' \in Seq({"ack", "cancel"})
      /\ \A i \in 1..Len(back') : back'[i] = "cancel" => ctrl = "gone"
      /\ alive
      /\ UNCHANGED <<read, source, alive, ctrl, pending, forsaken, queue, want, seen, bodyFate>>
  <2>1. alive
    BY <1>1, <1>2 DEF Phases
  <2>2. /\ Tail(back) \in Seq({"ack", "cancel"}) /\ Len(Tail(back)) = Len(back) - 1
        /\ \A i \in 1..Len(Tail(back)) : Tail(back)[i] = back[i + 1]
        /\ Len(back) \in Nat
    BY <1>1, <1>3, HeadTailProperties
  <2>3. \A i \in 1..Len(back) : back[i] = "cancel" => ctrl = "gone"
    BY DEF StreamInv, Cancels
  <2>4. QED
    BY <1>1, <2>1, <2>2, <2>3
<1>5. SeenInOrder'
  BY <1>1, <1>2, <1>3 DEF SeenInOrder, Ready
<1>6. CASE pump # "parked"
  <2>1. pump' = pump /\ fwd' = fwd /\ credits' \in Nat
    BY <1>3, <1>6 DEF AckArrives
  <2>2. StreamType'
    BY <1>1, <1>2, <1>4, <2>1 DEF StreamType
  <2>3. Phases'
    BY <1>2, <1>4, <2>1 DEF Phases, Ready
  <2>4. Lines' /\ Numbered'
    BY <1>1, <1>2, <2>1 DEF Lines, Numbered, Ready, Terminator
  <2>5. QED
    BY <1>4, <1>5, <2>2, <2>3, <2>4 DEF StreamInv, Cancels
<1>7. CASE pump = "parked"
  <2>1. pump' = "reading" /\ fwd' = Append(fwd, read) /\ credits' = credits
    BY <1>7 DEF AckArrives
  <2>2. ~(ctrl = "gone" /\ ~forsaken) /\ ctrl # "none"
    BY <1>7, <1>2 DEF Phases
  <2>3. AllChunks(fwd) /\ LastOnly(fwd) /\ AllChunks(pending)
    BY <1>7, <1>2 DEF Lines
  <2>4. read \in Chunks /\ read \in Events
    BY <1>2, <1>3, <1>7, StreamAssumption DEF Phases, StreamType, Chunks, Events
  <2>5. /\ fwd' \in Seq(Events) /\ Len(fwd') = Len(fwd) + 1 /\ LastOnly(fwd') /\ AllChunks(fwd')
        /\ \A n \in Nat : NumberedFrom(fwd, n) /\ read = n + Len(fwd) + 1 => NumberedFrom(fwd', n)
    BY <1>3, <2>1, <2>3, <2>4, AppendLine
  <2>6. StreamType'
    BY <1>2, <1>4, <2>1, <2>5 DEF StreamType
  <2>7. Phases'
    BY <1>2, <1>4, <1>7, <2>1, <2>2 DEF Phases
  <2>8. Lines'
    <3>1. pending # <<>> => pending[Len(pending)] \in Chunks
      BY <1>2, <1>3, <2>3, Lengths DEF AllChunks
    <3>2. QED
      BY <1>2, <1>4, <2>1, <2>3, <2>5, <3>1 DEF Lines
  <2>9. Numbered'
    <3>1. SUFFICES ASSUME ctrl # "gone" PROVE Numbered'
      BY <1>1 DEF Numbered
    <3>2. /\ NumberedFrom(pending, Ready) /\ NumberedFrom(fwd, Ready + Len(pending))
          /\ read = Ready + Len(pending) + Len(fwd) + 1
      BY <1>2, <1>4, <1>7, <3>1 DEF Numbered
    <3>3. Ready' = Ready /\ pending' = pending /\ read' = read /\ Ready + Len(pending) \in Nat
      BY <1>1, <1>3 DEF Ready
    <3>4. NumberedFrom(fwd', Ready + Len(pending))
      BY <1>3, <2>5, <3>2, <3>3
    <3>5. read' = Ready + Len(pending) + Len(fwd')
      BY <1>3, <2>5, <3>2, <3>3
    <3>6. QED
      BY <2>1, <3>2, <3>3, <3>4, <3>5 DEF Numbered
  <2>10. QED
    BY <1>4, <1>5, <2>6, <2>7, <2>8, <2>9 DEF StreamInv, Cancels
<1>8. QED
  BY <1>6, <1>7

\* A cancel reaches a pump only after the consumer has given up.
LEMMA CancelArrivesCase ==
  ASSUME StreamInv, CancelArrives
  PROVE  StreamInv'
<1>1. /\ back # <<>> /\ back' = Tail(back) /\ Head(back) = "cancel"
      /\ UNCHANGED <<read, alive, credits, ctrl, pending, forsaken, queue, want, seen, bodyFate>>
  BY DEF CancelArrives, recvVars
<1>2. StreamType /\ SeenInOrder /\ Phases /\ Lines /\ Numbered
  BY DEF StreamInv
<1>3. /\ Len(seen) \in Nat /\ Len(queue) \in Nat /\ Len(fwd) \in Nat /\ Len(pending) \in Nat
      /\ read \in Nat /\ Ready \in Nat /\ fwd \in Seq(Events)
      /\ back \in Seq({"ack", "cancel"})
  BY <1>2, Lengths DEF StreamType
<1>4. /\ back' \in Seq({"ack", "cancel"})
      /\ \A i \in 1..Len(back') : back'[i] = "cancel" => ctrl = "gone"
      /\ alive /\ ctrl = "gone"
  <2>1. alive
    BY <1>1, <1>2 DEF Phases
  <2>2. /\ Tail(back) \in Seq({"ack", "cancel"}) /\ Len(Tail(back)) = Len(back) - 1
        /\ \A i \in 1..Len(Tail(back)) : Tail(back)[i] = back[i + 1]
        /\ Len(back) \in Nat \ {0} /\ Head(back) = back[1]
    BY <1>1, <1>3, HeadTailProperties, EmptySeq
  <2>3. \A i \in 1..Len(back) : back[i] = "cancel" => ctrl = "gone"
    BY DEF StreamInv, Cancels
  <2>4. QED
    BY <1>1, <2>1, <2>2, <2>3
<1>5. SeenInOrder'
  BY <1>1, <1>2, <1>3 DEF SeenInOrder, Ready
<1>6. Numbered'
  BY <1>1, <1>4 DEF Numbered
<1>7. CASE pump \notin {"reading", "parked"}
  <2>1. pump' = pump /\ fwd' = fwd /\ source' = source
    BY <1>7 DEF CancelArrives
  <2>2. StreamType'
    BY <1>1, <1>2, <1>4, <2>1 DEF StreamType
  <2>3. Phases'
    BY <1>1, <1>2, <1>4, <2>1 DEF Phases, Ready
  <2>4. Lines'
    BY <1>1, <1>2, <2>1 DEF Lines
  <2>5. QED
    BY <1>1, <1>4, <1>5, <1>6, <2>2, <2>3, <2>4 DEF StreamInv, Cancels
<1>8. CASE pump \in {"reading", "parked"}
  <2>1. pump' = "over" /\ fwd' = Append(fwd, End) /\ source' = "cut"
    BY <1>8 DEF CancelArrives
  <2>2. forsaken /\ source = "open" /\ AllChunks(fwd) /\ AllChunks(pending)
    BY <1>2, <1>4, <1>8 DEF Phases, Lines
  <2>3. fwd' \in Seq(Events) /\ LastOnly(fwd')
    BY <1>3, <2>1, <2>2, EventKinds, AppendLine
  <2>4. StreamType'
    BY <1>1, <1>2, <1>4, <2>1, <2>3 DEF StreamType
  <2>5. Phases'
    BY <1>1, <1>2, <1>4, <1>8, <2>1, <2>2 DEF Phases
  <2>6. Lines'
    <3>1. pending # <<>> => pending[Len(pending)] \in Chunks
      BY <1>2, <1>3, <2>2, Lengths DEF AllChunks
    <3>2. QED
      BY <1>1, <1>2, <2>1, <2>3, <3>1 DEF Lines
  <2>7. QED
    BY <1>1, <1>4, <1>5, <1>6, <2>4, <2>5, <2>6 DEF StreamInv, Cancels
<1>9. QED
  BY <1>7, <1>8

LEMMA NoTerminator ==
  ASSUME NEW line \in Seq(Events), LastOnly(line), line # <<>> => line[Len(line)] \in Chunks
  PROVE  AllChunks(line)
<1>1. SUFFICES ASSUME NEW i \in 1..Len(line), line[i] \notin Chunks PROVE FALSE
  BY DEF AllChunks
<1>2. i = Len(line) /\ line # <<>>
  BY <1>1, EmptySeq DEF LastOnly
<1>3. QED
  BY <1>1, <1>2

\* What is on its way to the controller, at a stream that has not ended.
LEMMA NextEvent ==
  ASSUME StreamInv, fwd # <<>>, ~forsaken
  PROVE  /\ alive /\ ctrl \in {"announced", "opened", "started"}
         /\ AllChunks(pending)
         /\ Tail(fwd) \in Seq(Events) /\ Len(Tail(fwd)) = Len(fwd) - 1
         /\ LastOnly(Tail(fwd)) /\ (pump # "over" => AllChunks(Tail(fwd)))
         /\ Head(fwd) \in Events
         /\ Head(fwd) \in Chunks => Head(fwd) = Ready + Len(pending) + 1
         /\ NumberedFrom(Tail(fwd), Ready + Len(pending) + 1)
         /\ Head(fwd) \notin Chunks =>
              /\ Tail(fwd) = <<>> /\ pump = "over" /\ Head(fwd) = Terminator
              /\ read = Ready + Len(pending)
         /\ Head(fwd) \in Chunks => read >= Ready + Len(pending) + 1
         /\ pump = "over" /\ Tail(fwd) # <<>> => Tail(fwd)[Len(Tail(fwd))] = Terminator
<1>1. StreamType /\ Phases /\ Lines /\ Numbered
  BY DEF StreamInv
<1>2. /\ Len(fwd) \in Nat \ {0} /\ Len(pending) \in Nat /\ read \in Nat /\ Ready \in Nat
      /\ fwd \in Seq(Events) /\ pending \in Seq(Events)
  BY <1>1, Lengths DEF StreamType
<1>3. alive /\ ctrl \in {"announced", "opened", "started"} /\ pump # "idle"
  BY <1>1 DEF Phases, StreamType
<1>4. AllChunks(pending)
  BY <1>1, <1>2, NoTerminator DEF Lines
<1>5. LastOnly(fwd) /\ (pump # "over" => AllChunks(fwd))
  BY <1>1 DEF Lines
<1>6. /\ NumberedFrom(fwd, Ready + Len(pending))
      /\ pump = "reading" => read = Ready + Len(pending) + Len(fwd)
      /\ pump = "parked" => read = Ready + Len(pending) + Len(fwd) + 1
      /\ pump = "over" => read = Ready + Len(pending) + Len(fwd) - 1 /\ fwd[Len(fwd)] = Terminator
  BY <1>1, <1>3 DEF Numbered
<1>7. Ready + Len(pending) \in Nat
  BY <1>2
<1>8. Terminator \notin Chunks
  BY EventKinds DEF Terminator
<1>9. /\ Tail(fwd) \in Seq(Events) /\ Len(Tail(fwd)) = Len(fwd) - 1
      /\ LastOnly(Tail(fwd)) /\ (pump # "over" => AllChunks(Tail(fwd)))
      /\ Head(fwd) \in Events
      /\ Head(fwd) \in Chunks => Head(fwd) = Ready + Len(pending) + 1
      /\ NumberedFrom(Tail(fwd), Ready + Len(pending) + 1)
      /\ Head(fwd) \notin Chunks => Tail(fwd) = <<>> /\ Len(fwd) = 1
      /\ Head(fwd) = fwd[1]
      /\ Tail(fwd) # <<>> => Tail(fwd)[Len(Tail(fwd))] = fwd[Len(fwd)]
  BY <1>2, <1>5, <1>6, <1>7, TailLine
<1>10. ASSUME Head(fwd) \notin Chunks
       PROVE  pump = "over" /\ Head(fwd) = Terminator /\ read = Ready + Len(pending)
  <2>1. Len(fwd) = 1 /\ fwd[1] \notin Chunks /\ fwd[Len(fwd)] = Head(fwd)
    BY <1>9, <1>10
  <2>2. pump = "over"
    BY <1>5, <2>1 DEF AllChunks
  <2>3. QED
    BY <1>2, <1>6, <2>1, <2>2
<1>11. ASSUME Head(fwd) \in Chunks
       PROVE  read >= Ready + Len(pending) + 1
  <2>1. pump = "over" => Len(fwd) # 1
    BY <1>6, <1>8, <1>9, <1>11
  <2>2. pump \in {"reading", "parked", "over"}
    BY <1>1, <1>3 DEF StreamType
  <2>3. Len(fwd) \in Nat \ {0} /\ Ready \in Nat /\ Len(pending) \in Nat
    BY <1>2
  <2>4. CASE pump = "over"
    <3>1. Len(fwd) # 1
      BY <2>1, <2>4
    <3>2. Len(fwd) >= 2
      <4>1. \A n \in Nat \ {0} : n # 1 => n >= 2
        OBVIOUS
      <4>2. QED
        BY <2>3, <3>1, <4>1
    <3>3. read = Ready + Len(pending) + Len(fwd) - 1
      BY <1>6, <2>4
    <3>4. QED
      BY <2>3, <3>2, <3>3
  <2>5. CASE pump # "over"
    BY <1>6, <2>2, <2>3, <2>5
  <2>6. QED
    BY <2>4, <2>5
<1>12. QED
  BY <1>3, <1>4, <1>6, <1>9, <1>10, <1>11

LEMMA ForgottenCase ==
  ASSUME StreamInv, EventArrives, forsaken
  PROVE  StreamInv' /\ Same
<1>1. /\ fwd # <<>> /\ fwd' = Tail(fwd) /\ (forsaken' <=> Head(fwd) \in Chunks)
      /\ forsaken' \in BOOLEAN
      /\ UNCHANGED <<pump, read, source, credits, alive, ctrl, pending, queue, want, seen, bodyFate, back>>
  <2>1. fwd # <<>> /\ fwd' = Tail(fwd) /\ UNCHANGED <<sendVars, alive>>
    BY DEF EventArrives
  <2>2. (forsaken' <=> Head(fwd) \in Chunks) /\ forsaken' \in BOOLEAN
    <3>1. forsaken' = (Head(fwd) \in Chunks)
      BY Zenon DEF EventArrives
    <3>2. CASE Head(fwd) \in Chunks
      BY <3>1, <3>2, Zenon
    <3>3. CASE Head(fwd) \notin Chunks
      <4>1. (Head(fwd) \in Chunks) = FALSE
        BY <3>3
      <4>2. forsaken' = FALSE
        BY <3>1, <4>1, Zenon
      <4>3. QED
        BY <3>3, <4>2
    <3>4. QED
      BY <3>2, <3>3
  <2>3. UNCHANGED <<ctrl, pending, queue, want, seen, bodyFate, back>>
    BY Zenon DEF EventArrives
  <2>4. QED
    BY <2>1, <2>2, <2>3 DEF sendVars
<1>2. StreamType /\ SeenInOrder /\ Phases /\ Lines /\ Numbered /\ ctrl = "gone"
  BY DEF StreamInv, Phases
<1>3. fwd \in Seq(Events) /\ pending = <<>>
  BY <1>2 DEF StreamType, Phases
<1>4. LastOnly(fwd) /\ (pump # "over" => AllChunks(fwd))
  BY <1>2 DEF Lines
<1>5. /\ fwd' \in Seq(Events) /\ LastOnly(fwd') /\ (pump # "over" => AllChunks(fwd'))
      /\ Head(fwd) \notin Chunks => fwd' = <<>> /\ pump = "over"
  <2>1. /\ fwd' \in Seq(Events) /\ LastOnly(fwd') /\ (pump # "over" => AllChunks(fwd'))
        /\ Head(fwd) \notin Chunks => fwd' = <<>> /\ Len(fwd) = 1
        /\ Head(fwd) = fwd[1]
    BY <1>1, <1>3, <1>4, TailLine
  <2>2. QED
    BY <1>4, <2>1 DEF AllChunks
<1>6. StreamType'
  BY <1>1, <1>2, <1>5 DEF StreamType
<1>7. SeenInOrder' /\ Cancels'
  BY <1>1, <1>2 DEF SeenInOrder, Ready, StreamInv, Cancels
<1>8. Phases'
  BY <1>1, <1>2, <1>5 DEF Phases, Ready
<1>9. Lines' /\ Numbered'
  BY <1>1, <1>2, <1>3, <1>5 DEF Lines, Numbered
<1>10. QED
  BY <1>1, <1>6, <1>7, <1>8, <1>9 DEF StreamInv, Same

LEMMA EarlyCase ==
  ASSUME StreamInv, EventArrives, ~forsaken, ctrl \in {"announced", "opened"}
  PROVE  StreamInv' /\ Same
<1> DEFINE e == Head(fwd)
<1>1. /\ fwd # <<>> /\ fwd' = Tail(fwd) /\ pending' = Append(pending, e) /\ ~forsaken'
      /\ forsaken' \in BOOLEAN
      /\ UNCHANGED <<pump, read, source, credits, alive, ctrl, queue, want, seen, bodyFate, back>>
  <2>1. fwd # <<>> /\ fwd' = Tail(fwd) /\ UNCHANGED <<sendVars, alive>>
    BY DEF EventArrives
  <2>2. forsaken' = forsaken
    BY Zenon DEF EventArrives
  <2>3. pending' = Append(pending, e) /\ UNCHANGED <<ctrl, queue, want, seen, bodyFate, back>>
    BY DEF EventArrives
  <2>4. forsaken \in BOOLEAN
    BY DEF StreamInv, StreamType
  <2>5. QED
    BY <2>1, <2>2, <2>3, <2>4 DEF sendVars
<1>2. StreamType /\ SeenInOrder /\ Phases /\ Lines /\ Numbered
  BY DEF StreamInv
<1>3. /\ Len(fwd) \in Nat /\ Len(pending) \in Nat /\ read \in Nat /\ Ready \in Nat
      /\ pending \in Seq(Events)
  BY <1>2, Lengths DEF StreamType
<1>4. /\ alive /\ AllChunks(pending)
      /\ fwd' \in Seq(Events) /\ Len(fwd') = Len(fwd) - 1
      /\ LastOnly(fwd') /\ (pump # "over" => AllChunks(fwd'))
      /\ e \in Events
      /\ e \in Chunks => e = Ready + Len(pending) + 1
      /\ NumberedFrom(fwd', Ready + Len(pending) + 1)
      /\ e \notin Chunks => fwd' = <<>> /\ pump = "over" /\ e = Terminator
      /\ pump = "over" /\ fwd' # <<>> => fwd'[Len(fwd')] = Terminator
  BY <1>1, NextEvent
<1> HIDE DEF e
<1>5. /\ pending' \in Seq(Events) /\ Len(pending') = Len(pending) + 1 /\ pending'[Len(pending')] = e
      /\ LastOnly(pending') /\ (e \in Chunks => AllChunks(pending'))
      /\ NumberedFrom(pending', Ready)
  <2>1. NumberedFrom(pending, Ready)
    BY <1>2, <1>4 DEF Numbered, Phases
  <2>2. QED
    BY <1>1, <1>3, <1>4, <2>1, AppendLine
<1>6. StreamType'
  BY <1>1, <1>2, <1>4, <1>5 DEF StreamType
<1>7. SeenInOrder' /\ Cancels'
  BY <1>1, <1>2 DEF SeenInOrder, Ready, StreamInv, Cancels
<1>8. Phases'
  BY <1>1, <1>2, <1>4 DEF Phases, Ready
<1>9. Lines'
  BY <1>1, <1>2, <1>4, <1>5 DEF Lines
<1>10. Numbered'
  <2>1. Ready' = Ready /\ Terminator' = Terminator /\ Ready + Len(pending') = Ready + Len(pending) + 1
    BY <1>1, <1>3, <1>5 DEF Ready, Terminator
  <2>2. /\ pump = "reading" => read = Ready + Len(pending') + Len(fwd')
        /\ pump = "parked" => read = Ready + Len(pending') + Len(fwd') + 1
        /\ pump = "over" => read = Ready + Len(pending') + Len(fwd') - 1 /\ source \in {"end", "error"}
    <3>1. /\ pump = "reading" => read = Ready + Len(pending) + Len(fwd)
          /\ pump = "parked" => read = Ready + Len(pending) + Len(fwd) + 1
          /\ pump = "over" => read = Ready + Len(pending) + Len(fwd) - 1 /\ source \in {"end", "error"}
      BY <1>2, <1>4 DEF Numbered
    <3>2. QED
      BY <1>3, <1>4, <1>5, <3>1, SMTT(30)
  <2>3. NumberedFrom(fwd', Ready + Len(pending'))
    BY <1>4, <2>1
  <2>4. pump = "over" /\ fwd' = <<>> => pending' # <<>> /\ pending'[Len(pending')] = Terminator
    <3>1. SUFFICES ASSUME pump = "over", fwd' = <<>> PROVE e = Terminator /\ pending' # <<>>
      BY <1>5
    <3>2. fwd[Len(fwd)] = Terminator
      BY <1>1, <1>2, <1>4, <3>1 DEF Numbered
    <3>3. e = fwd[Len(fwd)]
      BY <1>1, <1>2, <3>1, TailLine DEF StreamType, e
    <3>4. QED
      BY <1>3, <1>5, <3>2, <3>3, EmptySeq
  <2>5. QED
    BY <1>1, <1>4, <1>5, <2>1, <2>2, <2>3, <2>4 DEF Numbered
<1>11. QED
  BY <1>1, <1>6, <1>7, <1>8, <1>9, <1>10 DEF StreamInv, Same

\* Pulling grants at most one credit.
LEMMA PullsAcks ==
  ASSUME StreamType, Cancels, NEW q, NEW w, Pulls(q, w), ctrl # "gone"
  PROVE  back' \in Seq({"ack", "cancel"}) /\ \A i \in 1..Len(back') : back'[i] # "cancel"
<1>1. back \in Seq({"ack", "cancel"}) /\ \A i \in 1..Len(back) : back[i] # "cancel"
  BY DEF StreamType, Cancels
<1>2. back' = back \/ back' = Append(back, "ack")
  BY DEF Pulls
<1>3. QED
  BY <1>1, <1>2

LEMMA EnqueueCase ==
  ASSUME StreamInv, EventArrives, ~forsaken, ctrl = "started", Head(fwd) \in Chunks
  PROVE  StreamInv' /\ (Same \/ Takes)
<1> DEFINE e == Head(fwd)
<1>1. /\ fwd # <<>> /\ fwd' = Tail(fwd) /\ forsaken' = forsaken
      /\ UNCHANGED <<pump, read, source, credits, alive, pending, ctrl, bodyFate>>
      /\ \/ want /\ seen' = Append(seen, e) /\ want' = FALSE /\ queue' = queue
         \/ ~want /\ queue' = Append(queue, e) /\ want' = want /\ seen' = seen
      /\ Pulls(queue', want')
  <2>1. fwd # <<>> /\ fwd' = Tail(fwd) /\ UNCHANGED <<sendVars, alive>>
    BY DEF EventArrives
  <2>2. forsaken' = forsaken
    BY Zenon DEF EventArrives
  <2>3. e # End /\ e # Fault
    BY EventKinds
  <2>4. Enqueue(e) /\ pending' = pending
    BY <2>3 DEF EventArrives
  <2>5. QED
    BY <2>1, <2>2, <2>4 DEF sendVars, Enqueue
<1>2. StreamType /\ SeenInOrder /\ Phases /\ Cancels /\ Lines /\ Numbered
  BY DEF StreamInv
<1>3. /\ Len(seen) \in Nat /\ Len(queue) \in Nat /\ Len(fwd) \in Nat /\ Len(pending) \in Nat
      /\ read \in Nat /\ Ready \in Nat
      /\ seen \in Seq(Chunks) /\ queue \in Seq(Chunks)
      /\ queue = <<>> => Len(queue) = 0
  BY <1>2, Lengths DEF StreamType
<1>4. pending = <<>> /\ Len(pending) = 0 /\ (want => queue = <<>>) /\ pump # "idle"
  BY <1>2, Lengths DEF Phases
<1>5. /\ alive
      /\ fwd' \in Seq(Events) /\ Len(fwd') = Len(fwd) - 1
      /\ LastOnly(fwd') /\ (pump # "over" => AllChunks(fwd'))
      /\ e = Ready + 1 /\ NumberedFrom(fwd', Ready + 1) /\ read >= Ready + 1
      /\ pump = "over" /\ fwd' # <<>> => fwd'[Len(fwd')] = Terminator
  <2>1. /\ e = Ready + Len(pending) + 1 /\ NumberedFrom(fwd', Ready + Len(pending) + 1)
        /\ read >= Ready + Len(pending) + 1
    BY <1>1, NextEvent
  <2>2. Ready + Len(pending) + 1 = Ready + 1
    BY <1>3, <1>4
  <2>3. QED
    BY <1>1, <2>1, <2>2, NextEvent
<1>6. Pulls(queue', want') /\ back' \in Seq({"ack", "cancel"}) /\ Cancels'
  BY <1>1, <1>2, PullsAcks DEF Cancels
<1> HIDE DEF e
<1>7. /\ seen' \in Seq(Chunks) /\ queue' \in Seq(Chunks) /\ want' = FALSE
      /\ \A i \in 1..Len(seen') : seen'[i] = i
      /\ \A i \in 1..Len(queue') : queue'[i] = Len(seen') + i
      /\ Ready' = Ready + 1
  <2>1. e \in Chunks
    BY DEF e
  <2>2. /\ \A i \in 1..Len(seen) : seen[i] = i
        /\ \A i \in 1..Len(queue) : queue[i] = Len(seen) + i
    BY <1>2 DEF SeenInOrder
  <2>3. e = Len(seen) + Len(queue) + 1
    BY <1>5 DEF Ready
  <2>4. CASE want
    <3>1. seen' = Append(seen, e) /\ queue' = <<>> /\ Len(queue) = 0 /\ Len(queue') = 0 /\ want' = FALSE
      BY <1>1, <1>3, <1>4, <2>4, EmptySeq
    <3>2. /\ seen' \in Seq(Chunks) /\ Len(seen') = Len(seen) + 1
          /\ \A i \in 1..Len(seen') : seen'[i] = IF i = Len(seen) + 1 THEN e ELSE seen[i]
      BY <1>3, <2>1, <3>1
    <3>3. e = Len(seen) + 1 /\ Len(seen') + Len(queue') = Len(seen) + Len(queue) + 1
      BY <1>3, <2>3, <3>1, <3>2
    <3>4. \A i \in 1..Len(seen') : seen'[i] = i
      BY <1>3, <2>2, <3>2, <3>3
    <3>5. queue' \in Seq(Chunks) /\ 1..Len(queue') = {}
      BY <3>1, EmptySeq
    <3>6. QED
      BY <3>1, <3>2, <3>3, <3>4, <3>5 DEF Ready
  <2>5. CASE ~want
    <3>1. queue' = Append(queue, e) /\ seen' = seen /\ want' = FALSE
      BY <1>1, <1>2, <2>5 DEF StreamType
    <3>2. /\ queue' \in Seq(Chunks) /\ Len(queue') = Len(queue) + 1
          /\ \A i \in 1..Len(queue') : queue'[i] = IF i = Len(queue) + 1 THEN e ELSE queue[i]
      BY <1>3, <2>1, <3>1
    <3>3. \A i \in 1..Len(queue') : queue'[i] = Len(seen') + i
      <4>1. SUFFICES ASSUME NEW i \in 1..Len(queue') PROVE queue'[i] = Len(seen) + i
        BY <3>1
      <4>2. i \in Nat /\ (i = Len(queue) + 1 \/ i \in 1..Len(queue))
        BY <1>3, <3>2
      <4>3. CASE i = Len(queue) + 1
        BY <1>3, <2>3, <3>2, <4>3
      <4>4. CASE i # Len(queue) + 1
        BY <2>2, <3>2, <4>2, <4>4
      <4>5. QED
        BY <4>3, <4>4
    <3>4. Len(seen') + Len(queue') = Len(seen) + Len(queue) + 1
      BY <1>3, <3>1, <3>2
    <3>5. QED
      BY <1>3, <2>2, <3>1, <3>2, <3>3, <3>4 DEF Ready
  <2>6. QED
    BY <2>4, <2>5
<1>8. StreamType'
  BY <1>1, <1>2, <1>5, <1>6, <1>7 DEF StreamType
<1>9. SeenInOrder'
  BY <1>1, <1>5, <1>7 DEF SeenInOrder
<1>10. Phases'
  BY <1>1, <1>2, <1>4, <1>5, <1>7 DEF Phases
<1>11. Lines'
  BY <1>1, <1>2, <1>4, <1>5 DEF Lines
<1>12. Numbered'
  <2>1. Terminator' = Terminator /\ pending' = <<>> /\ Len(pending') = 0 /\ Ready' + 0 = Ready + 1
    BY <1>1, <1>3, <1>4, <1>7 DEF Terminator
  <2>2. /\ pump = "reading" => read = Ready + Len(fwd)
        /\ pump = "parked" => read = Ready + Len(fwd) + 1
        /\ pump = "over" => /\ read = Ready + Len(fwd) - 1 /\ source \in {"end", "error"}
                            /\ fwd[Len(fwd)] = Terminator
    <3>1. /\ pump = "reading" => read = Ready + Len(pending) + Len(fwd)
          /\ pump = "parked" => read = Ready + Len(pending) + Len(fwd) + 1
          /\ pump = "over" => /\ read = Ready + Len(pending) + Len(fwd) - 1 /\ source \in {"end", "error"}
                              /\ fwd[Len(fwd)] = Terminator
      BY <1>1, <1>2, <1>5 DEF Numbered
    <3>2. QED
      BY <1>3, <1>4, <3>1
  <2>3. /\ pump = "reading" => read' = Ready' + 0 + Len(fwd')
        /\ pump = "parked" => read' = Ready' + 0 + Len(fwd') + 1
        /\ pump = "over" => read' = Ready' + 0 + Len(fwd') - 1
    <3>1. Ready' + 0 + Len(fwd') = Ready + Len(fwd) /\ read' = read
      BY <1>1, <1>3, <1>5, <1>7
    <3>2. CASE pump = "reading"
      BY <2>2, <3>1, <3>2
    <3>3. CASE pump = "parked"
      BY <2>2, <3>1, <3>3
    <3>4. CASE pump = "over"
      <4>1. read = Ready + Len(fwd) - 1
        BY <2>2, <3>4
      <4>2. Len(fwd') \in Int /\ Len(fwd) \in Int /\ Ready' \in Int /\ Ready \in Int
        BY <1>3, <1>5, <1>7
      <4>3. QED
        BY <3>1, <3>4, <4>1, <4>2
    <3>5. QED
      BY <3>2, <3>3, <3>4
  <2>4. NumberedFrom(fwd', Ready' + 0) /\ NumberedFrom(pending', Ready')
    BY <1>3, <1>5, <1>7, <2>1, EmptyLine
  <2>5. pump = "over" => fwd' # <<>>
    <3>1. SUFFICES ASSUME pump = "over", Len(fwd') = 0 PROVE FALSE
      BY EmptySeq
    <3>2. Len(fwd) = 1 /\ read = Ready + Len(fwd) - 1
      BY <1>3, <1>5, <2>2, <3>1
    <3>3. QED
      BY <1>3, <1>5, <3>2
  <2>6. QED
    BY <1>1, <1>5, <2>1, <2>2, <2>3, <2>4, <2>5 DEF Numbered
<1>13. Same \/ Takes
  <2>1. CASE want
    <3>1. Ready = Len(seen) /\ bodyFate = "open"
      BY <1>2, <1>3, <1>4, <2>1 DEF Ready, Phases
    <3>2. e = Len(seen) + 1 /\ Len(seen) < read
      BY <1>3, <1>5, <3>1
    <3>3. QED
      BY <1>1, <2>1, <3>1, <3>2 DEF Takes
  <2>2. CASE ~want
    BY <1>1, <2>2 DEF Same
  <2>3. QED
    BY <2>1, <2>2
<1>14. QED
  BY <1>6, <1>8, <1>9, <1>10, <1>11, <1>12, <1>13 DEF StreamInv

LEMMA TerminatorCase ==
  ASSUME StreamInv, EventArrives, ~forsaken, ctrl = "started", Head(fwd) \notin Chunks
  PROVE  StreamInv' /\ (Same \/ Ends \/ Fails)
<1> DEFINE e == Head(fwd)
<1>1. /\ fwd # <<>> /\ fwd' = Tail(fwd) /\ forsaken' = forsaken
      /\ UNCHANGED <<pump, read, source, credits, alive, pending, back, seen>>
      /\ ctrl' = "gone" /\ want' = FALSE
      /\ \/ e = End /\ queue' = queue /\ bodyFate' = IF queue = <<>> THEN "done" ELSE bodyFate
         \/ e = Fault /\ queue' = <<>> /\ bodyFate' = "error"
  <2>1. fwd # <<>> /\ fwd' = Tail(fwd) /\ UNCHANGED <<sendVars, alive>>
    BY DEF EventArrives
  <2>2. forsaken' = forsaken
    BY Zenon DEF EventArrives
  <2>3. (e = End \/ e = Fault) /\ End # Fault
    BY <2>1, EventKinds, NextEvent
  <2>4. /\ e = End => Close /\ pending' = pending
        /\ e = Fault => Break("error") /\ pending' = pending
    BY <2>3 DEF EventArrives
  <2>5. QED
    BY <2>1, <2>2, <2>3, <2>4 DEF sendVars, Close, Break
<1>2. StreamType /\ SeenInOrder /\ Phases /\ Cancels /\ Lines /\ Numbered
  BY DEF StreamInv
<1>3. /\ Len(seen) \in Nat /\ Len(queue) \in Nat /\ read \in Nat /\ Ready \in Nat
      /\ queue = <<>> => Len(queue) = 0
  BY <1>2, Lengths DEF StreamType
<1>4. pending = <<>> /\ Len(pending) = 0 /\ bodyFate = "open"
  BY <1>2, Lengths DEF Phases
<1>5. alive /\ fwd' = <<>> /\ pump = "over" /\ e = Terminator /\ read = Ready
  BY <1>1, <1>3, <1>4, NextEvent
<1>6. e = End => source = "end"
  BY <1>5, EventKinds DEF Terminator
<1> HIDE DEF e
<1>7. StreamType'
  BY <1>1, <1>2, <1>5, EmptySeq DEF StreamType
<1>8. SeenInOrder'
  <2>1. CASE queue' = queue
    BY <1>1, <1>2, <2>1 DEF SeenInOrder, Ready
  <2>2. CASE queue' = <<>>
    BY <1>1, <1>2, <1>3, <2>2 DEF SeenInOrder, Ready
  <2>3. QED
    BY <1>1, <2>1, <2>2
<1>9. Phases'
  BY <1>1, <1>2, <1>4, <1>5, <1>6 DEF Phases, Ready
<1>10. Lines' /\ Numbered' /\ Cancels'
  BY <1>1, <1>2, <1>4, <1>5, EmptyLine DEF Lines, Numbered, Cancels
<1>11. Same \/ Ends \/ Fails
  <2>1. CASE e = End
    <3>1. queue = <<>> => read = Len(seen)
      BY <1>3, <1>5 DEF Ready
    <3>2. QED
      BY <1>1, <1>4, <1>6, <2>1, <3>1, EventKinds DEF Same, Ends
  <2>2. CASE e = Fault
    <3>1. source = "error"
      BY <1>2, <1>5, <2>2, EventKinds DEF Terminator, Numbered, Phases, StreamType
    <3>2. QED
      BY <1>1, <1>4, <2>2, <3>1, EventKinds DEF Fails
  <2>3. QED
    BY <1>1, <2>1, <2>2
<1>12. QED
  BY <1>7, <1>8, <1>9, <1>10, <1>11 DEF StreamInv

LEMMA EventArrivesCase ==
  ASSUME StreamInv, EventArrives
  PROVE  StreamInv' /\ (Same \/ Takes \/ Ends \/ Fails)
<1>1. ~forsaken => ctrl \in {"announced", "opened", "started"}
  BY NextEvent DEF EventArrives
<1>2. QED
  BY <1>1, ForgottenCase, EarlyCase, EnqueueCase, TerminatorCase

LEMMA OpenStreamCase ==
  ASSUME StreamInv, OpenStream
  PROVE  StreamInv'
<1>1. /\ ctrl = "announced" /\ ctrl' = "opened" /\ alive
      /\ UNCHANGED <<pump, read, source, credits, alive, fwd, back, pending, forsaken, queue, want, seen, bodyFate>>
  BY DEF OpenStream, sendVars
<1>2. StreamType /\ SeenInOrder /\ Phases /\ Cancels /\ Lines /\ Numbered
  BY DEF StreamInv
<1>3. StreamType' /\ SeenInOrder' /\ Cancels' /\ Lines'
  BY <1>1, <1>2 DEF StreamType, SeenInOrder, Ready, Cancels, Lines
<1>4. Phases'
  BY <1>1, <1>2 DEF Phases
<1>5. Numbered'
  BY <1>1, <1>2 DEF Numbered, Ready, Terminator
<1>6. QED
  BY <1>3, <1>4, <1>5 DEF StreamInv

\* What a line holds but a terminator.
LEMMA FrontLine ==
  ASSUME NEW line \in Seq(Events), line # <<>>, LastOnly(line), NEW n \in Nat, NumberedFrom(line, n)
  PROVE  LET front == SubSeq(line, 1, Len(line) - 1) IN
         /\ front \in Seq(Chunks) /\ Len(front) = Len(line) - 1
         /\ \A i \in 1..Len(front) : front[i] = n + i
<1> DEFINE front == SubSeq(line, 1, Len(line) - 1)
<1>1. Len(line) \in Nat \ {0}
  BY EmptySeq
<1>2. \A i \in 1..(Len(line) - 1) : line[i] \in Chunks /\ line[i] = n + i
  <2>1. SUFFICES ASSUME NEW i \in 1..(Len(line) - 1) PROVE line[i] \in Chunks /\ line[i] = n + i
    OBVIOUS
  <2>2. i \in 1..Len(line) /\ i # Len(line)
    BY <1>1, <2>1
  <2>3. QED
    BY <2>2 DEF LastOnly, NumberedFrom
<1>3. 1 \in Int /\ Len(line) - 1 \in Int
  BY <1>1
<1>4. /\ front \in Seq(Chunks) /\ Len(front) = IF 1 <= Len(line) - 1 THEN (Len(line) - 1) - 1 + 1 ELSE 0
      /\ \A i \in 1..((Len(line) - 1) - 1 + 1) : front[i] = line[1 + i - 1]
  BY <1>2, <1>3, SubSeqProperties
<1> HIDE DEF front
<1>5. Len(front) = Len(line) - 1
  <2>1. CASE Len(line) = 1
    BY <1>4, <2>1
  <2>2. CASE Len(line) > 1
    BY <1>1, <1>4, <2>2
  <2>3. \A k \in Nat \ {0} : k = 1 \/ k > 1
    OBVIOUS
  <2>4. QED
    BY <1>1, <2>1, <2>2, <2>3
<1>6. \A i \in 1..Len(front) : front[i] = n + i
  <2>1. SUFFICES ASSUME NEW i \in 1..(Len(line) - 1) PROVE front[i] = n + i
    BY <1>5
  <2>2. i \in 1..((Len(line) - 1) - 1 + 1) /\ 1 + i - 1 = i
    BY <1>1, <2>1
  <2>3. front[i] = line[i]
    BY <1>4, <2>2
  <2>4. QED
    BY <1>2, <2>1, <2>3
<1>7. QED
  BY <1>4, <1>5, <1>6 DEF front

LEMMA StartControllerCase ==
  ASSUME StreamInv, StartController
  PROVE  StreamInv' /\ (Same \/ Ends \/ Fails)
<1> DEFINE ended(e) == pending # <<>> /\ pending[Len(pending)] = e
           front == SubSeq(pending, 1, Len(pending) - 1)
<1>1. /\ ctrl = "opened" /\ alive /\ pending' = <<>>
      /\ UNCHANGED <<pump, read, source, credits, alive, fwd, forsaken, want, seen>>
  BY DEF StartController, sendVars
<1>2. StreamType /\ SeenInOrder /\ Phases /\ Cancels /\ Lines /\ Numbered
  BY DEF StreamInv
<1>3. /\ Len(fwd) \in Nat /\ Len(pending) \in Nat /\ read \in Nat /\ Ready \in Nat
      /\ pending \in Seq(Events) /\ fwd \in Seq(Events)
  BY <1>2, Lengths DEF StreamType
<1>4. /\ queue = <<>> /\ seen = <<>> /\ bodyFate = "open" /\ ~forsaken /\ ~want /\ pump # "idle"
      /\ Len(seen) = 0 /\ Ready = 0
  BY <1>1, <1>2, Lengths DEF Phases, Ready
<1>5. /\ LastOnly(pending) /\ (pump # "over" => AllChunks(pending))
      /\ pending # <<>> /\ pending[Len(pending)] \notin Chunks => fwd = <<>>
  BY <1>2 DEF Lines
<1>6. /\ NumberedFrom(pending, 0) /\ NumberedFrom(fwd, 0 + Len(pending))
      /\ pump = "reading" => read = 0 + Len(pending) + Len(fwd)
      /\ pump = "parked" => read = 0 + Len(pending) + Len(fwd) + 1
      /\ pump = "over" =>
           /\ source \in {"end", "error"}
           /\ read = 0 + Len(pending) + Len(fwd) - 1
           /\ IF fwd # <<>> THEN fwd[Len(fwd)] = Terminator
                            ELSE pending # <<>> /\ pending[Len(pending)] = Terminator
  BY <1>1, <1>2, <1>4 DEF Numbered
<1>7. ASSUME pending # <<>>, pending[Len(pending)] \notin Chunks
      PROVE  /\ fwd = <<>> /\ Len(fwd) = 0 /\ pump = "over" /\ pending[Len(pending)] = Terminator
             /\ front \in Seq(Chunks) /\ Len(front) = read
             /\ \A i \in 1..Len(front) : front[i] = i
  <2>1. fwd = <<>> /\ Len(fwd) = 0
    BY <1>5, <1>7, EmptySeq
  <2>2. Len(pending) \in Nat \ {0} /\ Len(pending) \in 1..Len(pending)
    BY <1>3, <1>7, EmptySeq
  <2>3. pump = "over"
    BY <1>5, <1>7, <2>2 DEF AllChunks
  <2>4. read = Len(pending) - 1 /\ pending[Len(pending)] = Terminator
    BY <1>3, <1>6, <2>1, <2>3
  <2>5. /\ front \in Seq(Chunks) /\ Len(front) = Len(pending) - 1
        /\ \A i \in 1..Len(front) : front[i] = 0 + i
    BY <1>3, <1>5, <1>6, <1>7, FrontLine
  <2> HIDE DEF front
  <2>6. \A i \in 1..Len(front) : front[i] = i
    BY <2>5
  <2>7. QED
    BY <2>1, <2>3, <2>4, <2>5, <2>6
<1>8. CASE ended(End)
  <2>1. ctrl' = "gone" /\ queue' = front /\ back' = back /\ bodyFate' = IF front = <<>> THEN "done" ELSE bodyFate
    BY <1>8, EventKinds DEF StartController
  <2>2. /\ fwd = <<>> /\ pump = "over" /\ End = Terminator
        /\ front \in Seq(Chunks) /\ Len(front) = read
        /\ \A i \in 1..Len(front) : front[i] = i
    BY <1>7, <1>8, EventKinds
  <2> HIDE DEF front
  <2>3. source = "end"
    BY <2>2, EventKinds DEF Terminator
  <2>4. StreamType'
    BY <1>1, <1>2, <2>1, <2>2, EmptySeq DEF StreamType
  <2>5. Ready' = read /\ Len(seen') = 0
    BY <1>1, <1>3, <1>4, <2>1, <2>2 DEF Ready
  <2>6. SeenInOrder'
    BY <1>1, <1>3, <1>4, <2>1, <2>2, <2>5 DEF SeenInOrder
  <2>7. Phases'
    BY <1>1, <1>2, <1>4, <2>1, <2>2, <2>3, <2>5 DEF Phases
  <2>8. Lines' /\ Numbered' /\ Cancels'
    BY <1>1, <1>2, <2>1, <2>2, EmptyLine DEF Lines, Numbered, Cancels
  <2>9. Same \/ Ends
    <3>1. front = <<>> => read = Len(seen)
      BY <1>4, <2>2, EmptyLine
    <3>2. QED
      BY <1>1, <1>4, <2>1, <2>3, <3>1 DEF Same, Ends
  <2>10. QED
    BY <2>4, <2>6, <2>7, <2>8, <2>9 DEF StreamInv
<1>9. CASE ended(Fault)
  <2>1. ctrl' = "gone" /\ queue' = <<>> /\ back' = back /\ bodyFate' = "error"
    BY <1>9, EventKinds DEF StartController
  <2>2. fwd = <<>> /\ pump = "over" /\ Fault = Terminator
    BY <1>7, <1>9, EventKinds
  <2>3. StreamType'
    BY <1>1, <1>2, <2>1, <2>2, EmptySeq DEF StreamType
  <2>4. SeenInOrder'
    BY <1>1, <1>2, <1>3, <1>4, <2>1, EmptySeq DEF SeenInOrder, Ready
  <2>5. Phases'
    BY <1>1, <1>2, <1>4, <2>1, <2>2 DEF Phases
  <2>6. Lines' /\ Numbered' /\ Cancels'
    BY <1>1, <1>2, <2>1, <2>2, EmptyLine DEF Lines, Numbered, Cancels
  <2>7. Fails
    BY <1>1, <1>4, <1>6, <2>1, <2>2, EventKinds DEF Fails, Terminator
  <2>8. QED
    BY <2>3, <2>4, <2>5, <2>6, <2>7 DEF StreamInv
<1>10. CASE ~ended(End) /\ ~ended(Fault)
  <2>1. ctrl' = "started" /\ queue' = pending /\ Pulls(pending, FALSE) /\ bodyFate' = bodyFate
    BY <1>10 DEF StartController
  <2>2. AllChunks(pending)
    <3>1. pending # <<>> => pending[Len(pending)] \in Chunks
      <4>1. SUFFICES ASSUME pending # <<>> PROVE pending[Len(pending)] \in Chunks
        OBVIOUS
      <4>2. pending[Len(pending)] \in Events
        BY <1>3, <4>1, EmptySeq
      <4>3. QED
        BY <1>10, <4>1, <4>2, EventKinds
    <3>2. QED
      BY <1>3, <1>5, <3>1, NoTerminator
  <2>3. pending \in Seq(Chunks) /\ \A i \in 1..Len(pending) : pending[i] = i
    BY <1>3, <1>6, <2>2 DEF AllChunks, NumberedFrom
  <2>4. back' \in Seq({"ack", "cancel"}) /\ Cancels'
    BY <1>1, <1>2, <2>1, PullsAcks DEF Cancels
  <2>5. StreamType'
    BY <1>1, <1>2, <2>1, <2>3, <2>4, EmptySeq DEF StreamType
  <2>6. Ready' = Len(pending) /\ Len(seen') = 0 /\ Len(pending') = 0
    BY <1>1, <1>3, <1>4, <2>1, EmptySeq DEF Ready
  <2>7. pump \in {"reading", "parked", "over"}
    BY <1>2, <1>4 DEF StreamType
  <2>8. pump = "over" => fwd # <<>> /\ fwd[Len(fwd)] = Terminator /\ Len(fwd) \in Nat \ {0}
    <3>1. pump = "over" => fwd # <<>> /\ fwd[Len(fwd)] = Terminator
      BY <1>6, <1>10 DEF Terminator
    <3>2. QED
      BY <1>3, <3>1, EmptySeq
  <2>9. read >= Len(pending)
    <3>1. CASE pump = "over"
      BY <1>3, <1>6, <2>8, <3>1
    <3>2. CASE pump # "over"
      BY <1>3, <1>6, <2>7, <3>2
    <3>3. QED
      BY <3>1, <3>2
  <2>10. SeenInOrder'
    BY <1>1, <1>3, <1>4, <2>1, <2>3, <2>6, <2>9 DEF SeenInOrder
  <2>11. Phases'
    BY <1>1, <1>2, <1>4, <2>1 DEF Phases
  <2>12. Lines'
    BY <1>1, <1>2, EmptyLine DEF Lines
  <2>13. Numbered'
    <3>1. Terminator' = Terminator /\ NumberedFrom(pending', Ready')
      BY <1>1, <1>3, <2>6, EmptyLine DEF Terminator
    <3>2. Ready' + Len(pending') = 0 + Len(pending) /\ NumberedFrom(fwd', Ready' + Len(pending'))
      BY <1>1, <1>3, <1>6, <2>6
    <3>3. /\ pump' = "reading" => read' = Ready' + Len(pending') + Len(fwd')
          /\ pump' = "parked" => read' = Ready' + Len(pending') + Len(fwd') + 1
          /\ pump' = "over" => read' = Ready' + Len(pending') + Len(fwd') - 1
      BY <1>1, <1>3, <1>6, <2>6
    <3>4. QED
      BY <1>1, <1>6, <2>8, <3>1, <3>2, <3>3 DEF Numbered
  <2>14. Same
    BY <1>1, <2>1 DEF Same
  <2>15. QED
    BY <2>4, <2>5, <2>10, <2>11, <2>12, <2>13, <2>14 DEF StreamInv
<1>11. QED
  BY <1>8, <1>9, <1>10

\* A read that is answered at once.
LEMMA TakeCase ==
  ASSUME StreamInv, ConsumerReads, queue # <<>>
  PROVE  StreamInv' /\ (Takes \/ Ends)
<1>1. /\ bodyFate = "open" /\ ctrl \in {"started", "gone"} /\ ~want
      /\ seen' = Append(seen, Head(queue)) /\ queue' = Tail(queue) /\ want' = want
      /\ bodyFate' = IF ctrl = "gone" /\ Tail(queue) = <<>> THEN "done" ELSE bodyFate
      /\ IF ctrl = "gone" THEN back' = back ELSE Pulls(queue', FALSE)
      /\ UNCHANGED <<pump, read, source, credits, alive, fwd, ctrl, pending, forsaken>>
  BY DEF ConsumerReads, Readable, CloseRequested, sendVars
<1>2. StreamType /\ SeenInOrder /\ Phases /\ Cancels /\ Lines /\ Numbered
  BY DEF StreamInv
<1>3. /\ Len(seen) \in Nat /\ Len(queue) \in Nat \ {0} /\ Len(fwd) \in Nat /\ Len(pending) \in Nat
      /\ read \in Nat /\ Ready \in Nat /\ Ready = Len(seen) + Len(queue)
      /\ seen \in Seq(Chunks) /\ queue \in Seq(Chunks)
  BY <1>2, Lengths, EmptySeq DEF StreamType, Ready
<1>4. /\ \A i \in 1..Len(seen) : seen[i] = i
      /\ \A i \in 1..Len(queue) : queue[i] = Len(seen) + i
      /\ Ready <= read
  BY <1>2 DEF SeenInOrder
<1>5. /\ Tail(queue) \in Seq(Chunks) /\ Len(Tail(queue)) = Len(queue) - 1
      /\ \A i \in 1..Len(Tail(queue)) : Tail(queue)[i] = queue[i + 1]
      /\ Head(queue) = queue[1] /\ Head(queue) \in Chunks
  BY <1>3, HeadTailProperties
<1>6. Head(queue) = Len(seen) + 1 /\ Len(seen) < read
  BY <1>3, <1>4, <1>5
<1>7. /\ seen' \in Seq(Chunks) /\ Len(seen') = Len(seen) + 1
      /\ \A i \in 1..Len(seen') : seen'[i] = i
  <2>1. /\ seen' \in Seq(Chunks) /\ Len(seen') = Len(seen) + 1
        /\ \A i \in 1..Len(seen') : seen'[i] = IF i = Len(seen) + 1 THEN Head(queue) ELSE seen[i]
    BY <1>1, <1>3, <1>5, SMTT(30)
  <2>2. ASSUME NEW i \in 1..Len(seen') PROVE seen'[i] = i
    <3>1. i = Len(seen) + 1 \/ i \in 1..Len(seen)
      BY <1>3, <2>1
    <3>2. QED
      BY <1>4, <1>6, <2>1, <3>1
  <2>3. QED
    BY <2>1, <2>2
<1>8. /\ queue' \in Seq(Chunks) /\ Len(queue') = Len(queue) - 1
      /\ \A i \in 1..Len(queue') : queue'[i] = Len(seen') + i
  <2>1. ASSUME NEW i \in 1..Len(queue') PROVE queue'[i] = Len(seen') + i
    <3>1. i + 1 \in 1..Len(queue) /\ i \in Nat
      BY <1>1, <1>3, <1>5
    <3>2. queue'[i] = Len(seen) + (i + 1)
      BY <1>1, <1>4, <1>5, <3>1
    <3>3. QED
      BY <1>3, <1>7, <3>1, <3>2
  <2>2. QED
    BY <1>1, <1>5, <2>1
<1>9. Ready' = Ready /\ (Tail(queue) = <<>> => Len(queue) = 1)
  <2>1. ASSUME Tail(queue) = <<>> PROVE Len(queue) = 1
    <3>1. Len(Tail(queue)) = 0
      BY <2>1, EmptyLine
    <3>2. Len(Tail(queue)) = Len(queue) - 1
      BY <1>5
    <3>3. \A k \in Nat \ {0} : k - 1 = 0 => k = 1
      OBVIOUS
    <3>4. QED
      BY <1>3, <3>1, <3>2, <3>3
  <2>2. Len(seen') + Len(queue') = Len(seen) + Len(queue)
    BY <1>3, <1>7, <1>8
  <2>3. QED
    BY <2>1, <2>2 DEF Ready
<1>10. /\ ctrl = "gone" => source = "end" /\ read = Ready
       /\ ctrl = "gone" /\ ~forsaken => fwd = <<>> /\ pump = "over"
       /\ ~forsaken /\ pump # "idle"
  BY <1>1, <1>2 DEF Phases
<1>11. back' \in Seq({"ack", "cancel"}) /\ Cancels'
  BY <1>1, <1>2, PullsAcks DEF Cancels, StreamType
<1>12. StreamType'
  BY <1>1, <1>2, <1>7, <1>8, <1>11 DEF StreamType
<1>13. SeenInOrder'
  BY <1>1, <1>4, <1>7, <1>8, <1>9 DEF SeenInOrder
<1>14. Phases'
  <2>1. ~alive => back' = back
    BY <1>1, <1>2 DEF Phases
  <2>2. bodyFate' = "open" \/ queue' = <<>>
    BY <1>1
  <2>3. ctrl = "gone" /\ bodyFate' = "open" => queue' # <<>>
    BY <1>1
  <2>4. QED
    BY <1>1, <1>2, <1>9, <1>10, <2>1, <2>2, <2>3 DEF Phases
<1>15. Lines' /\ Numbered'
  BY <1>1, <1>2, <1>9 DEF Lines, Numbered, Terminator
<1>16. StreamInv'
  BY <1>11, <1>12, <1>13, <1>14, <1>15 DEF StreamInv
<1>17. ASSUME bodyFate' # bodyFate
       PROVE  bodyFate' = "done" /\ source = "end" /\ read = Len(seen) + 1
  BY <1>1, <1>3, <1>9, <1>10, <1>17
<1>18. CASE bodyFate' = bodyFate
  BY <1>1, <1>6, <1>16, <1>18 DEF Takes
<1>19. CASE bodyFate' # bodyFate
  BY <1>1, <1>6, <1>16, <1>17, <1>19 DEF Ends
<1>20. QED
  BY <1>18, <1>19

\* A read that waits.
LEMMA WaitCase ==
  ASSUME StreamInv, ConsumerReads, queue = <<>>
  PROVE  StreamInv' /\ Same
<1>1. /\ bodyFate = "open" /\ ctrl \in {"started", "gone"} /\ want' = TRUE /\ Pulls(queue, TRUE)
      /\ UNCHANGED <<pump, read, source, credits, alive, fwd, ctrl, pending, forsaken, seen, queue, bodyFate>>
  BY DEF ConsumerReads, Readable, sendVars
<1>2. StreamType /\ SeenInOrder /\ Phases /\ Cancels /\ Lines /\ Numbered
  BY DEF StreamInv
<1>3. ctrl = "started" /\ alive
  BY <1>1, <1>2 DEF Phases
<1>4. back' \in Seq({"ack", "cancel"}) /\ Cancels'
  BY <1>1, <1>2, <1>3, PullsAcks DEF Cancels
<1>5. StreamType' /\ SeenInOrder'
  BY <1>1, <1>2, <1>4 DEF StreamType, SeenInOrder, Ready
<1>6. Phases'
  BY <1>1, <1>2, <1>3 DEF Phases
<1>7. Lines' /\ Numbered'
  BY <1>1, <1>2 DEF Lines, Numbered, Ready, Terminator
<1>8. QED
  BY <1>1, <1>4, <1>5, <1>6, <1>7 DEF StreamInv, Same

LEMMA ForsakeCase ==
  ASSUME StreamInv, Forsake, ctrl # "none"
  PROVE  StreamInv'
<1>1. /\ forsaken' = TRUE /\ pending' = <<>> /\ queue' = <<>> /\ want' = FALSE /\ ctrl' = "gone"
      /\ bodyFate' = "cancelled"
      /\ back' = IF alive THEN Append(back, "cancel") ELSE back
      /\ UNCHANGED <<pump, read, source, credits, alive, fwd, seen>>
  BY DEF Forsake, sendVars
<1>2. StreamType /\ SeenInOrder /\ Phases /\ Cancels /\ Lines
  BY DEF StreamInv
<1>3. /\ Len(seen) \in Nat /\ Len(queue) \in Nat /\ read \in Nat
      /\ back \in Seq({"ack", "cancel"})
  BY <1>2, Lengths DEF StreamType
<1>4. back' \in Seq({"ack", "cancel"})
  BY <1>1, <1>3
<1>5. StreamType'
  BY <1>1, <1>2, <1>4, EmptySeq DEF StreamType
<1>6. SeenInOrder'
  BY <1>1, <1>2, <1>3, EmptySeq DEF SeenInOrder, Ready
<1>7. Phases'
  BY <1>1, <1>2 DEF Phases
<1>8. Lines' /\ Numbered' /\ Cancels'
  BY <1>1, <1>2, EmptyLine DEF Lines, Numbered, Cancels
<1>9. QED
  BY <1>5, <1>6, <1>7, <1>8 DEF StreamInv

LEMMA DisposeAllCase ==
  ASSUME StreamInv, DisposeAll
  PROVE  StreamInv'
<1>1. /\ pump # "idle" /\ alive' = FALSE /\ fwd' = <<>> /\ back' = <<>> /\ pump' = "over"
      /\ source' = IF source = "open" THEN "cut" ELSE source
      /\ pending' = <<>> /\ forsaken' = FALSE
      /\ \/ ctrl \in {"opened", "gone"} /\ UNCHANGED <<ctrl, queue, want, bodyFate>>
         \/ ctrl \notin {"opened", "gone"} /\ ctrl' = "gone" /\ queue' = <<>> /\ want' = FALSE /\ bodyFate' = "torn"
      /\ UNCHANGED <<read, credits, seen>>
  BY DEF DisposeAll
<1>2. StreamType /\ SeenInOrder /\ Phases
  BY DEF StreamInv
<1>3. Len(seen) \in Nat /\ Len(queue) \in Nat /\ read \in Nat
  BY <1>2, Lengths
<1>4. StreamType'
  BY <1>1, <1>2, EmptySeq DEF StreamType
<1>5. SeenInOrder'
  BY <1>1, <1>2, <1>3, EmptySeq DEF SeenInOrder, Ready
<1>6. Phases'
  BY <1>1, <1>2, SMTT(30) DEF Phases, Ready, StreamType
<1>7. Lines' /\ Numbered' /\ Cancels'
  BY <1>1, EmptyLine DEF Lines, Numbered, Cancels
<1>8. QED
  BY <1>4, <1>5, <1>6, <1>7 DEF StreamInv

-----------------------------------------------------------------------------
(* The theorem.                                                            *)

LEMMA StepKeepsInv == StreamInv /\ [StreamNext]_streamVars => StreamInv'
<1>1. SUFFICES ASSUME StreamInv, [StreamNext]_streamVars PROVE StreamInv'
  OBVIOUS
<1>2. CASE UNCHANGED streamVars
  BY <1>1, <1>2 DEF streamVars, sendVars, recvVars, StreamInv, StreamType, SeenInOrder, Ready, Phases,
       Cancels, Lines, LastOnly, AllChunks, Numbered, NumberedFrom, Terminator
<1>3. CASE ConsumerReads
  BY <1>1, <1>3, TakeCase, WaitCase
<1>4. CASE ConsumerCancels
  <2>1. Forsake /\ ctrl # "none"
    BY <1>4 DEF ConsumerCancels
  <2>2. QED
    BY <1>1, <2>1, ForsakeCase
<1>5. CASE DispatcherCancels
  <2>1. Forsake /\ ctrl # "none"
    BY <1>5 DEF DispatcherCancels
  <2>2. QED
    BY <1>1, <2>1, ForsakeCase
<1>6. QED
  BY <1>1, <1>2, <1>3, <1>4, <1>5, StartPumpCase, ReadChunkCase, SourceEndsCase, AckArrivesCase,
     CancelArrivesCase, EventArrivesCase, OpenStreamCase, StartControllerCase, DisposeAllCase
     DEF StreamNext

LEMMA StreamInvariant == StreamInit /\ [][StreamNext]_streamVars => []StreamInv
BY InitCase, StepKeepsInv, PTL

LEMMA LogShape ==
  ASSUME NEW n \in Nat
  PROVE  [i \in 1..n |-> i] \in Seq(Nat) /\ Len([i \in 1..n |-> i]) = n
OBVIOUS

\* A line of all chunks is the log.
LEMMA SeenAll ==
  ASSUME NEW n \in Nat, NEW line \in Seq(Chunks), Len(line) = n, \A i \in 1..Len(line) : line[i] = i
  PROVE  line = [i \in 1..n |-> i]
<1>1. line \in Seq(Nat)
  BY EventKinds, SeqMonotonic
<1>2. QED
  BY <1>1, LogShape, SeqEqual

\* Whatever happens on the way, each step of the stream is one of the channel, or none.
LEMMA StepImplements ==
  ASSUME StreamInv, StreamInv', [StreamNext]_streamVars
  PROVE  [Body!ChannelNext]_(Body!channelVars)
<1> DEFINE ending == IF source = "cut" THEN "open" ELSE source
           log == [i \in 1..read |-> i]
<1>1. /\ StreamType /\ SeenInOrder /\ Phases /\ read \in Nat /\ Len(seen) \in Nat
      /\ StreamType' /\ SeenInOrder' /\ read' \in Nat /\ seen \in Seq(Chunks) /\ seen' \in Seq(Chunks)
  BY Lengths, StreamAssumption DEF StreamInv, StreamType
<1>2. Len(log) = read /\ log \in Seq(Nat) /\ Len(log') = read' /\ log' \in Seq(Nat)
  BY <1>1, LogShape
<1>3. Same => UNCHANGED Body!channelVars
  BY DEF Body!channelVars, Same
<1>4. Takes => Body!Consume
  <2>1. SUFFICES ASSUME Takes PROVE Body!Consume
    OBVIOUS
  <2>2. log[Len(seen) + 1] = Len(seen) + 1
    BY <1>1, <2>1 DEF Takes
  <2>3. QED
    BY <1>2, <2>1, <2>2 DEF Takes, Body!Consume
<1>5. Ends => Body!SeeEnd
  <2>1. SUFFICES ASSUME Ends PROVE Body!SeeEnd
    OBVIOUS
  <2>2. Len(seen') = read
    BY <1>1, <2>1 DEF Ends
  <2>3. seen' = log
    BY <1>1, <2>2, SeenAll DEF SeenInOrder
  <2>4. Len(seen) + 1 >= Len(log)
    BY <1>1, <1>2, <2>1 DEF Ends
  <2>5. QED
    BY <2>1, <2>3, <2>4 DEF Ends, Body!SeeEnd
<1>6. Fails => Body!SeeError
  BY DEF Fails, Body!SeeError
<1>7. CASE UNCHANGED streamVars
  BY <1>3, <1>7 DEF streamVars, sendVars, recvVars, Same
<1>8. CASE StartPump
  <2>1. ending = "open" /\ UNCHANGED <<read, seen, bodyFate>> /\ (source' = "error" \/ source' = source)
    BY <1>1, <1>8 DEF StartPump, Phases, StreamType
  <2>2. CASE source' = source
    BY <1>3, <2>1, <2>2 DEF Same
  <2>3. CASE source' = "error"
    BY <2>1, <2>3 DEF Body!ChannelNext, Body!Finish
  <2>4. QED
    BY <2>1, <2>2, <2>3
<1>9. CASE ReadChunk
  <2>1. ending = "open" /\ read' = read + 1 /\ UNCHANGED <<source, seen, bodyFate>>
    BY <1>1, <1>9 DEF ReadChunk, Phases, StreamType, recvVars
  <2>2. Len(log') = Len(log) + 1
    BY <1>2, <2>1
  <2>3. SubSeq(log', 1, Len(log)) = log
    <3>1. \A i \in 1..read : log'[i] = i /\ log'[i] \in Nat
      BY <1>1, <2>1
    <3>2. /\ SubSeq(log', 1, read) \in Seq(Nat)
          /\ Len(SubSeq(log', 1, read)) = IF 1 <= read THEN read - 1 + 1 ELSE 0
          /\ \A i \in 1..(read - 1 + 1) : SubSeq(log', 1, read)[i] = log'[1 + i - 1]
      BY <1>1, <3>1, SubSeqProperties, SMTT(30)
    <3> DEFINE sub == SubSeq(log', 1, read)
    <3> HIDE DEF sub
    <3>3. /\ sub \in Seq(Nat) /\ Len(sub) = IF 1 <= read THEN read - 1 + 1 ELSE 0
          /\ \A i \in 1..(read - 1 + 1) : sub[i] = log'[1 + i - 1]
      BY <3>2 DEF sub
    <3>4. Len(sub) = read
      BY <1>1, <3>3
    <3>5. \A i \in 1..read : sub[i] = log[i]
      <4>1. SUFFICES ASSUME NEW i \in 1..read PROVE sub[i] = i
        OBVIOUS
      <4>2. i \in 1..(read - 1 + 1) /\ 1 + i - 1 = i
        BY <1>1
      <4>3. QED
        BY <3>1, <3>3, <4>2
    <3>6. sub = log
      BY <1>2, <3>3, <3>4, <3>5, SeqEqual
    <3>7. QED
      BY <1>2, <3>6 DEF sub
  <2>4. QED
    BY <2>1, <2>2, <2>3 DEF Body!ChannelNext, Body!Produce
<1>10. CASE SourceEnds
  <2>1. ending = "open" /\ source' \in {"end", "error"} /\ UNCHANGED <<read, seen, bodyFate>>
    BY <1>1, <1>10 DEF SourceEnds, Phases, StreamType, recvVars
  <2>2. QED
    BY <2>1 DEF Body!ChannelNext, Body!Finish
<1>11. CASE AckArrives \/ OpenStream
  BY <1>3, <1>11 DEF AckArrives, OpenStream, Same, sendVars, recvVars
<1>12. CASE CancelArrives
  <2>1. UNCHANGED <<read, seen, bodyFate>> /\ (source' = source \/ (source = "open" /\ source' = "cut"))
    <3>1. UNCHANGED <<read, seen, bodyFate>>
      BY <1>12 DEF CancelArrives, recvVars
    <3>2. CASE pump \in {"reading", "parked"}
      BY <1>1, <1>12, <3>1, <3>2 DEF CancelArrives, Phases
    <3>3. CASE pump \notin {"reading", "parked"}
      BY <1>12, <3>1, <3>3 DEF CancelArrives
    <3>4. QED
      BY <3>2, <3>3
  <2>2. QED
    BY <2>1 DEF Body!channelVars
<1>13. CASE EventArrives
  BY <1>3, <1>4, <1>5, <1>6, <1>13, EventArrivesCase DEF Body!ChannelNext
<1>14. CASE StartController
  BY <1>3, <1>5, <1>6, <1>14, StartControllerCase DEF Body!ChannelNext
<1>15. CASE ConsumerReads
  BY <1>3, <1>4, <1>5, <1>15, TakeCase, WaitCase DEF Body!ChannelNext
<1>16. CASE ConsumerCancels \/ DispatcherCancels
  <2>1. bodyFate = "open" /\ bodyFate' = "cancelled" /\ UNCHANGED <<read, source, seen>>
    BY <1>16 DEF ConsumerCancels, DispatcherCancels, Forsake, sendVars
  <2>2. QED
    BY <2>1 DEF Body!ChannelNext, Body!Abandon
<1>17. CASE DisposeAll
  <2>1. /\ UNCHANGED <<read, seen>> /\ (source' = source \/ (source = "open" /\ source' = "cut"))
        /\ bodyFate' = bodyFate \/ (bodyFate = "open" /\ bodyFate' = "torn")
    <3>1. UNCHANGED <<read, seen>> /\ (source' = source \/ (source = "open" /\ source' = "cut"))
      BY <1>17 DEF DisposeAll
    <3>2. CASE ctrl \in {"opened", "gone"}
      BY <1>17, <3>1, <3>2 DEF DisposeAll
    <3>3. CASE ctrl \notin {"opened", "gone"}
      BY <1>1, <1>17, <3>1, <3>3 DEF DisposeAll, Phases
    <3>4. QED
      BY <3>2, <3>3
  <2>2. CASE bodyFate' = bodyFate
    BY <2>1, <2>2 DEF Body!channelVars
  <2>3. CASE bodyFate = "open" /\ bodyFate' = "torn"
    BY <2>1, <2>3 DEF Body!ChannelNext, Body!Abandon
  <2>4. QED
    BY <2>1, <2>2, <2>3
<1>18. QED
  BY <1>7, <1>8, <1>9, <1>10, <1>11, <1>12, <1>13, <1>14, <1>15, <1>16, <1>17 DEF StreamNext

\* The body that a consumer reads in one thread is the one that its source produces in
\* another: no chunk is lost, repeated or overtaken, and a body that was cut short never
\* ends as a whole one, for any number of chunks and any window, whatever the order of
\* messages, reads, cancels and disposals (pumpStream, StreamReceiver).
THEOREM StreamRefinesChannel == StreamSpec => BodyIsChannel
<1>1. StreamInit => Body!ChannelInit
  BY DEF StreamInit, Body!ChannelInit
<1>2. StreamInv /\ StreamInv' /\ [StreamNext]_streamVars => [Body!ChannelNext]_(Body!channelVars)
  BY StepImplements
<1>3. QED
  BY <1>1, <1>2, StreamInvariant, PTL DEF StreamSpec, BodyIsChannel, Body!ChannelSpec
=============================================================================
