------------------------- MODULE DurableObjectProofs -------------------------
(***************************************************************************)
(* What DurableObject keeps, for any number of calls, alarms, executors,   *)
(* reloads, crashes and exits.                                             *)
(***************************************************************************)
EXTENDS DurableObject, FiniteSetTheorems, WellFoundedInduction, TLAPS

\* alarmTimers holds at most one timer.
OneTimer == tracked = {} \/ \E t \in Timer : tracked = {t}

Typed == TypeOK /\ OneTimer

-----------------------------------------------------------------------------
(* Types.                                                                  *)

Phases == {"idle", "wait", "sent", "body", "socket", "ok", "failed"}
Places == {"none", "posted", "gate", "run"}
Lives  == {"starting", "built", "ready", "gone"}
Fates  == {"unset", "pending", "over", "exposed", "done", "exhausted"}
Flags  == [aborted : BOOLEAN, blocked : BOOLEAN]

\* TypeOK in three parts.
AlarmType ==
  /\ row \in 0..Manual
  /\ sets \in 0..MaxSets
  /\ stray \subseteq Timer
  /\ fire \in [Firings -> Timer]
  /\ OneTimer
  /\ writer \in 0..MaxExecs
  /\ raced \in BOOLEAN
  /\ fate \in [Versions -> Fates]

CommandType ==
  /\ current \in 0..MaxExecs
  /\ detached \subseteq Execs
  /\ life \in [Execs -> Lives]
  /\ mirror \in [Execs -> Flags]
  /\ ph \in [Jobs -> Phases]
  /\ at \in [Jobs -> 0..MaxExecs]

ThreadType ==
  /\ wk \in [Jobs -> Places]
  /\ awaits \in [Jobs -> 0..MaxBlocks]
  /\ gate \in [Execs -> 0..MaxBlocks]
  /\ blocks \in [Execs -> SUBSET Blocks]
  /\ aborted \in [Execs -> BOOLEAN]
  /\ out \in [Execs -> Seq(Message)]
  /\ acts \in 0..MaxActs
  /\ ops \in 0..MaxOps

LEMMA Numbers ==
  /\ MaxAlarmRetries \in Nat /\ MaxExecs \in Nat /\ MaxBlocks \in Nat
  /\ MaxSets \in Nat /\ MaxActs \in Nat /\ MaxOps \in Nat
  /\ None \notin Execs /\ Execs \subseteq 0..MaxExecs /\ Execs \subseteq Nat
  /\ \A e \in 0..MaxExecs : e # None => e \in Execs
  /\ None \notin Versions /\ Versions \subseteq 0..MaxSets /\ 0..MaxSets \subseteq 0..Manual
  /\ Manual \in 0..Manual /\ Manual \notin Versions
  /\ None \in 0..Manual /\ None \in 0..MaxExecs /\ None \in 0..MaxBlocks /\ Blocks \subseteq 0..MaxBlocks
BY ObjectAssumption DEF Execs, Versions, None, Manual, Blocks

LEMMA TypeParts == Typed <=> AlarmType /\ CommandType /\ ThreadType
<1>1. OneTimer => tracked \subseteq Timer
  BY DEF OneTimer
<1>2. OneTimer => Cardinality(tracked) <= 1
  <2>1. ASSUME tracked = {} PROVE Cardinality(tracked) = 0
    BY <2>1, FS_EmptySet
  <2>2. ASSUME NEW t, tracked = {t} PROVE Cardinality(tracked) = 1
    BY <2>2, FS_Singleton
  <2>3. QED
    BY <2>1, <2>2 DEF OneTimer
<1>3. QED
  BY <1>1, <1>2 DEF Typed, TypeOK, AlarmType, CommandType, ThreadType, Phases, Places, Lives, Fates, Flags

\* The least free executor is one.
LEMMA MinIn ==
  ASSUME NEW S \in SUBSET Nat, S # {}
  PROVE  Min(S) \in S
<1>1. OpToRel(<, Nat) = {ss \in Nat \X Nat : ss[1] < ss[2]}
  BY Zenon DEF OpToRel
<1>2. \E x \in S : \A y \in S : ~(<<y, x>> \in OpToRel(<, Nat))
  BY WFMin, NatLessThanWellFounded
<1>3. \E x \in S : \A y \in S : ~(<<y, x>> \in {ss \in Nat \X Nat : ss[1] < ss[2]})
  BY <1>1, <1>2, Zenon
<1>4. PICK x \in S : \A y \in S : ~(<<y, x>> \in {ss \in Nat \X Nat : ss[1] < ss[2]})
  BY <1>3
<1>5. ASSUME NEW y \in S PROVE x =< y
  <2>1. <<y, x>> \in Nat \X Nat /\ <<y, x>>[1] = y /\ <<y, x>>[2] = x
    OBVIOUS
  <2>2. ~(<<y, x>>[1] < <<y, x>>[2])
    BY <1>4, <2>1, Zenon
  <2>3. QED
    BY <2>1, <2>2
<1>6. QED
  BY <1>5 DEF Min

LEMMA Messages ==
  /\ [k |-> "ready"] \in Message
  /\ [k |-> "error"] \in Message
  /\ \A a, b \in BOOLEAN : [k |-> "state", s |-> [aborted |-> a, blocked |-> b]] \in Message
  /\ \A v \in 0..MaxSets : [k |-> "alarm", v |-> v] \in Message
  /\ \A j \in Jobs : \A r \in Results : \A s \in Flags :
       [k |-> "result", j |-> j, res |-> r, s |-> s] \in Message
BY DEF Message, Flags

LEMMA MessageParts ==
  ASSUME NEW m \in Message
  PROVE  /\ m.k \in {"ready", "error", "state", "alarm", "result"}
         /\ m.k = "state" => m.s \in Flags
         /\ m.k = "alarm" => m.v \in 0..MaxSets /\ m = [k |-> "alarm", v |-> m.v]
         /\ m.k = "result" => m.j \in Jobs /\ m.res \in Results /\ m.s \in Flags
BY DEF Message, Flags

\* What a channel holds after a message was taken or posted.
LEMMA TailParts ==
  ASSUME NEW s \in Seq(Message), s # <<>>
  PROVE  /\ Tail(s) \in Seq(Message) /\ Head(s) \in Message /\ Head(s) = s[1] /\ 1 \in DOMAIN s
         /\ \A i \in DOMAIN Tail(s) : i + 1 \in DOMAIN s /\ Tail(s)[i] = s[i + 1]
         /\ \A i \in DOMAIN s : i # 1 => i - 1 \in DOMAIN Tail(s) /\ Tail(s)[i - 1] = s[i]
         /\ DOMAIN s \subseteq Nat /\ DOMAIN Tail(s) \subseteq Nat
         /\ \A i \in DOMAIN s : i >= 1
OBVIOUS

LEMMA AppendParts ==
  ASSUME NEW s \in Seq(Message), NEW m \in Message
  PROVE  /\ Append(s, m) \in Seq(Message)
         /\ DOMAIN Append(s, m) = DOMAIN s \cup {Len(s) + 1}
         /\ Len(s) + 1 \notin DOMAIN s /\ Append(s, m)[Len(s) + 1] = m
         /\ \A i \in DOMAIN s : Append(s, m)[i] = s[i] /\ i < Len(s) + 1
         /\ DOMAIN s \subseteq Nat /\ Len(s) + 1 \in Nat
OBVIOUS

LEMMA ChannelTyped ==
  ASSUME out \in [Execs -> Seq(Message)]
  PROVE  /\ \A e \in Execs : out[e] \in Seq(Message)
         /\ \A e \in Execs : \A i \in DOMAIN out[e] : out[e][i] \in Message
OBVIOUS

-----------------------------------------------------------------------------
(* What the parts of the actions do.                                       *)

\* A command is given to the executor e.
Given(j, e) ==
  /\ current' = e
  /\ at' = [at EXCEPT ![j] = e]
  /\ life' = [life EXCEPT ![e] = life'[e]]
  /\ life'[e] # "gone"
  /\ life'[e] = life[e] \/ (life[e] = "gone" /\ life'[e] = "starting")
  /\ \/ /\ life[e] = "ready"
        /\ ph' = [ph EXCEPT ![j] = "sent"]
        /\ wk' = [wk EXCEPT ![j] = "posted"]
     \/ /\ ph' = [ph EXCEPT ![j] = "wait"]
        /\ UNCHANGED wk
  /\ UNCHANGED <<detached, mirror, awaits>>

LEMMA DispatchGives ==
  ASSUME Typed, NEW j \in Jobs, Dispatch(j)
  PROVE  \E e \in Execs : Given(j, e) /\ life'[e] \in Lives
<1> DEFINE e == IF Alive THEN current ELSE Min(Free)
<1>0. CommandType
  BY TypeParts
<1>1. Free \in SUBSET Nat /\ Free \subseteq Execs
  BY Numbers DEF Free
<1>2. e \in Execs /\ (Alive => life[e] # "gone") /\ (~Alive => life[e] = "gone")
  <2>1. CASE Alive
    BY <1>0, <2>1, Numbers DEF Alive, CommandType
  <2>2. CASE ~Alive
    <3>1. Free # {}
      BY <2>2 DEF Dispatch
    <3>2. e \in Free
      BY <1>1, <2>2, <3>1, MinIn
    <3>3. QED
      BY <2>2, <3>2 DEF Free
  <2>3. QED
    BY <2>1, <2>2
<1>3. /\ current' = e
      /\ life' = IF Alive THEN life ELSE [life EXCEPT ![e] = "starting"]
      /\ at' = [at EXCEPT ![j] = e]
      /\ \/ life[e] = "ready" /\ ph' = [ph EXCEPT ![j] = "sent"] /\ wk' = [wk EXCEPT ![j] = "posted"]
         \/ ph' = [ph EXCEPT ![j] = "wait"] /\ UNCHANGED wk
      /\ UNCHANGED <<detached, mirror, awaits>>
  BY DEF Dispatch
<1> HIDE DEF e
<1>4. /\ life' = [life EXCEPT ![e] = life'[e]]
      /\ life'[e] # "gone" /\ life'[e] \in Lives
      /\ life'[e] = life[e] \/ (life[e] = "gone" /\ life'[e] = "starting")
  <2>1. life \in [Execs -> Lives]
    BY <1>0 DEF CommandType
  <2>2. CASE Alive
    <3>1. life' = life
      BY <1>3, <2>2
    <3>2. [life EXCEPT ![e] = life[e]] = life
      BY <2>1
    <3>3. life[e] \in Lives
      BY <1>2, <2>1
    <3>4. life[e] # "gone"
      BY <1>2, <2>2
    <3>5. life'[e] = life[e]
      BY <3>1
    <3>6. life' = [life EXCEPT ![e] = life'[e]]
      BY <3>1, <3>2
    <3>7. QED
      BY <3>3, <3>4, <3>5, <3>6
  <2>3. CASE ~Alive
    <3>1. life' = [life EXCEPT ![e] = "starting"]
      BY <1>3, <2>3
    <3>2. life'[e] = "starting"
      BY <1>2, <2>1, <3>1
    <3>3. QED
      BY <1>2, <2>1, <2>3, <3>1, <3>2 DEF Lives
  <2>4. QED
    BY <2>2, <2>3
<1>5. QED
  BY <1>2, <1>3, <1>4 DEF Given

LEMMA GivenTyped ==
  ASSUME Typed, NEW j \in Jobs, NEW e \in Execs, Given(j, e), life'[e] \in Lives
  PROVE  /\ CommandType'
         /\ wk' \in [Jobs -> Places] /\ awaits' \in [Jobs -> 0..MaxBlocks]
<1>1. CommandType /\ ThreadType /\ e \in 0..MaxExecs
  BY TypeParts, Numbers
<1>2. current' \in 0..MaxExecs /\ at' \in [Jobs -> 0..MaxExecs]
  BY <1>1 DEF Given, CommandType
<1>3. life' \in [Execs -> Lives]
  BY <1>1 DEF Given, CommandType
<1>4. ph' \in [Jobs -> Phases] /\ wk' \in [Jobs -> Places]
  BY <1>1 DEF Given, CommandType, ThreadType, Phases, Places
<1>5. UNCHANGED <<detached, mirror, awaits>>
  BY DEF Given
<1>6. QED
  BY <1>1, <1>2, <1>3, <1>4, <1>5 DEF CommandType, ThreadType

LEMMA TeardownTyped ==
  ASSUME Typed, NEW E \in SUBSET Execs, Teardown(E)
  PROVE  /\ life' \in [Execs -> Lives]
         /\ mirror' \in [Execs -> Flags]
         /\ at' \in [Jobs -> 0..MaxExecs]
         /\ wk' \in [Jobs -> Places] /\ awaits' \in [Jobs -> 0..MaxBlocks]
         /\ gate' \in [Execs -> 0..MaxBlocks]
         /\ blocks' \in [Execs -> SUBSET Blocks]
         /\ aborted' \in [Execs -> BOOLEAN]
         /\ out' \in [Execs -> Seq(Message)]
         /\ Rejected(E) \in [Jobs -> Phases]
<1>0. CommandType /\ ThreadType /\ None \in 0..MaxExecs /\ None \in 0..MaxBlocks
  BY TypeParts, Numbers
<1>1. life' \in [Execs -> Lives] /\ mirror' \in [Execs -> Flags]
  BY <1>0 DEF Teardown, CommandType, Lives, Calm, Flags
<1>2. /\ at' \in [Jobs -> 0..MaxExecs]
      /\ wk' \in [Jobs -> Places] /\ awaits' \in [Jobs -> 0..MaxBlocks]
      /\ Rejected(E) \in [Jobs -> Phases]
  BY <1>0 DEF Teardown, Rejected, CommandType, ThreadType, Places, Phases
<1>3. /\ gate' \in [Execs -> 0..MaxBlocks]
      /\ blocks' \in [Execs -> SUBSET Blocks]
      /\ aborted' \in [Execs -> BOOLEAN]
  BY <1>0 DEF Teardown, ThreadType
<1>4. out' \in [Execs -> Seq(Message)]
  <2>1. <<>> \in Seq(Message)
    OBVIOUS
  <2>2. QED
    BY <1>0, <2>1 DEF Teardown, ThreadType
<1>5. QED
  BY <1>1, <1>2, <1>3, <1>4

\* A message is taken off, or posted.
LEMMA TakenTyped ==
  ASSUME Typed, NEW e \in Execs, out[e] # <<>>
  PROVE  /\ Taken(e) \in [Execs -> Seq(Message)]
         /\ Head(out[e]) \in Message
         /\ Taken(e)[e] = Tail(out[e])
         /\ \A x \in Execs : x # e => Taken(e)[x] = out[x]
<1>1. out \in [Execs -> Seq(Message)]
  BY TypeParts DEF ThreadType
<1>2. Tail(out[e]) \in Seq(Message) /\ Head(out[e]) \in Message
  BY <1>1, TailParts
<1>3. QED
  BY <1>1, <1>2 DEF Taken

LEMMA PostTyped ==
  ASSUME Typed, NEW e \in Execs, NEW m \in Message, Post(e, m)
  PROVE  /\ out' \in [Execs -> Seq(Message)]
         /\ out'[e] = Append(out[e], m)
         /\ \A x \in Execs : x # e => out'[x] = out[x]
<1>1. out \in [Execs -> Seq(Message)]
  BY TypeParts DEF ThreadType
<1>2. Append(out[e], m) \in Seq(Message)
  BY <1>1, AppendParts
<1>3. QED
  BY <1>1, <1>2 DEF Post

LEMMA StateMessages ==
  ASSUME Typed, NEW e \in Execs
  PROVE  /\ State(e) \in Flags
         /\ [k |-> "state", s |-> [aborted |-> aborted[e], blocked |-> TRUE]] \in Message
         /\ [k |-> "state", s |-> [aborted |-> aborted[e], blocked |-> FALSE]] \in Message
         /\ [k |-> "state", s |-> [aborted |-> TRUE, blocked |-> gate[e] # None]] \in Message
<1>1. aborted[e] \in BOOLEAN /\ (gate[e] # None) \in BOOLEAN
  BY TypeParts DEF ThreadType
<1>2. State(e) \in Flags
  BY <1>1 DEF State, Flags
<1>3. QED
  BY <1>1, <1>2, Messages

-----------------------------------------------------------------------------
(* Typing: one step per action.                                            *)

\* Histories.
LEMMA HistoryTyped ==
  ASSUME AlarmType
  PROVE  /\ Overridden \in [Versions -> Fates] /\ Exposed \in [Versions -> Fates]
         /\ \A cond \in BOOLEAN : RaceIf(cond) => raced' \in BOOLEAN /\ fate' \in [Versions -> Fates]
BY DEF AlarmType, Overridden, Exposed, RaceIf, Fates

LEMMA AlarmComes == \A e \in Execs : AlarmComing(e) \in BOOLEAN
BY DEF AlarmComing

\* _fireAlarm takes a free slot for what it was started for.
LEMMA FireParts ==
  ASSUME Typed, NEW t \in Timer, FireAlarm(t)
  PROVE  \E f \in Firings : \E e \in Execs :
           /\ ph[f] = "idle" /\ fire' = [fire EXCEPT ![f] = t]
           /\ Given(f, e) /\ life'[e] \in Lives
           /\ row' = None
           /\ UNCHANGED <<sets, instVars, out, acts, histVars>>
<1>1. PICK f \in Firings : /\ ph[f] = "idle"
                           /\ fire' = [fire EXCEPT ![f] = t]
                           /\ Dispatch(f)
  BY DEF FireAlarm
<1>2. f \in Jobs
  BY DEF Jobs
<1>3. PICK e \in Execs : Given(f, e) /\ life'[e] \in Lives
  BY <1>1, <1>2, DispatchGives
<1>4. row' = None /\ UNCHANGED <<sets, instVars, out, acts, histVars>>
  BY DEF FireAlarm
<1>5. QED
  BY <1>1, <1>3, <1>4

LEMMA FireTyped ==
  ASSUME Typed, NEW t \in Timer, FireAlarm(t), tracked' = {}, stray' \subseteq Timer, ops' \in 0..MaxOps
  PROVE  Typed'
<1>0. AlarmType /\ CommandType /\ ThreadType /\ None \in 0..Manual
  BY TypeParts, Numbers
<1>1. PICK f \in Firings, e \in Execs :
           /\ ph[f] = "idle" /\ fire' = [fire EXCEPT ![f] = t]
           /\ Given(f, e) /\ life'[e] \in Lives
           /\ row' = None
           /\ UNCHANGED <<sets, instVars, out, acts, histVars>>
  BY FireParts
<1>2. CommandType' /\ wk' \in [Jobs -> Places] /\ awaits' \in [Jobs -> 0..MaxBlocks]
  BY <1>1, GivenTyped DEF Jobs
<1>3. AlarmType'
  BY <1>0, <1>1 DEF AlarmType, OneTimer, histVars
<1>4. ThreadType'
  BY <1>0, <1>1, <1>2 DEF ThreadType, instVars
<1>5. QED
  BY <1>2, <1>3, <1>4, TypeParts, PTL

\* An executor is torn down.
LEMMA DropTyped ==
  ASSUME Typed, NEW E \in SUBSET Execs, Teardown(E), ph' \in [Jobs -> Phases], AlarmType',
         current' \in {current, None}, detached' \subseteq Execs,
         acts' = acts, ops' \in 0..MaxOps
  PROVE  Typed'
<1>0. CommandType /\ ThreadType /\ None \in 0..MaxExecs
  BY TypeParts, Numbers
<1>1. CommandType'
  BY <1>0, TeardownTyped DEF CommandType
<1>2. ThreadType'
  BY <1>0, TeardownTyped DEF ThreadType
<1>3. QED
  BY <1>1, <1>2, TypeParts, PTL

LEMMA TimersTyped ==
  ASSUME Typed, TimerFires \/ TriggerAlarm \/ CancelAlarm \/ (\E f \in Firings : AlarmFails(f))
  PROVE  Typed'
<1>0. AlarmType /\ CommandType /\ ThreadType /\ None \in 0..Manual /\ OneTimer
  BY TypeParts, Numbers DEF Typed
<1>1. tracked \subseteq Timer /\ stray \subseteq Timer
  BY <1>0 DEF OneTimer, AlarmType
<1>2. CASE TimerFires
  <2>1. PICK t \in tracked \cup stray : /\ FireAlarm(t) /\ tracked' = {} /\ ops' = ops
                                       /\ stray' \subseteq stray \cup tracked
    BY <1>2 DEF TimerFires
  <2>2. t \in Timer /\ stray' \subseteq Timer /\ ops' \in 0..MaxOps
    BY <1>0, <1>1, <2>1 DEF ThreadType
  <2>3. QED
    BY <2>1, <2>2, FireTyped
<1>3. CASE TriggerAlarm
  <2> DEFINE v == IF tracked # {} THEN (CHOOSE t \in tracked : TRUE).v
                  ELSE IF row # None THEN row ELSE Manual
  <2>1. v \in 0..Manual
    <3>1. CASE tracked # {}
      <4>1. (CHOOSE t \in tracked : TRUE) \in Timer
        BY <1>1, <3>1
      <4>2. QED
        BY <3>1, <4>1 DEF Timer
    <3>2. CASE tracked = {}
      BY <1>0, <3>2, Numbers DEF AlarmType
    <3>3. QED
      BY <3>1, <3>2
  <2>2. [v |-> v, n |-> 0] \in Timer
    BY <2>1, Numbers DEF Timer
  <2>3. FireAlarm([v |-> v, n |-> 0]) /\ tracked' = {} /\ stray' = stray /\ ops' = ops + 1 /\ ops < MaxOps
    BY <1>3 DEF TriggerAlarm
  <2>4. ops' \in 0..MaxOps
    BY <1>0, <2>3, Numbers DEF ThreadType
  <2> HIDE DEF v
  <2>5. QED
    BY <1>1, <2>2, <2>3, <2>4, FireTyped
<1>4. CASE CancelAlarm
  <2>1. ops' \in 0..MaxOps
    BY <1>0, <1>4, Numbers DEF ThreadType, CancelAlarm
  <2>2. AlarmType'
    BY <1>0, <1>4, HistoryTyped DEF AlarmType, CancelAlarm, OneTimer
  <2>3. CommandType' /\ ThreadType'
    BY <1>0, <1>4, <2>1 DEF CommandType, ThreadType, CancelAlarm, execVars, jobVars, instVars
  <2>4. QED
    BY <2>2, <2>3, TypeParts, PTL
<1>5. ASSUME NEW f \in Firings, AlarmFails(f) PROVE Typed'
  <2>1. f \in Jobs /\ fire[f] \in Timer
    BY <1>0 DEF Jobs, AlarmType
  <2>2. fire[f].v \in 0..Manual /\ fire[f].n \in 0..MaxAlarmRetries
    BY <2>1 DEF Timer
  <2>3. NoTimer \in Timer
    BY Numbers DEF NoTimer, Timer
  <2>4. ph' \in [Jobs -> Phases]
    BY <1>0, <1>5, <2>1 DEF AlarmFails, CommandType, Phases
  <2>5. fire' \in [Firings -> Timer]
    BY <1>0, <1>5, <2>3 DEF AlarmFails, AlarmType
  <2>6. /\ row' \in 0..Manual /\ OneTimer' /\ stray' \subseteq Timer /\ writer' \in 0..MaxExecs
        /\ fate' \in [Versions -> Fates]
    <3>1. CASE fire[f].n < MaxAlarmRetries
      <4>1. [v |-> fire[f].v, n |-> fire[f].n + 1] \in Timer
        BY <2>2, <3>1, Numbers DEF Timer
      <4>2. QED
        BY <1>0, <1>1, <1>5, <2>2, <3>1, <4>1, Numbers DEF AlarmFails, AlarmType, OneTimer
    <3>2. CASE ~(fire[f].n < MaxAlarmRetries)
      BY <1>0, <1>5, <3>2 DEF AlarmFails, AlarmType, OneTimer, Fates
    <3>3. QED
      BY <3>1, <3>2
  <2>7. AlarmType'
    BY <1>0, <1>5, <2>5, <2>6 DEF AlarmFails, AlarmType
  <2>8. CommandType' /\ ThreadType'
    BY <1>0, <1>5, <2>4 DEF CommandType, ThreadType, AlarmFails, execVars, instVars
  <2>9. QED
    BY <2>7, <2>8, TypeParts, PTL
<1>6. QED
  BY <1>2, <1>3, <1>4, <1>5

LEMMA DropsTyped ==
  ASSUME Typed,
         \/ DeleteInstance \/ SetExternalClass \/ EvictIdle \/ Exit
         \/ \E e \in Execs : PollIdle(e) \/ PollExpires(e) \/ OnError(e)
  PROVE  Typed'
<1>0. AlarmType /\ CommandType /\ ThreadType /\ None \in 0..Manual /\ None \in 0..MaxExecs
  BY TypeParts, Numbers
<1>1. Current \in SUBSET Execs
  BY <1>0, Numbers DEF Current, CommandType
<1>2. ops < MaxOps => ops + 1 \in 0..MaxOps
  BY <1>0, Numbers DEF ThreadType
<1>3. row # None => [v |-> row, n |-> 0] \in Timer
  BY <1>0, Numbers DEF AlarmType, Timer
<1>4. CASE DeleteInstance
  <2>1. AlarmType'
    <3>1. raced' \in BOOLEAN
      BY <1>4 DEF DeleteInstance
    <3>2. QED
      BY <1>0, <1>4, <3>1, HistoryTyped DEF DeleteInstance, AlarmType, OneTimer
  <2>2. Teardown(Current) /\ ph' = Rejected(Current) /\ current' = None /\ detached' = detached
        /\ acts' = acts /\ ops' \in 0..MaxOps
    BY <1>2, <1>4 DEF DeleteInstance
  <2>3. ph' \in [Jobs -> Phases]
    BY <1>1, <2>2, TeardownTyped
  <2>4. QED
    BY <1>0, <1>1, <2>1, <2>2, <2>3, DropTyped DEF CommandType
<1>5. CASE SetExternalClass
  <2> DEFINE busy == {e \in Current : IsActive(e)}
  <2>1. AlarmType'
    <3>1. OneTimer'
      BY <1>0, <1>3, <1>5 DEF SetExternalClass, RestoreAlarms, ScheduleAlarmTimer, AlarmType, OneTimer
    <3>2. QED
      BY <1>0, <1>5, <3>1 DEF SetExternalClass, AlarmType
  <2>2. /\ Teardown(Current \ busy) /\ ph' = Rejected(Current \ busy)
        /\ current' = None /\ detached' = detached \cup busy
        /\ acts' = acts /\ ops' \in 0..MaxOps
    BY <1>2, <1>5 DEF SetExternalClass
  <2>3. Current \ busy \in SUBSET Execs /\ busy \subseteq Execs
    BY <1>1
  <2> HIDE DEF busy
  <2>4. ph' \in [Jobs -> Phases]
    BY <2>2, <2>3, TeardownTyped
  <2>5. QED
    BY <1>0, <2>1, <2>2, <2>3, <2>4, DropTyped DEF CommandType
<1>6. CASE EvictIdle
  <2>1. AlarmType'
    <3>1. AlarmComing(current) \in BOOLEAN
      BY DEF AlarmComing
    <3>2. raced' \in BOOLEAN /\ fate' \in [Versions -> Fates]
      BY <1>0, <1>6, <3>1, HistoryTyped DEF EvictIdle
    <3>3. QED
      BY <1>0, <1>6, <3>2 DEF EvictIdle, AlarmType, OneTimer, alarmVars
  <2>2. Teardown(Current) /\ ph' = Rejected(Current) /\ current' = None /\ detached' = detached
        /\ acts' = acts /\ ops' = ops
    BY <1>6 DEF EvictIdle
  <2>3. ph' \in [Jobs -> Phases]
    BY <1>1, <2>2, TeardownTyped
  <2>4. QED
    BY <1>0, <1>1, <2>1, <2>2, <2>3, DropTyped DEF CommandType, ThreadType
<1>7. CASE Exit
  <2>1. AlarmType'
    <3>1. NoTimer \in Timer
      BY Numbers DEF NoTimer, Timer
    <3>2. OneTimer' /\ stray' \subseteq Timer
      BY <1>3, <1>7 DEF Exit, OneTimer
    <3>3. fate' \in [Versions -> Fates]
      BY <1>0, <1>7 DEF Exit, AlarmType, Exposed, Fates
    <3>4. QED
      BY <1>0, <1>7, <3>1, <3>2, <3>3 DEF Exit, AlarmType
  <2>2. Teardown(Execs) /\ current' = None /\ detached' = {} /\ acts' = acts /\ ops' \in 0..MaxOps
    BY <1>2, <1>7 DEF Exit
  <2>3. Rejected(Execs) \in [Jobs -> Phases]
    BY <2>2, TeardownTyped
  <2>4. ph' \in [Jobs -> Phases]
    BY <1>7, <2>3 DEF Exit, Phases
  <2>5. QED
    BY <2>1, <2>2, <2>4, DropTyped
<1>8. ASSUME NEW e \in Execs, PollIdle(e) \/ PollExpires(e) \/ OnError(e) PROVE Typed'
  <2>1. AlarmType'
    <3>1. raced' \in BOOLEAN /\ fate' \in [Versions -> Fates]
      BY <1>0, <1>8, HistoryTyped, AlarmComes DEF PollIdle, PollExpires, OnError
    <3>2. QED
      BY <1>0, <1>8, <3>1 DEF PollIdle, PollExpires, OnError, AlarmType, OneTimer, alarmVars
  <2>2. Teardown({e}) /\ ph' = Rejected({e}) /\ current' = current /\ detached' \subseteq detached
        /\ acts' = acts /\ ops' = ops
    BY <1>8 DEF PollIdle, PollExpires, OnError
  <2>3. {e} \in SUBSET Execs
    OBVIOUS
  <2>4. ph' \in [Jobs -> Phases]
    BY <2>2, <2>3, TeardownTyped
  <2>5. QED
    BY <1>0, <2>1, <2>2, <2>3, <2>4, DropTyped DEF CommandType, ThreadType
<1>9. QED
  BY <1>4, <1>5, <1>6, <1>7, <1>8

LEMMA ReceiveTyped ==
  ASSUME Typed, NEW e \in Execs, OnReady(e) \/ OnResult(e) \/ OnAlarmSet(e) \/ OnState(e)
  PROVE  Typed'
<1> DEFINE m == Head(out[e])
<1>0. AlarmType /\ CommandType /\ ThreadType
  BY TypeParts
<1>1. out[e] # <<>> /\ out' = Taken(e)
  BY DEF OnReady, OnResult, OnAlarmSet, OnState, Arrives
<1>2. out' \in [Execs -> Seq(Message)] /\ m \in Message
  BY <1>1, TakenTyped
<1>3. e \in 0..MaxExecs /\ None \in 0..MaxExecs
  BY Numbers
<1>4. CASE OnReady(e)
  <2>1. life' \in [Execs -> Lives]
    BY <1>0, <1>4 DEF OnReady, CommandType, Lives
  <2>2. ph' \in [Jobs -> Phases] /\ wk' \in [Jobs -> Places]
    BY <1>0, <1>4 DEF OnReady, CommandType, ThreadType, Phases, Places
  <2>3. AlarmType'
    BY <1>0, <1>4 DEF OnReady, AlarmType, OneTimer, alarmVars, histVars
  <2>4. CommandType' /\ ThreadType'
    BY <1>0, <1>2, <1>4, <2>1, <2>2 DEF OnReady, CommandType, ThreadType, instVars
  <2>5. QED
    BY <2>3, <2>4, TypeParts, PTL
<1>5. CASE OnResult(e)
  <2>1. m.j \in Jobs /\ m.res \in Results /\ m.s \in Flags
    BY <1>2, <1>5, MessageParts DEF OnResult, Arrives
  <2>2. ph' \in [Jobs -> Phases] /\ at' \in [Jobs -> 0..MaxExecs] /\ mirror' \in [Execs -> Flags]
    <3>1. Results \subseteq Phases /\ "idle" \in Phases
      BY DEF Results, Phases
    <3>2. QED
      BY <1>0, <1>3, <1>5, <2>1, <3>1 DEF OnResult, CommandType
  <2>3. fire' \in [Firings -> Timer] /\ fate' \in [Versions -> Fates]
    <3>1. NoTimer \in Timer
      BY Numbers DEF NoTimer, Timer
    <3>2. QED
      BY <1>0, <1>5, <3>1 DEF OnResult, AlarmType, Fates
  <2>4. AlarmType'
    BY <1>0, <1>5, <2>3 DEF OnResult, AlarmType, OneTimer
  <2>5. CommandType' /\ ThreadType'
    BY <1>0, <1>2, <1>5, <2>2 DEF OnResult, CommandType, ThreadType, instVars
  <2>6. QED
    BY <2>4, <2>5, TypeParts, PTL
<1>6. CASE OnAlarmSet(e)
  <2>1. m.v \in 0..MaxSets
    BY <1>2, <1>6, MessageParts DEF OnAlarmSet, Arrives
  <2>2. [v |-> m.v, n |-> 0] \in Timer
    BY <2>1, Numbers DEF Timer
  <2>3. OneTimer'
    BY <1>6, <2>2 DEF OnAlarmSet, ScheduleAlarmTimer, OneTimer
  <2>4. raced' \in BOOLEAN /\ fate' \in [Versions -> Fates]
    BY <1>0, <1>6, HistoryTyped DEF OnAlarmSet
  <2>5. AlarmType'
    BY <1>0, <1>6, <2>3, <2>4 DEF OnAlarmSet, AlarmType
  <2>6. CommandType' /\ ThreadType'
    BY <1>0, <1>2, <1>6 DEF OnAlarmSet, CommandType, ThreadType, execVars, jobVars, instVars
  <2>7. QED
    BY <2>5, <2>6, TypeParts, PTL
<1>7. CASE OnState(e)
  <2>1. m.s \in Flags
    BY <1>2, <1>7, MessageParts DEF OnState, Arrives
  <2>2. mirror' \in [Execs -> Flags]
    BY <1>0, <1>7, <2>1 DEF OnState, CommandType
  <2>3. AlarmType'
    BY <1>0, <1>7 DEF OnState, AlarmType, OneTimer, alarmVars, histVars
  <2>4. CommandType' /\ ThreadType'
    BY <1>0, <1>2, <1>7, <2>2 DEF OnState, CommandType, ThreadType, jobVars, instVars
  <2>5. QED
    BY <2>3, <2>4, TypeParts, PTL
<1>8. QED
  BY <1>4, <1>5, <1>6, <1>7

\* Who has a command has a thread, and main counts every command its thread has
\* begun: it is in flight until its result arrives (_sendCommand, isActive).
Counted ==
  \A j \in Jobs :
    /\ at[j] # None => life[at[j]] # "gone"
    /\ wk[j] # "none" => ph[j] = "sent" /\ at[j] # None
    /\ ph[j] = "sent" /\ at[j] # None => life[at[j]] = "ready"

LEMMA AtExec ==
  ASSUME Typed, Counted, NEW j \in Jobs, wk[j] # "none"
  PROVE  at[j] \in Execs
BY TypeParts, Numbers DEF Counted, CommandType

\* What a command does in its thread: it moves on, or it is over and answered.
LEMMA StepParts ==
  ASSUME Typed, Counted, NEW j \in Jobs, Enter(j) \/ Wake(j) \/ Return(j)
  PROVE  /\ wk[j] # "none"
         /\ \/ \E res \in Results : Reply(j, res)
            \/ /\ \E p \in {"gate", "run"} : /\ wk' = [wk EXCEPT ![j] = p]
                                             /\ p = "run" => gate[at[j]] = None
               /\ \E b \in 0..MaxBlocks : awaits' = [awaits EXCEPT ![j] = b]
               /\ UNCHANGED out
         /\ UNCHANGED <<alarmVars, execVars, ph, at, instVars, acts, ops, histVars>>
<1>1. wk[j] # "none"
  BY DEF Enter, Wake, Return
<1>2. at[j] \in Execs /\ gate[at[j]] \in 0..MaxBlocks /\ None \in 0..MaxBlocks
  BY <1>1, AtExec, TypeParts, Numbers DEF ThreadType
<1>3. "failed" \in Results /\ "ok" \in Results
  BY DEF Results
<1>4. CASE PassGate(j)
  BY <1>1, <1>2, <1>3, <1>4 DEF PassGate, Enter, Wake, Return
<1>5. CASE \E res \in Results : Reply(j, res)
  BY <1>1, <1>5 DEF Enter, Wake, Return
<1>6. PassGate(j) \/ \E res \in Results : Reply(j, res)
  BY <1>3 DEF Enter, Wake, Return
<1>7. QED
  BY <1>4, <1>5, <1>6

LEMMA ReplyParts ==
  ASSUME Typed, Counted, NEW j \in Jobs, wk[j] # "none", NEW res \in Results, Reply(j, res)
  PROVE  /\ wk' = [wk EXCEPT ![j] = "none"]
         /\ awaits' = [awaits EXCEPT ![j] = None]
         /\ at[j] \in Execs
         /\ [k |-> "result", j |-> j, res |-> res, s |-> State(at[j])] \in Message
         /\ Post(at[j], [k |-> "result", j |-> j, res |-> res, s |-> State(at[j])])
<1>1. at[j] \in Execs
  BY AtExec
<1>2. [k |-> "result", j |-> j, res |-> res, s |-> State(at[j])] \in Message
  BY <1>1, StateMessages, Messages
<1>3. QED
  BY <1>1, <1>2 DEF Reply

\* What a thread posts to main: a result by the above, or one of these.
Posts(e, m) ==
  \/ life[e] = "starting" /\ Construct(e) /\ m.k \in {"ready", "error"}
  \/ \E j \in Jobs : /\ wk[j] = "run" /\ at[j] = e
                     /\ \/ SetAlarm(j) /\ m = [k |-> "alarm", v |-> sets + 1]
                        \/ DeleteAlarm(j) /\ m = [k |-> "alarm", v |-> None]
                        \/ \E b \in Blocks : Block(j, b) /\ m = [k |-> "state", s |-> [aborted |-> aborted[e], blocked |-> TRUE]]
                        \/ Abort(j) /\ m = [k |-> "state", s |-> [aborted |-> TRUE, blocked |-> gate[e] # None]]
  \/ \E b \in Blocks : Unblock(e, b) /\ m = [k |-> "state", s |-> [aborted |-> aborted[e], blocked |-> FALSE]]
  \/ Crash(e) /\ m = [k |-> "error"]

LEMMA ThreadTyped ==
  ASSUME Typed, Counted,
         \/ \E j \in Jobs : \/ Enter(j) \/ Wake(j) \/ Return(j) \/ SetAlarm(j) \/ DeleteAlarm(j) \/ Abort(j)
                            \/ \E b \in Blocks : Block(j, b)
         \/ \E e \in Execs : Construct(e) \/ Crash(e) \/ \E b \in Blocks : Unblock(e, b)
  PROVE  Typed'
<1>0. AlarmType /\ CommandType /\ ThreadType /\ None \in 0..Manual /\ None \in 0..MaxBlocks /\ Blocks \subseteq 0..MaxBlocks
  BY TypeParts, Numbers
<1>1. ASSUME NEW j \in Jobs, Enter(j) \/ Wake(j) \/ Return(j) PROVE Typed'
  <2>1. UNCHANGED <<alarmVars, execVars, ph, at, instVars, acts, ops, histVars>>
    BY <1>1, StepParts
  <2>2. wk' \in [Jobs -> Places] /\ awaits' \in [Jobs -> 0..MaxBlocks] /\ out' \in [Execs -> Seq(Message)]
    <3>1. CASE \E res \in Results : Reply(j, res)
      <4>1. PICK res \in Results : Reply(j, res)
        BY <3>1
      <4>2. wk[j] # "none"
        BY <1>1, StepParts
      <4>3. out' \in [Execs -> Seq(Message)]
        BY <4>1, <4>2, ReplyParts, PostTyped
      <4>4. QED
        BY <1>0, <4>1, <4>3 DEF Reply, ThreadType, Places
    <3>2. CASE /\ \E p \in {"gate", "run"} : wk' = [wk EXCEPT ![j] = p]
               /\ \E b \in 0..MaxBlocks : awaits' = [awaits EXCEPT ![j] = b]
               /\ UNCHANGED out
      BY <1>0, <3>2 DEF ThreadType, Places
    <3>3. QED
      BY <1>1, <3>1, <3>2, StepParts
  <2>3. AlarmType'
    BY <1>0, <2>1 DEF AlarmType, OneTimer, alarmVars, histVars
  <2>4. CommandType' /\ ThreadType'
    BY <1>0, <2>1, <2>2 DEF CommandType, ThreadType, execVars, instVars
  <2>5. QED
    BY <2>3, <2>4, TypeParts, PTL
<1>2. ASSUME NEW j \in Jobs, SetAlarm(j) PROVE Typed'
  <2>0. at[j] \in Execs /\ at[j] \in 0..MaxExecs
    <3>1. wk[j] # "none"
      BY <1>2 DEF SetAlarm
    <3>2. QED
      BY <3>1, AtExec, Numbers
  <2>1. at[j] \in Execs /\ sets + 1 \in 0..MaxSets /\ sets + 1 \in 0..Manual /\ at[j] \in 0..MaxExecs
    <3>1. sets < MaxSets /\ sets \in 0..MaxSets /\ MaxSets \in Nat /\ 0..MaxSets \subseteq 0..Manual
      BY <1>0, <1>2, Numbers DEF SetAlarm, AlarmType
    <3>2. QED
      BY <2>0, <3>1
  <2>2. out' \in [Execs -> Seq(Message)]
    BY <1>2, <2>1, Messages, PostTyped DEF SetAlarm
  <2>3. fate' \in [Versions -> Fates]
    BY <1>0, <1>2, HistoryTyped DEF SetAlarm, Fates
  <2>4. AlarmType'
    BY <1>0, <1>2, <2>1, <2>3 DEF SetAlarm, AlarmType, OneTimer
  <2>5. CommandType' /\ ThreadType'
    BY <1>0, <1>2, <2>2 DEF SetAlarm, CommandType, ThreadType, execVars, jobVars, instVars
  <2>6. QED
    BY <2>4, <2>5, TypeParts, PTL
<1>3. ASSUME NEW j \in Jobs, DeleteAlarm(j) PROVE Typed'
  <2>0. at[j] \in Execs /\ at[j] \in 0..MaxExecs
    <3>1. wk[j] # "none"
      BY <1>3 DEF DeleteAlarm
    <3>2. QED
      BY <3>1, AtExec, Numbers
  <2>1. at[j] \in Execs /\ None \in 0..MaxSets /\ acts' \in 0..MaxActs /\ at[j] \in 0..MaxExecs
    <3>1. acts < MaxActs /\ acts' = acts + 1 /\ acts \in 0..MaxActs /\ MaxActs \in Nat /\ MaxSets \in Nat
      BY <1>0, <1>3, Numbers DEF DeleteAlarm, ThreadType
    <3>2. QED
      BY <2>0, <3>1 DEF None
  <2>2. out' \in [Execs -> Seq(Message)]
    BY <1>3, <2>1, Messages, PostTyped DEF DeleteAlarm
  <2>3. AlarmType'
    BY <1>0, <1>3, <2>1, HistoryTyped DEF DeleteAlarm, AlarmType, OneTimer
  <2>4. CommandType' /\ ThreadType'
    BY <1>0, <1>3, <2>1, <2>2 DEF DeleteAlarm, CommandType, ThreadType, execVars, jobVars, instVars
  <2>5. QED
    BY <2>3, <2>4, TypeParts, PTL
<1>4. ASSUME NEW j \in Jobs, Abort(j) \/ \E b \in Blocks : Block(j, b) PROVE Typed'
  <2>1. at[j] \in Execs /\ acts' \in 0..MaxActs
    BY <1>0, <1>4, AtExec, Numbers DEF Abort, Block, ThreadType
  <2>2. out' \in [Execs -> Seq(Message)]
    BY <1>4, <2>1, StateMessages, PostTyped DEF Abort, Block
  <2>3. gate' \in [Execs -> 0..MaxBlocks] /\ blocks' \in [Execs -> SUBSET Blocks] /\ aborted' \in [Execs -> BOOLEAN]
    <3>1. CASE Abort(j)
      BY <1>0, <3>1 DEF Abort, ThreadType
    <3>2. ASSUME NEW b \in Blocks, Block(j, b)
          PROVE  gate' \in [Execs -> 0..MaxBlocks] /\ blocks' \in [Execs -> SUBSET Blocks] /\ aborted' = aborted
      <4>1. b \in 0..MaxBlocks
        BY <1>0
      <4>2. gate' = [gate EXCEPT ![at[j]] = b] /\ aborted' = aborted
        BY <3>2 DEF Block
      <4>3. blocks' = [blocks EXCEPT ![at[j]] = @ \cup {b}]
        BY <3>2 DEF Block
      <4>4. blocks' \in [Execs -> SUBSET Blocks]
        BY <1>0, <2>1, <4>3 DEF ThreadType
      <4>5. QED
        BY <1>0, <4>1, <4>2, <4>4 DEF ThreadType
    <3>3. QED
      BY <1>0, <1>4, <3>1, <3>2 DEF ThreadType
  <2>4. AlarmType'
    BY <1>0, <1>4 DEF Abort, Block, AlarmType, OneTimer, alarmVars, histVars
  <2>5. CommandType' /\ ThreadType'
    BY <1>0, <1>4, <2>1, <2>2, <2>3 DEF Abort, Block, CommandType, ThreadType, execVars, jobVars
  <2>6. QED
    BY <2>4, <2>5, TypeParts, PTL
<1>5. ASSUME NEW e \in Execs, Construct(e) PROVE Typed'
  <2>1. out' \in [Execs -> Seq(Message)]
    <3>1. [k |-> "ready"] \in Message /\ [k |-> "error"] \in Message
          /\ [k |-> "state", s |-> [aborted |-> FALSE, blocked |-> TRUE]] \in Message
      BY Messages
    <3>2. <<[k |-> "state", s |-> [aborted |-> FALSE, blocked |-> TRUE]], [k |-> "ready"]>> \in Seq(Message)
      BY <3>1
    <3>3. QED
      BY <1>0, <1>5, <3>1, <3>2, PostTyped DEF Construct, ThreadType
  <2>2. /\ life' \in [Execs -> Lives] /\ gate' \in [Execs -> 0..MaxBlocks]
        /\ blocks' \in [Execs -> SUBSET Blocks] /\ aborted' \in [Execs -> BOOLEAN]
    <3>1. Blocks # {} => 1 \in Blocks /\ 1 \in 0..MaxBlocks
      BY Numbers DEF Blocks
    <3>2. life' = [life EXCEPT ![e] = "built"]
      BY <1>5 DEF Construct
    <3>3. life' \in [Execs -> Lives]
      BY <1>0, <3>2 DEF CommandType, Lives
    <3>4. /\ aborted' = aborted
          /\ \/ gate' = gate /\ blocks' = blocks
             \/ Blocks # {} /\ gate' = [gate EXCEPT ![e] = 1] /\ blocks' = [blocks EXCEPT ![e] = {1}]
      BY <1>5 DEF Construct, instVars
    <3>5. gate' \in [Execs -> 0..MaxBlocks]
      BY <1>0, <3>1, <3>4 DEF ThreadType
    <3>6. blocks' \in [Execs -> SUBSET Blocks]
      <4>1. blocks \in [Execs -> SUBSET Blocks]
        BY <1>0 DEF ThreadType
      <4>2. Blocks # {} => {1} \in SUBSET Blocks
        BY <3>1
      <4>3. CASE Blocks # {} /\ blocks' = [blocks EXCEPT ![e] = {1}]
        BY <4>1, <4>2, <4>3
      <4>4. QED
        BY <3>4, <4>1, <4>3
    <3>7. QED
      BY <1>0, <3>3, <3>4, <3>5, <3>6 DEF ThreadType
  <2>3. AlarmType'
    BY <1>0, <1>5 DEF Construct, AlarmType, OneTimer, alarmVars, histVars
  <2>4. CommandType' /\ ThreadType'
    BY <1>0, <1>5, <2>1, <2>2 DEF Construct, CommandType, ThreadType, jobVars
  <2>5. QED
    BY <2>3, <2>4, TypeParts, PTL
<1>6. ASSUME NEW e \in Execs, Crash(e) PROVE Typed'
  <2>1. out' \in [Execs -> Seq(Message)] /\ ops' \in 0..MaxOps
    BY <1>0, <1>6, Messages, PostTyped, Numbers DEF Crash, ThreadType
  <2>2. AlarmType'
    BY <1>0, <1>6 DEF Crash, AlarmType, OneTimer, alarmVars, histVars
  <2>3. CommandType' /\ ThreadType'
    BY <1>0, <1>6, <2>1 DEF Crash, CommandType, ThreadType, execVars, jobVars, instVars
  <2>4. QED
    BY <2>2, <2>3, TypeParts, PTL
<1>7. ASSUME NEW e \in Execs, NEW b \in Blocks, Unblock(e, b) PROVE Typed'
  <2>1. out' \in [Execs -> Seq(Message)]
    BY <1>7, StateMessages, PostTyped DEF Unblock
  <2>2. /\ gate' \in [Execs -> 0..MaxBlocks] /\ blocks' \in [Execs -> SUBSET Blocks]
        /\ awaits' \in [Jobs -> 0..MaxBlocks]
    BY <1>0, <1>7 DEF Unblock, ThreadType
  <2>3. AlarmType'
    BY <1>0, <1>7 DEF Unblock, AlarmType, OneTimer, alarmVars, histVars
  <2>4. CommandType' /\ ThreadType'
    BY <1>0, <1>7, <2>1, <2>2 DEF Unblock, CommandType, ThreadType, execVars
  <2>5. QED
    BY <2>3, <2>4, TypeParts, PTL
<1>8. QED
  BY <1>1, <1>2, <1>3, <1>4, <1>5, <1>6, <1>7

LEMMA InitTyped == Init => Typed
<1> SUFFICES ASSUME Init PROVE Typed
  OBVIOUS
<1> USE DEF Init
<1>1. AlarmType
  <2>1. NoTimer \in Timer
    BY Numbers DEF NoTimer, Timer
  <2>2. row \in 0..Manual /\ sets \in 0..MaxSets /\ writer \in 0..MaxExecs
    BY Numbers DEF None
  <2>3. stray \subseteq Timer /\ OneTimer /\ raced \in BOOLEAN
    BY DEF OneTimer
  <2>4. fire \in [Firings -> Timer] /\ fate \in [Versions -> Fates]
    BY <2>1 DEF Fates
  <2>5. QED
    BY <2>2, <2>3, <2>4 DEF AlarmType
<1>2. CommandType
  BY Numbers DEF CommandType, Lives, Phases, Calm, Flags
<1>3. ThreadType
  <2>1. <<>> \in Seq(Message)
    OBVIOUS
  <2>2. out \in [Execs -> Seq(Message)]
    BY <2>1
  <2>3. acts \in 0..MaxActs /\ ops \in 0..MaxOps
    BY Numbers
  <2>4. QED
    BY <2>2, <2>3, Numbers DEF ThreadType, Places
<1>4. QED
  BY <1>1, <1>2, <1>3, TypeParts

-----------------------------------------------------------------------------
(* Commands and their answers.                                             *)

\* Of the messages that follow the i-th one of a channel s, one is of these kinds.
Behind(s, i, kinds) == \E l \in DOMAIN s : l > i /\ s[l].k \in kinds

\* A command is being handled in the thread e.
Working(e) == \E j \in Jobs : wk[j] # "none" /\ at[j] = e

\* A thread says once that it is ready, and answers a command once, when it is over.
ReadyOnce(s, l) ==
  \A i \in DOMAIN s : s[i].k = "ready" =>
    l = "built" /\ \A n \in DOMAIN s : s[n].k = "ready" => n = i
Answers(s, e) ==
  \A i \in DOMAIN s : s[i].k = "result" =>
    /\ ph[s[i].j] = "sent" /\ at[s[i].j] = e /\ wk[s[i].j] = "none"
    /\ \A n \in DOMAIN s : s[n].k = "result" /\ s[n].j = s[i].j => n = i

\* An alarm-set message is posted by a command that is not over before it arrives.
Followed(s, working) ==
  \A i \in DOMAIN s : s[i].k = "alarm" => working \/ Behind(s, i, {"result"})

Channel(e) ==
  /\ ReadyOnce(out[e], life[e])
  /\ Answers(out[e], e)
  /\ Followed(out[e], Working(e))

Channels == \A e \in Execs : Channel(e)

CommandInv == Typed /\ Counted /\ Channels

LEMMA BehindTail ==
  ASSUME NEW s \in Seq(Message), s # <<>>, NEW i \in DOMAIN s, i # 1, NEW kinds
  PROVE  Behind(s, i, kinds) <=> Behind(Tail(s), i - 1, kinds)
<1>1. ASSUME NEW l \in DOMAIN s, l > i, s[l].k \in kinds
      PROVE  l - 1 \in DOMAIN Tail(s) /\ l - 1 > i - 1 /\ Tail(s)[l - 1] = s[l]
  <2>1. l # 1 /\ l \in Nat /\ i \in Nat
    BY <1>1, TailParts
  <2>2. QED
    BY <1>1, <2>1, TailParts
<1>2. ASSUME NEW l \in DOMAIN Tail(s), l > i - 1, Tail(s)[l].k \in kinds
      PROVE  l + 1 \in DOMAIN s /\ l + 1 > i /\ s[l + 1] = Tail(s)[l]
  <2>1. l \in Nat /\ i \in Nat
    BY TailParts
  <2>2. QED
    BY <1>2, <2>1, TailParts, SMTT(30)
<1>3. ASSUME Behind(s, i, kinds) PROVE Behind(Tail(s), i - 1, kinds)
  <2>1. PICK l \in DOMAIN s : l > i /\ s[l].k \in kinds
    BY <1>3 DEF Behind
  <2>2. QED
    BY <1>1, <2>1 DEF Behind
<1>4. ASSUME Behind(Tail(s), i - 1, kinds) PROVE Behind(s, i, kinds)
  <2>1. PICK l \in DOMAIN Tail(s) : l > i - 1 /\ Tail(s)[l].k \in kinds
    BY <1>4 DEF Behind
  <2>2. QED
    BY <1>2, <2>1 DEF Behind
<1>5. QED
  BY <1>3, <1>4

LEMMA BehindAppend ==
  ASSUME NEW s \in Seq(Message), NEW m \in Message, NEW i \in DOMAIN s, NEW kinds
  PROVE  Behind(Append(s, m), i, kinds) <=> Behind(s, i, kinds) \/ m.k \in kinds
<1>1. \A l \in DOMAIN Append(s, m) :
        \/ l \in DOMAIN s /\ Append(s, m)[l] = s[l]
        \/ l = Len(s) + 1 /\ Append(s, m)[l] = m
  BY AppendParts
<1>2. \A l \in DOMAIN s : l \in DOMAIN Append(s, m) /\ Append(s, m)[l] = s[l]
  BY AppendParts
<1>3. Len(s) + 1 \in DOMAIN Append(s, m) /\ Append(s, m)[Len(s) + 1] = m /\ Len(s) + 1 > i
  BY AppendParts
<1>4. QED
  BY <1>1, <1>2, <1>3 DEF Behind

\* How the parts of Channels survive a message that is taken, ...
LEMMA ChannelTail ==
  ASSUME NEW s \in Seq(Message), s # <<>>
  PROVE  /\ \A l : ReadyOnce(s, l) => ReadyOnce(Tail(s), l)
         /\ \A w : Followed(s, w) => Followed(Tail(s), w)
<1>1. \A i \in DOMAIN Tail(s) : /\ i + 1 \in DOMAIN s /\ Tail(s)[i] = s[i + 1]
                                /\ i \in Nat /\ i + 1 # 1 /\ (i + 1) - 1 = i
  BY TailParts
<1>2. ASSUME NEW l, ReadyOnce(s, l) PROVE ReadyOnce(Tail(s), l)
  <2>1. SUFFICES ASSUME NEW i \in DOMAIN Tail(s), Tail(s)[i].k = "ready"
                 PROVE  l = "built" /\ \A n \in DOMAIN Tail(s) : Tail(s)[n].k = "ready" => n = i
    BY DEF ReadyOnce
  <2>2. l = "built" /\ \A n \in DOMAIN s : s[n].k = "ready" => n = i + 1
    BY <1>1, <1>2, <2>1 DEF ReadyOnce
  <2>3. ASSUME NEW n \in DOMAIN Tail(s), Tail(s)[n].k = "ready" PROVE n = i
    <3>1. n + 1 = i + 1 /\ n \in Nat /\ i \in Nat
      BY <1>1, <2>1, <2>2, <2>3
    <3>2. QED
      BY <3>1
  <2>4. QED
    BY <2>2, <2>3
<1>3. ASSUME NEW w, Followed(s, w) PROVE Followed(Tail(s), w)
  <2>1. SUFFICES ASSUME NEW i \in DOMAIN Tail(s), Tail(s)[i].k = "alarm", ~w
                 PROVE  Behind(Tail(s), i, {"result"})
    BY DEF Followed
  <2>2. Behind(s, i + 1, {"result"})
    BY <1>1, <1>3, <2>1 DEF Followed
  <2>3. Behind(Tail(s), (i + 1) - 1, {"result"})
    BY <1>1, <2>2, BehindTail
  <2>4. QED
    BY <1>1, <2>3
<1>4. QED
  BY <1>2, <1>3

\* ... and one that is posted.
LEMMA ChannelAppend ==
  ASSUME NEW s \in Seq(Message), NEW m \in Message
  PROVE  /\ \A l : ReadyOnce(s, l) /\ m.k # "ready" => ReadyOnce(Append(s, m), l)
         /\ \A w : Followed(s, w) /\ m.k # "alarm" => Followed(Append(s, m), w)
         /\ \A w : m.k = "result" => Followed(Append(s, m), w)
<1>1. \A l \in DOMAIN Append(s, m) :
        \/ l \in DOMAIN s /\ Append(s, m)[l] = s[l]
        \/ l = Len(s) + 1 /\ Append(s, m)[l] = m
  BY AppendParts
<1>2. \A l : ReadyOnce(s, l) /\ m.k # "ready" => ReadyOnce(Append(s, m), l)
  BY <1>1 DEF ReadyOnce
<1>3. ASSUME NEW w, Followed(s, w), m.k # "alarm" PROVE Followed(Append(s, m), w)
  <2>1. SUFFICES ASSUME NEW i \in DOMAIN Append(s, m), Append(s, m)[i].k = "alarm", ~w
                 PROVE  Behind(Append(s, m), i, {"result"})
    BY DEF Followed
  <2>2. i \in DOMAIN s /\ s[i].k = "alarm"
    BY <1>1, <1>3, <2>1
  <2>3. Behind(s, i, {"result"})
    BY <1>3, <2>1, <2>2 DEF Followed
  <2>4. QED
    BY <2>2, <2>3, BehindAppend
<1>4. ASSUME NEW w, m.k = "result" PROVE Followed(Append(s, m), w)
  <2>1. SUFFICES ASSUME NEW i \in DOMAIN Append(s, m), Append(s, m)[i].k = "alarm"
                 PROVE  Behind(Append(s, m), i, {"result"})
    BY DEF Followed
  <2>2. i \in DOMAIN s
    BY <1>1, <1>4, <2>1
  <2>3. QED
    BY <1>4, <2>2, BehindAppend
<1>5. QED
  BY <1>2, <1>3, <1>4

\* A command is given to an executor.
LEMMA GivenCommands ==
  ASSUME CommandInv, NEW j \in Jobs, NEW e \in Execs, Given(j, e), ph[j] = "idle", UNCHANGED out
  PROVE  Counted' /\ Channels'
<1>0. /\ ph \in [Jobs -> Phases] /\ at \in [Jobs -> 0..MaxExecs] /\ wk \in [Jobs -> Places]
      /\ life \in [Execs -> Lives] /\ out \in [Execs -> Seq(Message)]
  BY TypeParts DEF CommandInv, CommandType, ThreadType
<1>1. /\ \A i \in Jobs : i # j => ph'[i] = ph[i] /\ at'[i] = at[i] /\ wk'[i] = wk[i]
      /\ at'[j] = e
      /\ wk'[j] # "none" => ph'[j] = "sent"
      /\ ph'[j] = "sent" => life[e] = "ready"
  BY <1>0 DEF Given, CommandInv, Counted
<1>2. /\ \A x \in Execs : x # e => life'[x] = life[x]
      /\ life'[e] # "gone"
      /\ life'[e] = life[e] \/ (life[e] = "gone" /\ life'[e] = "starting")
  BY <1>0 DEF Given
<1>3. Counted'
  <2>1. ASSUME NEW i \in Jobs PROVE at'[i] # None => life'[at'[i]] # "gone"
    <3>1. at[i] # None => at[i] \in Execs
      BY <1>0, Numbers
    <3>2. QED
      BY <1>1, <1>2, <3>1 DEF CommandInv, Counted
  <2>2. ASSUME NEW i \in Jobs, wk'[i] # "none" PROVE ph'[i] = "sent" /\ at'[i] # None
    BY <1>1, <2>2, Numbers DEF CommandInv, Counted
  <2>3. ASSUME NEW i \in Jobs, ph'[i] = "sent", at'[i] # None PROVE life'[at'[i]] = "ready"
    <3>1. at[i] # None => at[i] \in Execs
      BY <1>0, Numbers
    <3>2. CASE i = j
      BY <1>1, <1>2, <2>3, <3>2
    <3>3. CASE i # j
      <4>1. life[at[i]] = "ready" /\ at'[i] = at[i] /\ at[i] \in Execs
        BY <1>1, <2>3, <3>1, <3>3 DEF CommandInv, Counted
      <4>2. QED
        BY <1>2, <4>1
    <3>4. QED
      BY <3>2, <3>3
  <2>4. QED
    BY <2>1, <2>2, <2>3 DEF Counted
<1>4. ASSUME NEW x \in Execs
      PROVE  Channel(x)'
  <2>0. out'[x] = out[x] /\ out[x] \in Seq(Message) /\ \A i \in DOMAIN out[x] : out[x][i] \in Message
    BY <1>0
  <2>1. ReadyOnce(out[x], life[x]) /\ Answers(out[x], x) /\ Followed(out[x], Working(x))
    BY DEF CommandInv, Channels, Channel
  <2>2. ReadyOnce(out'[x], life'[x])
    BY <1>2, <2>0, <2>1 DEF ReadyOnce
  <2>3. ASSUME NEW i \in DOMAIN out[x], out[x][i].k = "result"
        PROVE  /\ ph'[out[x][i].j] = "sent" /\ at'[out[x][i].j] = x /\ wk'[out[x][i].j] = "none"
               /\ \A n \in DOMAIN out[x] : out[x][n].k = "result" /\ out[x][n].j = out[x][i].j => n = i
    <3>1. out[x][i].j \in Jobs
      BY <2>0, <2>3, MessageParts
    <3>2. QED
      BY <1>1, <2>1, <2>3, <3>1 DEF Answers
  <2>4. Answers(out[x], x)'
    BY <2>0, <2>3 DEF Answers
  <2>5. Working(x) => Working(x)'
    <3>1. ASSUME NEW i \in Jobs, wk[i] # "none", at[i] = x PROVE wk'[i] # "none" /\ at'[i] = x
      BY <1>1, <3>1 DEF CommandInv, Counted
    <3>2. QED
      BY <3>1 DEF Working
  <2>6. Followed(out'[x], Working(x)')
    BY <2>0, <2>1, <2>5 DEF Followed
  <2>7. QED
    BY <2>2, <2>4, <2>6 DEF Channel
<1>5. QED
  BY <1>3, <1>4 DEF Channels

\* Executors are torn down, and their commands are no longer theirs.
LEMMA DropCommands ==
  ASSUME CommandInv, NEW E \in SUBSET Execs, Teardown(E),
         \A j \in Jobs : at[j] \notin E /\ at[j] # None => ph'[j] = ph[j]
  PROVE  Counted' /\ Channels'
<1>0. /\ at \in [Jobs -> 0..MaxExecs] /\ out \in [Execs -> Seq(Message)] /\ None \notin E
  BY TypeParts, Numbers DEF CommandInv, CommandType, ThreadType
<1>1. \A j \in Jobs : /\ at[j] \in E => at'[j] = None /\ wk'[j] = "none"
                      /\ at[j] \notin E => at'[j] = at[j] /\ wk'[j] = wk[j]
  BY <1>0 DEF Teardown
<1>2. \A e \in Execs : /\ e \in E => out'[e] = <<>>
                       /\ e \notin E => out'[e] = out[e] /\ life'[e] = life[e]
  BY DEF Teardown
<1>3. Counted'
  <2>1. ASSUME NEW i \in Jobs, at'[i] # None PROVE life'[at'[i]] # "gone"
    <3>1. at[i] \notin E /\ at'[i] = at[i] /\ at[i] \in Execs
      BY <1>0, <1>1, <2>1, Numbers
    <3>2. at[i] # None
      BY <3>1, Numbers
    <3>3. life[at[i]] # "gone"
      BY <3>2 DEF CommandInv, Counted
    <3>4. QED
      BY <1>2, <3>1, <3>3
  <2>2. ASSUME NEW i \in Jobs, wk'[i] # "none" PROVE ph'[i] = "sent" /\ at'[i] # None
    BY <1>1, <2>2 DEF CommandInv, Counted
  <2>3. ASSUME NEW i \in Jobs, ph'[i] = "sent", at'[i] # None PROVE life'[at'[i]] = "ready"
    <3>1. at[i] \notin E /\ at'[i] = at[i] /\ at[i] \in Execs
      BY <1>0, <1>1, <2>3, Numbers
    <3>2. ph[i] = "sent"
      BY <2>3, <3>1, Numbers
    <3>3. at[i] # None
      BY <3>1, Numbers
    <3>4. life[at[i]] = "ready"
      BY <3>2, <3>3 DEF CommandInv, Counted
    <3>5. QED
      BY <1>2, <3>1, <3>4
  <2>4. QED
    BY <2>1, <2>2, <2>3 DEF Counted
<1>4. ASSUME NEW x \in Execs
      PROVE  Channel(x)'
  <2>1. CASE x \in E
    <3>1. DOMAIN out'[x] = {}
      BY <1>2, <2>1
    <3>2. QED
      BY <3>1 DEF ReadyOnce, Answers, Followed, Channel
  <2>2. CASE x \notin E
    <3>0. /\ out'[x] = out[x] /\ life'[x] = life[x]
          /\ out[x] \in Seq(Message) /\ \A i \in DOMAIN out[x] : out[x][i] \in Message
      BY <1>0, <1>2, <2>2
    <3>1. ReadyOnce(out[x], life[x]) /\ Answers(out[x], x) /\ Followed(out[x], Working(x))
      BY DEF CommandInv, Channels, Channel
    <3>2. ReadyOnce(out'[x], life'[x])
      BY <3>0, <3>1
    <3>3. ASSUME NEW i \in DOMAIN out[x], out[x][i].k = "result"
          PROVE  /\ ph'[out[x][i].j] = "sent" /\ at'[out[x][i].j] = x /\ wk'[out[x][i].j] = "none"
                 /\ \A n \in DOMAIN out[x] : out[x][n].k = "result" /\ out[x][n].j = out[x][i].j => n = i
      <4>1. out[x][i].j \in Jobs
        BY <3>0, <3>3, MessageParts
      <4>2. x # None
        BY Numbers
      <4>3. QED
        BY <1>1, <2>2, <3>1, <3>3, <4>1, <4>2 DEF Answers
    <3>4. Answers(out[x], x)'
      BY <3>0, <3>3 DEF Answers
    <3>5. Working(x) => Working(x)'
      BY <1>1, <2>2 DEF Working
    <3>6. Followed(out'[x], Working(x)')
      BY <3>0, <3>1, <3>5 DEF Followed
    <3>7. QED
      BY <3>2, <3>4, <3>6 DEF Channel
  <2>3. QED
    BY <2>1, <2>2
<1>5. QED
  BY <1>3, <1>4 DEF Channels

\* A call or an alarm that is over: nothing that its thread knows changes.
LEMMA OverCommands ==
  ASSUME CommandInv, NEW j \in Jobs, NEW p \in Phases \ {"sent"}, ph[j] # "sent",
         ph' = [ph EXCEPT ![j] = p], UNCHANGED at \/ at' = [at EXCEPT ![j] = None],
         UNCHANGED <<life, wk, out>>
  PROVE  Counted' /\ Channels'
<1>0. /\ ph \in [Jobs -> Phases] /\ at \in [Jobs -> 0..MaxExecs]
      /\ out \in [Execs -> Seq(Message)]
  BY TypeParts DEF CommandInv, CommandType, ThreadType
<1>1. /\ \A i \in Jobs : i # j => ph'[i] = ph[i] /\ at'[i] = at[i]
      /\ at'[j] \in {at[j], None} /\ wk[j] = "none" /\ ph'[j] # "sent"
  BY <1>0 DEF CommandInv, Counted
<1>2. Counted'
  BY <1>1 DEF CommandInv, Counted
<1>3. ASSUME NEW x \in Execs
      PROVE  Channel(x)'
  <2>0. out[x] \in Seq(Message) /\ \A i \in DOMAIN out[x] : out[x][i] \in Message
    BY <1>0
  <2>1. ReadyOnce(out[x], life[x]) /\ Answers(out[x], x) /\ Followed(out[x], Working(x))
    BY DEF CommandInv, Channels, Channel
  <2>2. ASSUME NEW i \in DOMAIN out[x], out[x][i].k = "result"
        PROVE  /\ ph'[out[x][i].j] = "sent" /\ at'[out[x][i].j] = x /\ wk[out[x][i].j] = "none"
               /\ \A n \in DOMAIN out[x] : out[x][n].k = "result" /\ out[x][n].j = out[x][i].j => n = i
    <3>1. out[x][i].j \in Jobs
      BY <2>0, <2>2, MessageParts
    <3>2. QED
      BY <1>1, <2>1, <2>2, <3>1 DEF Answers
  <2>3. Answers(out[x], x)'
    BY <2>2 DEF Answers
  <2>4. Working(x) => Working(x)'
    BY <1>1 DEF Working
  <2>5. Followed(out[x], Working(x)')
    BY <2>1, <2>4 DEF Followed
  <2>6. QED
    BY <2>1, <2>3, <2>5 DEF Channel
<1>4. QED
  BY <1>2, <1>3 DEF Channels

\* A message is taken.  Only the answered command and those that waited change.
LEMMA TakenCommands ==
  ASSUME CommandInv, NEW e \in Execs, out[e] # <<>>, out' = Taken(e),
         \A i \in Jobs : wk[i] # "none" => wk'[i] # "none" /\ at'[i] = at[i],
         \A i \in Jobs :
           ph[i] = "sent" /\ wk[i] = "none" /\ ~(Head(out[e]).k = "result" /\ Head(out[e]).j = i) =>
             ph'[i] = "sent" /\ wk'[i] = "none" /\ at'[i] = at[i],
         \A x \in Execs : x # e \/ Head(out[e]).k # "ready" => life'[x] = life[x]
  PROVE  Channels'
<1>0. out \in [Execs -> Seq(Message)] /\ Typed
  BY TypeParts DEF CommandInv, ThreadType
<1>1. ASSUME NEW x \in Execs PROVE Channel(x)'
  <2> DEFINE s == out[x]
  <2>0. s \in Seq(Message) /\ \A i \in DOMAIN s : s[i] \in Message
    BY <1>0
  <2>1. ReadyOnce(s, life[x]) /\ Answers(s, x) /\ Followed(s, Working(x))
    BY DEF CommandInv, Channels, Channel
  <2>2. Working(x) => Working(x)'
    BY DEF Working
  <2>3. CASE x # e
    <3>1. out'[x] = s /\ life'[x] = life[x]
      BY <1>0, <2>3, TakenTyped
    <3>2. ASSUME NEW i \in DOMAIN s, s[i].k = "result"
          PROVE  ph'[s[i].j] = "sent" /\ at'[s[i].j] = x /\ wk'[s[i].j] = "none"
      <4>1. s[i].j \in Jobs
        BY <2>0, <3>2, MessageParts
      <4>2. ph[s[i].j] = "sent" /\ wk[s[i].j] = "none" /\ at[s[i].j] = x
        BY <2>1, <3>2 DEF Answers
      <4>3. ~(Head(out[e]).k = "result" /\ Head(out[e]).j = s[i].j)
        <5>1. SUFFICES ASSUME Head(out[e]).k = "result" PROVE at[Head(out[e]).j] = e
          BY <2>3, <4>2
        <5>2. out[e] \in Seq(Message)
          BY <1>0
        <5>3. 1 \in DOMAIN out[e] /\ Head(out[e]) = out[e][1]
          BY <5>2, TailParts
        <5>4. Answers(out[e], e)
          BY DEF CommandInv, Channels, Channel
        <5>5. QED
          BY <5>1, <5>3, <5>4 DEF Answers
      <4>4. QED
        BY <4>1, <4>2, <4>3
    <3>3. Answers(out[x], x)'
      BY <2>1, <3>1, <3>2 DEF Answers
    <3>4. ReadyOnce(out'[x], life'[x]) /\ Followed(out'[x], Working(x)')
      BY <2>1, <2>2, <3>1 DEF Followed
    <3>5. QED
      BY <3>3, <3>4 DEF Channel
  <2>4. CASE x = e
    <3>1. out'[x] = Tail(s) /\ s # <<>>
      BY <1>0, <2>4, TakenTyped
    <3>2. \A i \in DOMAIN Tail(s) : i + 1 \in DOMAIN s /\ Tail(s)[i] = s[i + 1] /\ i \in Nat /\ i + 1 # 1
      BY <2>0, <3>1, TailParts
    <3>3. ASSUME NEW i \in DOMAIN Tail(s), Tail(s)[i].k = "result"
          PROVE  /\ ph'[Tail(s)[i].j] = "sent" /\ at'[Tail(s)[i].j] = x /\ wk'[Tail(s)[i].j] = "none"
                 /\ \A n \in DOMAIN Tail(s) : Tail(s)[n].k = "result" /\ Tail(s)[n].j = Tail(s)[i].j => n = i
      <4>0. i + 1 \in DOMAIN s /\ s[i + 1].k = "result" /\ Tail(s)[i] = s[i + 1] /\ i \in Nat /\ i + 1 # 1
        BY <3>2, <3>3
      <4>1. s[i + 1].j \in Jobs
        BY <2>0, <4>0, MessageParts
      <4>2. /\ ph[s[i + 1].j] = "sent" /\ wk[s[i + 1].j] = "none" /\ at[s[i + 1].j] = x
            /\ \A n \in DOMAIN s : s[n].k = "result" /\ s[n].j = s[i + 1].j => n = i + 1
        BY <2>1, <4>0 DEF Answers
      <4>3. ~(Head(out[e]).k = "result" /\ Head(out[e]).j = s[i + 1].j)
        <5>1. 1 \in DOMAIN s /\ Head(s) = s[1]
          BY <2>0, <3>1, TailParts
        <5>2. QED
          BY <2>4, <4>0, <4>2, <5>1
      <4>4. ASSUME NEW n \in DOMAIN Tail(s), Tail(s)[n].k = "result", Tail(s)[n].j = Tail(s)[i].j PROVE n = i
        <5>1. n + 1 = i + 1 /\ n \in Nat
          BY <3>2, <4>0, <4>2, <4>4
        <5>2. QED
          BY <4>0, <5>1
      <4>5. QED
        BY <4>0, <4>1, <4>2, <4>3, <4>4
    <3>4. Answers(out[x], x)'
      BY <3>1, <3>3 DEF Answers
    <3>5. Followed(out'[x], Working(x)')
      <4>1. Followed(Tail(s), Working(x))
        BY <2>0, <2>1, <3>1, ChannelTail
      <4>2. QED
        BY <2>2, <3>1, <4>1 DEF Followed
    <3>6. ReadyOnce(out'[x], life'[x])
      <4>1. CASE Head(s).k # "ready"
        <5>1. life'[x] = life[x]
          BY <2>4, <4>1
        <5>2. QED
          BY <2>0, <2>1, <3>1, <5>1, ChannelTail
      <4>2. CASE Head(s).k = "ready"
        <5>1. 1 \in DOMAIN s /\ s[1].k = "ready"
          BY <2>0, <3>1, <4>2, TailParts
        <5>2. \A n \in DOMAIN s : s[n].k = "ready" => n = 1
          BY <2>1, <5>1 DEF ReadyOnce
        <5>3. \A i \in DOMAIN Tail(s) : Tail(s)[i].k # "ready"
          BY <3>2, <5>2
        <5>4. QED
          BY <3>1, <5>3 DEF ReadyOnce
      <4>3. QED
        BY <4>1, <4>2
    <3>7. QED
      BY <3>4, <3>5, <3>6 DEF Channel
  <2>5. QED
    BY <2>3, <2>4
<1>2. QED
  BY <1>1 DEF Channels

\* A message is posted.
LEMMA PostedCommands ==
  ASSUME CommandInv, NEW e \in Execs, NEW m \in Message, Post(e, m), UNCHANGED <<ph, at>>,
         \A i \in Jobs : wk[i] # "none" => wk'[i] # "none" \/ (m.k = "result" /\ at[i] = e),
         \A i \in Jobs : wk[i] = "none" => wk'[i] = "none",
         \/ UNCHANGED life
         \/ life[e] = "starting" /\ life' = [life EXCEPT ![e] = "built"],
         m.k = "ready" => life[e] = "starting" /\ life' = [life EXCEPT ![e] = "built"],
         m.k = "alarm" => Working(e)',
         m.k = "result" => wk[m.j] # "none" /\ wk'[m.j] = "none" /\ at[m.j] = e
  PROVE  Counted' /\ Channels'
<1>0. out \in [Execs -> Seq(Message)] /\ life \in [Execs -> Lives] /\ at \in [Jobs -> 0..MaxExecs] /\ Typed
  BY TypeParts DEF CommandInv, ThreadType, CommandType
<1>1. Counted'
  <2>1. ASSUME NEW i \in Jobs, at'[i] # None PROVE life'[at'[i]] # "gone"
    <3>1. at[i] \in Execs /\ at'[i] = at[i] /\ life[at[i]] # "gone"
      BY <1>0, <2>1, Numbers DEF CommandInv, Counted
    <3>2. QED
      BY <1>0, <3>1
  <2>2. ASSUME NEW i \in Jobs, wk'[i] # "none" PROVE ph'[i] = "sent" /\ at'[i] # None
    BY <2>2 DEF CommandInv, Counted
  <2>3. ASSUME NEW i \in Jobs, ph'[i] = "sent", at'[i] # None PROVE life'[at'[i]] = "ready"
    <3>1. at[i] \in Execs /\ at'[i] = at[i] /\ life[at[i]] = "ready"
      BY <1>0, <2>3, Numbers DEF CommandInv, Counted
    <3>2. QED
      BY <1>0, <3>1
  <2>4. QED
    BY <2>1, <2>2, <2>3 DEF Counted
<1>2. ASSUME NEW x \in Execs PROVE Channel(x)'
  <2> DEFINE s == out[x]
  <2>0. s \in Seq(Message) /\ \A i \in DOMAIN s : s[i] \in Message
    BY <1>0
  <2>1. ReadyOnce(s, life[x]) /\ Answers(s, x) /\ Followed(s, Working(x))
    BY DEF CommandInv, Channels, Channel
  <2>2. CASE x # e
    <3>1. out'[x] = s /\ life'[x] = life[x]
      BY <1>0, <2>2, PostTyped
    <3>2. Working(x) => Working(x)'
      BY <2>2 DEF Working
    <3>3. ASSUME NEW i \in DOMAIN s, s[i].k = "result"
          PROVE  ph'[s[i].j] = "sent" /\ at'[s[i].j] = x /\ wk'[s[i].j] = "none"
      <4>1. s[i].j \in Jobs
        BY <2>0, <3>3, MessageParts
      <4>2. QED
        BY <2>1, <3>3, <4>1 DEF Answers
    <3>4. Answers(out[x], x)'
      BY <2>1, <3>1, <3>3 DEF Answers
    <3>5. ReadyOnce(out'[x], life'[x]) /\ Followed(out'[x], Working(x)')
      BY <2>1, <3>1, <3>2 DEF Followed
    <3>6. QED
      BY <3>4, <3>5 DEF Channel
  <2>3. CASE x = e
    <3> DEFINE t == Append(s, m)
    <3>1. out'[x] = t
      BY <1>0, <2>3, PostTyped
    <3>2. \A l \in DOMAIN t : \/ l \in DOMAIN s /\ t[l] = s[l]
                              \/ l = Len(s) + 1 /\ t[l] = m
      BY <2>0, AppendParts
    <3>3. Followed(t, Working(x)')
      <4>1. CASE m.k = "result"
        BY <2>0, <4>1, ChannelAppend
      <4>2. CASE m.k = "alarm"
        BY <2>3, <4>2 DEF Followed
      <4>3. CASE m.k # "result" /\ m.k # "alarm"
        <5>1. Working(x) => Working(x)'
          BY <4>3 DEF Working
        <5>2. Followed(s, Working(x)')
          BY <2>1, <5>1 DEF Followed
        <5>3. QED
          BY <2>0, <4>3, <5>2, ChannelAppend
      <4>4. QED
        BY <4>1, <4>2, <4>3
    <3>4. ReadyOnce(t, life'[x])
      <4>1. CASE life[e] = "starting" /\ life' = [life EXCEPT ![e] = "built"]
        <5>1. life'[x] = "built" /\ \A i \in DOMAIN s : s[i].k # "ready"
          BY <1>0, <2>1, <2>3, <4>1 DEF ReadyOnce
        <5>2. QED
          BY <3>2, <5>1 DEF ReadyOnce
      <4>2. CASE UNCHANGED life /\ m.k # "ready"
        BY <2>0, <2>1, <4>2, ChannelAppend
      <4>3. QED
        BY <4>1, <4>2
    <3>5. ASSUME NEW i \in DOMAIN s, s[i].k = "result"
          PROVE  /\ ph'[s[i].j] = "sent" /\ at'[s[i].j] = x /\ wk'[s[i].j] = "none"
                 /\ \A n \in DOMAIN s : s[n].k = "result" /\ s[n].j = s[i].j => n = i
                 /\ wk[s[i].j] = "none"
      <4>1. s[i].j \in Jobs
        BY <2>0, <3>5, MessageParts
      <4>2. QED
        BY <2>1, <3>5, <4>1 DEF Answers
    <3>6. m.k = "result" => ph'[m.j] = "sent" /\ at'[m.j] = x /\ wk'[m.j] = "none" /\ wk[m.j] # "none"
      <4>1. SUFFICES ASSUME m.k = "result" PROVE ph[m.j] = "sent"
        BY <2>3
      <4>2. m.j \in Jobs
        BY <4>1, MessageParts
      <4>3. QED
        BY <4>1, <4>2 DEF CommandInv, Counted
    <3>7. ASSUME NEW i \in DOMAIN t, t[i].k = "result"
          PROVE  /\ ph'[t[i].j] = "sent" /\ at'[t[i].j] = x /\ wk'[t[i].j] = "none"
                 /\ \A n \in DOMAIN t : t[n].k = "result" /\ t[n].j = t[i].j => n = i
      <4> HIDE DEF t
      <4>1. CASE i \in DOMAIN s /\ t[i] = s[i]
        <5>1. ASSUME NEW n \in DOMAIN t, t[n].k = "result", t[n].j = t[i].j PROVE n = i
          BY <3>2, <3>5, <3>6, <3>7, <4>1, <5>1
        <5>2. QED
          BY <3>5, <3>7, <4>1, <5>1
      <4>2. CASE i = Len(s) + 1 /\ t[i] = m
        <5>1. ASSUME NEW n \in DOMAIN t, t[n].k = "result", t[n].j = t[i].j PROVE n = i
          BY <3>2, <3>5, <3>6, <3>7, <4>2, <5>1
        <5>2. QED
          BY <3>6, <3>7, <4>2, <5>1
      <4>3. QED
        BY <3>2, <4>1, <4>2
    <3>8. Answers(out[x], x)'
      BY <3>1, <3>7 DEF Answers
    <3>9. QED
      BY <3>1, <3>3, <3>4, <3>8 DEF Channel
  <2>4. QED
    BY <2>2, <2>3
<1>3. QED
  BY <1>1, <1>2 DEF Channels

\* Construct with a gate: the state is posted, and that it is ready.
LEMMA GatedReady ==
  ASSUME CommandInv, NEW e \in Execs, life[e] = "starting", life' = [life EXCEPT ![e] = "built"],
         out' = [out EXCEPT ![e] = <<[k |-> "state", s |-> [aborted |-> FALSE, blocked |-> TRUE]],
                                     [k |-> "ready"]>>],
         UNCHANGED <<ph, at, wk>>
  PROVE  Counted' /\ Channels'
<1> DEFINE a == [k |-> "state", s |-> [aborted |-> FALSE, blocked |-> TRUE]]
           b == [k |-> "ready"]
<1>0. out \in [Execs -> Seq(Message)] /\ life \in [Execs -> Lives] /\ at \in [Jobs -> 0..MaxExecs]
  BY TypeParts DEF CommandInv, ThreadType, CommandType
<1>1. Counted'
  <2>1. ASSUME NEW i \in Jobs, at'[i] # None PROVE life'[at'[i]] # "gone"
    <3>1. at[i] \in Execs /\ at'[i] = at[i] /\ life[at[i]] # "gone"
      BY <1>0, <2>1, Numbers DEF CommandInv, Counted
    <3>2. QED
      BY <1>0, <3>1
  <2>2. ASSUME NEW i \in Jobs, ph'[i] = "sent", at'[i] # None PROVE life'[at'[i]] = "ready"
    <3>1. at[i] \in Execs /\ at'[i] = at[i] /\ life[at[i]] = "ready"
      BY <1>0, <2>2, Numbers DEF CommandInv, Counted
    <3>2. QED
      BY <1>0, <3>1
  <2>3. QED
    BY <2>1, <2>2 DEF CommandInv, Counted
<1>2. ASSUME NEW x \in Execs PROVE Channel(x)'
  <2>1. Channel(x) /\ (Working(x) <=> Working(x)')
    BY DEF CommandInv, Channels, Working
  <2>2. CASE x # e
    <3>1. out'[x] = out[x] /\ life'[x] = life[x]
      BY <1>0, <2>2
    <3>2. QED
      BY <2>1, <3>1 DEF Channel, ReadyOnce, Answers, Followed
  <2>3. CASE x = e
    <3>1. out'[x] = <<a, b>> /\ life'[x] = "built"
      BY <1>0, <2>3
    <3>2. DOMAIN out'[x] = {1, 2} /\ out'[x][1].k = "state" /\ out'[x][2].k = "ready"
      BY <3>1
    <3>3. QED
      BY <3>1, <3>2 DEF Channel, ReadyOnce, Answers, Followed
  <2>4. QED
    BY <2>2, <2>3
<1>3. QED
  BY <1>1, <1>2 DEF Channels

LEMMA FireCommands ==
  ASSUME CommandInv, NEW t \in Timer, FireAlarm(t)
  PROVE  Counted' /\ Channels'
<1>1. PICK f \in Firings, e \in Execs : ph[f] = "idle" /\ Given(f, e) /\ UNCHANGED out
  BY FireParts DEF CommandInv
<1>2. QED
  BY <1>1, GivenCommands DEF Jobs

LEMMA MainCommands ==
  ASSUME CommandInv,
         \/ \E c \in Calls : Call(c) \/ CloseStream(c)
         \/ TimerFires \/ TriggerAlarm \/ CancelAlarm \/ DeleteInstance
         \/ \E f \in Firings : AlarmFails(f)
         \/ SetExternalClass \/ EvictIdle \/ Exit
         \/ \E e \in Execs : PollIdle(e) \/ PollExpires(e) \/ OnError(e)
  PROVE  CommandInv'
<1>0. Typed /\ AlarmType /\ CommandType /\ ThreadType /\ None \in 0..MaxExecs
  BY TypeParts, Numbers DEF CommandInv
<1>1. ASSUME NEW c \in Calls, Call(c) PROVE CommandInv'
  <2>1. c \in Jobs /\ ph[c] = "idle" /\ Dispatch(c) /\ UNCHANGED <<alarmVars, instVars, out, acts, ops, histVars>>
    BY <1>1 DEF Call, Jobs
  <2>2. PICK e \in Execs : Given(c, e) /\ life'[e] \in Lives
    BY <1>0, <2>1, DispatchGives
  <2>3. Counted' /\ Channels'
    BY <2>1, <2>2, GivenCommands
  <2>4. CommandType' /\ wk' \in [Jobs -> Places] /\ awaits' \in [Jobs -> 0..MaxBlocks]
    BY <1>0, <2>1, <2>2, GivenTyped
  <2>5. AlarmType'
    BY <1>0, <2>1 DEF AlarmType, OneTimer, alarmVars, histVars
  <2>6. ThreadType'
    BY <1>0, <2>1, <2>4 DEF ThreadType, instVars
  <2>7. Typed'
    BY <2>4, <2>5, <2>6, TypeParts, PTL
  <2>8. QED
    BY <2>3, <2>7 DEF CommandInv
<1>2. ASSUME NEW c \in Calls, CloseStream(c) PROVE CommandInv'
  <2>1. /\ c \in Jobs /\ ph[c] # "sent" /\ "ok" \in Phases \ {"sent"}
        /\ ph' = [ph EXCEPT ![c] = "ok"] /\ at' = [at EXCEPT ![c] = None]
        /\ UNCHANGED <<alarmVars, execVars, wk, awaits, instVars, out, acts, ops, histVars>>
    BY <1>2 DEF CloseStream, Jobs, Phases
  <2>2. UNCHANGED <<life, wk, out>>
    BY <2>1 DEF execVars
  <2>3. Counted' /\ Channels'
    BY <2>1, <2>2, OverCommands
  <2>4. AlarmType'
    BY <1>0, <2>1 DEF AlarmType, OneTimer, alarmVars, histVars
  <2>5. CommandType' /\ ThreadType'
    BY <1>0, <2>1 DEF CommandType, ThreadType, execVars, instVars
  <2>6. Typed'
    BY <2>4, <2>5, TypeParts, PTL
  <2>7. QED
    BY <2>3, <2>6 DEF CommandInv
<1>3. CASE TimerFires
  <2>1. tracked \subseteq Timer /\ stray \subseteq Timer
    BY <1>0 DEF OneTimer, AlarmType
  <2>2. PICK t \in Timer : FireAlarm(t)
    BY <1>3, <2>1 DEF TimerFires
  <2>3. QED
    BY <1>0, <1>3, <2>2, FireCommands, TimersTyped DEF CommandInv
<1>4. CASE TriggerAlarm
  <2>1. PICK v : FireAlarm([v |-> v, n |-> 0])
    BY <1>4 DEF TriggerAlarm
  <2>2. \E f \in Firings : ph[f] = "idle" /\ Dispatch(f) /\ UNCHANGED out
    BY <2>1 DEF FireAlarm
  <2>3. PICK f \in Firings : ph[f] = "idle" /\ Dispatch(f) /\ UNCHANGED out
    BY <2>2
  <2>4. f \in Jobs
    BY DEF Jobs
  <2>5. PICK e \in Execs : Given(f, e)
    BY <1>0, <2>3, <2>4, DispatchGives
  <2>6. QED
    BY <1>0, <1>4, <2>3, <2>4, <2>5, GivenCommands, TimersTyped DEF CommandInv
<1>5. CASE CancelAlarm
  <2>1. UNCHANGED <<ph, at, wk, life, out>>
    BY <1>5 DEF CancelAlarm, execVars, jobVars
  <2>2. Counted' /\ Channels'
    BY <2>1 DEF CommandInv, Counted, Channels, Channel, ReadyOnce, Answers, Followed, Working
  <2>3. QED
    BY <1>0, <1>5, <2>2, TimersTyped DEF CommandInv
<1>6. ASSUME NEW f \in Firings, AlarmFails(f) PROVE CommandInv'
  <2>1. /\ f \in Jobs /\ ph[f] # "sent" /\ "idle" \in Phases \ {"sent"}
        /\ ph' = [ph EXCEPT ![f] = "idle"] /\ UNCHANGED <<at, life, wk, out>>
    BY <1>6 DEF AlarmFails, Jobs, Phases, execVars
  <2>2. Counted' /\ Channels'
    BY <2>1, OverCommands
  <2>3. QED
    BY <1>0, <1>6, <2>2, TimersTyped DEF CommandInv
<1>7. CASE \/ DeleteInstance \/ SetExternalClass \/ EvictIdle \/ Exit
           \/ \E e \in Execs : PollIdle(e) \/ PollExpires(e) \/ OnError(e)
  <2>1. Current \in SUBSET Execs
    BY <1>0, Numbers DEF Current, CommandType
  <2>2. \E E \in SUBSET Execs :
          /\ Teardown(E)
          /\ \A j \in Jobs : at[j] \notin E /\ at[j] # None => ph'[j] = ph[j]
    <3>1. CASE DeleteInstance \/ EvictIdle
      BY <2>1, <3>1 DEF DeleteInstance, EvictIdle, Rejected
    <3>2. CASE SetExternalClass
      <4> DEFINE E == Current \ {e \in Current : IsActive(e)}
      <4>1. Teardown(E) /\ ph' = Rejected(E)
        BY <3>2 DEF SetExternalClass
      <4>2. E \in SUBSET Execs
        BY <2>1
      <4> HIDE DEF E
      <4>3. QED
        BY <4>1, <4>2 DEF Rejected
    <3>3. CASE Exit
      <4>1. Teardown(Execs)
        BY <3>3 DEF Exit
      <4>2. \A j \in Jobs : at[j] # None => at[j] \in Execs
        BY <1>0, Numbers DEF CommandType
      <4>3. QED
        BY <4>1, <4>2
    <3>4. ASSUME NEW e \in Execs, PollIdle(e) \/ PollExpires(e) \/ OnError(e)
          PROVE  /\ Teardown({e})
                 /\ \A j \in Jobs : at[j] \notin {e} /\ at[j] # None => ph'[j] = ph[j]
      BY <3>4 DEF PollIdle, PollExpires, OnError, Rejected
    <3>5. QED
      BY <1>7, <3>1, <3>2, <3>3, <3>4
  <2>3. Counted' /\ Channels'
    BY <2>2, DropCommands
  <2>4. QED
    BY <1>0, <1>7, <2>3, DropsTyped DEF CommandInv
<1>8. QED
  BY <1>1, <1>2, <1>3, <1>4, <1>5, <1>6, <1>7

LEMMA ReceiveCommands ==
  ASSUME CommandInv, NEW e \in Execs, OnReady(e) \/ OnResult(e) \/ OnAlarmSet(e) \/ OnState(e)
  PROVE  CommandInv'
<1> DEFINE m == Head(out[e])
<1>0. Typed /\ CommandType /\ ThreadType
  BY TypeParts DEF CommandInv
<1>1. out[e] # <<>> /\ out' = Taken(e) /\ life[e] # "gone"
  BY DEF OnReady, OnResult, OnAlarmSet, OnState, Arrives
<1>2. Typed'
  BY <1>0, ReceiveTyped
<1>3. m \in Message /\ 1 \in DOMAIN out[e] /\ m = out[e][1]
  <2>1. out[e] \in Seq(Message)
    BY <1>0 DEF ThreadType
  <2>2. QED
    BY <1>1, <2>1, TailParts
<1>4. CASE OnReady(e)
  <2>1. m.k = "ready" /\ life' = [life EXCEPT ![e] = "ready"] /\ UNCHANGED at
    BY <1>4 DEF OnReady, Arrives
  <2>2. \A j \in Jobs : IF at[j] = e /\ ph[j] = "wait" THEN ph'[j] = "sent" /\ wk'[j] = "posted"
                                                       ELSE ph'[j] = ph[j] /\ wk'[j] = wk[j]
    BY <1>4 DEF OnReady
  <2>3. \A i \in Jobs : wk[i] # "none" => wk'[i] # "none" /\ at'[i] = at[i]
    BY <2>1, <2>2
  <2>4. \A i \in Jobs : ph[i] = "sent" => ph'[i] = "sent" /\ wk'[i] = wk[i] /\ at'[i] = at[i]
    BY <2>1, <2>2
  <2>5. \A x \in Execs : x # e \/ m.k # "ready" => life'[x] = life[x]
    BY <1>0, <2>1 DEF CommandType
  <2>6. Channels'
    BY <1>1, <2>3, <2>4, <2>5, TakenCommands
  <2>7. Counted'
    <3>1. ASSUME NEW j \in Jobs, at'[j] # None PROVE life'[at'[j]] # "gone"
      <4>1. at[j] \in Execs /\ at'[j] = at[j] /\ life[at[j]] # "gone"
        BY <1>0, <2>1, <3>1, Numbers DEF CommandInv, Counted, CommandType
      <4>2. QED
        BY <1>0, <2>1, <4>1 DEF CommandType
    <3>2. ASSUME NEW j \in Jobs, wk'[j] # "none" PROVE ph'[j] = "sent" /\ at'[j] # None
      <4>1. e # None
        BY Numbers
      <4>2. QED
        BY <2>1, <2>2, <3>2, <4>1 DEF CommandInv, Counted
    <3>3. ASSUME NEW j \in Jobs, ph'[j] = "sent", at'[j] # None PROVE life'[at'[j]] = "ready"
      <4>1. at[j] \in Execs /\ at'[j] = at[j]
        BY <1>0, <2>1, <3>3, Numbers DEF CommandType
      <4>2. at[j] # e => life[at[j]] = "ready"
        BY <2>2, <3>3, <4>1 DEF CommandInv, Counted
      <4>3. QED
        BY <1>0, <2>1, <4>1, <4>2 DEF CommandType
    <3>4. QED
      BY <3>1, <3>2, <3>3 DEF Counted
  <2>8. QED
    BY <1>2, <2>6, <2>7 DEF CommandInv
<1>5. CASE OnResult(e)
  <2>1. m.k = "result" /\ m.j \in Jobs
    BY <1>3, <1>5, MessageParts DEF OnResult, Arrives
  <2>2. ph[m.j] = "sent" /\ at[m.j] = e /\ wk[m.j] = "none"
    <3>1. Answers(out[e], e)
      BY DEF CommandInv, Channels, Channel
    <3>2. QED
      BY <1>3, <2>1, <3>1 DEF Answers
  <2>3. /\ UNCHANGED <<wk, life>>
        /\ \A i \in Jobs : i # m.j => ph'[i] = ph[i] /\ at'[i] = at[i]
        /\ at'[m.j] \in {e, None} /\ ph'[m.j] # "sent"
    <3>1. m.res # "sent"
      BY <1>3, <2>1, MessageParts DEF Results
    <3>2. QED
      BY <1>0, <1>5, <2>1, <3>1 DEF OnResult, CommandType
  <2>4. Channels'
    BY <1>1, <2>1, <2>2, <2>3, TakenCommands
  <2>5. Counted'
    BY <1>1, <2>2, <2>3 DEF CommandInv, Counted
  <2>6. QED
    BY <1>2, <2>4, <2>5 DEF CommandInv
<1>6. CASE OnAlarmSet(e) \/ OnState(e)
  <2>1. UNCHANGED <<wk, life, ph, at>>
    BY <1>6 DEF OnAlarmSet, OnState, execVars, jobVars
  <2>2. Channels'
    BY <1>1, <2>1, TakenCommands
  <2>3. Counted'
    BY <2>1 DEF CommandInv, Counted
  <2>4. QED
    BY <1>2, <2>2, <2>3 DEF CommandInv
<1>7. QED
  BY <1>4, <1>5, <1>6

LEMMA ThreadCommands ==
  ASSUME CommandInv,
         \/ \E j \in Jobs : \/ Enter(j) \/ Wake(j) \/ Return(j) \/ SetAlarm(j) \/ DeleteAlarm(j) \/ Abort(j)
                            \/ \E b \in Blocks : Block(j, b)
         \/ \E e \in Execs : Construct(e) \/ Crash(e) \/ \E b \in Blocks : Unblock(e, b)
  PROVE  CommandInv'
<1>0. Typed /\ Counted /\ CommandType /\ ThreadType /\ AlarmType
  BY TypeParts DEF CommandInv
<1>1. Typed'
  BY <1>0, ThreadTyped
<1>2. ASSUME NEW j \in Jobs, Enter(j) \/ Wake(j) \/ Return(j) PROVE Counted' /\ Channels'
  <2>1. wk[j] # "none" /\ UNCHANGED <<ph, at, life>>
    BY <1>0, <1>2, StepParts DEF execVars
  <2>2. CASE \E res \in Results : Reply(j, res)
    <3>1. PICK res \in Results : Reply(j, res)
      BY <2>2
    <3> DEFINE m == [k |-> "result", j |-> j, res |-> res, s |-> State(at[j])]
    <3>2. /\ wk' = [wk EXCEPT ![j] = "none"] /\ at[j] \in Execs
          /\ m \in Message /\ Post(at[j], m)
      BY <1>0, <2>1, <3>1, ReplyParts
    <3>3. m.k = "result" /\ m.j = j
      OBVIOUS
    <3>4. \A i \in Jobs : wk'[i] = IF i = j THEN "none" ELSE wk[i]
      BY <1>0, <3>2 DEF ThreadType
    <3> HIDE DEF m
    <3>5. \A i \in Jobs : wk[i] # "none" => wk'[i] # "none" \/ (m.k = "result" /\ at[i] = at[j])
      BY <3>3, <3>4
    <3>6. QED
      BY <2>1, <3>2, <3>3, <3>4, <3>5, PostedCommands
  <2>3. CASE UNCHANGED out /\ \E p \in {"gate", "run"} : wk' = [wk EXCEPT ![j] = p]
    <3>1. \A i \in Jobs : wk'[i] # "none" <=> wk[i] # "none"
      BY <1>0, <2>1, <2>3 DEF ThreadType
    <3>2. Counted'
      BY <1>0, <2>1, <3>1 DEF Counted
    <3>3. ASSUME NEW x \in Execs PROVE Channel(x)'
      <4>1. Channel(x) /\ (Working(x)' <=> Working(x))
        BY <2>1, <3>1 DEF CommandInv, Channels, Working
      <4>2. \A i \in DOMAIN out[x] : out[x][i] \in Message
        BY <1>0 DEF ThreadType
      <4>3. \A i \in DOMAIN out[x] : out[x][i].k = "result" => out[x][i].j \in Jobs
        BY <4>2, MessageParts
      <4>4. Answers(out[x], x)'
        BY <2>1, <2>3, <3>1, <4>1, <4>3 DEF Answers, Channel
      <4>5. ReadyOnce(out[x], life[x])' /\ Followed(out[x], Working(x))'
        BY <2>1, <2>3, <4>1 DEF Channel, ReadyOnce, Followed, Behind
      <4>6. QED
        BY <4>4, <4>5 DEF Channel
    <3>4. QED
      BY <3>2, <3>3 DEF Channels
  <2>4. QED
    BY <1>0, <1>2, <2>2, <2>3, StepParts
<1>3. ASSUME NEW j \in Jobs, SetAlarm(j) \/ DeleteAlarm(j) \/ Abort(j) \/ \E b \in Blocks : Block(j, b)
      PROVE  Counted' /\ Channels'
  <2>1. wk[j] = "run" /\ UNCHANGED <<ph, at, wk, life>>
    BY <1>3 DEF SetAlarm, DeleteAlarm, Abort, Block, execVars, jobVars
  <2>2. at[j] \in Execs
    BY <1>0, <2>1, AtExec
  <2>3. \E m \in Message : Post(at[j], m) /\ m.k \in {"alarm", "state"}
    <3>1. CASE SetAlarm(j)
      <4>1. sets + 1 \in 0..MaxSets
        <5>1. sets < MaxSets /\ sets \in 0..MaxSets /\ MaxSets \in Nat
          BY <1>0, <3>1, Numbers DEF SetAlarm, AlarmType
        <5>2. QED
          BY <5>1
      <4>2. QED
        BY <3>1, <4>1, Messages DEF SetAlarm
    <3>2. CASE DeleteAlarm(j)
      BY <3>2, Messages, Numbers DEF DeleteAlarm, None
    <3>3. CASE Abort(j) \/ \E b \in Blocks : Block(j, b)
      BY <1>0, <2>2, <3>3, StateMessages DEF Abort, Block
    <3>4. QED
      BY <1>3, <3>1, <3>2, <3>3
  <2>4. PICK m \in Message : Post(at[j], m) /\ m.k \in {"alarm", "state"}
    BY <2>3
  <2>5. Working(at[j])'
    BY <2>1 DEF Working
  <2>6. QED
    BY <2>1, <2>2, <2>4, <2>5, PostedCommands
<1>4. ASSUME NEW e \in Execs, Crash(e) \/ \E b \in Blocks : Unblock(e, b)
      PROVE  Counted' /\ Channels'
  <2>1. UNCHANGED <<ph, at, wk, life>>
    BY <1>4 DEF Crash, Unblock, execVars, jobVars
  <2>2. \E m \in Message : Post(e, m) /\ m.k \in {"error", "state"}
    <3>1. CASE Crash(e)
      BY <3>1, Messages DEF Crash
    <3>2. ASSUME NEW b \in Blocks, Unblock(e, b)
          PROVE  \E m \in Message : Post(e, m) /\ m.k \in {"error", "state"}
      <4>1. Post(e, [k |-> "state", s |-> [aborted |-> aborted[e], blocked |-> FALSE]])
        BY <3>2 DEF Unblock
      <4>2. [k |-> "state", s |-> [aborted |-> aborted[e], blocked |-> FALSE]] \in Message
        BY <1>0, StateMessages
      <4>3. QED
        BY <4>1, <4>2
    <3>3. QED
      BY <1>4, <3>1, <3>2
  <2>3. QED
    BY <2>1, <2>2, PostedCommands
<1>5. ASSUME NEW e \in Execs, Construct(e) PROVE Counted' /\ Channels'
  <2>1. life[e] = "starting" /\ life' = [life EXCEPT ![e] = "built"] /\ UNCHANGED <<ph, at, wk>>
    BY <1>5 DEF Construct, jobVars
  <2>2. CASE Post(e, [k |-> "ready"]) \/ Post(e, [k |-> "error"])
    <3>1. \E m \in Message : Post(e, m) /\ m.k \in {"error", "ready"}
      BY <2>2, Messages
    <3>2. QED
      BY <2>1, <3>1, PostedCommands
  <2>3. CASE out' = [out EXCEPT ![e] = <<[k |-> "state", s |-> [aborted |-> FALSE, blocked |-> TRUE]],
                                         [k |-> "ready"]>>]
    BY <2>1, <2>3, GatedReady
  <2>4. QED
    BY <1>5, <2>2, <2>3 DEF Construct
<1>6. QED
  BY <1>1, <1>2, <1>3, <1>4, <1>5 DEF CommandInv

LEMMA SameCommands == ASSUME CommandInv, UNCHANGED vars PROVE CommandInv'
<1>1. UNCHANGED <<alarmVars, execVars, jobVars, instVars, out, acts, ops, histVars>>
  BY DEF vars
<1>2. Typed'
  <2>1. AlarmType /\ CommandType /\ ThreadType
    BY TypeParts DEF CommandInv
  <2>2. AlarmType'
    BY <1>1, <2>1 DEF AlarmType, OneTimer, alarmVars, histVars
  <2>3. CommandType' /\ ThreadType'
    BY <1>1, <2>1 DEF CommandType, ThreadType, execVars, jobVars, instVars
  <2>4. QED
    BY <2>2, <2>3, TypeParts, PTL
<1>3. UNCHANGED <<ph, at, wk, life, out>>
  BY <1>1 DEF execVars, jobVars
<1>4. Counted' /\ Channels'
  BY <1>3 DEF CommandInv, Counted, Channels, Channel, ReadyOnce, Answers, Followed, Working
<1>5. QED
  BY <1>2, <1>4 DEF CommandInv

\* The three sorts of steps.
MainStep ==
  \/ \E c \in Calls : Call(c) \/ CloseStream(c)
  \/ TimerFires \/ TriggerAlarm \/ CancelAlarm \/ DeleteInstance
  \/ \E f \in Firings : AlarmFails(f)
  \/ SetExternalClass \/ EvictIdle \/ Exit
  \/ \E e \in Execs : PollIdle(e) \/ PollExpires(e) \/ OnError(e)
ReceiveStep(e) == OnReady(e) \/ OnResult(e) \/ OnAlarmSet(e) \/ OnState(e)
ThreadStep ==
  \/ \E j \in Jobs : \/ Enter(j) \/ Wake(j) \/ Return(j) \/ SetAlarm(j) \/ DeleteAlarm(j) \/ Abort(j)
                     \/ \E b \in Blocks : Block(j, b)
  \/ \E e \in Execs : Construct(e) \/ Crash(e) \/ \E b \in Blocks : Unblock(e, b)

LEMMA Steps == Next => MainStep \/ (\E e \in Execs : ReceiveStep(e)) \/ ThreadStep
BY DEF Next, Receive, MainStep, ReceiveStep, ThreadStep

LEMMA NextCommands == ASSUME CommandInv, [Next]_vars PROVE CommandInv'
<1>1. CASE MainStep
  BY <1>1, MainCommands DEF MainStep
<1>2. CASE \E e \in Execs : ReceiveStep(e)
  BY <1>2, ReceiveCommands DEF ReceiveStep
<1>3. CASE ThreadStep
  BY <1>3, ThreadCommands DEF ThreadStep
<1>4. QED
  BY <1>1, <1>2, <1>3, Steps, SameCommands

LEMMA InitCommands == ASSUME Init PROVE CommandInv
<1>1. Counted
  BY DEF Init, Counted
<1>2. Channels
  BY DEF Init, Channels, Channel, ReadyOnce, Answers, Followed
<1>3. QED
  BY <1>1, <1>2, InitTyped DEF CommandInv

LEMMA CommandsAlways == Spec => []CommandInv
BY InitCommands, NextCommands, PTL DEF Spec

\* What every variable holds, and that alarmTimers holds one timer at most
\* (_scheduleAlarmTimer).
THEOREM Typing == Spec => []TypeOK
<1>1. CommandInv => TypeOK
  BY DEF CommandInv, Typed
<1>2. QED
  BY <1>1, CommandsAlways, PTL

-----------------------------------------------------------------------------
(* Alarms.                                                                 *)

\* The last alarm-set message of a channel.
Last(s, i) == s[i].k = "alarm" /\ ~Behind(s, i, {"alarm"})

\* Pending versions.
Pending == {v \in Versions : fate[v] = "pending"}

\* The last alarm-set message of the executor that wrote the row last says what is in
\* the row, unless a timer has fired since, and what alarm is pending.
LatestIn(s, r, P) ==
  (\E i \in DOMAIN s : s[i].k = "alarm") =>
    \E i \in DOMAIN s : /\ Last(s, i)
                        /\ r # None => s[i].v = r
                        /\ \A v \in P : s[i].v = v
Latest == \A e \in Execs : writer = e => LatestIn(out[e], row, Pending)

\* The timer of alarmTimers, if it is of a pending alarm, is the one of the row.
Matched == \A t \in tracked : t.v \in Pending => row \in {t.v, None}

\* AlarmKept in two parts: for the pending alarms and for the row.
HasTimer(v) == \E t \in tracked \cup stray : t.v = v
Coming(v)   == \E e \in Execs : \E i \in DOMAIN out[e] : out[e][i] = [k |-> "alarm", v |-> v]
Handled(v)  == \E f \in Firings : ph[f] # "idle" /\ fire[f].v = v
PendingKept == \A v \in Pending : HasTimer(v) \/ Coming(v) \/ Handled(v)

SomeComing  == \E e \in Execs : \E i \in DOMAIN out[e] : out[e][i].k = "alarm" /\ out[e][i].v # None
RowKept     == row # None /\ ~raced => tracked \cup stray # {} \/ SomeComing

AlarmInv == CommandInv /\ Latest /\ Matched /\ PendingKept /\ RowKept

LEMMA KeptParts == AlarmKept <=> PendingKept /\ RowKept
BY DEF AlarmKept, PendingKept, RowKept, Pending, HasTimer, Coming, Handled, SomeComing

\* How LatestIn survives a message that is taken, ...
LEMMA LatestTail ==
  ASSUME NEW s \in Seq(Message), s # <<>>, NEW r, NEW P, LatestIn(s, r, P)
  PROVE  LatestIn(Tail(s), r, P)
<1>1. \A i \in DOMAIN Tail(s) : i + 1 \in DOMAIN s /\ Tail(s)[i] = s[i + 1] /\ i \in Nat /\ i + 1 # 1
  BY TailParts
<1>2. SUFFICES ASSUME NEW n \in DOMAIN Tail(s), Tail(s)[n].k = "alarm"
               PROVE  \E i \in DOMAIN Tail(s) : /\ Last(Tail(s), i)
                                                /\ r # None => Tail(s)[i].v = r
                                                /\ \A v \in P : Tail(s)[i].v = v
  BY DEF LatestIn
<1>3. PICK i \in DOMAIN s : /\ Last(s, i)
                            /\ r # None => s[i].v = r
                            /\ \A v \in P : s[i].v = v
  BY <1>1, <1>2 DEF LatestIn
<1>4. i # 1
  <2>1. ASSUME i = 1 PROVE Behind(s, i, {"alarm"})
    <3>1. n + 1 \in DOMAIN s /\ n + 1 > 1 /\ s[n + 1].k = "alarm"
      <4>1. n \in Nat /\ n >= 1
        BY TailParts
      <4>2. QED
        BY <1>1, <1>2, <4>1
    <3>2. QED
      BY <2>1, <3>1 DEF Behind
  <2>2. QED
    BY <1>3, <2>1 DEF Last
<1>5. i - 1 \in DOMAIN Tail(s) /\ Tail(s)[i - 1] = s[i]
  BY <1>4, TailParts
<1>6. ~Behind(Tail(s), i - 1, {"alarm"})
  BY <1>3, <1>4, BehindTail DEF Last
<1>7. Last(Tail(s), i - 1)
  BY <1>3, <1>5, <1>6 DEF Last
<1>8. QED
  BY <1>3, <1>5, <1>7

\* ... and one that is posted.
LEMMA LatestAppend ==
  ASSUME NEW s \in Seq(Message), NEW m \in Message, NEW r, NEW P,
         \/ m.k # "alarm" /\ LatestIn(s, r, P)
         \/ m.k = "alarm" /\ (r # None => m.v = r) /\ \A v \in P : m.v = v
  PROVE  LatestIn(Append(s, m), r, P)
<1>1. \A l \in DOMAIN Append(s, m) :
        \/ l \in DOMAIN s /\ Append(s, m)[l] = s[l]
        \/ l = Len(s) + 1 /\ Append(s, m)[l] = m
  BY AppendParts
<1>2. CASE m.k # "alarm"
  <2>1. SUFFICES ASSUME NEW n \in DOMAIN s, s[n].k = "alarm"
                 PROVE  LatestIn(Append(s, m), r, P)
    BY <1>1, <1>2 DEF LatestIn
  <2>2. PICK i \in DOMAIN s : /\ Last(s, i)
                              /\ r # None => s[i].v = r
                              /\ \A v \in P : s[i].v = v
    BY <1>2, <2>1 DEF LatestIn
  <2>3. i \in DOMAIN Append(s, m) /\ Append(s, m)[i] = s[i]
    BY AppendParts
  <2>4. Last(Append(s, m), i)
    BY <1>2, <2>2, <2>3, BehindAppend DEF Last
  <2>5. QED
    BY <2>2, <2>3, <2>4 DEF LatestIn
<1>3. CASE m.k = "alarm"
  <2>1. Len(s) + 1 \in DOMAIN Append(s, m) /\ Append(s, m)[Len(s) + 1] = m
    BY AppendParts
  <2>2. ~Behind(Append(s, m), Len(s) + 1, {"alarm"})
    <3>1. \A l \in DOMAIN Append(s, m) : ~(l > Len(s) + 1)
      <4>1. \A l \in DOMAIN s : l < Len(s) + 1 /\ l \in Nat
        BY AppendParts
      <4>2. Len(s) + 1 \in Nat
        BY AppendParts
      <4>3. QED
        BY <1>1, <4>1, <4>2
    <3>2. QED
      BY <3>1 DEF Behind
  <2>3. QED
    BY <1>3, <2>1, <2>2 DEF LatestIn, Last
<1>4. QED
  BY <1>2, <1>3

\* Whoever has sent an alarm-set message is ready and active.
LEMMA AlarmBusy ==
  ASSUME CommandInv, NEW e \in Execs, NEW i \in DOMAIN out[e], out[e][i].k = "alarm"
  PROVE  IsActive(e) /\ life[e] = "ready"
<1>1. Working(e) \/ Behind(out[e], i, {"result"})
  BY DEF CommandInv, Channels, Channel, Followed
<1>2. \E j \in Jobs : at[j] = e /\ ph[j] = "sent"
  <2>1. CASE Working(e)
    BY <2>1 DEF Working, CommandInv, Counted
  <2>2. CASE Behind(out[e], i, {"result"})
    <3>1. PICK l \in DOMAIN out[e] : out[e][l].k = "result"
      BY <2>2 DEF Behind
    <3>2. out[e][l].j \in Jobs
      <4>1. out[e][l] \in Message
        BY TypeParts DEF CommandInv, ThreadType
      <4>2. QED
        BY <3>1, <4>1, MessageParts
    <3>3. Answers(out[e], e)
      BY DEF CommandInv, Channels, Channel
    <3>4. QED
      BY <3>1, <3>2, <3>3 DEF Answers
  <2>3. QED
    BY <1>1, <2>1, <2>2
<1>3. QED
  BY <1>2, Numbers DEF IsActive, CommandInv, Counted

Silent(s) == \A i \in DOMAIN s : s[i].k # "alarm"

\* The channel of e has lost no alarm-set message, and got none.
SameAlarms(e) ==
  \/ out'[e] = out[e]
  \/ \E m \in Message : m.k # "alarm" /\ out'[e] = Append(out[e], m)
  \/ out[e] # <<>> /\ Head(out[e]).k # "alarm" /\ out'[e] = Tail(out[e])
  \/ Silent(out[e]) /\ Silent(out'[e])

LEMMA SameComing ==
  ASSUME Typed, NEW e \in Execs, SameAlarms(e), NEW i \in DOMAIN out[e], out[e][i].k = "alarm"
  PROVE  \E n \in DOMAIN out'[e] : out'[e][n] = out[e][i]
<1>0. out[e] \in Seq(Message)
  BY TypeParts DEF ThreadType
<1>1. CASE \E m \in Message : m.k # "alarm" /\ out'[e] = Append(out[e], m)
  BY <1>0, <1>1, AppendParts
<1>2. CASE out[e] # <<>> /\ Head(out[e]).k # "alarm" /\ out'[e] = Tail(out[e])
  <2>1. i # 1
    BY <1>0, <1>2, TailParts
  <2>2. i - 1 \in DOMAIN Tail(out[e]) /\ Tail(out[e])[i - 1] = out[e][i]
    BY <1>0, <1>2, <2>1, TailParts
  <2>3. QED
    BY <1>2, <2>2
<1>3. QED
  BY <1>1, <1>2 DEF SameAlarms, Silent

LEMMA SameLatest ==
  ASSUME Typed, NEW e \in Execs, SameAlarms(e), NEW r, NEW P, LatestIn(out[e], r, P)
  PROVE  LatestIn(out'[e], r, P)
<1>0. out[e] \in Seq(Message)
  BY TypeParts DEF ThreadType
<1>1. CASE \E m \in Message : m.k # "alarm" /\ out'[e] = Append(out[e], m)
  BY <1>0, <1>1, LatestAppend
<1>2. CASE out[e] # <<>> /\ Head(out[e]).k # "alarm" /\ out'[e] = Tail(out[e])
  BY <1>0, <1>2, LatestTail
<1>3. CASE Silent(out'[e])
  BY <1>3 DEF Silent, LatestIn
<1>4. CASE out'[e] = out[e]
  BY <1>4
<1>5. QED
  BY <1>1, <1>2, <1>3, <1>4 DEF SameAlarms

LEMMA LessLatest ==
  ASSUME NEW s, NEW r, NEW P, LatestIn(s, r, P), NEW q \in {r, None}, NEW Q, Q \subseteq P
  PROVE  LatestIn(s, q, Q)
BY DEF LatestIn

AlarmsKept == Latest /\ Matched /\ PendingKept /\ RowKept

\* A step that has nothing to do with alarms, or ends one.
LEMMA AlarmFrame ==
  ASSUME AlarmInv, \A e \in Execs : SameAlarms(e), UNCHANGED <<row, tracked, stray, writer, raced>>,
         Pending' \subseteq Pending, \A v \in Pending' : Handled(v) => Handled(v)'
  PROVE  AlarmsKept'
<1>0. Typed
  BY DEF AlarmInv, CommandInv
<1>1. Latest'
  <2>1. SUFFICES ASSUME NEW e \in Execs, writer = e PROVE LatestIn(out'[e], row, Pending')
    BY DEF Latest
  <2>2. LatestIn(out[e], row, Pending)
    BY <2>1 DEF AlarmInv, Latest
  <2>3. LatestIn(out'[e], row, Pending)
    BY <1>0, <2>2, SameLatest
  <2>4. QED
    BY <2>3, LessLatest
<1>2. Matched'
  BY DEF AlarmInv, Matched
<1>3. \A v \in Versions : Coming(v) => Coming(v)'
  <2>1. SUFFICES ASSUME NEW v \in Versions, NEW e \in Execs, NEW i \in DOMAIN out[e],
                        out[e][i] = [k |-> "alarm", v |-> v]
                 PROVE  Coming(v)'
    BY DEF Coming
  <2>2. \E n \in DOMAIN out'[e] : out'[e][n] = out[e][i]
    BY <1>0, <2>1, SameComing
  <2>3. QED
    BY <2>1, <2>2 DEF Coming
<1>4. PendingKept'
  <2>1. SUFFICES ASSUME NEW v \in Pending' PROVE (HasTimer(v) \/ Coming(v) \/ Handled(v))'
    BY DEF PendingKept
  <2>2. v \in Pending /\ v \in Versions
    BY <2>1 DEF Pending
  <2>3. HasTimer(v) \/ Coming(v) \/ Handled(v)
    BY <2>2 DEF AlarmInv, PendingKept
  <2>4. HasTimer(v) => HasTimer(v)'
    BY DEF HasTimer
  <2>5. QED
    BY <1>3, <2>1, <2>2, <2>3, <2>4
<1>5. RowKept'
  <2>1. SomeComing => SomeComing'
    <3>1. SUFFICES ASSUME NEW e \in Execs, NEW i \in DOMAIN out[e], out[e][i].k = "alarm", out[e][i].v # None
                   PROVE  SomeComing'
      BY DEF SomeComing
    <3>2. \E n \in DOMAIN out'[e] : out'[e][n] = out[e][i]
      BY <1>0, <3>1, SameComing
    <3>3. QED
      BY <3>1, <3>2 DEF SomeComing
  <2>2. QED
    BY <2>1 DEF AlarmInv, RowKept
<1>6. QED
  BY <1>1, <1>2, <1>4, <1>5 DEF AlarmsKept

\* A firing that stays at work still handles its alarm.
LEMMA StillHandled ==
  ASSUME \A f \in Firings : ph[f] # "idle" => ph'[f] # "idle", UNCHANGED fire
  PROVE  \A v \in Versions : Handled(v) => Handled(v)'
BY DEF Handled

\* _fireAlarm: the timer becomes a firing.
LEMMA FireKeeps ==
  ASSUME AlarmInv, NEW t \in Timer, FireAlarm(t), tracked' = {},
         \A u \in tracked \cup stray : u \in stray' \/ u.v = t.v
  PROVE  AlarmsKept'
<1>0. ph \in [Jobs -> Phases] /\ fire \in [Firings -> Timer] /\ \A g \in Firings : g \in Jobs
  BY TypeParts DEF AlarmInv, CommandInv, CommandType, AlarmType, Jobs
<1>1. PICK f \in Firings, e \in Execs :
           /\ ph[f] = "idle" /\ fire' = [fire EXCEPT ![f] = t] /\ Given(f, e)
           /\ row' = None /\ UNCHANGED <<sets, instVars, out, acts, histVars>>
  BY FireParts DEF AlarmInv, CommandInv
<1>2. UNCHANGED <<out, writer, raced, fate>>
  BY <1>1 DEF histVars
<1>3. ph'[f] # "idle" /\ fire'[f] = t /\ \A g \in Firings : g # f => ph'[g] = ph[g] /\ fire'[g] = fire[g]
  BY <1>0, <1>1 DEF Given
<1>4. Pending' = Pending
  BY <1>2 DEF Pending
<1>5. Latest'
  <2>1. SUFFICES ASSUME NEW x \in Execs, writer = x PROVE LatestIn(out[x], None, Pending)
    BY <1>1, <1>2, <1>4 DEF Latest
  <2>2. LatestIn(out[x], row, Pending)
    BY <2>1 DEF AlarmInv, Latest
  <2>3. QED
    BY <2>2, LessLatest
<1>6. Matched' /\ RowKept'
  BY <1>1 DEF Matched, RowKept
<1>7. PendingKept'
  <2>1. SUFFICES ASSUME NEW v \in Pending PROVE (HasTimer(v) \/ Coming(v) \/ Handled(v))'
    BY <1>4 DEF PendingKept
  <2>2. HasTimer(v) \/ Coming(v) \/ Handled(v)
    BY DEF AlarmInv, PendingKept
  <2>3. CASE HasTimer(v)
    <3>1. PICK u \in tracked \cup stray : u.v = v
      BY <2>3 DEF HasTimer
    <3>2. CASE u \in stray'
      BY <3>1, <3>2 DEF HasTimer
    <3>3. CASE u.v = t.v
      BY <1>3, <3>1, <3>3 DEF Handled
    <3>4. QED
      BY <3>2, <3>3
  <2>4. CASE Coming(v)
    BY <1>2, <2>4 DEF Coming
  <2>5. CASE Handled(v)
    BY <1>1, <1>3, <2>5 DEF Handled
  <2>6. QED
    BY <2>2, <2>3, <2>4, <2>5
<1>8. QED
  BY <1>5, <1>6, <1>7 DEF AlarmsKept

\* Histories: what a race and a replacement leave pending.
LEMMA Histories ==
  ASSUME raced \in BOOLEAN
  PROVE  /\ \A cond \in BOOLEAN : RaceIf(cond) =>
              IF cond THEN Pending' = {} /\ raced' = TRUE ELSE Pending' = Pending /\ raced' = raced
         /\ fate' = Overridden => Pending' = {}
<1>1. ASSUME fate' = Overridden \/ fate' = Exposed PROVE Pending' = {}
  BY <1>1 DEF Overridden, Exposed, Pending
<1>2. ASSUME NEW cond \in BOOLEAN, RaceIf(cond)
      PROVE  IF cond THEN Pending' = {} /\ raced' = TRUE ELSE Pending' = Pending /\ raced' = raced
  <2>1. CASE cond
    BY <1>1, <1>2, <2>1 DEF RaceIf
  <2>2. CASE ~cond
    <3>1. fate' = fate
      BY <1>2, <2>2 DEF RaceIf
    <3>2. raced' = (raced \/ cond)
      BY <1>2 DEF RaceIf
    <3>3. raced' = raced
      <4>1. CASE raced = TRUE
        BY <3>2, <4>1
      <4>2. CASE raced = FALSE
        BY <2>2, <3>2, <4>2
      <4>3. QED
        BY <4>1, <4>2
    <3>4. QED
      BY <2>2, <3>1, <3>3 DEF Pending
  <2>3. QED
    BY <2>1, <2>2
<1>3. QED
  BY <1>1, <1>2

LEMMA TimersAlarms ==
  ASSUME AlarmInv, TimerFires \/ TriggerAlarm \/ CancelAlarm \/ (\E f \in Firings : AlarmFails(f))
  PROVE  AlarmsKept'
<1>0. /\ AlarmType /\ CommandType /\ ThreadType /\ OneTimer
      /\ tracked \subseteq Timer /\ stray \subseteq Timer
  BY TypeParts DEF AlarmInv, CommandInv, Typed, AlarmType, OneTimer
<1>1. CASE TimerFires
  <2>1. ASSUME NEW t \in tracked, FireAlarm(t), tracked' = {}, UNCHANGED stray PROVE AlarmsKept'
    <3>1. \A u \in tracked \cup stray : u \in stray' \/ u.v = t.v
      BY <1>0, <2>1 DEF OneTimer
    <3>2. QED
      BY <1>0, <2>1, <3>1, FireKeeps
  <2>2. ASSUME NEW t \in stray, FireAlarm(t), tracked' = {}, stray' = (stray \ {t}) \cup tracked PROVE AlarmsKept'
    <3>1. \A u \in tracked \cup stray : u \in stray' \/ u.v = t.v
      BY <2>2
    <3>2. QED
      BY <1>0, <2>2, <3>1, FireKeeps
  <2>3. QED
    BY <1>1, <2>1, <2>2 DEF TimerFires
<1>2. CASE TriggerAlarm
  <2> DEFINE v == IF tracked # {} THEN (CHOOSE t \in tracked : TRUE).v
                  ELSE IF row # None THEN row ELSE Manual
             t == [v |-> v, n |-> 0]
  <2>1. FireAlarm(t) /\ tracked' = {} /\ UNCHANGED stray
    BY <1>2 DEF TriggerAlarm
  <2>2. v \in 0..Manual /\ \A u \in tracked : u.v = v
    <3>1. CASE tracked # {}
      <4>1. PICK u \in Timer : tracked = {u}
        BY <1>0, <3>1 DEF OneTimer
      <4>2. (CHOOSE x \in tracked : TRUE) = u
        BY <4>1
      <4>3. QED
        BY <3>1, <4>1, <4>2 DEF Timer
    <3>2. CASE tracked = {}
      BY <1>0, <3>2, Numbers DEF AlarmType
    <3>3. QED
      BY <3>1, <3>2
  <2>3. t.v = v
    OBVIOUS
  <2>4. t \in Timer
    BY <2>2, Numbers DEF Timer
  <2> HIDE DEF v, t
  <2>5. \A u \in tracked \cup stray : u \in stray' \/ u.v = t.v
    BY <2>1, <2>2, <2>3
  <2>6. QED
    BY <2>1, <2>4, <2>5, FireKeeps
<1>3. CASE CancelAlarm
  <2>1. row' = None /\ tracked' = {} /\ fate' = Overridden /\ UNCHANGED <<out, writer>>
    BY <1>3 DEF CancelAlarm
  <2>2. Pending' = {}
    BY <1>0, <2>1, Histories DEF AlarmType
  <2>3. Latest'
    <3>1. SUFFICES ASSUME NEW x \in Execs, writer = x PROVE LatestIn(out[x], None, {})
      BY <2>1, <2>2 DEF Latest
    <3>2. LatestIn(out[x], row, Pending)
      BY <3>1 DEF AlarmInv, Latest
    <3>3. QED
      BY <3>2, LessLatest
  <2>4. QED
    BY <2>1, <2>2, <2>3 DEF AlarmsKept, Matched, PendingKept, RowKept
<1>4. ASSUME NEW f \in Firings, AlarmFails(f) PROVE AlarmsKept'
  <2> DEFINE u == fire[f].v
  <2>0. /\ f \in Jobs /\ \A g \in Firings : g \in Jobs
        /\ \A g \in Firings : g # f => ph'[g] = ph[g] /\ fire'[g] = fire[g]
        /\ UNCHANGED out
    BY <1>0, <1>4 DEF AlarmFails, CommandType, AlarmType, Jobs
  <2>1. \A v : v # u /\ Handled(v) => Handled(v)'
    BY <2>0 DEF Handled
  <2>2. CASE fire[f].n < MaxAlarmRetries
    <3>1. /\ row' = u /\ tracked' = {[v |-> u, n |-> fire[f].n + 1]}
          /\ stray' = stray \cup tracked /\ writer' = None /\ UNCHANGED fate
      BY <1>4, <2>2 DEF AlarmFails
    <3>2. Latest'
      BY <3>1, Numbers DEF Latest
    <3>3. Matched'
      BY <3>1 DEF Matched
    <3>4. RowKept'
      BY <3>1 DEF RowKept
    <3>5. Pending' = Pending
      BY <3>1 DEF Pending
    <3>6. ASSUME NEW v \in Pending PROVE (HasTimer(v) \/ Coming(v) \/ Handled(v))'
      <4>1. HasTimer(v) => HasTimer(v)'
        BY <3>1 DEF HasTimer
      <4>2. Coming(v) => Coming(v)'
        BY <2>0 DEF Coming
      <4>3. v = u => HasTimer(v)'
        <5>1. [v |-> u, n |-> fire[f].n + 1] \in tracked' /\ [v |-> u, n |-> fire[f].n + 1].v = u
          BY <3>1
        <5>2. QED
          BY <5>1 DEF HasTimer
      <4>4. QED
        BY <2>1, <4>1, <4>2, <4>3 DEF AlarmInv, PendingKept
    <3>7. PendingKept'
      BY <3>5, <3>6 DEF PendingKept
    <3>8. QED
      BY <3>2, <3>3, <3>4, <3>7 DEF AlarmsKept
  <2>3. CASE ~(fire[f].n < MaxAlarmRetries)
    <3>1. /\ UNCHANGED <<row, tracked, stray, writer, raced>>
          /\ fate' = [x \in Versions |-> IF x = u THEN "exhausted" ELSE fate[x]]
      BY <1>4, <2>3 DEF AlarmFails
    <3>2. Pending' \subseteq Pending /\ \A v \in Pending' : v # u
      BY <3>1 DEF Pending
    <3>3. \A e \in Execs : SameAlarms(e)
      BY <2>0 DEF SameAlarms
    <3>4. QED
      BY <2>1, <3>1, <3>2, <3>3, AlarmFrame
  <2>4. QED
    BY <2>2, <2>3
<1>5. QED
  BY <1>1, <1>2, <1>3, <1>4

\* Executors are torn down while main is not about to restore the alarm: either
\* no alarm-set message was on its way, or the race is recorded.
LEMMA DropAlarms ==
  ASSUME AlarmInv, NEW E \in SUBSET Execs, Teardown(E), ph' = Rejected(E),
         UNCHANGED <<alarmVars, writer>>, NEW cond \in BOOLEAN, RaceIf(cond),
         \A e \in E : AlarmComing(e) => cond
  PROVE  AlarmsKept'
<1>0. raced \in BOOLEAN
  BY TypeParts DEF AlarmInv, CommandInv, AlarmType
<1>1. /\ \A e \in Execs : /\ e \in E => out'[e] = <<>>
                          /\ e \notin E => out'[e] = out[e]
      /\ UNCHANGED <<row, tracked, stray, fire>>
  BY DEF Teardown, alarmVars
<1>2. \A v \in Versions : Handled(v) => Handled(v)'
  <2>1. \A f \in Firings : ph[f] # "idle" => ph'[f] # "idle"
    BY DEF Rejected, Jobs
  <2>2. QED
    BY <1>1, <2>1, StillHandled
<1>3. CASE ~cond
  <2>1. Pending' = Pending /\ UNCHANGED raced
    BY <1>0, <1>3, Histories
  <2>2. ASSUME NEW e \in Execs PROVE SameAlarms(e)
    <3>1. CASE e \in E
      <4>1. Silent(out[e])
        BY <1>3, <3>1 DEF AlarmComing, Silent
      <4>2. Silent(out'[e])
        BY <1>1, <3>1 DEF Silent
      <4>3. QED
        BY <4>1, <4>2 DEF SameAlarms
    <3>2. CASE e \notin E
      BY <1>1, <3>2 DEF SameAlarms
    <3>3. QED
      BY <3>1, <3>2
  <2>3. Pending' \subseteq Pending /\ \A v \in Pending' : Handled(v) => Handled(v)'
    BY <1>2, <2>1 DEF Pending
  <2>4. UNCHANGED <<row, tracked, stray, writer, raced>>
    BY <1>1, <2>1
  <2>5. QED
    BY <2>2, <2>3, <2>4, AlarmFrame
<1>4. CASE cond
  <2>1. Pending' = {} /\ raced' = TRUE
    BY <1>0, <1>4, Histories
  <2>2. Latest'
    <3>1. SUFFICES ASSUME NEW x \in Execs, writer = x PROVE LatestIn(out'[x], row, {})
      BY <1>1, <2>1 DEF Latest
    <3>2. LatestIn(out[x], row, Pending)
      BY <3>1 DEF AlarmInv, Latest
    <3>3. CASE x \in E
      BY <1>1, <3>3 DEF LatestIn
    <3>4. CASE x \notin E
      BY <1>1, <3>2, <3>4, LessLatest
    <3>5. QED
      BY <3>3, <3>4
  <2>3. QED
    BY <2>1, <2>2 DEF AlarmsKept, Matched, PendingKept, RowKept
<1>5. QED
  BY <1>3, <1>4

LEMMA DropsAlarms ==
  ASSUME AlarmInv,
         \/ DeleteInstance \/ SetExternalClass \/ EvictIdle \/ Exit
         \/ \E e \in Execs : PollIdle(e) \/ PollExpires(e) \/ OnError(e)
  PROVE  AlarmsKept'
<1>0. AlarmType /\ CommandType /\ ThreadType /\ raced \in BOOLEAN /\ row \in 0..Manual
  BY TypeParts DEF AlarmInv, CommandInv, AlarmType
<1>1. Current \in SUBSET Execs /\ \A e \in Current : e = current
  BY <1>0, Numbers DEF Current, CommandType
<1>2. CASE EvictIdle
  <2>1. Teardown(Current) /\ ph' = Rejected(Current) /\ UNCHANGED <<alarmVars, writer>> /\ RaceIf(AlarmComing(current))
    BY <1>2 DEF EvictIdle
  <2>2. AlarmComing(current) \in BOOLEAN
    BY DEF AlarmComing
  <2>3. \A e \in Current : AlarmComing(e) => AlarmComing(current)
    BY <1>1
  <2>4. QED
    BY <1>1, <2>1, <2>2, <2>3, DropAlarms
<1>3. ASSUME NEW e \in Execs, PollIdle(e) \/ PollExpires(e) \/ OnError(e) PROVE AlarmsKept'
  <2>1. Teardown({e}) /\ ph' = Rejected({e}) /\ UNCHANGED <<alarmVars, writer>> /\ RaceIf(AlarmComing(e))
    BY <1>3 DEF PollIdle, PollExpires, OnError
  <2>2. AlarmComing(e) \in BOOLEAN /\ {e} \in SUBSET Execs
    BY DEF AlarmComing
  <2>3. \A x \in {e} : AlarmComing(x) => AlarmComing(e)
    OBVIOUS
  <2>4. QED
    BY <2>1, <2>2, <2>3, DropAlarms
<1>4. CASE DeleteInstance
  <2>1. /\ row' = None /\ tracked' = {} /\ fate' = Overridden /\ writer' = writer
        /\ Teardown(Current)
    BY <1>4 DEF DeleteInstance
  <2>2. Pending' = {}
    BY <1>0, <2>1, Histories
  <2>3. Latest'
    <3>1. SUFFICES ASSUME NEW x \in Execs, writer = x PROVE LatestIn(out'[x], None, {})
      BY <2>1, <2>2 DEF Latest
    <3>2. LatestIn(out[x], row, Pending)
      BY <3>1 DEF AlarmInv, Latest
    <3>3. CASE out'[x] = <<>>
      BY <3>3 DEF LatestIn
    <3>4. CASE out'[x] = out[x]
      BY <3>2, <3>4, LessLatest
    <3>5. QED
      BY <2>1, <3>3, <3>4 DEF Teardown
  <2>4. QED
    BY <2>1, <2>2, <2>3 DEF AlarmsKept, Matched, PendingKept, RowKept
<1>5. CASE SetExternalClass
  <2> DEFINE E == Current \ {e \in Current : IsActive(e)}
  <2>1. /\ Teardown(E) /\ ph' = Rejected(E) /\ RestoreAlarms /\ raced' = FALSE
        /\ UNCHANGED <<row, sets, stray, fire, acts, writer, fate>>
    BY <1>5 DEF SetExternalClass
  <2>2. E \in SUBSET Execs /\ \A e \in E : ~IsActive(e)
    BY <1>1
  <2> HIDE DEF E
  <2>3. \A e \in E : out[e] \in Seq(Message) /\ Silent(out[e])
    BY <1>0, <2>2, AlarmBusy DEF AlarmInv, ThreadType, Silent
  <2>4. \A e \in Execs : (e \in E => out'[e] = <<>>) /\ (e \notin E => out'[e] = out[e])
    BY <2>1 DEF Teardown
  <2>5. Pending' = Pending
    BY <2>1 DEF Pending
  <2>6. /\ row # None => tracked' = {[v |-> row, n |-> 0]}
        /\ row = None => tracked' = tracked
    BY <2>1 DEF RestoreAlarms, ScheduleAlarmTimer
  <2>7. Latest'
    <3>1. SUFFICES ASSUME NEW x \in Execs, writer = x PROVE LatestIn(out'[x], row, Pending)
      BY <2>1, <2>5 DEF Latest
    <3>2. LatestIn(out[x], row, Pending)
      BY <3>1 DEF AlarmInv, Latest
    <3>3. QED
      BY <2>4, <3>2 DEF LatestIn
  <2>8. Matched'
    BY <2>1, <2>5, <2>6 DEF AlarmInv, Matched
  <2>9. RowKept'
    BY <2>1, <2>6 DEF RowKept
  <2>10. ASSUME NEW v \in Pending PROVE (HasTimer(v) \/ Coming(v) \/ Handled(v))'
    <3>1. HasTimer(v) \/ Coming(v) \/ Handled(v)
      BY DEF AlarmInv, PendingKept
    <3>2. CASE HasTimer(v)
      <4>1. PICK t \in tracked \cup stray : t.v = v
        BY <3>2 DEF HasTimer
      <4>2. CASE t \in stray \/ row = None
        BY <2>1, <2>6, <4>1, <4>2 DEF HasTimer
      <4>3. CASE t \in tracked /\ row # None
        <5>1. row = v
          BY <4>1, <4>3 DEF AlarmInv, Matched
        <5>2. [v |-> row, n |-> 0] \in tracked' /\ [v |-> row, n |-> 0].v = row
          BY <2>6, <4>3
        <5>3. QED
          BY <5>1, <5>2 DEF HasTimer
      <4>4. QED
        BY <4>1, <4>2, <4>3
    <3>3. CASE Coming(v)
      <4>1. PICK e \in Execs : \E i \in DOMAIN out[e] : out[e][i] = [k |-> "alarm", v |-> v]
        BY <3>3 DEF Coming
      <4>2. e \notin E
        BY <2>3, <4>1 DEF Silent
      <4>3. QED
        BY <2>4, <4>1, <4>2 DEF Coming
    <3>4. CASE Handled(v)
      <4>1. \A f \in Firings : ph[f] # "idle" => ph'[f] # "idle"
        BY <2>1 DEF Rejected, Jobs
      <4>2. QED
        BY <2>1, <3>4, <4>1 DEF Handled
    <3>5. QED
      BY <3>1, <3>2, <3>3, <3>4
  <2>11. PendingKept'
    BY <2>5, <2>10 DEF PendingKept
  <2>12. QED
    BY <2>7, <2>8, <2>9, <2>11 DEF AlarmsKept
<1>6. CASE Exit
  <2>1. /\ Teardown(Execs) /\ row' = row
        /\ tracked' = IF row # None THEN {[v |-> row, n |-> 0]} ELSE {}
        /\ fate' = [v \in Versions |-> IF v = row THEN fate[v] ELSE Exposed[v]]
    BY <1>6 DEF Exit
  <2>2. \A v \in Pending' : v = row /\ v # None
    BY <2>1, Numbers DEF Pending, Exposed
  <2>3. \A e \in Execs : out'[e] = <<>>
    BY <2>1 DEF Teardown
  <2>4. Latest'
    BY <2>3 DEF Latest, LatestIn
  <2>5. Matched'
    BY <2>1, <2>2 DEF Matched
  <2>6. row # None => [v |-> row, n |-> 0] \in tracked' /\ [v |-> row, n |-> 0].v = row
    BY <2>1
  <2>7. RowKept'
    BY <2>1, <2>6 DEF RowKept
  <2>8. PendingKept'
    BY <2>2, <2>6 DEF PendingKept, HasTimer
  <2>9. QED
    BY <2>4, <2>5, <2>7, <2>8 DEF AlarmsKept
<1>7. QED
  BY <1>2, <1>3, <1>4, <1>5, <1>6

LEMMA AlarmSetAlarms ==
  ASSUME AlarmInv, NEW e \in Execs, OnAlarmSet(e)
  PROVE  AlarmsKept'
<1> DEFINE m == Head(out[e])
           s == out[e]
<1>0. Typed /\ raced \in BOOLEAN /\ s \in Seq(Message)
  BY TypeParts DEF AlarmInv, CommandInv, AlarmType, ThreadType
<1>1. /\ s # <<>> /\ m.k = "alarm" /\ out' = Taken(e)
      /\ tracked' = IF m.v = None THEN {} ELSE {[v |-> m.v, n |-> 0]}
      /\ RaceIf(writer # e)
      /\ UNCHANGED <<row, stray, fire, writer, ph>>
  BY DEF OnAlarmSet, Arrives, ScheduleAlarmTimer, jobVars
<1>2. out'[e] = Tail(s) /\ \A x \in Execs : x # e => out'[x] = out[x]
  BY <1>0, <1>1, TakenTyped
<1>3. 1 \in DOMAIN s /\ m = s[1]
  BY <1>0, <1>1, TailParts
<1>4. CASE writer # e
  <2>1. Pending' = {} /\ raced' = TRUE
    BY <1>0, <1>1, <1>4, Histories
  <2>2. Latest'
    <3>1. SUFFICES ASSUME NEW x \in Execs, writer = x PROVE LatestIn(out'[x], row, {})
      BY <1>1, <2>1 DEF Latest
    <3>2. out'[x] = out[x]
      BY <1>2, <1>4, <3>1
    <3>3. LatestIn(out[x], row, Pending)
      BY <3>1 DEF AlarmInv, Latest
    <3>4. QED
      BY <3>2, <3>3, LessLatest
  <2>3. QED
    BY <2>1, <2>2 DEF AlarmsKept, Matched, PendingKept, RowKept
<1>5. CASE writer = e
  <2>1. Pending' = Pending
    BY <1>0, <1>1, <1>5, Histories
  <2>2. LatestIn(s, row, Pending)
    BY <1>5 DEF AlarmInv, Latest
  <2>3. Latest'
    <3>1. LatestIn(Tail(s), row, Pending)
      BY <1>0, <1>1, <2>2, LatestTail
    <3>2. QED
      BY <1>1, <1>2, <1>5, <2>1, <3>1 DEF Latest
  <2>4. PICK i \in DOMAIN s : /\ s[i].k = "alarm"
                              /\ row # None => s[i].v = row
                              /\ \A v \in Pending : s[i].v = v
    BY <1>1, <1>3, <2>2 DEF LatestIn, Last
  <2>5. m.v # None => [v |-> m.v, n |-> 0] \in tracked' /\ [v |-> m.v, n |-> 0].v = m.v
    BY <1>1
  <2>6. \A t \in tracked' : t.v = m.v
    BY <1>1
  <2>7. \A v \in Pending : v # None
    BY Numbers DEF Pending
  <2>8. CASE i = 1
    <3>1. (row # None => m.v = row) /\ \A v \in Pending : m.v = v
      BY <1>3, <2>4, <2>8
    <3>2. Matched'
      BY <1>1, <2>1, <2>6, <3>1 DEF Matched
    <3>3. PendingKept'
      BY <2>1, <2>5, <2>7, <3>1 DEF PendingKept, HasTimer
    <3>4. RowKept'
      BY <1>1, <2>5, <3>1 DEF RowKept
    <3>5. QED
      BY <2>3, <3>2, <3>3, <3>4 DEF AlarmsKept
  <2>9. CASE i # 1
    <3>1. i - 1 \in DOMAIN Tail(s) /\ Tail(s)[i - 1] = s[i]
      BY <1>0, <1>1, <2>9, TailParts
    <3>2. s[i] = [k |-> "alarm", v |-> s[i].v]
      <4>1. s[i] \in Message
        BY <1>0
      <4>2. QED
        BY <2>4, <4>1, MessageParts
    <3>3. Matched'
      BY <1>1, <2>1, <2>4, <2>6 DEF Matched
    <3>4. PendingKept'
      <4>1. ASSUME NEW v \in Pending PROVE Coming(v)'
        <5>1. out'[e][i - 1] = [k |-> "alarm", v |-> v] /\ i - 1 \in DOMAIN out'[e]
          BY <1>2, <2>4, <3>1, <3>2
        <5>2. QED
          BY <5>1 DEF Coming
      <4>2. QED
        BY <2>1, <4>1 DEF PendingKept
    <3>5. RowKept'
      <4>1. row # None => s[i].k = "alarm" /\ s[i].v # None
        BY <2>4
      <4>2. i - 1 \in DOMAIN out'[e] /\ out'[e][i - 1] = s[i]
        BY <1>2, <3>1
      <4>3. row # None => SomeComing'
        BY <4>1, <4>2 DEF SomeComing
      <4>4. QED
        BY <1>1, <4>3 DEF RowKept
    <3>6. QED
      BY <2>3, <3>3, <3>4, <3>5 DEF AlarmsKept
  <2>10. QED
    BY <2>8, <2>9
<1>6. QED
  BY <1>4, <1>5

\* A message of another kind is posted.
LEMMA PostFrame ==
  ASSUME Typed, NEW e \in Execs, NEW m \in Message, Post(e, m), m.k # "alarm"
  PROVE  \A x \in Execs : SameAlarms(x)
BY PostTyped DEF SameAlarms

LEMMA ThreadAlarms ==
  ASSUME AlarmInv,
         \/ \E j \in Jobs : \/ Enter(j) \/ Wake(j) \/ Return(j) \/ SetAlarm(j) \/ DeleteAlarm(j) \/ Abort(j)
                            \/ \E b \in Blocks : Block(j, b)
         \/ \E e \in Execs : Construct(e) \/ Crash(e) \/ \E b \in Blocks : Unblock(e, b)
  PROVE  AlarmsKept'
<1>0. Typed /\ Counted /\ ThreadType /\ AlarmType /\ raced \in BOOLEAN
  BY TypeParts DEF AlarmInv, CommandInv, AlarmType
<1>1. ASSUME UNCHANGED <<alarmVars, ph, histVars>>, \A e \in Execs : SameAlarms(e)
      PROVE  AlarmsKept'
  <2>1. UNCHANGED <<row, tracked, stray, fire, writer, raced, fate>>
    BY <1>1 DEF alarmVars, histVars
  <2>2. Pending' \subseteq Pending /\ \A v \in Pending' : Handled(v) => Handled(v)'
    BY <1>1, <2>1 DEF Pending, Handled
  <2>3. QED
    BY <1>1, <2>1, <2>2, AlarmFrame
<1>2. ASSUME NEW j \in Jobs, Enter(j) \/ Wake(j) \/ Return(j) PROVE AlarmsKept'
  <2>1. wk[j] # "none" /\ UNCHANGED <<alarmVars, ph, histVars>>
    BY <1>0, <1>2, StepParts
  <2>2. CASE \E res \in Results : Reply(j, res)
    <3>1. PICK res \in Results : Reply(j, res)
      BY <2>2
    <3> DEFINE m == [k |-> "result", j |-> j, res |-> res, s |-> State(at[j])]
    <3>2. at[j] \in Execs /\ m \in Message /\ Post(at[j], m)
      BY <1>0, <2>1, <3>1, ReplyParts
    <3>3. m.k # "alarm"
      OBVIOUS
    <3> HIDE DEF m
    <3>4. \A e \in Execs : SameAlarms(e)
      BY <1>0, <3>2, <3>3, PostFrame
    <3>5. QED
      BY <1>1, <2>1, <3>4
  <2>3. CASE UNCHANGED out
    <3>1. \A e \in Execs : SameAlarms(e)
      BY <2>3 DEF SameAlarms
    <3>2. QED
      BY <1>1, <2>1, <3>1
  <2>4. QED
    BY <1>0, <1>2, <2>2, <2>3, StepParts
<1>3. ASSUME NEW j \in Jobs, SetAlarm(j) PROVE AlarmsKept'
  <2>0. PICK u : u = sets + 1
    OBVIOUS
  <2> DEFINE e == at[j]
             m == [k |-> "alarm", v |-> u]
  <2>1. e \in Execs
    <3>1. wk[j] # "none"
      BY <1>3 DEF SetAlarm
    <3>2. QED
      BY <1>0, <3>1, AtExec
  <2>2. u \in 0..MaxSets /\ u \in Versions /\ u # None
    <3>1. sets < MaxSets /\ sets \in 0..MaxSets /\ MaxSets \in Nat
      BY <1>0, <1>3, Numbers DEF SetAlarm, AlarmType
    <3>2. QED
      BY <2>0, <3>1 DEF Versions, None
  <2>3. /\ m \in Message /\ m.k = "alarm" /\ m.v = u
        /\ m = [k |-> "alarm", v |-> u]
    BY <2>2, Messages
  <2>4. /\ row' = u /\ writer' = e /\ Post(e, m) /\ fate' = [Overridden EXCEPT ![u] = "pending"]
        /\ UNCHANGED tracked
    BY <1>3, <2>0 DEF SetAlarm
  <2>5. Pending' = {u}
    BY <2>2, <2>4 DEF Pending, Overridden
  <2>6. out'[e] = Append(out[e], m) /\ out[e] \in Seq(Message)
    BY <1>0, <2>1, <2>3, <2>4, PostTyped DEF ThreadType
  <2> HIDE DEF e, m
  <2>7. Latest'
    <3>1. LatestIn(Append(out[e], m), u, {u})
      BY <2>3, <2>6, LatestAppend
    <3>2. QED
      BY <2>4, <2>5, <2>6, <3>1 DEF Latest
  <2>8. Matched'
    BY <2>4, <2>5 DEF Matched
  <2>9. Len(out[e]) + 1 \in DOMAIN out'[e] /\ out'[e][Len(out[e]) + 1] = m
    BY <2>3, <2>6, AppendParts
  <2>10. PendingKept'
    <3>1. \E i \in DOMAIN out'[e] : out'[e][i] = [k |-> "alarm", v |-> u]
      BY <2>3, <2>9
    <3>2. Coming(u)'
      BY <2>1, <3>1 DEF Coming
    <3>3. \A v \in Pending' : v = u
      BY <2>5
    <3>4. QED
      BY <3>2, <3>3 DEF PendingKept
  <2>11. RowKept'
    <3>1. SomeComing'
      BY <2>1, <2>2, <2>3, <2>9 DEF SomeComing
    <3>2. QED
      BY <3>1 DEF RowKept
  <2>12. QED
    BY <2>7, <2>8, <2>10, <2>11 DEF AlarmsKept
<1>4. ASSUME NEW j \in Jobs, DeleteAlarm(j) PROVE AlarmsKept'
  <2> DEFINE e == at[j]
             m == [k |-> "alarm", v |-> None]
  <2>1. e \in Execs
    <3>1. wk[j] # "none"
      BY <1>4 DEF DeleteAlarm
    <3>2. QED
      BY <1>0, <3>1, AtExec
  <2>2. m \in Message /\ m.k = "alarm" /\ m.v = None
    BY Messages, Numbers DEF None
  <2>3. row' = None /\ writer' = e /\ Post(e, m) /\ fate' = Overridden
    BY <1>4 DEF DeleteAlarm
  <2>4. Pending' = {}
    BY <1>0, <2>3, Histories
  <2>5. out'[e] = Append(out[e], m) /\ out[e] \in Seq(Message)
    BY <1>0, <2>1, <2>2, <2>3, PostTyped DEF ThreadType
  <2> HIDE DEF e, m
  <2>6. Latest'
    <3>1. LatestIn(Append(out[e], m), None, {})
      BY <2>2, <2>5, LatestAppend
    <3>2. QED
      BY <2>3, <2>4, <2>5, <3>1 DEF Latest
  <2>7. QED
    BY <2>3, <2>4, <2>6 DEF AlarmsKept, Matched, PendingKept, RowKept
<1>5. ASSUME NEW j \in Jobs, Abort(j) \/ \E b \in Blocks : Block(j, b) PROVE AlarmsKept'
  <2>1. wk[j] # "none" /\ UNCHANGED <<alarmVars, ph, histVars>>
    BY <1>5 DEF Abort, Block, jobVars
  <2>2. at[j] \in Execs
    BY <1>0, <2>1, AtExec
  <2>3. \E m \in Message : Post(at[j], m) /\ m.k # "alarm"
    BY <1>0, <1>5, <2>2, StateMessages DEF Abort, Block
  <2>4. \A e \in Execs : SameAlarms(e)
    BY <1>0, <2>2, <2>3, PostFrame
  <2>5. QED
    BY <1>1, <2>1, <2>4
<1>6. ASSUME NEW e \in Execs, Crash(e) PROVE AlarmsKept'
  <2>1. UNCHANGED <<alarmVars, ph, histVars>>
    BY <1>6 DEF Crash, jobVars
  <2>2. \E m \in Message : Post(e, m) /\ m.k # "alarm"
    BY <1>6, Messages DEF Crash
  <2>3. \A x \in Execs : SameAlarms(x)
    BY <1>0, <2>2, PostFrame
  <2>4. QED
    BY <1>1, <2>1, <2>3
<1>7. ASSUME NEW e \in Execs, NEW b \in Blocks, Unblock(e, b) PROVE AlarmsKept'
  <2>1. UNCHANGED <<alarmVars, ph, histVars>>
    BY <1>7 DEF Unblock
  <2>2. Post(e, [k |-> "state", s |-> [aborted |-> aborted[e], blocked |-> FALSE]])
    BY <1>7 DEF Unblock
  <2>3. [k |-> "state", s |-> [aborted |-> aborted[e], blocked |-> FALSE]] \in Message
    BY <1>0, StateMessages
  <2>4. \A x \in Execs : SameAlarms(x)
    BY <1>0, <2>2, <2>3, PostFrame
  <2>5. QED
    BY <1>1, <2>1, <2>4
<1>8. ASSUME NEW e \in Execs, Construct(e) PROVE AlarmsKept'
  <2>1. UNCHANGED <<alarmVars, ph, histVars>> /\ life[e] = "starting"
    BY <1>8 DEF Construct, jobVars
  <2>2. CASE Post(e, [k |-> "ready"]) \/ Post(e, [k |-> "error"])
    <3>1. \E m \in Message : Post(e, m) /\ m.k # "alarm"
      BY <2>2, Messages
    <3>2. \A x \in Execs : SameAlarms(x)
      BY <1>0, <3>1, PostFrame
    <3>3. QED
      BY <1>1, <2>1, <3>2
  <2>3. CASE out' = [out EXCEPT ![e] = <<[k |-> "state", s |-> [aborted |-> FALSE, blocked |-> TRUE]],
                                         [k |-> "ready"]>>]
    <3>1. out'[e] = <<[k |-> "state", s |-> [aborted |-> FALSE, blocked |-> TRUE]], [k |-> "ready"]>>
          /\ \A x \in Execs : x # e => out'[x] = out[x]
      BY <1>0, <2>3 DEF ThreadType
    <3>2. Silent(out'[e])
      <4>1. DOMAIN out'[e] = {1, 2} /\ out'[e][1].k = "state" /\ out'[e][2].k = "ready"
        BY <3>1
      <4>2. QED
        BY <4>1 DEF Silent
    <3>3. Silent(out[e])
      BY <2>1, AlarmBusy DEF Silent, AlarmInv
    <3>4. \A x \in Execs : SameAlarms(x)
      BY <3>1, <3>2, <3>3 DEF SameAlarms
    <3>5. QED
      BY <1>1, <2>1, <3>4
  <2>4. QED
    BY <1>8, <2>2, <2>3 DEF Construct
<1>9. QED
  BY <1>2, <1>3, <1>4, <1>5, <1>6, <1>7, <1>8

LEMMA OtherAlarms ==
  ASSUME AlarmInv,
         \/ \E c \in Calls : Call(c) \/ CloseStream(c)
         \/ \E e \in Execs : OnReady(e) \/ OnResult(e) \/ OnState(e)
         \/ UNCHANGED vars
  PROVE  AlarmsKept'
<1>0. /\ Typed /\ ph \in [Jobs -> Phases] /\ fire \in [Firings -> Timer]
      /\ \A f \in Firings : f \in Jobs /\ f \notin Calls
  BY TypeParts, ObjectAssumption DEF AlarmInv, CommandInv, CommandType, AlarmType, Jobs
<1>1. ASSUME UNCHANGED <<alarmVars, histVars>>, \A e \in Execs : SameAlarms(e),
             \A f \in Firings : ph[f] # "idle" => ph'[f] # "idle"
      PROVE  AlarmsKept'
  <2>1. UNCHANGED <<row, tracked, stray, fire, writer, raced, fate>>
    BY <1>1 DEF alarmVars, histVars
  <2>2. Pending' \subseteq Pending /\ \A v \in Pending' : Handled(v) => Handled(v)'
    BY <1>1, <2>1 DEF Pending, Handled
  <2>3. QED
    BY <1>1, <2>1, <2>2, AlarmFrame
<1>2. ASSUME NEW c \in Calls, Call(c) PROVE AlarmsKept'
  <2>1. c \in Jobs /\ Dispatch(c) /\ UNCHANGED <<alarmVars, histVars, out>>
    BY <1>2 DEF Call, Jobs
  <2>2. PICK e \in Execs : Given(c, e)
    BY <1>0, <2>1, DispatchGives
  <2>3. \A f \in Firings : ph'[f] = ph[f]
    BY <1>0, <2>2 DEF Given
  <2>4. \A x \in Execs : SameAlarms(x)
    BY <2>1 DEF SameAlarms
  <2>5. QED
    BY <1>1, <2>1, <2>3, <2>4
<1>3. ASSUME NEW c \in Calls, CloseStream(c) PROVE AlarmsKept'
  <2>1. UNCHANGED <<alarmVars, histVars, out>> /\ \A f \in Firings : ph'[f] = ph[f]
    BY <1>0, <1>3 DEF CloseStream
  <2>2. \A x \in Execs : SameAlarms(x)
    BY <2>1, SMTT(30) DEF SameAlarms
  <2>3. QED
    BY <1>1, <2>1, <2>2
<1>4. ASSUME NEW e \in Execs, OnReady(e) \/ OnResult(e) \/ OnState(e) PROVE \A x \in Execs : SameAlarms(x)
  <2>1. out[e] # <<>> /\ out' = Taken(e) /\ Head(out[e]).k # "alarm"
    BY <1>4 DEF OnReady, OnResult, OnState, Arrives
  <2>2. out'[e] = Tail(out[e]) /\ \A x \in Execs : x # e => out'[x] = out[x]
    BY <1>0, <2>1, TakenTyped
  <2>3. QED
    BY <2>1, <2>2, SMTT(30) DEF SameAlarms
<1>5. ASSUME NEW e \in Execs, OnReady(e) PROVE AlarmsKept'
  <2>1. \A f \in Firings : ph[f] # "idle" => ph'[f] # "idle"
    BY <1>0, <1>5 DEF OnReady
  <2>2. UNCHANGED <<alarmVars, histVars>>
    BY <1>5 DEF OnReady
  <2>3. QED
    BY <1>1, <1>4, <1>5, <2>1, <2>2
<1>6. ASSUME NEW e \in Execs, OnState(e) PROVE AlarmsKept'
  <2>1. UNCHANGED <<alarmVars, histVars>> /\ UNCHANGED ph
    BY <1>6 DEF OnState, jobVars
  <2>2. QED
    BY <1>1, <1>4, <1>6, <2>1
<1>7. ASSUME NEW e \in Execs, OnResult(e) PROVE AlarmsKept'
  <2> DEFINE m == Head(out[e])
             good == m.j \in Firings /\ m.res = "ok"
  <2>1. m.j \in Jobs /\ m.res \in Results
    <3>1. out[e] # <<>> /\ m.k = "result"
      <4>1. Arrives(e, "result")
        BY <1>7 DEF OnResult
      <4>2. QED
        BY <4>1 DEF Arrives
    <3>2. m \in Message
      BY <1>0, <3>1, TakenTyped, SMTT(30)
    <3>3. QED
      BY <3>1, <3>2, MessageParts, SMTT(30)
  <2>2. /\ ph' = [ph EXCEPT ![m.j] = IF good THEN "idle" ELSE m.res]
        /\ fire' = IF good THEN [fire EXCEPT ![m.j] = NoTimer] ELSE fire
        /\ fate' = [v \in Versions |-> IF good /\ fire[m.j].v = v THEN "done" ELSE fate[v]]
        /\ UNCHANGED <<row, tracked, stray, writer, raced>>
    BY <1>7 DEF OnResult
  <2> HIDE DEF m
  <2>3. Pending' \subseteq Pending
    BY <2>2 DEF Pending
  <2>4. ASSUME NEW v \in Pending', Handled(v) PROVE Handled(v)'
    <3>1. PICK f \in Firings : ph[f] # "idle" /\ fire[f].v = v
      BY <2>4 DEF Handled
    <3>2. CASE f # m.j
      <4>1. ph'[f] = ph[f] /\ fire'[f] = fire[f]
        BY <1>0, <2>1, <2>2, <3>2
      <4>2. QED
        BY <3>1, <4>1 DEF Handled
    <3>3. CASE f = m.j
      <4>1. ~good
        BY <2>2, <2>4, <3>1, <3>3 DEF Pending
      <4>2. fire'[f] = fire[f] /\ ph'[f] = m.res
        BY <1>0, <2>1, <2>2, <3>3, <4>1
      <4>3. m.res # "idle"
        BY <2>1 DEF Results
      <4>4. QED
        BY <3>1, <4>2, <4>3 DEF Handled
    <3>4. QED
      BY <3>2, <3>3
  <2>5. \A x \in Execs : SameAlarms(x)
    BY <1>4, <1>7
  <2>6. QED
    BY <2>2, <2>3, <2>4, <2>5, AlarmFrame
<1>8. CASE UNCHANGED vars
  <2>1. UNCHANGED <<alarmVars, histVars, ph, out>>
    BY <1>8 DEF vars, jobVars
  <2>2. \A x \in Execs : SameAlarms(x)
    BY <2>1 DEF SameAlarms
  <2>3. QED
    BY <1>1, <2>1, <2>2
<1>9. QED
  BY <1>2, <1>3, <1>5, <1>6, <1>7, <1>8

LEMMA NextAlarms == ASSUME AlarmInv, [Next]_vars PROVE AlarmInv'
<1>1. CommandInv'
  BY NextCommands DEF AlarmInv
<1>2. AlarmsKept'
  <2>1. CASE MainStep
    BY <2>1, TimersAlarms, DropsAlarms, OtherAlarms DEF MainStep
  <2>2. CASE \E e \in Execs : ReceiveStep(e)
    BY <2>2, AlarmSetAlarms, OtherAlarms DEF ReceiveStep
  <2>3. CASE ThreadStep
    BY <2>3, ThreadAlarms DEF ThreadStep
  <2>4. CASE UNCHANGED vars
    BY <2>4, OtherAlarms
  <2>5. QED
    BY <2>1, <2>2, <2>3, <2>4, Steps
<1>3. QED
  BY <1>1, <1>2 DEF AlarmInv, AlarmsKept

LEMMA InitAlarms == ASSUME Init PROVE AlarmInv
<1>1. Pending = {} /\ row = None /\ \A e \in Execs : out[e] = <<>>
  BY DEF Init, Pending
<1>2. Latest
  BY <1>1 DEF Latest, LatestIn
<1>3. Matched /\ PendingKept /\ RowKept
  BY <1>1 DEF Matched, PendingKept, RowKept
<1>4. QED
  BY <1>2, <1>3, InitCommands DEF AlarmInv

(***************************************************************************)
(* Whatever becomes of the executors, through reloads, evictions, crashes, *)
(* exits and the dashboard's operations: an alarm that is pending has a    *)
(* timer, a message on its way or a firing, and the row of the table is    *)
(* taken up, the recorded races apart (durable-object.ts, _fireAlarm,      *)
(* _restoreAlarms, onAlarmSet).                                            *)
(***************************************************************************)
THEOREM AlarmKeptAlways == Spec => []AlarmKept
<1>1. AlarmInv => AlarmKept
  BY KeptParts DEF AlarmInv
<1>2. Spec => []AlarmInv
  BY InitAlarms, NextAlarms, PTL DEF Spec
<1>3. QED
  BY <1>1, <1>2, PTL

-----------------------------------------------------------------------------
(* Gates.                                                                  *)

\* One blockConcurrencyWhile callback of an instance runs at a time.  The code does
\* not ensure it, and with two the first to settle opens the gate of both.
OneBlock == MaxBlocks =< 1

\* What a message says of the gate.
Closed(m) == m.k \in {"state", "result"} => m.s.blocked

\* Main knows, or will know before the thread can look idle to it, that the gate is
\* closed: for the channel s, the mirrored flag b and a command at work or none.
ToldBy(s, b, working) ==
  \/ b /\ \A i \in DOMAIN s : Closed(s[i])
  \/ \E i \in DOMAIN s : /\ s[i].k = "state"
                         /\ \A n \in DOMAIN s : n >= i => Closed(s[n])
                         /\ working \/ Behind(s, i, {"result", "ready"})

Gated == \A e \in Execs : gate[e] = None <=> blocks[e] = {}
Told  == \A e \in Execs : blocks[e] # {} => ToldBy(out[e], mirror[e].blocked, Working(e))

GateInv == CommandInv /\ Gated /\ Told

LEMMA ToldTail ==
  ASSUME NEW s \in Seq(Message), s # <<>>, NEW b \in BOOLEAN, NEW c \in BOOLEAN, NEW v \in BOOLEAN, NEW w \in BOOLEAN,
         ToldBy(s, b, v), v => w,
         c = IF Head(s).k \in {"state", "result"} THEN Head(s).s.blocked ELSE b
  PROVE  ToldBy(Tail(s), c, w)
<1>1. \A i \in DOMAIN Tail(s) : i + 1 \in DOMAIN s /\ Tail(s)[i] = s[i + 1] /\ i \in Nat
  BY TailParts
<1>2. Head(s) = s[1] /\ 1 \in DOMAIN s /\ \A i \in DOMAIN s : i >= 1 /\ i \in Nat
  BY TailParts
<1>3. ASSUME \A i \in DOMAIN s : Closed(s[i]), b \/ s[1].k = "state" PROVE c /\ \A i \in DOMAIN Tail(s) : Closed(Tail(s)[i])
  <2>1. \A i \in DOMAIN Tail(s) : Closed(Tail(s)[i])
    BY <1>1, <1>3
  <2>2. Closed(s[1])
    BY <1>2, <1>3
  <2>3. QED
    BY <1>2, <1>3, <2>1, <2>2 DEF Closed
<1>4. CASE b /\ \A i \in DOMAIN s : Closed(s[i])
  BY <1>3, <1>4 DEF ToldBy
<1>5. ASSUME NEW i \in DOMAIN s, s[i].k = "state", \A n \in DOMAIN s : n >= i => Closed(s[n]),
             v \/ Behind(s, i, {"result", "ready"})
      PROVE  ToldBy(Tail(s), c, w)
  <2>1. CASE i = 1
    <3>1. \A n \in DOMAIN s : Closed(s[n])
      BY <1>2, <1>5, <2>1
    <3>2. QED
      BY <1>3, <1>5, <2>1, <3>1 DEF ToldBy
  <2>2. CASE i # 1
    <3>1. i - 1 \in DOMAIN Tail(s) /\ Tail(s)[i - 1] = s[i]
      BY <2>2, TailParts
    <3>2. ASSUME NEW n \in DOMAIN Tail(s), n >= i - 1 PROVE Closed(Tail(s)[n])
      <4>1. n + 1 \in DOMAIN s /\ n + 1 >= i /\ Tail(s)[n] = s[n + 1]
        BY <1>1, <1>2, <3>2
      <4>2. QED
        BY <1>5, <4>1
    <3>3. w \/ Behind(Tail(s), i - 1, {"result", "ready"})
      BY <1>5, <2>2, BehindTail
    <3>4. Tail(s)[i - 1].k = "state"
      BY <1>5, <3>1
    <3>5. QED
      BY <3>1, <3>2, <3>3, <3>4 DEF ToldBy
  <2>3. QED
    BY <2>1, <2>2
<1>6. QED
  BY <1>4, <1>5 DEF ToldBy

LEMMA ToldAppend ==
  ASSUME NEW s \in Seq(Message), NEW m \in Message, NEW b \in BOOLEAN, NEW v \in BOOLEAN, NEW w \in BOOLEAN,
         ToldBy(s, b, v), Closed(m), v => w \/ m.k = "result"
  PROVE  ToldBy(Append(s, m), b, w)
<1>1. \A l \in DOMAIN Append(s, m) :
        \/ l \in DOMAIN s /\ Append(s, m)[l] = s[l]
        \/ l = Len(s) + 1 /\ Append(s, m)[l] = m
  BY AppendParts
<1>2. CASE b /\ \A i \in DOMAIN s : Closed(s[i])
  <2>1. \A i \in DOMAIN Append(s, m) : Closed(Append(s, m)[i])
    BY <1>1, <1>2
  <2>2. QED
    BY <1>2, <2>1 DEF ToldBy
<1>3. ASSUME NEW i \in DOMAIN s, s[i].k = "state", \A n \in DOMAIN s : n >= i => Closed(s[n]),
             v \/ Behind(s, i, {"result", "ready"})
      PROVE  ToldBy(Append(s, m), b, w)
  <2>1. i \in DOMAIN Append(s, m) /\ Append(s, m)[i] = s[i]
    BY AppendParts
  <2>2. \A n \in DOMAIN Append(s, m) : n >= i => Closed(Append(s, m)[n])
    BY <1>1, <1>3
  <2>3. w \/ Behind(Append(s, m), i, {"result", "ready"})
    <3>1. m.k = "result" => m.k \in {"result", "ready"}
      OBVIOUS
    <3>2. QED
      BY <1>3, <3>1, BehindAppend
  <2>4. Append(s, m)[i].k = "state"
    BY <1>3, <2>1
  <2>5. QED
    BY <2>1, <2>2, <2>3, <2>4 DEF ToldBy
<1>4. QED
  BY <1>2, <1>3 DEF ToldBy

\* A state that says closed, posted by a handler.
LEMMA ToldNew ==
  ASSUME NEW s \in Seq(Message), NEW m \in Message, NEW b \in BOOLEAN, m.k = "state", Closed(m)
  PROVE  ToldBy(Append(s, m), b, TRUE)
<1>1. Len(s) + 1 \in DOMAIN Append(s, m) /\ Append(s, m)[Len(s) + 1] = m
  BY AppendParts
<1>2. ASSUME NEW n \in DOMAIN Append(s, m), n >= Len(s) + 1 PROVE Append(s, m)[n] = m
  <2>1. n \in DOMAIN s => n < Len(s) + 1 /\ n \in Nat
    BY AppendParts
  <2>2. n \in DOMAIN s \/ n = Len(s) + 1
    BY AppendParts
  <2>3. Len(s) + 1 \in Nat
    BY AppendParts
  <2>4. n = Len(s) + 1
    BY <1>2, <2>1, <2>2, <2>3
  <2>5. QED
    BY <1>1, <2>4
<1>3. QED
  BY <1>1, <1>2 DEF ToldBy

LEMMA WorkingTyped == \A e \in Execs : Working(e) \in BOOLEAN
BY DEF Working

\* The thread e goes on: no message of its, or the next one arrives, or one is posted.
Passes(e) ==
  \/ /\ out'[e] = out[e] /\ mirror'[e] = mirror[e]
     /\ Working(e) => Working(e)'
  \/ /\ out[e] # <<>> /\ out'[e] = Tail(out[e])
     /\ mirror'[e] = IF Head(out[e]).k \in {"state", "result"} THEN Head(out[e]).s ELSE mirror[e]
     /\ Working(e) => Working(e)'
  \/ \E m \in Message :
       /\ out'[e] = Append(out[e], m) /\ mirror'[e] = mirror[e]
       /\ gate[e] # None => Closed(m)
       /\ Working(e) => Working(e)' \/ m.k = "result"

LEMMA PassTold ==
  ASSUME GateInv, NEW e \in Execs, blocks[e] # {}, Passes(e), Typed'
  PROVE  ToldBy(out[e], mirror[e].blocked, Working(e))'
<1>0. /\ out[e] \in Seq(Message) /\ mirror[e] \in Flags /\ mirror'[e] \in Flags
      /\ Working(e) \in BOOLEAN /\ Working(e)' \in BOOLEAN
  <2>0. CommandType'
    BY TypeParts, PTL
  <2>1. mirror' \in [Execs -> Flags]
    BY <2>0 DEF CommandType
  <2>2. QED
    BY <2>1, TypeParts DEF GateInv, CommandInv, CommandType, ThreadType, Working
<1>1. mirror[e].blocked \in BOOLEAN /\ mirror'[e].blocked \in BOOLEAN
  BY <1>0 DEF Flags
<1>2. ToldBy(out[e], mirror[e].blocked, Working(e)) /\ gate[e] # None
  BY DEF GateInv, Told, Gated
<1>3. SUFFICES ToldBy(out'[e], mirror'[e].blocked, Working(e)')
  BY DEF ToldBy, Behind
<1>4. CASE out'[e] = out[e] /\ mirror'[e] = mirror[e] /\ (Working(e) => Working(e)')
  BY <1>2, <1>4 DEF ToldBy
<1>5. CASE /\ out[e] # <<>> /\ out'[e] = Tail(out[e])
           /\ mirror'[e] = IF Head(out[e]).k \in {"state", "result"} THEN Head(out[e]).s ELSE mirror[e]
           /\ Working(e) => Working(e)'
  BY <1>0, <1>1, <1>2, <1>5, ToldTail
<1>6. ASSUME NEW m \in Message, out'[e] = Append(out[e], m), mirror'[e] = mirror[e],
             gate[e] # None => Closed(m), Working(e) => Working(e)' \/ m.k = "result"
      PROVE  ToldBy(out'[e], mirror'[e].blocked, Working(e)')
  BY <1>0, <1>1, <1>2, <1>6, ToldAppend
<1>7. QED
  BY <1>4, <1>5, <1>6 DEF Passes

LEMMA PassGates ==
  ASSUME GateInv, Typed', UNCHANGED <<gate, blocks>>, \A e \in Execs : Passes(e)
  PROVE  Gated' /\ Told'
<1>1. Gated'
  BY DEF GateInv, Gated
<1>2. ASSUME NEW e \in Execs, blocks'[e] # {} PROVE ToldBy(out[e], mirror[e].blocked, Working(e))'
  BY <1>2, PassTold
<1>3. QED
  BY <1>1, <1>2 DEF Told

\* A command is given to an executor.
LEMMA GivenGates ==
  ASSUME GateInv, Typed', NEW j \in Jobs, ph[j] = "idle", NEW x \in Execs, Given(j, x), UNCHANGED <<instVars, out>>
  PROVE  Gated' /\ Told'
<1>0. at \in [Jobs -> 0..MaxExecs] /\ wk \in [Jobs -> Places]
  BY TypeParts DEF GateInv, CommandInv, CommandType, ThreadType
<1>1. wk[j] = "none"
  BY DEF GateInv, CommandInv, Counted
<1>2. \A i \in Jobs : wk[i] # "none" => wk'[i] # "none" /\ at'[i] = at[i]
  BY <1>0, <1>1 DEF Given
<1>3. \A e \in Execs : Working(e) => Working(e)'
  BY <1>2 DEF Working
<1>4. UNCHANGED <<gate, blocks, out, mirror>>
  BY DEF Given, instVars
<1>5. \A e \in Execs : Passes(e)
  BY <1>3, <1>4 DEF Passes
<1>6. QED
  BY <1>4, <1>5, PassGates

\* An executor is torn down.
LEMMA DropGates ==
  ASSUME GateInv, NEW E \in SUBSET Execs, Teardown(E)
  PROVE  Gated' /\ Told'
<1>0. at \in [Jobs -> 0..MaxExecs]
  BY TypeParts DEF GateInv, CommandInv, CommandType
<1>1. \A e \in Execs : /\ e \in E => gate'[e] = None /\ blocks'[e] = {}
                       /\ e \notin E => /\ gate'[e] = gate[e] /\ blocks'[e] = blocks[e]
                                        /\ out'[e] = out[e] /\ mirror'[e] = mirror[e]
  BY DEF Teardown
<1>2. Gated'
  BY <1>1 DEF GateInv, Gated
<1>3. ASSUME NEW e \in Execs, blocks'[e] # {} PROVE ToldBy(out[e], mirror[e].blocked, Working(e))'
  <2>1. /\ e \notin E /\ blocks[e] # {} /\ out'[e] = out[e] /\ mirror'[e] = mirror[e]
    BY <1>1, <1>3
  <2>2. ToldBy(out[e], mirror[e].blocked, Working(e))
    BY <2>1 DEF GateInv, Told
  <2>3. Working(e) => Working(e)'
    <3>1. \A i \in Jobs : at[i] = e => at'[i] = e /\ wk'[i] = wk[i]
      BY <2>1 DEF Teardown
    <3>2. QED
      BY <3>1 DEF Working
  <2>4. QED
    BY <2>1, <2>2, <2>3 DEF ToldBy, Behind
<1>4. QED
  BY <1>2, <1>3 DEF Told

\* What main does: it gives a command, does nothing to a thread, or tears one down.
LEMMA MainParts ==
  ASSUME CommandInv, MainStep
  PROVE  \/ \E j \in Jobs, e \in Execs : ph[j] = "idle" /\ Given(j, e) /\ UNCHANGED <<instVars, out>>
         \/ /\ UNCHANGED <<wk, mirror, instVars, out>>
            /\ \A i \in Jobs : wk[i] # "none" => at'[i] = at[i]
         \/ \E E \in SUBSET Execs : Teardown(E)
<1>0. Typed /\ Counted /\ CommandType
  BY TypeParts DEF CommandInv
<1>1. ASSUME NEW j \in Jobs, ph[j] = "idle", Dispatch(j), UNCHANGED <<instVars, out>>
      PROVE  \E e \in Execs : ph[j] = "idle" /\ Given(j, e) /\ UNCHANGED <<instVars, out>>
  BY <1>0, <1>1, DispatchGives
<1>2. CASE (\E c \in Calls : Call(c)) \/ TimerFires \/ TriggerAlarm
  <2>1. ASSUME NEW c \in Calls, Call(c)
        PROVE  \E j \in Jobs : ph[j] = "idle" /\ Dispatch(j) /\ UNCHANGED <<instVars, out>>
    BY <2>1 DEF Call, Jobs
  <2>2. ASSUME NEW t, FireAlarm(t)
        PROVE  \E j \in Jobs : ph[j] = "idle" /\ Dispatch(j) /\ UNCHANGED <<instVars, out>>
    <3>1. \E f \in Firings : ph[f] = "idle" /\ Dispatch(f) /\ UNCHANGED <<instVars, out>>
      BY <2>2 DEF FireAlarm
    <3>2. QED
      BY <3>1 DEF Jobs
  <2>3. TimerFires => \E t : FireAlarm(t)
    BY DEF TimerFires
  <2>4. TriggerAlarm => \E t : FireAlarm(t)
    BY DEF TriggerAlarm
  <2>5. QED
    BY <1>1, <1>2, <2>1, <2>2, <2>3, <2>4
<1>3. CASE CancelAlarm \/ \E f \in Firings : AlarmFails(f)
  <2>1. UNCHANGED <<wk, at, mirror, instVars, out>>
    BY <1>3 DEF CancelAlarm, AlarmFails, execVars, jobVars
  <2>2. QED
    BY <2>1
<1>4. ASSUME NEW c \in Calls, CloseStream(c)
      PROVE  /\ UNCHANGED <<wk, mirror, instVars, out>>
             /\ \A i \in Jobs : wk[i] # "none" => at'[i] = at[i]
  <2>1. /\ UNCHANGED <<wk, mirror, instVars, out>>
        /\ at' = [at EXCEPT ![c] = None] /\ ph[c] # "sent"
    BY <1>4 DEF CloseStream, execVars
  <2>2. c \in Jobs
    BY DEF Jobs
  <2>3. wk[c] = "none"
    BY <1>0, <2>1, <2>2 DEF Counted
  <2>4. QED
    BY <1>0, <2>1, <2>3 DEF CommandType
<1>5. CASE \/ DeleteInstance \/ SetExternalClass \/ EvictIdle \/ Exit
           \/ \E e \in Execs : PollIdle(e) \/ PollExpires(e) \/ OnError(e)
  <2>1. Current \in SUBSET Execs
    BY <1>0, Numbers DEF Current, CommandType
  <2>2. DeleteInstance \/ EvictIdle => \E E \in SUBSET Execs : Teardown(E)
    BY <2>1 DEF DeleteInstance, EvictIdle
  <2>3. SetExternalClass => \E E \in SUBSET Execs : Teardown(E)
    <3> DEFINE E == Current \ {e \in Current : IsActive(e)}
    <3>1. SetExternalClass => Teardown(E)
      BY DEF SetExternalClass
    <3>2. E \in SUBSET Execs
      BY <2>1
    <3> HIDE DEF E
    <3>3. QED
      BY <3>1, <3>2
  <2>4. Exit => Teardown(Execs)
    BY DEF Exit
  <2>5. \A e \in Execs : PollIdle(e) \/ PollExpires(e) \/ OnError(e) => Teardown({e}) /\ {e} \in SUBSET Execs
    BY DEF PollIdle, PollExpires, OnError
  <2>6. QED
    BY <1>5, <2>2, <2>3, <2>4, <2>5
<1>6. QED
  BY <1>2, <1>3, <1>4, <1>5 DEF MainStep

LEMMA MainGates ==
  ASSUME GateInv, Typed', MainStep
  PROVE  Gated' /\ Told'
<1>0. CommandInv
  BY DEF GateInv
<1>1. CASE /\ UNCHANGED <<wk, mirror, instVars, out>>
           /\ \A i \in Jobs : wk[i] # "none" => at'[i] = at[i]
  <2>1. \A e \in Execs : Working(e) => Working(e)'
    BY <1>1 DEF Working
  <2>2. \A e \in Execs : Passes(e)
    BY <1>1, <2>1 DEF Passes
  <2>3. UNCHANGED <<gate, blocks>>
    BY <1>1 DEF instVars
  <2>4. QED
    BY <2>2, <2>3, PassGates
<1>2. QED
  BY <1>0, <1>1, MainParts, GivenGates, DropGates

LEMMA ReceiveGates ==
  ASSUME GateInv, Typed', NEW e \in Execs, ReceiveStep(e)
  PROVE  Gated' /\ Told'
<1> DEFINE m == Head(out[e])
<1>0. Typed /\ CommandType /\ ThreadType
  BY TypeParts DEF GateInv, CommandInv
<1>1. out[e] # <<>> /\ out' = Taken(e) /\ UNCHANGED <<gate, blocks>>
  BY DEF ReceiveStep, OnReady, OnResult, OnAlarmSet, OnState, Arrives, instVars
<1>2. out'[e] = Tail(out[e]) /\ m \in Message /\ \A x \in Execs : x # e => out'[x] = out[x]
  BY <1>0, <1>1, TakenTyped
<1>3. \A x \in Execs : Working(x) => Working(x)'
  <2>1. \A i \in Jobs : wk[i] # "none" => wk'[i] # "none" /\ at'[i] = at[i]
    <3>1. CASE OnReady(e)
      BY <3>1 DEF OnReady
    <3>2. CASE OnAlarmSet(e) \/ OnState(e)
      BY <3>2 DEF OnAlarmSet, OnState, jobVars
    <3>3. CASE OnResult(e)
      <4>1. m.k = "result" /\ m.j \in Jobs
        BY <1>2, <3>3, MessageParts DEF OnResult, Arrives
      <4>2. wk[m.j] = "none"
        <5>1. Answers(out[e], e)
          BY DEF GateInv, CommandInv, Channels, Channel
        <5>2. 1 \in DOMAIN out[e] /\ m = out[e][1]
          <6>1. out[e] \in Seq(Message)
            BY <1>0 DEF ThreadType
          <6>2. QED
            BY <1>1, <6>1, TailParts
        <5>3. QED
          BY <4>1, <5>1, <5>2 DEF Answers
      <4>3. UNCHANGED wk /\ \A i \in Jobs : i # m.j => at'[i] = at[i]
        BY <1>0, <3>3 DEF OnResult, CommandType
      <4>4. QED
        BY <4>2, <4>3
    <3>4. QED
      BY <3>1, <3>2, <3>3 DEF ReceiveStep
  <2>2. QED
    BY <2>1 DEF Working
<1>4. /\ mirror'[e] = IF m.k \in {"state", "result"} THEN m.s ELSE mirror[e]
      /\ \A x \in Execs : x # e => mirror'[x] = mirror[x]
  <2>1. mirror \in [Execs -> Flags]
    BY <1>0 DEF CommandType
  <2>2. CASE OnReady(e) \/ OnAlarmSet(e)
    BY <2>2 DEF OnReady, OnAlarmSet, Arrives, execVars
  <2>3. CASE OnResult(e) \/ OnState(e)
    BY <2>1, <2>3 DEF OnResult, OnState, Arrives
  <2>4. QED
    BY <2>2, <2>3 DEF ReceiveStep
<1>5. \A x \in Execs : Passes(x)
  BY <1>1, <1>2, <1>3, <1>4 DEF Passes
<1>6. QED
  BY <1>1, <1>5, PassGates

LEMMA HandledGates ==
  ASSUME GateInv, Typed', NEW j \in Jobs, Enter(j) \/ Wake(j) \/ Return(j)
  PROVE  Gated' /\ Told'
<1>0. Typed /\ Counted /\ CommandType /\ ThreadType
  BY TypeParts DEF GateInv, CommandInv
<1>1. /\ wk[j] # "none" /\ at[j] \in Execs
      /\ UNCHANGED <<at, mirror, gate, blocks>>
  BY <1>0, StepParts, AtExec DEF execVars, instVars
<1>2. CASE \E res \in Results : Reply(j, res)
  <2>1. PICK res \in Results : Reply(j, res)
    BY <1>2
  <2> DEFINE m == [k |-> "result", j |-> j, res |-> res, s |-> State(at[j])]
  <2>2. wk' = [wk EXCEPT ![j] = "none"] /\ m \in Message /\ Post(at[j], m)
    BY <1>0, <1>1, <2>1, ReplyParts
  <2>3. m.k = "result" /\ (gate[at[j]] # None => Closed(m))
    BY DEF Closed, State
  <2> HIDE DEF m
  <2>4. out'[at[j]] = Append(out[at[j]], m) /\ \A x \in Execs : x # at[j] => out'[x] = out[x]
    BY <1>0, <1>1, <2>2, PostTyped
  <2>5. \A x \in Execs : x # at[j] => (Working(x) => Working(x)')
    BY <1>0, <1>1, <2>2 DEF Working, ThreadType
  <2>6. \A x \in Execs : Passes(x)
    BY <1>1, <2>2, <2>3, <2>4, <2>5 DEF Passes
  <2>7. QED
    BY <1>1, <2>6, PassGates
<1>3. CASE UNCHANGED out /\ \E p \in {"gate", "run"} : wk' = [wk EXCEPT ![j] = p]
  <2>1. \A i \in Jobs : wk[i] # "none" => wk'[i] # "none"
    BY <1>0, <1>3 DEF ThreadType
  <2>2. \A x \in Execs : Working(x) => Working(x)'
    BY <1>1, <2>1 DEF Working
  <2>3. \A x \in Execs : Passes(x)
    BY <1>1, <1>3, <2>2 DEF Passes
  <2>4. QED
    BY <1>1, <2>3, PassGates
<1>4. QED
  BY <1>0, <1>2, <1>3, StepParts

\* A message that leaves the gate of the thread as it is.
LEMMA PostedGates ==
  ASSUME GateInv, Typed', NEW e \in Execs, NEW m \in Message, Post(e, m),
         UNCHANGED <<at, wk, mirror, gate, blocks>>, gate[e] # None => Closed(m)
  PROVE  Gated' /\ Told'
<1>1. out'[e] = Append(out[e], m) /\ \A x \in Execs : x # e => out'[x] = out[x]
  BY PostTyped DEF GateInv, CommandInv
<1>2. \A x \in Execs : Working(x) => Working(x)'
  BY DEF Working
<1>3. \A x \in Execs : Passes(x)
  BY <1>1, <1>2 DEF Passes
<1>4. QED
  BY <1>3, PassGates

\* A gate is closed or opened: the other threads go on.
LEMMA OtherGates ==
  ASSUME GateInv, Typed', NEW e \in Execs, UNCHANGED <<at, wk, mirror>>,
         \A x \in Execs : x # e => out'[x] = out[x] /\ gate'[x] = gate[x] /\ blocks'[x] = blocks[x],
         gate'[e] = None <=> blocks'[e] = {},
         blocks'[e] # {} => ToldBy(out[e], mirror[e].blocked, Working(e))'
  PROVE  Gated' /\ Told'
<1>1. Gated'
  BY DEF GateInv, Gated
<1>2. ASSUME NEW x \in Execs, x # e, blocks'[x] # {} PROVE ToldBy(out[x], mirror[x].blocked, Working(x))'
  <2>1. blocks[x] # {} /\ out'[x] = out[x] /\ mirror'[x] = mirror[x] /\ (Working(x) => Working(x)')
    BY <1>2 DEF Working
  <2>2. Passes(x)
    BY <2>1 DEF Passes
  <2>3. QED
    BY <2>1, <2>2, PassTold
<1>3. QED
  BY <1>1, <1>2 DEF Told

LEMMA BlockGates ==
  ASSUME GateInv, Typed', NEW j \in Jobs, NEW b \in Blocks, Block(j, b)
  PROVE  Gated' /\ Told'
<1>0. Typed /\ Counted /\ ThreadType
  BY TypeParts DEF GateInv, CommandInv
<1>1. wk[j] # "none" /\ at[j] \in Execs
  BY <1>0, AtExec DEF Block
<1>2. PICK e \in Execs : e = at[j]
  BY <1>1
<1>3. PICK m \in Message : m.k = "state" /\ Closed(m) /\ Post(e, m)
  <2>1. [k |-> "state", s |-> [aborted |-> aborted[e], blocked |-> TRUE]] \in Message
    BY <1>0, StateMessages
  <2>2. Post(e, [k |-> "state", s |-> [aborted |-> aborted[e], blocked |-> TRUE]])
    BY <1>2 DEF Block
  <2>3. QED
    BY <2>1, <2>2 DEF Closed
<1>4. out'[e] = Append(out[e], m) /\ \A x \in Execs : x # e => out'[x] = out[x]
  BY <1>0, <1>3, PostTyped
<1>5. /\ UNCHANGED <<at, wk, mirror>>
      /\ gate' = [gate EXCEPT ![e] = b] /\ blocks' = [blocks EXCEPT ![e] = @ \cup {b}]
  BY <1>2 DEF Block, execVars, jobVars
<1>6. b # None
  BY DEF Blocks, None
<1>7. \A x \in Execs : x # e => gate'[x] = gate[x] /\ blocks'[x] = blocks[x]
  BY <1>0, <1>5 DEF ThreadType
<1>8. gate'[e] # None /\ blocks'[e] # {}
  BY <1>0, <1>5, <1>6 DEF ThreadType
<1>9. ToldBy(out[e], mirror[e].blocked, Working(e))'
  <2>1. Working(e)' = TRUE
    BY <1>1, <1>2, <1>5 DEF Working
  <2>2. out[e] \in Seq(Message) /\ mirror'[e].blocked \in BOOLEAN
    BY <1>0, <1>5, TypeParts DEF ThreadType, CommandType, Flags
  <2>3. ToldBy(out'[e], mirror'[e].blocked, TRUE)
    BY <1>3, <1>4, <2>2, ToldNew
  <2>4. QED
    BY <2>1, <2>3 DEF ToldBy, Behind
<1>10. QED
  BY <1>4, <1>5, <1>7, <1>8, <1>9, OtherGates

LEMMA UnblockGates ==
  ASSUME GateInv, Typed', OneBlock, NEW e \in Execs, NEW b \in Blocks, Unblock(e, b)
  PROVE  Gated' /\ Told'
<1>0. Typed /\ ThreadType
  BY TypeParts DEF GateInv, CommandInv
<1>1. /\ b \in blocks[e] /\ UNCHANGED <<at, wk, mirror>>
      /\ gate' = [gate EXCEPT ![e] = None] /\ blocks' = [blocks EXCEPT ![e] = @ \ {b}]
      /\ Post(e, [k |-> "state", s |-> [aborted |-> aborted[e], blocked |-> FALSE]])
  BY DEF Unblock, execVars
<1>2. Blocks \subseteq {b}
  BY Numbers DEF OneBlock, Blocks
<1>3. blocks'[e] = {} /\ gate'[e] = None
  BY <1>0, <1>1, <1>2 DEF ThreadType
<1>4. \A x \in Execs : x # e => gate'[x] = gate[x] /\ blocks'[x] = blocks[x]
  BY <1>0, <1>1 DEF ThreadType
<1>5. \A x \in Execs : x # e => out'[x] = out[x]
  <2>1. [k |-> "state", s |-> [aborted |-> aborted[e], blocked |-> FALSE]] \in Message
    BY <1>0, StateMessages
  <2>2. QED
    BY <1>0, <1>1, <2>1, PostTyped
<1>6. QED
  BY <1>1, <1>3, <1>4, <1>5, OtherGates

LEMMA ConstructGates ==
  ASSUME GateInv, Typed', NEW e \in Execs, Construct(e)
  PROVE  Gated' /\ Told'
<1>0. Typed /\ ThreadType
  BY TypeParts DEF GateInv, CommandInv
<1>1. UNCHANGED <<at, wk, mirror>>
  BY DEF Construct, jobVars
<1>2. CASE /\ Post(e, [k |-> "ready"]) \/ Post(e, [k |-> "error"])
           /\ UNCHANGED instVars
  <2>1. PICK m \in Message : Post(e, m) /\ m.k \in {"ready", "error"}
    BY <1>2, Messages
  <2>2. Closed(m)
    BY <2>1 DEF Closed
  <2>3. UNCHANGED <<gate, blocks>>
    BY <1>2 DEF instVars
  <2>4. QED
    BY <1>1, <2>1, <2>2, <2>3, PostedGates
<1>3. CASE /\ gate' = [gate EXCEPT ![e] = 1]
           /\ blocks' = [blocks EXCEPT ![e] = {1}]
           /\ out' = [out EXCEPT ![e] = <<[k |-> "state", s |-> [aborted |-> FALSE, blocked |-> TRUE]],
                                          [k |-> "ready"]>>]
  <2> DEFINE a == [k |-> "state", s |-> [aborted |-> FALSE, blocked |-> TRUE]]
             r == [k |-> "ready"]
  <2>1. out'[e] = <<a, r>> /\ \A x \in Execs : x # e => out'[x] = out[x]
    BY <1>0, <1>3 DEF ThreadType
  <2>2. /\ gate'[e] # None /\ blocks'[e] # {}
        /\ \A x \in Execs : x # e => gate'[x] = gate[x] /\ blocks'[x] = blocks[x]
    BY <1>0, <1>3 DEF ThreadType, None
  <2>3. a.k = "state" /\ Closed(a) /\ r.k = "ready" /\ Closed(r)
    BY DEF Closed
  <2> HIDE DEF a, r
  <2>4. DOMAIN out'[e] = {1, 2} /\ out'[e][1] = a /\ out'[e][2] = r
    BY <2>1
  <2>5. Behind(out'[e], 1, {"result", "ready"})
    BY <2>3, <2>4 DEF Behind
  <2>6. ToldBy(out'[e], mirror'[e].blocked, Working(e)')
    BY <2>3, <2>4, <2>5 DEF ToldBy
  <2>7. ToldBy(out[e], mirror[e].blocked, Working(e))'
    BY <2>6 DEF ToldBy, Behind
  <2>8. QED
    BY <1>1, <2>1, <2>2, <2>7, OtherGates
<1>4. QED
  BY <1>2, <1>3 DEF Construct

LEMMA ThreadGates ==
  ASSUME GateInv, Typed', OneBlock, ThreadStep
  PROVE  Gated' /\ Told'
<1>0. Typed /\ Counted /\ ThreadType /\ AlarmType
  BY TypeParts DEF GateInv, CommandInv
<1>1. ASSUME NEW j \in Jobs, SetAlarm(j) \/ DeleteAlarm(j) \/ Abort(j) PROVE Gated' /\ Told'
  <2>1. wk[j] # "none" /\ UNCHANGED <<at, wk, mirror, gate, blocks>>
    BY <1>1 DEF SetAlarm, DeleteAlarm, Abort, execVars, jobVars, instVars
  <2>2. at[j] \in Execs
    BY <1>0, <2>1, AtExec
  <2>3. \E m \in Message : Post(at[j], m) /\ (gate[at[j]] # None => Closed(m))
    <3>1. CASE SetAlarm(j)
      <4>1. sets + 1 \in 0..MaxSets
        <5>1. sets < MaxSets /\ sets \in 0..MaxSets /\ MaxSets \in Nat
          BY <1>0, <3>1, Numbers DEF SetAlarm, AlarmType
        <5>2. QED
          BY <5>1
      <4>2. QED
        BY <3>1, <4>1, Messages DEF SetAlarm, Closed
    <3>2. CASE DeleteAlarm(j)
      BY <3>2, Messages, Numbers DEF DeleteAlarm, None, Closed
    <3>3. CASE Abort(j)
      <4>1. [k |-> "state", s |-> [aborted |-> TRUE, blocked |-> gate[at[j]] # None]] \in Message
        BY <1>0, <2>2, StateMessages
      <4>2. Post(at[j], [k |-> "state", s |-> [aborted |-> TRUE, blocked |-> gate[at[j]] # None]])
        BY <3>3 DEF Abort
      <4>3. QED
        BY <4>1, <4>2 DEF Closed
    <3>4. QED
      BY <1>1, <3>1, <3>2, <3>3
  <2>4. QED
    BY <2>1, <2>2, <2>3, PostedGates
<1>2. ASSUME NEW e \in Execs, Crash(e) PROVE Gated' /\ Told'
  <2>1. UNCHANGED <<at, wk, mirror, gate, blocks>> /\ Post(e, [k |-> "error"])
    BY <1>2 DEF Crash, execVars, jobVars, instVars
  <2>2. [k |-> "error"] \in Message /\ Closed([k |-> "error"])
    BY Messages DEF Closed
  <2>3. QED
    BY <2>1, <2>2, PostedGates
<1>3. QED
  BY <1>1, <1>2, HandledGates, BlockGates, UnblockGates, ConstructGates DEF ThreadStep

LEMMA NextGates == ASSUME GateInv, OneBlock, [Next]_vars PROVE GateInv'
<1>1. CommandInv'
  BY NextCommands DEF GateInv
<1>2. Typed'
  BY <1>1 DEF CommandInv
<1>3. CASE UNCHANGED vars
  <2>1. UNCHANGED <<gate, blocks, out, mirror, at, wk>>
    BY <1>3 DEF vars, instVars, execVars, jobVars
  <2>2. \A e \in Execs : Working(e) => Working(e)'
    BY <2>1 DEF Working
  <2>3. \A e \in Execs : Passes(e)
    BY <2>1, <2>2 DEF Passes
  <2>4. QED
    BY <1>1, <1>2, <2>1, <2>3, PassGates DEF GateInv
<1>4. QED
  BY <1>1, <1>2, <1>3, Steps, MainGates, ReceiveGates, ThreadGates DEF GateInv

\* Only a command that passes the gate starts to run.
LEMMA StartParts ==
  ASSUME CommandInv, Next, NEW j \in Jobs, wk[j] # "run", wk'[j] = "run"
  PROVE  Enter(j) \/ Wake(j) \/ Return(j)
<1>0. Typed /\ Counted /\ ThreadType
  BY TypeParts DEF CommandInv
<1>1. CASE MainStep
  <2>1. ASSUME NEW i \in Jobs, NEW e \in Execs, Given(i, e) PROVE wk'[j] \in {wk[j], "posted"}
    BY <1>0, <2>1 DEF Given, ThreadType
  <2>2. ASSUME NEW E \in SUBSET Execs, Teardown(E) PROVE wk'[j] \in {wk[j], "none"}
    BY <2>2 DEF Teardown
  <2>3. QED
    BY <1>1, <2>1, <2>2, MainParts
<1>2. ASSUME NEW e \in Execs, ReceiveStep(e) PROVE FALSE
  <2>1. wk'[j] \in {wk[j], "posted"}
    BY <1>2 DEF ReceiveStep, OnReady, OnResult, OnAlarmSet, OnState, jobVars
  <2>2. QED
    BY <2>1
<1>3. ASSUME NEW i \in Jobs, Enter(i) \/ Wake(i) \/ Return(i) PROVE Enter(j) \/ Wake(j) \/ Return(j)
  <2>1. i # j => wk'[j] = wk[j]
    <3>1. \E p : wk' = [wk EXCEPT ![i] = p]
      <4>1. CASE \E res \in Results : Reply(i, res)
        BY <4>1 DEF Reply
      <4>2. CASE \E p \in {"gate", "run"} : wk' = [wk EXCEPT ![i] = p]
        BY <4>2
      <4>3. QED
        BY <1>0, <1>3, <4>1, <4>2, StepParts
    <3>2. QED
      BY <1>0, <3>1 DEF ThreadType
  <2>2. QED
    BY <1>3, <2>1
<1>4. CASE \/ \E i \in Jobs : SetAlarm(i) \/ DeleteAlarm(i) \/ Abort(i) \/ \E b \in Blocks : Block(i, b)
           \/ \E e \in Execs : Construct(e) \/ Crash(e) \/ \E b \in Blocks : Unblock(e, b)
  <2>1. UNCHANGED wk
    BY <1>4 DEF SetAlarm, DeleteAlarm, Abort, Block, Construct, Crash, Unblock, jobVars
  <2>2. QED
    BY <2>1
<1>5. QED
  BY <1>1, <1>2, <1>3, <1>4, Steps DEF ThreadStep

LEMMA GateHolds ==
  ASSUME GateInv, Next
  PROVE  \A j \in Jobs : wk[j] # "run" /\ wk'[j] = "run" => blocks[at[j]] = {}
<1>0. Typed /\ Counted /\ CommandInv /\ ThreadType
  BY TypeParts DEF GateInv, CommandInv
<1>1. SUFFICES ASSUME NEW j \in Jobs, wk[j] # "run", wk'[j] = "run" PROVE blocks[at[j]] = {}
  OBVIOUS
<1>2. Enter(j) \/ Wake(j) \/ Return(j)
  BY <1>0, <1>1, StartParts
<1>3. at[j] \in Execs
  BY <1>0, <1>2, StepParts, AtExec
<1>4. gate[at[j]] = None
  <2>1. ASSUME NEW res \in Results, Reply(j, res) PROVE FALSE
    <3>1. wk'[j] = "none"
      BY <1>0, <2>1 DEF Reply, ThreadType
    <3>2. QED
      BY <1>1, <3>1
  <2>2. ASSUME NEW p, wk' = [wk EXCEPT ![j] = p] PROVE p = "run"
    BY <1>0, <1>1, <2>2 DEF ThreadType
  <2>3. QED
    BY <1>0, <1>2, <2>1, <2>2, StepParts
<1>5. QED
  BY <1>3, <1>4 DEF GateInv, Gated

\* A reload and an eviction spare what a thread has begun.
LEMMA BegunSpared ==
  ASSUME CommandInv, SetExternalClass \/ EvictIdle \/ \E e \in Execs : PollIdle(e)
  PROVE  \A j \in Jobs : wk[j] # "none" => wk'[j] = wk[j]
<1>0. Typed /\ Counted /\ CommandType
  BY TypeParts DEF CommandInv
<1>1. SUFFICES ASSUME NEW j \in Jobs, wk[j] # "none" PROVE wk'[j] = wk[j]
  OBVIOUS
<1>2. at[j] \in Execs /\ life[at[j]] = "ready" /\ IsActive(at[j])
  BY <1>0, <1>1, AtExec DEF Counted, IsActive
<1>3. CASE SetExternalClass
  <2> DEFINE E == Current \ {e \in Current : IsActive(e)}
  <2>1. Teardown(E)
    BY <1>3 DEF SetExternalClass
  <2>2. at[j] \notin E
    BY <1>2
  <2> HIDE DEF E
  <2>3. QED
    BY <2>1, <2>2 DEF Teardown
<1>4. CASE EvictIdle
  <2>1. Teardown(Current) /\ (life[current] = "gone" \/ ~IsActive(current))
    BY <1>4 DEF EvictIdle
  <2>2. at[j] \notin Current
    BY <1>2, <2>1 DEF Current
  <2>3. QED
    BY <2>1, <2>2 DEF Teardown
<1>5. ASSUME NEW e \in Execs, PollIdle(e) PROVE wk'[j] = wk[j]
  <2>1. Teardown({e}) /\ ~IsActive(e)
    BY <1>5 DEF PollIdle
  <2>2. at[j] \notin {e}
    BY <1>2, <2>1
  <2>3. QED
    BY <2>1, <2>2 DEF Teardown
<1>6. QED
  BY <1>3, <1>4, <1>5

\* An eviction spares an instance inside blockConcurrencyWhile.
LEMMA BlockedSpared ==
  ASSUME GateInv, EvictIdle, NEW e \in Current, life[e] = "ready", ~mirror[e].aborted
  PROVE  blocks[e] = {}
<1>0. CommandInv /\ CommandType /\ ThreadType /\ Counted
  BY TypeParts DEF GateInv, CommandInv
<1>1. e = current /\ e \in Execs
  BY <1>0, Numbers DEF Current, CommandType
<1>2. ~IsActive(e) /\ ~mirror[e].blocked
  BY <1>1 DEF EvictIdle
<1>3. SUFFICES ASSUME blocks[e] # {} PROVE FALSE
  OBVIOUS
<1>4. ToldBy(out[e], mirror[e].blocked, Working(e))
  BY <1>1, <1>3 DEF GateInv, Told
<1>5. PICK i \in DOMAIN out[e] : Working(e) \/ Behind(out[e], i, {"result", "ready"})
  BY <1>2, <1>4 DEF ToldBy
<1>6. CASE Working(e)
  BY <1>0, <1>2, <1>6 DEF Working, Counted, IsActive
<1>7. ASSUME NEW l \in DOMAIN out[e], out[e][l].k \in {"result", "ready"} PROVE FALSE
  <2>1. Answers(out[e], e) /\ ReadyOnce(out[e], life[e])
    BY <1>0, <1>1 DEF CommandInv, Channels, Channel
  <2>2. out[e][l].k = "result"
    BY <1>7, <2>1 DEF ReadyOnce
  <2>3. out[e][l].j \in Jobs
    <3>1. out[e][l] \in Message
      BY <1>0, <1>1 DEF ThreadType
    <3>2. QED
      BY <2>2, <3>1, MessageParts
  <2>4. ph[out[e][l].j] = "sent" /\ at[out[e][l].j] = e
    BY <2>1, <2>2 DEF Answers
  <2>5. QED
    BY <1>2, <2>3, <2>4 DEF IsActive
<1>8. QED
  BY <1>5, <1>6, <1>7 DEF Behind

LEMMA InitGates == ASSUME Init PROVE GateInv
<1>1. Gated /\ Told
  BY DEF Init, Gated, Told
<1>2. QED
  BY <1>1, InitCommands DEF GateInv

(***************************************************************************)
(* Whatever a reload or an eviction finds, it spares each command that its *)
(* thread has begun, however late main knows of it (isActive, _evictIdle,  *)
(* _setExternalClass, _pollThenDispose).                                   *)
(***************************************************************************)
THEOREM BegunSparedAlways ==
  Spec => [][SetExternalClass \/ EvictIdle \/ (\E e \in Execs : PollIdle(e)) =>
               \A j \in Jobs : wk[j] # "none" => wk'[j] = wk[j]]_vars
<1>1. CommandInv /\ [Next]_vars =>
        [SetExternalClass \/ EvictIdle \/ (\E e \in Execs : PollIdle(e)) =>
           \A j \in Jobs : wk[j] # "none" => wk'[j] = wk[j]]_vars
  BY BegunSpared
<1>2. QED
  BY <1>1, CommandsAlways, PTL DEF Spec

(***************************************************************************)
(* An eviction also spares an instance inside blockConcurrencyWhile, and   *)
(* no handler starts there, if one such callback of an instance runs at a  *)
(* time (_evictIdle; _waitForReady, blockConcurrencyWhile).                *)
(***************************************************************************)
THEOREM WorkUndisturbedAlways ==
  ASSUME OneBlock
  PROVE  Spec => WorkUndisturbed
<1>1. Init => GateInv
  BY InitGates
<1>2. GateInv /\ [Next]_vars => GateInv'
  BY NextGates
<1>3. GateInv /\ [Next]_vars =>
        [/\ SetExternalClass \/ EvictIdle \/ (\E e \in Execs : PollIdle(e)) =>
             \A j \in Jobs : wk[j] # "none" => wk'[j] = wk[j]
         /\ EvictIdle =>
             \A e \in Current :
               life[e] = "ready" /\ ~aborted[e] /\ ~mirror[e].aborted => blocks[e] = {}]_vars
  BY BegunSpared, BlockedSpared DEF GateInv
<1>4. GateInv /\ [Next]_vars =>
        [\A j \in Jobs : wk[j] # "run" /\ wk'[j] = "run" => blocks[at[j]] = {}]_vars
  BY GateHolds
<1>5. QED
  BY <1>1, <1>2, <1>3, <1>4, PTL DEF Spec, WorkUndisturbed, WorkSpared, GateExcludes

=============================================================================
