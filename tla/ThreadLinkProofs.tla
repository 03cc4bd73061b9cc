--------------------------- MODULE ThreadLinkProofs ---------------------------
(***************************************************************************)
(* Neither main nor the thread goes on for the other when that one is      *)
(* gone: NobodyLeftWorking, for any operations and any binding calls.      *)
(***************************************************************************)
EXTENDS ThreadLink, SequenceTheorems, TLAPS

(***************************************************************************)
(* NobodyLeftWorking says what holds when a message has been received; why *)
(* it then holds is a matter of what is still on its way and in which      *)
(* order.                                                                  *)
(***************************************************************************)

\* An abort is behind the fetch it is about, however late it was posted.
AbortsIn(line, ops) ==
  \A o \in ops, i \in 1..Len(line) :
    line[i] = Msg("fetch", o) => \E j \in 1..Len(line) : j > i /\ line[j] = Msg("abort", o)
AbortsFollow == ~disposed => AbortsIn(toThread, signal)

\* The cancel of an upload is in front of the error of its call.
CancelsIn(line, calls) ==
  \A c \in calls, i \in 1..Len(line) :
    line[i] = Msg("throw", c) => \E j \in 1..Len(line) : j < i /\ line[j] = Msg("req-cancel", c)
CancelsLead == CancelsIn(toThread, uploading \intersect BindingCalls)

Noticed == ~disposed =>
  \A o \in signal : abortable[o] = "live" => \E j \in 1..Len(toThread) : toThread[j] = Msg("abort", o)

\* Nothing is there of an operation before it has been posted.
NotPosted ==
  \A o \in Ops : op[o] \in {"idle", "called"} =>
    /\ abortable[o] = "none"
    /\ \A i \in 1..Len(toThread) : toThread[i] # Msg("fetch", o)

\* Nor of a call before it was made.
NotMade ==
  \A c \in BindingCalls : answer[c] = "none" =>
    /\ dispatch[c] = "none"
    /\ \A i \in 1..Len(toThread) : toThread[i] # Msg("throw", c)
    /\ \A i \in 1..Len(toMain) : toMain[i] # Msg("call", c)

\* Whose body is read.
Uploads ==
  /\ \A o \in Fetches : o \in uploading => op[o] \in {"posted", "ok"}
  /\ \A c \in BindingCalls : c \in uploading =>
       /\ form[c] = "upload" /\ answer[c] \in {"waiting", "ok"}
       /\ thread \in {"importing", "serving", "failed"}

Phases ==
  /\ disposed => thread = "gone"
  /\ \A o \in Ops : abortable[o] = "live" => thread \in {"serving", "gone"}
  /\ \A o \in signal : op[o] # "idle"

LinkInv ==
  /\ LinkType /\ TornDown /\ Phases /\ Uploads
  /\ NotPosted /\ NotMade /\ AbortsFollow /\ CancelsLead /\ Noticed

-----------------------------------------------------------------------------
(* Messages and channels.                                                  *)

Subjects == Ops \union BindingCalls \union {Link}
ToThreadMsgs == [kind : ToThread, of : Subjects]
ToMainMsgs == [kind : ToMain, of : Subjects]

LEMMA MsgParts ==
  /\ \A k, x : Msg(k, x).kind = k /\ Msg(k, x).of = x
  /\ \A k, x, l, y : Msg(k, x) = Msg(l, y) <=> k = l /\ x = y
  /\ \A m \in ToThreadMsgs \union ToMainMsgs : m = Msg(m.kind, m.of)
  /\ \A k \in ToThread, x \in Subjects : Msg(k, x) \in ToThreadMsgs
  /\ \A k \in ToMain, x \in Subjects : Msg(k, x) \in ToMainMsgs
BY DEF Msg, ToThreadMsgs, ToMainMsgs

LEMMA AppendChannel ==
  ASSUME NEW S, NEW line \in Seq(S), NEW m \in S
  PROVE  /\ Append(line, m) \in Seq(S) /\ Len(Append(line, m)) = Len(line) + 1
         /\ Len(line) \in Nat
         /\ \A i \in 1..Len(line) : i \in 1..(Len(line) + 1) /\ Append(line, m)[i] = line[i]
         /\ Append(line, m)[Len(line) + 1] = m
         /\ \A i \in 1..(Len(line) + 1) : i \in 1..Len(line) \/ i = Len(line) + 1
OBVIOUS

LEMMA TailChannel ==
  ASSUME NEW S, NEW line \in Seq(S), line # <<>>
  PROVE  /\ Tail(line) \in Seq(S) /\ Len(Tail(line)) = Len(line) - 1
         /\ Head(line) \in S /\ Head(line) = line[1] /\ Len(line) \in Nat \ {0}
         /\ \A i \in 1..Len(Tail(line)) : i \in Nat /\ i + 1 \in 1..Len(line) /\ Tail(line)[i] = line[i + 1]
         /\ \A i \in 1..Len(line) : i # 1 => i - 1 \in 1..Len(Tail(line)) /\ Tail(line)[i - 1] = line[i]
<1>1. /\ Tail(line) \in Seq(S) /\ Len(Tail(line)) = Len(line) - 1
      /\ Head(line) \in S /\ Head(line) = line[1]
      /\ \A i \in 1..Len(Tail(line)) : Tail(line)[i] = line[i + 1]
  BY HeadTailProperties
<1>2. Len(line) \in Nat \ {0}
  BY EmptySeq
<1> DEFINE rest == Tail(line)
<1> HIDE DEF rest
<1>3. Len(rest) = Len(line) - 1 /\ \A i \in 1..Len(rest) : rest[i] = line[i + 1]
  BY <1>1 DEF rest
<1>4. ASSUME NEW i \in 1..Len(rest)
      PROVE  i \in Nat /\ i + 1 \in 1..Len(line) /\ rest[i] = line[i + 1]
  BY <1>2, <1>3
<1>5. ASSUME NEW i \in 1..Len(line), i # 1
      PROVE  i - 1 \in 1..Len(rest) /\ rest[i - 1] = line[i]
  <2>1. i - 1 \in 1..Len(rest) /\ (i - 1) + 1 = i
    BY <1>2, <1>3, <1>5
  <2>2. QED
    BY <1>3, <2>1
<1>6. QED
  BY <1>1, <1>2, <1>4, <1>5 DEF rest

LEMMA LinkTypes ==
  ASSUME LinkType
  PROVE  /\ toThread \in Seq(ToThreadMsgs) /\ toMain \in Seq(ToMainMsgs)
         /\ Len(toThread) \in Nat /\ Len(toMain) \in Nat
BY DEF LinkType, ToThreadMsgs, ToMainMsgs, Subjects

-----------------------------------------------------------------------------
(* NobodyLeftWorking follows.                                              *)

LEMMA InvImplies == LinkInv => NobodyLeftWorking
<1>1. SUFFICES ASSUME LinkInv PROVE NobodyLeftWorking
  OBVIOUS
<1>2. DOMAIN toThread = 1..Len(toThread)
  BY <1>1, LinkTypes, LenProperties DEF LinkInv
<1>3. AbortNoticed
  BY <1>1, <1>2 DEF LinkInv, Noticed, AbortNoticed
<1>4. FailureStopsUpload
  BY <1>1 DEF LinkInv, Uploads, FailureStopsUpload
<1>5. QED
  BY <1>1, <1>3, <1>4 DEF LinkInv, NobodyLeftWorking

-----------------------------------------------------------------------------
(* Steps that leave the way to the thread alone.                           *)

\* What such a step has to see to.
LEMMA QuietOrder ==
  ASSUME LinkInv, toThread' = toThread, disposed' = disposed, signal' = signal,
         \A o \in Ops : abortable'[o] = "live" => abortable[o] = "live",
         \A c \in BindingCalls : c \in uploading' /\ c \notin uploading => answer[c] = "none"
  PROVE  AbortsFollow' /\ CancelsLead' /\ Noticed'
<1>1. LinkType /\ AbortsFollow /\ CancelsLead /\ Noticed /\ NotMade /\ signal \subseteq Ops
  BY DEF LinkInv, LinkType, Ops
<1>2. AbortsFollow'
  BY <1>1 DEF AbortsFollow
<1>3. CancelsLead'
  <2>1. SUFFICES ASSUME NEW c \in uploading' \intersect BindingCalls, NEW i \in 1..Len(toThread),
                        toThread[i] = Msg("throw", c)
                 PROVE  \E j \in 1..Len(toThread) : j < i /\ toThread[j] = Msg("req-cancel", c)
    BY DEF CancelsLead, CancelsIn
  <2>2. c \in uploading
    BY <1>1, <2>1 DEF NotMade
  <2>3. QED
    BY <1>1, <2>1, <2>2 DEF CancelsLead, CancelsIn
<1>4. Noticed'
  BY <1>1 DEF Noticed
<1>5. QED
  BY <1>2, <1>3, <1>4

LEMMA InitCase == LinkInit => LinkInv
<1>1. SUFFICES ASSUME LinkInit PROVE LinkInv
  OBVIOUS
<1>2. LinkType
  <2>1. <<>> \in Seq([kind : ToThread, of : Ops \union BindingCalls \union {Link}])
        /\ <<>> \in Seq([kind : ToMain, of : Ops \union BindingCalls \union {Link}])
    BY EmptySeq
  <2>2. /\ [o \in Ops |-> "idle"] \in [Ops -> {"idle", "called", "posted", "ok", "error"}]
        /\ [o \in Ops |-> "none"] \in [Ops -> {"none", "running", "over"}]
        /\ [o \in Ops |-> "none"] \in [Ops -> {"none", "live", "aborted"}]
        /\ [c \in BindingCalls |-> "call"] \in [BindingCalls -> Forms]
        /\ [c \in BindingCalls |-> "import"] \in [BindingCalls -> Ops \union {"import"}]
        /\ [c \in BindingCalls |-> "none"] \in [BindingCalls -> {"none", "waiting", "ok", "error"}]
        /\ [c \in BindingCalls |-> "none"] \in [BindingCalls -> {"none", "running", "over"}]
    BY DEF Forms
  <2>3. QED
    BY <1>1, <2>1, <2>2 DEF LinkInit, LinkType
<1>3. TornDown /\ Phases /\ Uploads /\ AbortsFollow /\ CancelsLead /\ Noticed
  BY <1>1 DEF LinkInit, TornDown, Phases, Uploads, AbortsFollow, AbortsIn, CancelsLead, CancelsIn, Noticed
<1>4. NotPosted /\ NotMade
  BY <1>1 DEF LinkInit, NotPosted, NotMade
<1>5. QED
  BY <1>2, <1>3, <1>4 DEF LinkInv

LEMMA NewThreadCase ==
  ASSUME LinkInv, NewThread
  PROVE  LinkInv'
<1>1. /\ thread = "none" /\ thread' = "boot" /\ toMain' = <<Msg("need-init", Link)>>
      /\ UNCHANGED <<boot, disposed, op, signal, job, abortable, flowing, form, caller, answer, dispatch,
                     holding, toThread, uploading>>
  BY DEF NewThread, mainVars, callVars
<1>2. /\ LinkType /\ TornDown /\ Phases /\ Uploads /\ NotPosted /\ NotMade /\ ~disposed
  BY <1>1 DEF LinkInv, Phases
<1>3. Msg("need-init", Link) \in ToMainMsgs /\ \A c : Msg("need-init", Link) # Msg("call", c)
  BY MsgParts DEF ToMain, Subjects
<1>4. toMain' \in Seq(ToMainMsgs) /\ \A c : \A i \in 1..Len(toMain') : toMain'[i] # Msg("call", c)
  BY <1>1, <1>3
<1>5. LinkType'
  BY <1>1, <1>2, <1>4 DEF LinkType, ToMainMsgs, Subjects
<1>6. TornDown' /\ Phases' /\ Uploads' /\ NotPosted'
  BY <1>1, <1>2 DEF TornDown, Phases, Uploads, NotPosted
<1>7. NotMade'
  BY <1>1, <1>2, <1>4 DEF NotMade
<1>8. AbortsFollow' /\ CancelsLead' /\ Noticed'
  BY <1>1, QuietOrder
<1>9. QED
  BY <1>5, <1>6, <1>7, <1>8 DEF LinkInv

LEMMA ExecuteCase ==
  ASSUME LinkInv, NEW x \in Ops, Execute(x)
  PROVE  LinkInv'
<1>1. /\ op[x] = "idle" /\ op' = [op EXCEPT ![x] = IF disposed THEN "error" ELSE "called"]
      /\ UNCHANGED <<boot, disposed, signal, thread, job, abortable, flowing, form, caller, answer, dispatch,
                     holding, toThread, toMain, uploading>>
  BY DEF Execute, threadVars, callVars
<1>2. LinkType /\ TornDown /\ Phases /\ Uploads /\ NotPosted /\ NotMade
  BY DEF LinkInv
<1>3. /\ op' \in [Ops -> {"idle", "called", "posted", "ok", "error"}] /\ op'[x] \in {"error", "called"}
      /\ \A o \in Ops : o # x => op'[o] = op[o]
      /\ signal \subseteq Ops /\ Fetches \subseteq Ops
  BY <1>1, <1>2 DEF LinkType, Ops
<1>4. LinkType'
  BY <1>1, <1>2, <1>3 DEF LinkType
<1>5. TornDown'
  BY <1>1, <1>2, <1>3 DEF TornDown
<1>6. Phases'
  BY <1>1, <1>2, <1>3 DEF Phases
<1>7. Uploads'
  BY <1>1, <1>2, <1>3 DEF Uploads
<1>8. NotPosted' /\ NotMade'
  BY <1>1, <1>2, <1>3 DEF NotPosted, NotMade
<1>9. AbortsFollow' /\ CancelsLead' /\ Noticed'
  BY <1>1, QuietOrder
<1>10. QED
  BY <1>4, <1>5, <1>6, <1>7, <1>8, <1>9 DEF LinkInv

\* The thread is gone, and with it all that was on its way.
LEMMA FailAllCase ==
  ASSUME LinkInv, FailAll
  PROVE  LinkInv'
<1>1. /\ disposed' = TRUE /\ boot' = IF boot = "waiting" THEN "failed" ELSE boot
      /\ op' = [o \in Ops |-> IF op[o] = "posted" THEN "error" ELSE op[o]]
      /\ thread' = "gone" /\ flowing' = {} /\ uploading' = {} /\ holding' = {}
      /\ toThread' = <<>> /\ toMain' = <<>>
      /\ UNCHANGED <<signal, job, abortable, form, caller, answer, dispatch>>
  BY DEF FailAll
<1>2. LinkType /\ Phases /\ NotPosted /\ NotMade /\ signal \subseteq Ops
  BY DEF LinkInv, LinkType, Ops
<1>3. /\ toThread' \in Seq([kind : ToThread, of : Ops \union BindingCalls \union {Link}])
      /\ toMain' \in Seq([kind : ToMain, of : Ops \union BindingCalls \union {Link}])
      /\ Len(toThread') = 0 /\ Len(toMain') = 0
  BY <1>1, EmptySeq
<1>4. /\ op' \in [Ops -> {"idle", "called", "posted", "ok", "error"}]
      /\ \A o \in Ops : op'[o] # "posted" /\ (op'[o] \in {"idle", "called"} => op'[o] = op[o])
      /\ \A o \in Ops : op'[o] = "idle" => op[o] = "idle"
  BY <1>1, <1>2 DEF LinkType
<1>5. LinkType'
  BY <1>1, <1>2, <1>3, <1>4 DEF LinkType
<1>6. TornDown' /\ Phases' /\ Uploads'
  BY <1>1, <1>2, <1>4 DEF TornDown, Phases, Uploads
<1>7. NotPosted' /\ NotMade'
  BY <1>1, <1>2, <1>3, <1>4 DEF NotPosted, NotMade
<1>8. AbortsFollow' /\ CancelsLead' /\ Noticed'
  BY <1>1 DEF AbortsFollow, CancelsLead, CancelsIn, Noticed
<1>9. QED
  BY <1>5, <1>6, <1>7, <1>8 DEF LinkInv

\* A message for main that is not a call.
LEMMA TellsMain ==
  ASSUME LinkInv, NEW m \in ToMainMsgs, Tell(m), m.kind # "call"
  PROVE  /\ toMain' \in Seq(ToMainMsgs)
         /\ \A c : (\A i \in 1..Len(toMain) : toMain[i] # Msg("call", c)) =>
                     \A i \in 1..Len(toMain') : toMain'[i] # Msg("call", c)
<1>1. toMain \in Seq(ToMainMsgs) /\ toMain' = Append(toMain, m) /\ \A c : m # Msg("call", c)
  BY LinkTypes, MsgParts DEF LinkInv, Tell
<1>2. QED
  BY <1>1, AppendChannel

LEMMA ImportEndsCase ==
  ASSUME LinkInv, ImportEnds
  PROVE  LinkInv'
<1>1. /\ thread = "importing" /\ thread' \in {"serving", "failed"}
      /\ Tell(Msg("ready", Link)) \/ Tell(Msg("init-error", Link))
      /\ UNCHANGED <<boot, disposed, op, signal, job, abortable, flowing, form, caller, answer, dispatch,
                     holding, toThread, uploading>>
  BY DEF ImportEnds, mainVars, callVars
<1>2. LinkType /\ TornDown /\ Phases /\ Uploads /\ NotPosted /\ NotMade
  BY DEF LinkInv
<1>3. /\ toMain' \in Seq(ToMainMsgs)
      /\ \A c : (\A i \in 1..Len(toMain) : toMain[i] # Msg("call", c)) =>
                  \A i \in 1..Len(toMain') : toMain'[i] # Msg("call", c)
  <2>1. /\ Msg("ready", Link) \in ToMainMsgs /\ Msg("ready", Link).kind # "call"
        /\ Msg("init-error", Link) \in ToMainMsgs /\ Msg("init-error", Link).kind # "call"
    BY MsgParts DEF ToMain, Subjects
  <2>2. QED
    BY <1>1, <2>1, TellsMain
<1>4. LinkType'
  BY <1>1, <1>2, <1>3 DEF LinkType, ToMainMsgs, Subjects
<1>5. TornDown' /\ Phases' /\ Uploads' /\ NotPosted'
  BY <1>1, <1>2 DEF TornDown, Phases, Uploads, NotPosted
<1>6. NotMade'
  BY <1>1, <1>2, <1>3 DEF NotMade
<1>7. AbortsFollow' /\ CancelsLead' /\ Noticed'
  BY <1>1, QuietOrder
<1>8. QED
  BY <1>4, <1>5, <1>6, <1>7 DEF LinkInv

LEMMA ThreadCrashCase ==
  ASSUME LinkInv, ThreadCrash
  PROVE  LinkInv'
<1>1. /\ Tell(Msg("crash", Link))
      /\ UNCHANGED <<boot, disposed, op, signal, thread, job, abortable, flowing, form, caller, answer, dispatch,
                     holding, toThread, uploading>>
  BY DEF ThreadCrash, mainVars, threadVars, callVars
<1>2. LinkType /\ TornDown /\ Phases /\ Uploads /\ NotPosted /\ NotMade
  BY DEF LinkInv
<1>3. /\ toMain' \in Seq(ToMainMsgs)
      /\ \A c : (\A i \in 1..Len(toMain) : toMain[i] # Msg("call", c)) =>
                  \A i \in 1..Len(toMain') : toMain'[i] # Msg("call", c)
  <2>1. Msg("crash", Link) \in ToMainMsgs /\ Msg("crash", Link).kind # "call"
    BY MsgParts DEF ToMain, Subjects
  <2>2. QED
    BY <1>1, <2>1, TellsMain
<1>4. LinkType'
  BY <1>1, <1>2, <1>3 DEF LinkType, ToMainMsgs, Subjects
<1>5. TornDown' /\ Phases' /\ Uploads' /\ NotPosted'
  BY <1>1, <1>2 DEF TornDown, Phases, Uploads, NotPosted
<1>6. NotMade'
  BY <1>1, <1>2, <1>3 DEF NotMade
<1>7. AbortsFollow' /\ CancelsLead' /\ Noticed'
  BY <1>1, QuietOrder
<1>8. QED
  BY <1>4, <1>5, <1>6, <1>7 DEF LinkInv

LEMMA JobEndsCase ==
  ASSUME LinkInv, NEW x \in Ops, JobEnds(x)
  PROVE  LinkInv'
<1>1. /\ job' = [job EXCEPT ![x] = "over"]
      /\ Tell(Msg("error", x)) \/ Tell(Msg("ok", x))
      /\ flowing' = flowing \/ (flowing' = flowing \union {x} /\ x \in Fetches)
      /\ abortable' = abortable \/ abortable' = [abortable EXCEPT ![x] = "none"]
      /\ UNCHANGED <<boot, disposed, op, signal, thread, form, caller, answer, dispatch,
                     holding, toThread, uploading>>
  BY DEF JobEnds, mainVars, callVars
<1>2. LinkType /\ TornDown /\ Phases /\ Uploads /\ NotPosted /\ NotMade
  BY DEF LinkInv
<1>3. /\ toMain' \in Seq(ToMainMsgs)
      /\ \A c : (\A i \in 1..Len(toMain) : toMain[i] # Msg("call", c)) =>
                  \A i \in 1..Len(toMain') : toMain'[i] # Msg("call", c)
  <2>1. /\ Msg("error", x) \in ToMainMsgs /\ Msg("error", x).kind # "call"
        /\ Msg("ok", x) \in ToMainMsgs /\ Msg("ok", x).kind # "call"
    BY MsgParts DEF ToMain, Subjects
  <2>2. QED
    BY <1>1, <2>1, TellsMain
<1>4. /\ abortable' \in [Ops -> {"none", "live", "aborted"}]
      /\ \A o \in Ops : abortable'[o] = abortable[o] \/ abortable'[o] = "none"
  BY <1>1, <1>2 DEF LinkType
<1>5. LinkType'
  BY <1>1, <1>2, <1>3, <1>4 DEF LinkType, ToMainMsgs, Subjects
<1>6. TornDown' /\ Phases' /\ Uploads' /\ NotPosted'
  BY <1>1, <1>2, <1>4 DEF TornDown, Phases, Uploads, NotPosted
<1>7. NotMade'
  BY <1>1, <1>2, <1>3 DEF NotMade
<1>8. AbortsFollow' /\ CancelsLead' /\ Noticed'
  BY <1>1, <1>4, QuietOrder
<1>9. QED
  BY <1>5, <1>6, <1>7, <1>8 DEF LinkInv

LEMMA ResponseOverCase ==
  ASSUME LinkInv, NEW x \in Ops, ResponseOver(x)
  PROVE  LinkInv'
<1>1. /\ flowing' = flowing \ {x} /\ abortable' = [abortable EXCEPT ![x] = "none"]
      /\ UNCHANGED <<boot, disposed, op, signal, thread, job, form, caller, answer, dispatch,
                     holding, toThread, toMain, uploading>>
  BY DEF ResponseOver, mainVars, callVars
<1>2. LinkType /\ TornDown /\ Phases /\ Uploads /\ NotPosted /\ NotMade
  BY DEF LinkInv
<1>3. /\ abortable' \in [Ops -> {"none", "live", "aborted"}]
      /\ \A o \in Ops : abortable'[o] = abortable[o] \/ abortable'[o] = "none"
  BY <1>1, <1>2 DEF LinkType
<1>4. LinkType'
  BY <1>1, <1>2, <1>3 DEF LinkType
<1>5. TornDown' /\ Phases' /\ Uploads' /\ NotPosted' /\ NotMade'
  BY <1>1, <1>2, <1>3 DEF TornDown, Phases, Uploads, NotPosted, NotMade
<1>6. AbortsFollow' /\ CancelsLead' /\ Noticed'
  BY <1>1, <1>3, QuietOrder
<1>7. QED
  BY <1>4, <1>5, <1>6 DEF LinkInv

LEMMA BodyOverCase ==
  ASSUME LinkInv, BodyOver
  PROVE  LinkInv'
<1>1. /\ holding' \subseteq holding /\ uploading' \subseteq uploading
      /\ UNCHANGED <<boot, disposed, op, signal, thread, job, abortable, flowing, form, caller, answer, dispatch,
                     toThread, toMain>>
  BY DEF BodyOver, mainVars, threadVars
<1>2. LinkType /\ TornDown /\ Phases /\ Uploads /\ NotPosted /\ NotMade
  BY DEF LinkInv
<1>3. LinkType'
  BY <1>1, <1>2 DEF LinkType
<1>4. TornDown' /\ Phases' /\ Uploads' /\ NotPosted' /\ NotMade'
  BY <1>1, <1>2 DEF TornDown, Phases, Uploads, NotPosted, NotMade
<1>5. AbortsFollow' /\ CancelsLead' /\ Noticed'
  BY <1>1, QuietOrder
<1>6. QED
  BY <1>3, <1>4, <1>5 DEF LinkInv

LEMMA MakeCallCase ==
  ASSUME LinkInv, NEW x \in BindingCalls, NEW who \in Ops \union {"import"}, NEW f \in Forms,
         MakeCall(x, who, f)
  PROVE  LinkInv'
<1>1. /\ answer[x] = "none" /\ Running(who)
      /\ form' = [form EXCEPT ![x] = f] /\ caller' = [caller EXCEPT ![x] = who]
      /\ \/ /\ answer' = [answer EXCEPT ![x] = "error"] /\ toMain' = toMain /\ uploading' = uploading
         \/ /\ answer' = [answer EXCEPT ![x] = "waiting"] /\ Tell(Msg("call", x))
            /\ uploading' = IF f = "upload" THEN uploading \union {x} ELSE uploading
      /\ UNCHANGED <<boot, disposed, op, signal, thread, job, abortable, flowing, dispatch, holding, toThread>>
  BY DEF MakeCall, mainVars, threadVars
<1>2. LinkType /\ TornDown /\ Phases /\ Uploads /\ NotPosted /\ NotMade
  BY DEF LinkInv
<1>3. thread \in {"importing", "serving"} /\ ~disposed
  BY <1>1, <1>2 DEF Running, Phases
<1>4. x \notin uploading /\ x \notin Fetches
  BY <1>1, <1>2, LinkAssumption DEF Uploads
<1>5. /\ form' \in [BindingCalls -> Forms] /\ caller' \in [BindingCalls -> Ops \union {"import"}]
      /\ answer' \in [BindingCalls -> {"none", "waiting", "ok", "error"}]
      /\ form'[x] = f /\ answer'[x] \in {"waiting", "error"}
      /\ \A c \in BindingCalls : c # x => form'[c] = form[c] /\ answer'[c] = answer[c]
  BY <1>1, <1>2, SMTT(30) DEF LinkType
<1>6. /\ toMain' \in Seq(ToMainMsgs)
      /\ \A c : c # x /\ (\A i \in 1..Len(toMain) : toMain[i] # Msg("call", c)) =>
                  \A i \in 1..Len(toMain') : toMain'[i] # Msg("call", c)
  <2>1. toMain \in Seq(ToMainMsgs) /\ Msg("call", x) \in ToMainMsgs
    BY <1>2, LinkTypes, MsgParts DEF ToMain, Subjects
  <2>2. \A c : c # x => Msg("call", x) # Msg("call", c)
    BY MsgParts
  <2>3. toMain' = toMain \/ toMain' = Append(toMain, Msg("call", x))
    BY <1>1 DEF Tell
  <2>4. QED
    BY <2>1, <2>2, <2>3, AppendChannel
<1>7. \A y \in uploading' : y \in uploading \/ (y = x /\ f = "upload" /\ answer'[x] = "waiting")
  BY <1>1, <1>2 DEF LinkType
<1>8. LinkType'
  <2>1. uploading' \subseteq Fetches \union BindingCalls
    BY <1>2, <1>7 DEF LinkType
  <2>2. QED
    BY <1>1, <1>2, <1>5, <1>6, <2>1 DEF LinkType, ToMainMsgs, Subjects
<1>9. TornDown' /\ Phases' /\ NotPosted'
  BY <1>1, <1>2, <1>3 DEF TornDown, Phases, NotPosted
<1>10. Uploads'
  BY <1>1, <1>2, <1>3, <1>4, <1>5, <1>7 DEF Uploads
<1>11. NotMade'
  BY <1>1, <1>2, <1>5, <1>6 DEF NotMade
<1>12. AbortsFollow' /\ CancelsLead' /\ Noticed'
  BY <1>1, <1>7, QuietOrder
<1>13. QED
  BY <1>8, <1>9, <1>10, <1>11, <1>12 DEF LinkInv

-----------------------------------------------------------------------------
(* Steps that post to the thread.                                          *)

LEMMA AppendAborts ==
  ASSUME NEW line \in Seq(ToThreadMsgs), NEW m \in ToThreadMsgs, NEW ops, AbortsIn(line, ops)
  PROVE  /\ (\A o \in ops : m # Msg("fetch", o)) => AbortsIn(Append(line, m), ops)
         /\ \A x : m = Msg("abort", x) => AbortsIn(Append(line, m), ops \union {x})
<1> DEFINE longer == Append(line, m)
<1>1. /\ Len(longer) = Len(line) + 1 /\ Len(line) \in Nat
      /\ \A i \in 1..Len(line) : i \in 1..Len(longer) /\ longer[i] = line[i]
      /\ longer[Len(line) + 1] = m /\ Len(line) + 1 \in 1..Len(longer)
      /\ \A i \in 1..Len(longer) : i \in 1..Len(line) \/ i = Len(line) + 1
  BY AppendChannel
<1> HIDE DEF longer
<1>2. ASSUME \A o \in ops : m # Msg("fetch", o) PROVE AbortsIn(longer, ops)
  <2>1. SUFFICES ASSUME NEW o \in ops, NEW i \in 1..Len(longer), longer[i] = Msg("fetch", o)
                 PROVE  \E j \in 1..Len(longer) : j > i /\ longer[j] = Msg("abort", o)
    BY DEF AbortsIn
  <2>2. i \in 1..Len(line) /\ line[i] = Msg("fetch", o)
    BY <1>1, <1>2, <2>1
  <2>3. PICK j \in 1..Len(line) : j > i /\ line[j] = Msg("abort", o)
    BY <2>2 DEF AbortsIn
  <2>4. QED
    BY <1>1, <2>3
<1>3. ASSUME NEW x, m = Msg("abort", x) PROVE AbortsIn(longer, ops \union {x})
  <2>1. SUFFICES ASSUME NEW o \in ops \union {x}, NEW i \in 1..Len(longer), longer[i] = Msg("fetch", o)
                 PROVE  \E j \in 1..Len(longer) : j > i /\ longer[j] = Msg("abort", o)
    BY DEF AbortsIn
  <2>2. m # Msg("fetch", o)
    BY <1>3, MsgParts
  <2>3. i \in 1..Len(line) /\ line[i] = Msg("fetch", o)
    BY <1>1, <2>1, <2>2
  <2>4. CASE o = x
    BY <1>1, <1>3, <2>3, <2>4
  <2>5. CASE o \in ops
    <3>1. PICK j \in 1..Len(line) : j > i /\ line[j] = Msg("abort", o)
      BY <2>3, <2>5 DEF AbortsIn
    <3>2. QED
      BY <1>1, <3>1
  <2>6. QED
    BY <2>4, <2>5
<1>4. QED
  BY <1>2, <1>3 DEF longer

LEMMA AppendCancels ==
  ASSUME NEW line \in Seq(ToThreadMsgs), NEW m \in ToThreadMsgs, NEW calls, CancelsIn(line, calls),
         \A c \in calls : m = Msg("throw", c) => \E j \in 1..Len(line) : line[j] = Msg("req-cancel", c)
  PROVE  CancelsIn(Append(line, m), calls)
<1> DEFINE longer == Append(line, m)
<1>1. /\ Len(longer) = Len(line) + 1 /\ Len(line) \in Nat
      /\ \A i \in 1..Len(line) : i \in 1..Len(longer) /\ longer[i] = line[i]
      /\ longer[Len(line) + 1] = m /\ Len(line) + 1 \in 1..Len(longer)
      /\ \A i \in 1..Len(longer) : i \in 1..Len(line) \/ i = Len(line) + 1
  BY AppendChannel
<1> HIDE DEF longer
<1>2. SUFFICES ASSUME NEW c \in calls, NEW i \in 1..Len(longer), longer[i] = Msg("throw", c)
               PROVE  \E j \in 1..Len(longer) : j < i /\ longer[j] = Msg("req-cancel", c)
  BY DEF CancelsIn, longer
<1>3. CASE i \in 1..Len(line)
  <2>1. PICK j \in 1..Len(line) : j < i /\ line[j] = Msg("req-cancel", c)
    BY <1>1, <1>2, <1>3 DEF CancelsIn
  <2>2. QED
    BY <1>1, <2>1
<1>4. CASE i = Len(line) + 1
  <2>1. PICK j \in 1..Len(line) : line[j] = Msg("req-cancel", c)
    BY <1>1, <1>2, <1>4
  <2>2. j < i /\ j \in 1..Len(longer) /\ longer[j] = Msg("req-cancel", c)
    BY <1>1, <1>4, <2>1
  <2>3. QED
    BY <2>2
<1>5. QED
  BY <1>1, <1>2, <1>3, <1>4

\* Who posts a message that is neither a fetch nor a throw.
LEMMA PostsOther ==
  ASSUME LinkInv, NEW m \in ToThreadMsgs, SendToThread(m), m.kind \notin {"fetch", "throw"}
  PROVE  /\ toThread' \in Seq(ToThreadMsgs)
         /\ (~disposed => AbortsIn(toThread', signal))
         /\ \A x : m = Msg("abort", x) /\ ~disposed => AbortsIn(toThread', signal \union {x})
         /\ CancelsIn(toThread', uploading \intersect BindingCalls)
         /\ \A x : (\E j \in 1..Len(toThread) : toThread[j] = x) => \E j \in 1..Len(toThread') : toThread'[j] = x
         /\ \E j \in 1..Len(toThread') : toThread'[j] = m
         /\ \A x : x.kind \in {"fetch", "throw"} /\ (\A i \in 1..Len(toThread) : toThread[i] # x) =>
                     \A i \in 1..Len(toThread') : toThread'[i] # x
<1>1. /\ toThread \in Seq(ToThreadMsgs) /\ toThread' = Append(toThread, m)
      /\ \A x : m # Msg("fetch", x) /\ m # Msg("throw", x)
      /\ ~disposed => AbortsIn(toThread, signal)
      /\ CancelsIn(toThread, uploading \intersect BindingCalls)
  BY LinkTypes, MsgParts DEF LinkInv, SendToThread, AbortsFollow, CancelsLead
<1>2. /\ toThread' \in Seq(ToThreadMsgs) /\ Len(toThread') = Len(toThread) + 1 /\ Len(toThread) \in Nat
      /\ \A i \in 1..Len(toThread) : i \in 1..Len(toThread') /\ toThread'[i] = toThread[i]
      /\ toThread'[Len(toThread) + 1] = m /\ Len(toThread) + 1 \in 1..Len(toThread')
      /\ \A i \in 1..Len(toThread') : i \in 1..Len(toThread) \/ i = Len(toThread) + 1
  BY <1>1, AppendChannel
<1>3. /\ (~disposed => AbortsIn(toThread', signal))
      /\ \A x : m = Msg("abort", x) /\ ~disposed => AbortsIn(toThread', signal \union {x})
  BY <1>1, AppendAborts
<1>4. CancelsIn(toThread', uploading \intersect BindingCalls)
  BY <1>1, AppendCancels
<1>5. \A x : x.kind \in {"fetch", "throw"} => x # m
  OBVIOUS
<1>6. QED
  BY <1>2, <1>3, <1>4, <1>5

LEMMA ClientAbortsCase ==
  ASSUME LinkInv, NEW x \in Ops, ClientAborts(x)
  PROVE  LinkInv'
<1>1. /\ x \in Fetches \ signal /\ op[x] \in {"called", "posted", "ok"} /\ signal' = signal \union {x}
      /\ \/ op[x] # "called" /\ ~disposed /\ SendToThread(Msg("abort", x))
         \/ (op[x] = "called" \/ disposed) /\ toThread' = toThread
      /\ UNCHANGED <<boot, disposed, op, thread, job, abortable, flowing, form, caller, answer, dispatch,
                     holding, toMain, uploading>>
  BY DEF ClientAborts, threadVars, callVars
<1>2. LinkType /\ TornDown /\ Phases /\ Uploads /\ NotPosted /\ NotMade /\ AbortsFollow /\ CancelsLead /\ Noticed
  BY DEF LinkInv
<1>3. /\ Msg("abort", x) \in ToThreadMsgs /\ Msg("abort", x).kind = "abort"
      /\ \A y : Msg("fetch", y).kind = "fetch" /\ Msg("throw", y).kind = "throw"
  BY MsgParts DEF ToThread, Subjects
<1>4. TornDown' /\ Phases' /\ Uploads'
  BY <1>1, <1>2 DEF TornDown, Phases, Uploads
<1>5. CASE op[x] # "called" /\ ~disposed /\ SendToThread(Msg("abort", x))
  <2>1. /\ toThread' \in Seq(ToThreadMsgs)
        /\ AbortsIn(toThread', signal \union {x})
        /\ CancelsIn(toThread', uploading \intersect BindingCalls)
        /\ \A y : (\E j \in 1..Len(toThread) : toThread[j] = y) => \E j \in 1..Len(toThread') : toThread'[j] = y
        /\ \E j \in 1..Len(toThread') : toThread'[j] = Msg("abort", x)
        /\ \A y : y.kind \in {"fetch", "throw"} /\ (\A i \in 1..Len(toThread) : toThread[i] # y) =>
                     \A i \in 1..Len(toThread') : toThread'[i] # y
    BY <1>3, <1>5, PostsOther
  <2>2. LinkType'
    BY <1>1, <1>2, <2>1 DEF LinkType, ToThreadMsgs, Subjects
  <2>3. NotPosted' /\ NotMade'
    BY <1>1, <1>2, <1>3, <2>1 DEF NotPosted, NotMade
  <2>4. AbortsFollow' /\ CancelsLead' /\ Noticed'
    BY <1>1, <1>2, <2>1 DEF AbortsFollow, CancelsLead, Noticed
  <2>5. QED
    BY <1>4, <2>2, <2>3, <2>4 DEF LinkInv
<1>6. CASE (op[x] = "called" \/ disposed) /\ toThread' = toThread
  <2>1. LinkType'
    BY <1>1, <1>2, <1>6 DEF LinkType
  <2>2. NotPosted' /\ NotMade'
    BY <1>1, <1>2, <1>6 DEF NotPosted, NotMade
  <2>3. CancelsLead'
    BY <1>1, <1>2, <1>6 DEF CancelsLead
  <2>4. CASE disposed
    BY <1>1, <1>4, <2>1, <2>2, <2>3, <2>4 DEF LinkInv, AbortsFollow, Noticed
  <2>5. CASE op[x] = "called"
    <3>1. abortable[x] = "none" /\ \A i \in 1..Len(toThread) : toThread[i] # Msg("fetch", x)
      BY <1>2, <2>5 DEF NotPosted
    <3>2. AbortsFollow' /\ Noticed'
      BY <1>1, <1>2, <1>6, <3>1 DEF AbortsFollow, AbortsIn, Noticed
    <3>3. QED
      BY <1>4, <2>1, <2>2, <2>3, <3>2 DEF LinkInv
  <2>6. QED
    BY <1>6, <2>4, <2>5
<1>7. QED
  BY <1>1, <1>5, <1>6

LEMMA CallReturnsCase ==
  ASSUME LinkInv, NEW x \in BindingCalls, CallReturns(x)
  PROVE  LinkInv'
<1>1. /\ dispatch[x] = "running" /\ dispatch' = [dispatch EXCEPT ![x] = "over"]
      /\ \/ disposed /\ toThread' = toThread /\ holding' = holding
         \/ /\ ~disposed /\ SendToThread(Msg("value", x))
            /\ holding' = holding \/ holding' = holding \union {x}
      /\ UNCHANGED <<boot, disposed, op, signal, thread, job, abortable, flowing, form, caller, answer,
                     toMain, uploading>>
  BY DEF CallReturns, mainVars, threadVars
<1>2. LinkType /\ TornDown /\ Phases /\ Uploads /\ NotPosted /\ NotMade /\ AbortsFollow /\ CancelsLead /\ Noticed
  BY DEF LinkInv
<1>3. /\ Msg("value", x) \in ToThreadMsgs /\ Msg("value", x).kind = "value"
      /\ \A y : Msg("fetch", y).kind = "fetch" /\ Msg("throw", y).kind = "throw"
  BY MsgParts DEF ToThread, Subjects
<1>4. /\ toThread' \in Seq(ToThreadMsgs)
      /\ \A y : y.kind \in {"fetch", "throw"} /\ (\A i \in 1..Len(toThread) : toThread[i] # y) =>
                     \A i \in 1..Len(toThread') : toThread'[i] # y
  BY <1>1, <1>2, <1>3, PostsOther, LinkTypes
<1>5. /\ dispatch' \in [BindingCalls -> {"none", "running", "over"}]
      /\ \A c \in BindingCalls : dispatch[c] = "none" => dispatch'[c] = "none"
  BY <1>1, <1>2 DEF LinkType
<1>6. LinkType'
  BY <1>1, <1>2, <1>4, <1>5 DEF LinkType, ToThreadMsgs, Subjects
<1>7. TornDown' /\ Phases' /\ Uploads'
  BY <1>1, <1>2 DEF TornDown, Phases, Uploads
<1>8. NotPosted' /\ NotMade'
  BY <1>1, <1>2, <1>3, <1>4, <1>5 DEF NotPosted, NotMade
<1>9. AbortsFollow' /\ CancelsLead' /\ Noticed'
  <2>1. CASE disposed /\ toThread' = toThread
    BY <1>1, <1>2, <2>1 DEF AbortsFollow, CancelsLead, Noticed
  <2>2. CASE ~disposed /\ SendToThread(Msg("value", x))
    <3>1. /\ AbortsIn(toThread', signal)
          /\ CancelsIn(toThread', uploading \intersect BindingCalls)
          /\ \A y : (\E j \in 1..Len(toThread) : toThread[j] = y) => \E j \in 1..Len(toThread') : toThread'[j] = y
      BY <1>3, <2>2, PostsOther
    <3>2. QED
      BY <1>1, <1>2, <3>1 DEF AbortsFollow, CancelsLead, Noticed
  <2>3. QED
    BY <1>1, <2>1, <2>2
<1>10. QED
  BY <1>6, <1>7, <1>8, <1>9 DEF LinkInv

LEMMA PostedInTurn ==
  ASSUME NEW S, NEW line \in Seq(S), NEW m \in S, NEW n \in S
  PROVE  line \o <<m>> = Append(line, m) /\ line \o <<m, n>> = Append(Append(line, m), n)
OBVIOUS

LEMMA CallThrowsCase ==
  ASSUME LinkInv, NEW x \in BindingCalls, CallThrows(x)
  PROVE  LinkInv'
<1> DEFINE first == Append(toThread, Msg("req-cancel", x))
<1>1. /\ dispatch[x] = "running" /\ dispatch' = [dispatch EXCEPT ![x] = "over"]
      /\ toThread' = IF disposed THEN toThread ELSE toThread \o
           IF form[x] = "upload" THEN <<Msg("req-cancel", x), Msg("throw", x)>> ELSE <<Msg("throw", x)>>
      /\ UNCHANGED <<boot, disposed, op, signal, thread, job, abortable, flowing, form, caller, answer, holding,
                     toMain, uploading>>
  BY DEF CallThrows, mainVars, threadVars
<1>2. LinkType /\ TornDown /\ Phases /\ Uploads /\ NotPosted /\ NotMade /\ AbortsFollow /\ CancelsLead /\ Noticed
  BY DEF LinkInv
<1>3. /\ Msg("throw", x) \in ToThreadMsgs /\ Msg("req-cancel", x) \in ToThreadMsgs
      /\ toThread \in Seq(ToThreadMsgs)
      /\ \A y : /\ Msg("throw", x) # Msg("fetch", y) /\ Msg("req-cancel", x) # Msg("fetch", y)
                /\ Msg("req-cancel", x) # Msg("throw", y)
                /\ (Msg("throw", x) = Msg("throw", y) => x = y)
  BY <1>2, LinkTypes, MsgParts DEF ToThread, Subjects
<1>4. \/ disposed /\ toThread' = toThread
      \/ ~disposed /\ form[x] = "upload" /\ toThread' = Append(first, Msg("throw", x))
      \/ ~disposed /\ form[x] # "upload" /\ toThread' = Append(toThread, Msg("throw", x))
  <2>1. /\ toThread \o <<Msg("throw", x)>> = Append(toThread, Msg("throw", x))
        /\ toThread \o <<Msg("req-cancel", x), Msg("throw", x)>> = Append(first, Msg("throw", x))
    BY <1>3, PostedInTurn
  <2> HIDE DEF first
  <2>2. QED
    BY <1>1, <2>1, Zenon
<1>5. /\ dispatch' \in [BindingCalls -> {"none", "running", "over"}]
      /\ \A c \in BindingCalls : dispatch'[c] = "none" => dispatch[c] = "none"
      /\ \A c \in BindingCalls : dispatch[c] = "none" => dispatch'[c] = "none" /\ c # x
  BY <1>1, <1>2 DEF LinkType
<1>6. TornDown' /\ Phases' /\ Uploads'
  BY <1>1, <1>2 DEF TornDown, Phases, Uploads
<1>7. ~disposed => AbortsIn(toThread, signal)
  BY <1>2 DEF AbortsFollow
<1>8. CASE disposed /\ toThread' = toThread
  <2>1. LinkType'
    BY <1>1, <1>2, <1>5, <1>8 DEF LinkType
  <2>2. NotPosted' /\ NotMade' /\ AbortsFollow' /\ CancelsLead' /\ Noticed'
    BY <1>1, <1>2, <1>5, <1>8 DEF NotPosted, NotMade, AbortsFollow, CancelsLead, Noticed
  <2>3. QED
    BY <1>6, <2>1, <2>2 DEF LinkInv
<1>9. CASE ~disposed /\ form[x] # "upload" /\ toThread' = Append(toThread, Msg("throw", x))
  <2>1. /\ toThread' \in Seq(ToThreadMsgs) /\ Len(toThread') = Len(toThread) + 1 /\ Len(toThread) \in Nat
        /\ \A i \in 1..Len(toThread) : i \in 1..Len(toThread') /\ toThread'[i] = toThread[i]
        /\ toThread'[Len(toThread) + 1] = Msg("throw", x)
        /\ \A i \in 1..Len(toThread') : i \in 1..Len(toThread) \/ i = Len(toThread) + 1
    BY <1>3, <1>9, AppendChannel
  <2>2. LinkType'
    BY <1>1, <1>2, <1>5, <2>1 DEF LinkType, ToThreadMsgs, Subjects
  <2>3. NotPosted' /\ NotMade'
    BY <1>1, <1>2, <1>3, <1>5, <2>1 DEF NotPosted, NotMade
  <2>4. AbortsIn(toThread', signal)
    BY <1>3, <1>7, <1>9, AppendAborts
  <2>5. CancelsIn(toThread', uploading \intersect BindingCalls)
    <3>1. x \notin uploading
      BY <1>2, <1>9 DEF Uploads
    <3>2. QED
      BY <1>2, <1>3, <1>9, <3>1, AppendCancels DEF CancelsLead
  <2>6. AbortsFollow' /\ CancelsLead' /\ Noticed'
    BY <1>1, <1>2, <2>1, <2>4, <2>5 DEF AbortsFollow, CancelsLead, Noticed
  <2>7. QED
    BY <1>6, <2>2, <2>3, <2>6 DEF LinkInv
<1>10. CASE ~disposed /\ form[x] = "upload" /\ toThread' = Append(first, Msg("throw", x))
  <2>1. /\ first \in Seq(ToThreadMsgs) /\ Len(first) = Len(toThread) + 1 /\ Len(toThread) \in Nat
        /\ \A i \in 1..Len(toThread) : i \in 1..Len(first) /\ first[i] = toThread[i]
        /\ first[Len(toThread) + 1] = Msg("req-cancel", x) /\ Len(toThread) + 1 \in 1..Len(first)
        /\ \A i \in 1..Len(first) : i \in 1..Len(toThread) \/ i = Len(toThread) + 1
    BY <1>3, AppendChannel
  <2>2. AbortsIn(first, signal)
    BY <1>3, <1>7, <1>10, AppendAborts
  <2>3. CancelsIn(first, uploading \intersect BindingCalls)
    BY <1>2, <1>3, AppendCancels DEF CancelsLead
  <2> HIDE DEF first
  <2>4. /\ toThread' \in Seq(ToThreadMsgs) /\ Len(toThread') = Len(first) + 1
        /\ \A i \in 1..Len(first) : i \in 1..Len(toThread') /\ toThread'[i] = first[i]
        /\ toThread'[Len(first) + 1] = Msg("throw", x)
        /\ \A i \in 1..Len(toThread') : i \in 1..Len(first) \/ i = Len(first) + 1
    BY <1>3, <1>10, <2>1, AppendChannel
  <2>5. LinkType'
    BY <1>1, <1>2, <1>5, <2>4 DEF LinkType, ToThreadMsgs, Subjects
  <2>6. /\ \A i \in 1..Len(toThread) : i \in 1..Len(toThread') /\ toThread'[i] = toThread[i]
        /\ \A i \in 1..Len(toThread') : \/ i \in 1..Len(toThread) /\ toThread'[i] = toThread[i]
                                        \/ toThread'[i] \in {Msg("req-cancel", x), Msg("throw", x)}
    BY <2>1, <2>4
  <2>7. NotPosted'
    BY <1>1, <1>2, <1>3, <2>6 DEF NotPosted
  <2>8. NotMade'
    BY <1>1, <1>2, <1>3, <1>5, <2>6 DEF NotMade
  <2>9. AbortsIn(toThread', signal)
    BY <1>3, <1>10, <2>1, <2>2, AppendAborts
  <2>10. CancelsIn(toThread', uploading \intersect BindingCalls)
    BY <1>3, <1>10, <2>1, <2>3, AppendCancels
  <2>11. AbortsFollow' /\ CancelsLead' /\ Noticed'
    BY <1>1, <1>2, <2>6, <2>9, <2>10 DEF AbortsFollow, CancelsLead, Noticed
  <2>12. QED
    BY <1>6, <2>5, <2>7, <2>8, <2>11 DEF LinkInv
<1>11. QED
  BY <1>4, <1>8, <1>9, <1>10

LEMMA AfterReadyCase ==
  ASSUME LinkInv, NEW x \in Ops, AfterReady(x)
  PROVE  LinkInv'
<1> DEFINE first == Append(toThread, Msg("fetch", x))
<1>1. /\ op[x] = "called"
      /\ \/ op' = [op EXCEPT ![x] = "error"] /\ toThread' = toThread /\ uploading' = uploading
         \/ /\ ~disposed /\ op' = [op EXCEPT ![x] = "posted"]
            /\ toThread' = toThread \o
                 IF x \in signal THEN <<Msg("fetch", x), Msg("abort", x)>> ELSE <<Msg("fetch", x)>>
            /\ uploading' = uploading \/ (x \in Fetches /\ uploading' = uploading \union {x})
      /\ UNCHANGED <<boot, disposed, signal, thread, job, abortable, flowing, form, caller, answer, dispatch,
                     holding, toMain>>
  BY DEF AfterReady, threadVars, callVars
<1>2. /\ LinkType /\ TornDown /\ Phases /\ Uploads /\ NotPosted /\ NotMade /\ AbortsFollow /\ CancelsLead /\ Noticed
      /\ Fetches \subseteq Ops /\ Fetches \intersect BindingCalls = {} /\ x \notin BindingCalls
  BY LinkAssumption DEF LinkInv, Ops
<1>3. CASE op' = [op EXCEPT ![x] = "error"] /\ toThread' = toThread /\ uploading' = uploading
  <2>1. /\ op' \in [Ops -> {"idle", "called", "posted", "ok", "error"}] /\ op'[x] = "error"
        /\ \A o \in Ops : o # x => op'[o] = op[o]
    BY <1>2, <1>3 DEF LinkType
  <2>2. LinkType'
    BY <1>1, <1>2, <1>3, <2>1 DEF LinkType
  <2>3. TornDown' /\ Phases' /\ NotPosted' /\ NotMade'
    BY <1>1, <1>2, <1>3, <2>1 DEF TornDown, Phases, NotPosted, NotMade
  <2>4. Uploads'
    BY <1>1, <1>2, <1>3, <2>1 DEF Uploads
  <2>5. AbortsFollow' /\ CancelsLead' /\ Noticed'
    BY <1>1, <1>3, QuietOrder
  <2>6. QED
    BY <2>2, <2>3, <2>4, <2>5 DEF LinkInv
<1>4. CASE /\ ~disposed /\ op' = [op EXCEPT ![x] = "posted"]
           /\ toThread' = toThread \o
                IF x \in signal THEN <<Msg("fetch", x), Msg("abort", x)>> ELSE <<Msg("fetch", x)>>
           /\ uploading' = uploading \/ (x \in Fetches /\ uploading' = uploading \union {x})
  <2>1. /\ op' \in [Ops -> {"idle", "called", "posted", "ok", "error"}] /\ op'[x] = "posted"
        /\ \A o \in Ops : o # x => op'[o] = op[o]
    BY <1>2, <1>4 DEF LinkType
  <2>2. /\ Msg("fetch", x) \in ToThreadMsgs /\ Msg("abort", x) \in ToThreadMsgs
        /\ toThread \in Seq(ToThreadMsgs)
        /\ \A y : /\ Msg("abort", x) # Msg("fetch", y) /\ Msg("abort", x) # Msg("throw", y)
                  /\ Msg("fetch", x) # Msg("throw", y)
                  /\ (Msg("fetch", x) = Msg("fetch", y) => x = y)
    BY <1>2, LinkTypes, MsgParts DEF ToThread, Subjects
  <2>3. \/ x \in signal /\ toThread' = Append(first, Msg("abort", x))
        \/ x \notin signal /\ toThread' = first
    <3>1. /\ toThread \o <<Msg("fetch", x)>> = first
          /\ toThread \o <<Msg("fetch", x), Msg("abort", x)>> = Append(first, Msg("abort", x))
      BY <2>2, PostedInTurn
    <3> HIDE DEF first
    <3>2. QED
      BY <1>4, <3>1, Zenon
  <2>4. /\ first \in Seq(ToThreadMsgs) /\ Len(first) = Len(toThread) + 1 /\ Len(toThread) \in Nat
        /\ \A i \in 1..Len(toThread) : i \in 1..Len(first) /\ first[i] = toThread[i]
        /\ first[Len(toThread) + 1] = Msg("fetch", x)
        /\ \A i \in 1..Len(first) : i \in 1..Len(toThread) \/ i = Len(toThread) + 1
    BY <2>2, AppendChannel
  <2>5. AbortsIn(first, signal \ {x})
    <3>1. AbortsIn(toThread, signal \ {x})
      BY <1>2, <1>4 DEF AbortsFollow, AbortsIn
    <3>2. \A o \in signal \ {x} : Msg("fetch", x) # Msg("fetch", o)
      BY <2>2
    <3>3. QED
      BY <2>2, <3>1, <3>2, AppendAborts
  <2>6. CancelsIn(first, uploading \intersect BindingCalls)
    BY <1>2, <2>2, AppendCancels DEF CancelsLead
  <2> HIDE DEF first
  <2>7. /\ toThread' \in Seq(ToThreadMsgs)
        /\ \A i \in 1..Len(toThread) : i \in 1..Len(toThread') /\ toThread'[i] = toThread[i]
        /\ \A i \in 1..Len(toThread') : \/ i \in 1..Len(toThread) /\ toThread'[i] = toThread[i]
                                        \/ toThread'[i] \in {Msg("fetch", x), Msg("abort", x)}
        /\ AbortsIn(toThread', signal)
        /\ CancelsIn(toThread', uploading \intersect BindingCalls)
    <3>1. CASE x \notin signal /\ toThread' = first
      <4>1. signal \ {x} = signal
        BY <3>1
      <4>2. QED
        BY <2>4, <2>5, <2>6, <3>1, <4>1
    <3>2. CASE x \in signal /\ toThread' = Append(first, Msg("abort", x))
      <4>1. /\ toThread' \in Seq(ToThreadMsgs) /\ Len(toThread') = Len(first) + 1
            /\ \A i \in 1..Len(first) : i \in 1..Len(toThread') /\ toThread'[i] = first[i]
            /\ toThread'[Len(first) + 1] = Msg("abort", x)
            /\ \A i \in 1..Len(toThread') : i \in 1..Len(first) \/ i = Len(first) + 1
        BY <2>2, <2>4, <3>2, AppendChannel
      <4>2. /\ \A i \in 1..Len(toThread) : i \in 1..Len(toThread') /\ toThread'[i] = toThread[i]
            /\ \A i \in 1..Len(toThread') : \/ i \in 1..Len(toThread) /\ toThread'[i] = toThread[i]
                                            \/ toThread'[i] \in {Msg("fetch", x), Msg("abort", x)}
        BY <2>4, <4>1
      <4>3. (signal \ {x}) \union {x} = signal
        BY <3>2
      <4>4. AbortsIn(toThread', (signal \ {x}) \union {x})
        BY <2>2, <2>4, <2>5, <3>2, AppendAborts
      <4>5. CancelsIn(toThread', uploading \intersect BindingCalls)
        BY <2>2, <2>4, <2>6, <3>2, AppendCancels
      <4>6. QED
        BY <4>1, <4>2, <4>3, <4>4, <4>5
    <3>3. QED
      BY <2>3, <3>1, <3>2
  <2>8. uploading' \intersect BindingCalls = uploading \intersect BindingCalls
        /\ uploading' \subseteq Fetches \union BindingCalls
    BY <1>2, <1>4 DEF LinkType
  <2>9. LinkType'
    BY <1>1, <1>2, <2>1, <2>7, <2>8 DEF LinkType, ToThreadMsgs, Subjects
  <2>10. TornDown' /\ Phases'
    BY <1>1, <1>2, <1>4, <2>1 DEF TornDown, Phases
  <2>11. Uploads'
    <3>1. \A o \in Fetches : o \in uploading' => op'[o] \in {"posted", "ok"}
      BY <1>2, <1>4, <2>1 DEF Uploads
    <3>2. \A c \in BindingCalls : c \in uploading' => c \in uploading
      BY <2>8
    <3>3. QED
      BY <1>1, <1>2, <3>1, <3>2 DEF Uploads
  <2>12. NotPosted'
    <3>1. SUFFICES ASSUME NEW o \in Ops, op'[o] \in {"idle", "called"}
                   PROVE  abortable[o] = "none" /\ \A i \in 1..Len(toThread') : toThread'[i] # Msg("fetch", o)
      BY <1>1 DEF NotPosted
    <3>2. o # x /\ op[o] = op'[o]
      BY <2>1, <3>1
    <3>3. abortable[o] = "none" /\ \A i \in 1..Len(toThread) : toThread[i] # Msg("fetch", o)
      BY <1>2, <3>1, <3>2 DEF NotPosted
    <3>4. QED
      BY <2>2, <2>7, <3>2, <3>3
  <2>13. NotMade'
    BY <1>1, <1>2, <2>2, <2>7 DEF NotMade
  <2>14. AbortsFollow' /\ CancelsLead'
    BY <1>1, <2>7, <2>8 DEF AbortsFollow, CancelsLead
  <2>15. Noticed'
    BY <1>1, <1>2, <2>7 DEF Noticed
  <2>16. QED
    BY <2>9, <2>10, <2>11, <2>12, <2>13, <2>14, <2>15 DEF LinkInv
<1>5. QED
  BY <1>1, <1>3, <1>4

LEMMA MainReceivesCase ==
  ASSUME LinkInv, MainReceives
  PROVE  LinkInv'
<1> DEFINE h == Head(toMain)
<1> DEFINE x == h.of
<1>1. /\ toMain # <<>>
      /\ \/ h.kind = "crash" /\ FailAll
         \/ /\ toMain' = Tail(toMain)
            /\ toThread' = toThread \/ SendToThread(Msg("init", Link))
            /\ boot' \in {boot, "ready", "failed"}
            /\ \/ h.kind = "call" /\ dispatch' = [dispatch EXCEPT ![x] = "running"]
               \/ dispatch' = dispatch
            /\ (h.kind \in {"ok", "error"} /\ Resolves(x, h.kind)) \/ (op' = op /\ uploading' = uploading)
            /\ UNCHANGED <<disposed, signal, thread, job, abortable, flowing, form, caller, answer, holding>>
  BY DEF MainReceives, SendToThread, threadVars
<1>2. /\ LinkType /\ TornDown /\ Phases /\ Uploads /\ NotPosted /\ NotMade /\ AbortsFollow /\ CancelsLead /\ Noticed
      /\ Fetches \subseteq Ops
  BY DEF LinkInv, Ops
<1>3. CASE FailAll
  BY <1>3, FailAllCase
<1>4. CASE /\ toMain' = Tail(toMain)
           /\ toThread' = toThread \/ SendToThread(Msg("init", Link))
           /\ boot' \in {boot, "ready", "failed"}
           /\ \/ h.kind = "call" /\ dispatch' = [dispatch EXCEPT ![x] = "running"]
              \/ dispatch' = dispatch
           /\ (h.kind \in {"ok", "error"} /\ Resolves(x, h.kind)) \/ (op' = op /\ uploading' = uploading)
           /\ UNCHANGED <<disposed, signal, thread, job, abortable, flowing, form, caller, answer, holding>>
  <2>1. /\ toMain' \in Seq(ToMainMsgs) /\ h \in ToMainMsgs /\ h = toMain[1] /\ 1 \in 1..Len(toMain)
        /\ \A i \in 1..Len(toMain') : i + 1 \in 1..Len(toMain) /\ toMain'[i] = toMain[i + 1]
    <3>1. toMain \in Seq(ToMainMsgs)
      BY <1>2, LinkTypes
    <3>2. Len(toMain) \in Nat \ {0}
      BY <1>1, <3>1, TailChannel
    <3>3. QED
      BY <1>1, <1>4, <3>1, <3>2, TailChannel
  <2>2. h = Msg(h.kind, x)
    BY <2>1, MsgParts
  <2> HIDE DEF h, x
  <2>3. /\ dispatch' \in [BindingCalls -> {"none", "running", "over"}]
        /\ \A c \in BindingCalls : answer[c] = "none" => dispatch'[c] = "none"
    <3>1. CASE dispatch' = dispatch
      BY <1>2, <3>1 DEF LinkType, NotMade
    <3>2. CASE h.kind = "call" /\ dispatch' = [dispatch EXCEPT ![x] = "running"]
      <4>1. \A c \in BindingCalls : answer[c] = "none" => c # x /\ dispatch[c] = "none"
        BY <1>2, <2>1, <2>2, <3>2 DEF NotMade
      <4>2. QED
        BY <1>2, <3>2, <4>1 DEF LinkType
    <3>3. QED
      BY <1>4, <3>1, <3>2
  <2>4. /\ op' \in [Ops -> {"idle", "called", "posted", "ok", "error"}]
        /\ uploading' \subseteq uploading
        /\ \A o \in Ops : \/ op'[o] = op[o]
                          \/ op[o] = "posted" /\ op'[o] \in {"ok", "error"} /\ (op'[o] = "error" => o \notin uploading')
    <3>1. CASE op' = op /\ uploading' = uploading
      BY <1>2, <3>1 DEF LinkType
    <3>2. CASE h.kind \in {"ok", "error"} /\ Resolves(x, h.kind)
      <4>1. CASE op[x] = "posted"
        <5>1. /\ op' = [op EXCEPT ![x] = h.kind]
              /\ uploading' = IF h.kind = "error" THEN uploading \ {x} ELSE uploading
          BY <3>2, <4>1 DEF Resolves
        <5>2. QED
          BY <1>2, <3>2, <4>1, <5>1 DEF LinkType
      <4>2. CASE op[x] # "posted"
        BY <1>2, <3>2, <4>2 DEF LinkType, Resolves
      <4>3. QED
        BY <4>1, <4>2
    <3>3. QED
      BY <1>4, <3>1, <3>2
  <2>5. /\ toThread' \in Seq(ToThreadMsgs)
        /\ ~disposed => AbortsIn(toThread', signal)
        /\ CancelsIn(toThread', uploading \intersect BindingCalls)
        /\ \A y : (\E j \in 1..Len(toThread) : toThread[j] = y) => \E j \in 1..Len(toThread') : toThread'[j] = y
        /\ \A y : y.kind \in {"fetch", "throw"} /\ (\A i \in 1..Len(toThread) : toThread[i] # y) =>
                     \A i \in 1..Len(toThread') : toThread'[i] # y
    <3>1. CASE toThread' = toThread
      BY <1>2, <3>1, LinkTypes DEF AbortsFollow, CancelsLead
    <3>2. CASE SendToThread(Msg("init", Link))
      <4>1. Msg("init", Link) \in ToThreadMsgs /\ Msg("init", Link).kind = "init"
        BY MsgParts DEF ToThread, Subjects
      <4>2. Msg("init", Link).kind \notin {"fetch", "throw"}
        BY <4>1
      <4>3. QED
        BY <3>2, <4>1, <4>2, PostsOther
    <3>3. QED
      BY <1>4, <3>1, <3>2
  <2>6. \A y : Msg("fetch", y).kind = "fetch" /\ Msg("throw", y).kind = "throw"
    BY MsgParts
  <2>7. LinkType'
    <3>1. boot' \in {"waiting", "ready", "failed"} /\ uploading' \subseteq Fetches \union BindingCalls
      BY <1>2, <1>4, <2>4 DEF LinkType
    <3>2. QED
      BY <1>2, <1>4, <2>1, <2>3, <2>4, <2>5, <3>1 DEF LinkType, ToThreadMsgs, ToMainMsgs, Subjects
  <2>8. TornDown' /\ Phases'
    <3>1. \A o \in Ops : (op'[o] = "posted" => op[o] = "posted") /\ (op'[o] = "idle" => op[o] = "idle")
      BY <2>4
    <3>2. TornDown'
      BY <1>2, <1>4, <2>4, <3>1 DEF TornDown
    <3>3. signal \subseteq Ops
      BY <1>2 DEF LinkType
    <3>4. Phases'
      BY <1>2, <1>4, <3>1, <3>3 DEF Phases
    <3>5. QED
      BY <3>2, <3>4
  <2>9. Uploads'
    BY <1>2, <1>4, <2>4 DEF Uploads
  <2>10. NotPosted'
    BY <1>2, <1>4, <2>4, <2>5, <2>6 DEF NotPosted
  <2>11. NotMade'
    BY <1>2, <1>4, <2>1, <2>3, <2>5, <2>6, SMTT(30) DEF NotMade
  <2>12. CancelsLead'
    BY <2>4, <2>5 DEF CancelsLead, CancelsIn
  <2>13. AbortsFollow' /\ Noticed'
    BY <1>2, <1>4, <2>5 DEF AbortsFollow, Noticed
  <2>14. QED
    BY <2>7, <2>8, <2>9, <2>10, <2>11, <2>12, <2>13 DEF LinkInv
<1>5. QED
  BY <1>1, <1>3, <1>4

LEMMA ThreadReceivesCase ==
  ASSUME LinkInv, ThreadReceives
  PROVE  LinkInv'
<1> DEFINE h == Head(toThread)
<1> DEFINE x == h.of
<1> DEFINE replies == thread \in {"importing", "serving", "failed"}
<1>1. /\ toThread # <<>> /\ thread # "gone" /\ toThread' = Tail(toThread)
      /\ thread' = IF h.kind = "init" /\ thread = "boot" THEN "importing" ELSE thread
      /\ answer' = IF replies /\ h.kind \in {"value", "throw"}
                     THEN [answer EXCEPT ![x] = IF h.kind = "value" THEN "ok" ELSE "error"]
                     ELSE answer
      /\ uploading' = IF replies /\ h.kind = "req-cancel" THEN uploading \ {x} ELSE uploading
      /\ \/ /\ thread = "serving" /\ h.kind = "fetch"
            /\ job' = [job EXCEPT ![x] = "running"]
            /\ abortable' = abortable \/ abortable' = [abortable EXCEPT ![x] = "live"]
         \/ /\ job' = job
            /\ abortable' = IF thread = "serving" /\ h.kind = "abort" /\ abortable[x] = "live"
                              THEN [abortable EXCEPT ![x] = "aborted"] ELSE abortable
      /\ UNCHANGED <<boot, disposed, op, signal, flowing, form, caller, dispatch, holding, toMain>>
  BY DEF ThreadReceives, mainVars
<1>2. /\ LinkType /\ TornDown /\ Phases /\ Uploads /\ NotPosted /\ NotMade /\ AbortsFollow /\ CancelsLead /\ Noticed
      /\ signal \subseteq Ops /\ ~disposed
  BY <1>1 DEF LinkInv, LinkType, Phases, Ops
<1>3. /\ toThread' \in Seq(ToThreadMsgs) /\ h \in ToThreadMsgs /\ h = toThread[1] /\ 1 \in 1..Len(toThread)
      /\ Len(toThread) \in Nat
      /\ \A i \in 1..Len(toThread') : i \in Nat /\ i + 1 \in 1..Len(toThread) /\ toThread'[i] = toThread[i + 1]
      /\ \A i \in 1..Len(toThread) : i # 1 => i - 1 \in 1..Len(toThread') /\ toThread'[i - 1] = toThread[i]
  <2>1. toThread \in Seq(ToThreadMsgs)
    BY <1>2, LinkTypes
  <2>2. Len(toThread) \in Nat \ {0}
    BY <1>1, <2>1, TailChannel
  <2>3. QED
    BY <1>1, <2>1, <2>2, TailChannel
<1>4. h = Msg(h.kind, x)
  BY <1>3, MsgParts
<1> HIDE DEF h, x
\* What the head of the line does to a call ...
<1>5. /\ answer' \in [BindingCalls -> {"none", "waiting", "ok", "error"}]
      /\ \A c \in BindingCalls : \/ answer'[c] = answer[c]
                                 \/ h = Msg("value", c) /\ answer'[c] = "ok"
                                 \/ h = Msg("throw", c) /\ answer'[c] = "error"
  <2>1. CASE answer' = answer
    BY <1>2, <2>1 DEF LinkType
  <2>2. CASE /\ h.kind \in {"value", "throw"}
             /\ answer' = [answer EXCEPT ![x] = IF h.kind = "value" THEN "ok" ELSE "error"]
    <3>1. CASE h.kind = "value"
      BY <1>2, <1>4, <2>2, <3>1 DEF LinkType
    <3>2. CASE h.kind = "throw"
      BY <1>2, <1>4, <2>2, <3>2 DEF LinkType
    <3>3. QED
      BY <2>2, <3>1, <3>2
  <2>3. QED
    BY <1>1, <2>1, <2>2
<1>6. /\ uploading' \subseteq uploading
      /\ \A c : replies /\ h = Msg("req-cancel", c) => c \notin uploading'
  <2>1. \A c : h = Msg("req-cancel", c) => h.kind = "req-cancel" /\ x = c
    BY <1>4, MsgParts
  <2>2. QED
    BY <1>1, <2>1
\* ... and to an operation.
<1>7. /\ job' \in [Ops -> {"none", "running", "over"}]
      /\ abortable' \in [Ops -> {"none", "live", "aborted"}]
      /\ \A o \in Ops : \/ abortable'[o] = abortable[o]
                        \/ h = Msg("fetch", o) /\ thread = "serving" /\ abortable'[o] = "live"
                        \/ h = Msg("abort", o) /\ abortable[o] = "live" /\ abortable'[o] = "aborted"
      /\ \A o \in Ops : h = Msg("abort", o) /\ thread = "serving" => abortable'[o] # "live"
  <2>1. CASE /\ thread = "serving" /\ h.kind = "fetch"
             /\ job' = [job EXCEPT ![x] = "running"]
             /\ abortable' = abortable \/ abortable' = [abortable EXCEPT ![x] = "live"]
    <3>1. \A o : h # Msg("abort", o)
      BY <1>4, <2>1, MsgParts
    <3>2. QED
      BY <1>2, <1>4, <2>1, <3>1 DEF LinkType
  <2>2. CASE /\ job' = job
             /\ abortable' = IF thread = "serving" /\ h.kind = "abort" /\ abortable[x] = "live"
                               THEN [abortable EXCEPT ![x] = "aborted"] ELSE abortable
    <3>1. \A o : h = Msg("abort", o) => h.kind = "abort" /\ x = o
      BY <1>4, MsgParts
    <3>2. CASE thread = "serving" /\ h.kind = "abort" /\ abortable[x] = "live"
      <4>1. abortable' = [abortable EXCEPT ![x] = "aborted"]
        BY <2>2, <3>2
      <4>2. abortable' \in [Ops -> {"none", "live", "aborted"}] /\ job' \in [Ops -> {"none", "running", "over"}]
        BY <1>2, <2>2, <4>1 DEF LinkType
      <4>3. h = Msg("abort", x)
        BY <1>4, <3>2
      <4>4. ASSUME NEW o \in Ops
            PROVE  \/ o # x /\ abortable'[o] = abortable[o]
                   \/ o = x /\ abortable[o] = "live" /\ abortable'[o] = "aborted"
        BY <1>2, <3>2, <4>1 DEF LinkType
      <4>5. QED
        BY <3>1, <4>2, <4>3, <4>4
    <3>3. CASE ~(thread = "serving" /\ h.kind = "abort" /\ abortable[x] = "live")
      <4>1. abortable' = abortable
        BY <2>2, <3>3
      <4>2. QED
        BY <1>2, <2>2, <3>1, <3>3, <4>1 DEF LinkType
    <3>4. QED
      BY <3>2, <3>3
  <2>3. QED
    BY <1>1, <2>1, <2>2
<1>8. /\ thread' \in {"none", "boot", "importing", "serving", "failed", "gone"}
      /\ replies => thread' = thread
      /\ thread = "serving" => thread' = "serving"
      /\ thread' = thread \/ thread = "boot"
  BY <1>1, <1>2 DEF LinkType
<1> HIDE DEF replies
<1>9. LinkType'
  BY <1>1, <1>2, <1>3, <1>5, <1>6, <1>7, <1>8 DEF LinkType, ToThreadMsgs, Subjects
<1>10. TornDown'
  BY <1>1, <1>2 DEF TornDown
<1>11. \A o \in Ops : abortable[o] = "live" => thread = "serving"
  BY <1>1, <1>2 DEF Phases
<1>12. Phases'
  <2>1. \A o \in Ops : abortable'[o] = "live" => thread' = "serving"
    BY <1>7, <1>8, <1>11
  <2>2. QED
    BY <1>1, <1>2, <2>1 DEF Phases
<1>13. Uploads'
  <2>1. SUFFICES ASSUME NEW c \in BindingCalls, c \in uploading'
                 PROVE  /\ form[c] = "upload" /\ answer'[c] \in {"waiting", "ok"}
                        /\ thread' \in {"importing", "serving", "failed"}
    BY <1>1, <1>2, <1>6 DEF Uploads
  <2>2. c \in uploading /\ form[c] = "upload" /\ answer[c] \in {"waiting", "ok"} /\ replies
    BY <1>2, <1>6, <2>1 DEF Uploads, replies
  <2>3. h # Msg("throw", c)
    <3>1. SUFFICES ASSUME toThread[1] = Msg("throw", c) PROVE FALSE
      BY <1>3
    <3>2. PICK j \in 1..Len(toThread) : j < 1
      BY <1>2, <1>3, <2>2, <3>1 DEF CancelsLead, CancelsIn
    <3>3. QED
      BY <1>3, <3>2
  <2>4. QED
    BY <1>5, <1>8, <2>2, <2>3 DEF replies
<1>14. NotPosted'
  <2>1. SUFFICES ASSUME NEW o \in Ops, op[o] \in {"idle", "called"}
                 PROVE  abortable'[o] = "none" /\ \A i \in 1..Len(toThread') : toThread'[i] # Msg("fetch", o)
    BY <1>1 DEF NotPosted
  <2>2. abortable[o] = "none" /\ \A i \in 1..Len(toThread) : toThread[i] # Msg("fetch", o)
    BY <1>2, <2>1 DEF NotPosted
  <2>3. QED
    BY <1>3, <1>7, <2>2
<1>15. NotMade'
  <2>1. SUFFICES ASSUME NEW c \in BindingCalls, answer'[c] = "none"
                 PROVE  /\ dispatch[c] = "none"
                        /\ \A i \in 1..Len(toThread') : toThread'[i] # Msg("throw", c)
                        /\ \A i \in 1..Len(toMain) : toMain[i] # Msg("call", c)
    BY <1>1 DEF NotMade
  <2>2. answer[c] = "none"
    BY <1>5, <2>1
  <2>3. QED
    BY <1>2, <1>3, <2>2 DEF NotMade
<1>16. AbortsFollow'
  <2>1. SUFFICES ASSUME NEW o \in signal, NEW i \in 1..Len(toThread'), toThread'[i] = Msg("fetch", o)
                 PROVE  \E j \in 1..Len(toThread') : j > i /\ toThread'[j] = Msg("abort", o)
    BY <1>1 DEF AbortsFollow, AbortsIn
  <2>2. i \in Nat /\ i + 1 \in 1..Len(toThread) /\ toThread[i + 1] = Msg("fetch", o)
    BY <1>3, <2>1
  <2>3. PICK j \in 1..Len(toThread) : j > i + 1 /\ toThread[j] = Msg("abort", o)
    BY <1>2, <2>2 DEF AbortsFollow, AbortsIn
  <2>4. j # 1 /\ j - 1 > i
    BY <1>3, <2>2, <2>3
  <2>5. QED
    BY <1>3, <2>3, <2>4
<1>17. CancelsLead'
  <2>1. SUFFICES ASSUME NEW c \in uploading' \intersect BindingCalls, NEW i \in 1..Len(toThread'),
                        toThread'[i] = Msg("throw", c)
                 PROVE  \E j \in 1..Len(toThread') : j < i /\ toThread'[j] = Msg("req-cancel", c)
    BY DEF CancelsLead, CancelsIn
  <2>2. i \in Nat /\ i + 1 \in 1..Len(toThread) /\ toThread[i + 1] = Msg("throw", c) /\ c \in uploading
    BY <1>3, <1>6, <2>1
  <2>3. PICK j \in 1..Len(toThread) : j < i + 1 /\ toThread[j] = Msg("req-cancel", c)
    BY <1>2, <2>2 DEF CancelsLead, CancelsIn
  <2>4. j # 1
    <3>1. replies
      BY <1>2, <2>2 DEF Uploads, replies
    <3>2. h # Msg("req-cancel", c)
      BY <1>6, <2>1, <3>1
    <3>3. QED
      BY <1>3, <2>3, <3>2
  <2>5. j - 1 < i
    BY <1>3, <2>2, <2>3
  <2>6. QED
    BY <1>3, <2>3, <2>4, <2>5
<1>18. Noticed'
  <2>1. SUFFICES ASSUME NEW o \in signal, abortable'[o] = "live"
                 PROVE  \E j \in 1..Len(toThread') : toThread'[j] = Msg("abort", o)
    BY <1>1 DEF Noticed
  <2>2. \E j \in 1..Len(toThread) : j # 1 /\ toThread[j] = Msg("abort", o)
    <3>1. CASE h = Msg("fetch", o)
      <4>1. \E j \in 1..Len(toThread) : j > 1 /\ toThread[j] = Msg("abort", o)
        BY <1>2, <1>3, <3>1 DEF AbortsFollow, AbortsIn
      <4>2. QED
        BY <4>1
    <3>2. CASE abortable[o] = "live"
      <4>1. thread = "serving"
        BY <1>2, <1>11, <3>2
      <4>2. h # Msg("abort", o)
        BY <1>2, <1>7, <2>1, <4>1
      <4>3. \E j \in 1..Len(toThread) : toThread[j] = Msg("abort", o)
        BY <1>2, <3>2 DEF Noticed
      <4>4. QED
        BY <1>3, <4>2, <4>3
    <3>3. QED
      BY <1>2, <1>7, <2>1, <3>1, <3>2
  <2>3. QED
    BY <1>3, <2>2
<1>19. QED
  BY <1>9, <1>10, <1>12, <1>13, <1>14, <1>15, <1>16, <1>17, <1>18 DEF LinkInv

-----------------------------------------------------------------------------
(* The theorem.                                                            *)

LEMMA StepKeepsInv == LinkInv /\ [LinkNext]_linkVars => LinkInv'
<1>1. SUFFICES ASSUME LinkInv, [LinkNext]_linkVars PROVE LinkInv'
  OBVIOUS
<1>2. CASE UNCHANGED linkVars
  <2>1. UNCHANGED <<boot, disposed, op, signal, thread, job, abortable, flowing, form, caller, answer,
                    dispatch, holding, toThread, toMain, uploading>>
    BY <1>2 DEF linkVars, mainVars, threadVars, callVars
  <2>2. LinkType /\ TornDown /\ Phases /\ Uploads /\ NotPosted /\ NotMade
    BY <1>1 DEF LinkInv
  <2>3. LinkType' /\ TornDown'
    BY <2>1, <2>2 DEF LinkType, TornDown
  <2>4. Phases' /\ Uploads' /\ NotPosted' /\ NotMade'
    BY <2>1, <2>2 DEF Phases, Uploads, NotPosted, NotMade
  <2>5. AbortsFollow' /\ CancelsLead' /\ Noticed'
    BY <1>1, <2>1, QuietOrder
  <2>6. QED
    BY <2>3, <2>4, <2>5 DEF LinkInv
<1>3. ASSUME NEW x \in Ops, Execute(x) \/ AfterReady(x) \/ ClientAborts(x) \/ JobEnds(x) \/ ResponseOver(x)
      PROVE  LinkInv'
  BY <1>1, <1>3, ExecuteCase, AfterReadyCase, ClientAbortsCase, JobEndsCase, ResponseOverCase
<1>4. ASSUME NEW x \in BindingCalls, CallReturns(x) \/ CallThrows(x)
      PROVE  LinkInv'
  BY <1>1, <1>4, CallReturnsCase, CallThrowsCase
<1>5. ASSUME NEW x \in BindingCalls, NEW who \in Ops \union {"import"}, NEW f \in Forms, MakeCall(x, who, f)
      PROVE  LinkInv'
  BY <1>1, <1>5, MakeCallCase
<1>6. ASSUME \/ NewThread \/ Dispose \/ MainReceives \/ ThreadReceives
             \/ ImportEnds \/ BodyOver \/ ThreadCrash
      PROVE  LinkInv'
  <2>1. Dispose => LinkInv'
    BY <1>1, FailAllCase DEF Dispose
  <2>2. QED
    BY <1>1, <1>6, <2>1, NewThreadCase, MainReceivesCase, ThreadReceivesCase, ImportEndsCase,
       BodyOverCase, ThreadCrashCase
<1>7. QED
  BY <1>1, <1>2, <1>3, <1>4, <1>5, <1>6 DEF LinkNext

\* Nothing waits for a disposed thread or is held for it, no disconnect of a
\* client is lost on its way to the handler, and nobody goes on reading the body
\* of a request that has failed (executor.ts, entry.ts, rpc-shared.ts).
THEOREM NobodyLeftWorkingAlways == LinkSpec => []NobodyLeftWorking
<1>1. LinkInit => LinkInv
  BY InitCase
<1>2. LinkInv /\ [LinkNext]_linkVars => LinkInv'
  BY StepKeepsInv
<1>3. LinkInv => NobodyLeftWorking
  BY InvImplies
<1>4. QED
  BY <1>1, <1>2, <1>3, PTL DEF LinkSpec
=============================================================================
