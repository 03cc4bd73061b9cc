--------------------------- MODULE WorkflowProofs ---------------------------
(***************************************************************************)
(* What Workflow keeps, for any number of instances, executions, events    *)
(* and exits, and for any program.                                         *)
(***************************************************************************)
EXTENDS Workflow, FiniteSetTheorems, TLAPS

\* Executions are numbered in the order they start, and one that is inside a
\* step is at a step.
Placed ==
  \A i \in Instances : \A n \in Runs :
    /\ n > runs[i] => ph[i][n] = "unused" /\ aborted[i][n] = FALSE
    /\ ph[i][n] \in {"calling", "backoff", "sleeping", "waiting", "deaf"} => pc[i][n] \in Steps
    /\ ph[i][n] = "backoff" => attempt[i][n] < MaxRetries

Typed == TypeOK /\ Placed

-----------------------------------------------------------------------------
(* Types.                                                                  *)

\* The steps an execution takes between its start and its end.
Moves(i, n) ==
  \/ EntersAborted(i, n) \/ StepRefused(i, n) \/ StepFatal(i, n)
  \/ BeginDo(i, n) \/ StepOk(i, n) \/ StepFail(i, n) \/ BackoffEnds(i, n)
  \/ BeginSleep(i, n) \/ Wake(i, n) \/ BeginWait(i, n) \/ WaitTimeout(i, n)

\* An entry of a table of executions or of steps.
LEMMA Entry ==
  ASSUME NEW A, NEW B, NEW V, NEW f \in [A -> [B -> V]], NEW a \in A, NEW b \in B, NEW v \in V
  PROVE  /\ [f EXCEPT ![a][b] = v] \in [A -> [B -> V]]
         /\ \A c \in A : \A d \in B :
              [f EXCEPT ![a][b] = v][c][d] = IF c = a /\ d = b THEN v ELSE f[c][d]
OBVIOUS

LEMMA ProgramType ==
  /\ Len(Program) \in Nat /\ MaxRuns \in Nat /\ MaxRetries \in Nat
  /\ \A s \in Steps : Program[s] \in {"do", "sleep", "wait"} /\ s \in Nat /\ s + 1 \in 1..(Len(Program) + 1)
  /\ Steps \subseteq 1..(Len(Program) + 1)
BY WorkflowAssumption DEF Steps

LEMMA MoveType ==
  ASSUME Typed, NEW i \in Instances, NEW n \in Runs, Moves(i, n)
  PROVE  Typed'
<1> USE DEF Typed
<1>1. /\ ph \in [Instances -> [Runs -> Phases]]
      /\ pc \in [Instances -> [Runs -> 1..(Len(Program) + 1)]]
      /\ attempt \in [Instances -> [Runs -> 0..MaxRetries]]
      /\ cached \in [Instances -> [Steps -> 0..MaxRuns]]
      /\ fails \in [Instances -> [Steps -> 0..(MaxRetries + 1)]]
      /\ done \in [Instances -> [Steps -> Nat]]
      /\ failed \in [Instances -> [Steps -> Nat]]
  BY DEF TypeOK
<1>0. n \in 0..MaxRuns /\ MaxRetries \in Nat /\ Len(Program) \in Nat
  BY ProgramType DEF Runs
<1>2. /\ UNCHANGED <<aborted, runs, ac, exits, sent>>
      /\ \E q \in Phases \ {"unused", "done"} : ph' = [ph EXCEPT ![i][n] = q]
      /\ ph[i][n] \notin {"unused", "done"}
  <2>0. [ph EXCEPT ![i][n] = ph[i][n]] = ph
    BY <1>1
  <2> QED
   BY <2>0 DEF Moves, EntersAborted, StepRefused, StepFatal, BeginDo, StepOk, StepFail, BackoffEnds,
         BeginSleep, Wake, BeginWait, WaitTimeout, To, Enters, memVars, histVars, execVars, Phases
<1>3. PICK q \in Phases \ {"unused", "done"} : ph' = [ph EXCEPT ![i][n] = q]
  BY <1>2
<1>4. /\ ph' \in [Instances -> [Runs -> Phases]]
      /\ \A j \in Instances : \A k \in Runs : ph'[j][k] = IF j = i /\ k = n THEN q ELSE ph[j][k]
  BY <1>1, <1>3, Entry, SMTT(30)
<1>5. pc[i][n] \in Steps
  BY DEF Moves, EntersAborted, StepRefused, StepFatal, BeginDo, StepOk, StepFail, BackoffEnds,
         BeginSleep, Wake, BeginWait, WaitTimeout, Enters, Placed
<1>6. /\ UNCHANGED pc \/ pc' = [pc EXCEPT ![i][n] = pc[i][n] + 1]
      /\ UNCHANGED cached \/ cached' = [cached EXCEPT ![i][pc[i][n]] = n]
      /\ \/ UNCHANGED fails
         \/ fails' = [fails EXCEPT ![i][pc[i][n]] = 0]
         \/ fails' = [fails EXCEPT ![i][pc[i][n]] = attempt[i][n] + 1]
      /\ UNCHANGED done \/ done' = [done EXCEPT ![i][pc[i][n]] = done[i][pc[i][n]] + 1]
      /\ UNCHANGED failed \/ failed' = [failed EXCEPT ![i][pc[i][n]] = failed[i][pc[i][n]] + 1]
  BY <1>1, <1>5 DEF Moves, EntersAborted, StepRefused, StepFatal, BeginDo, StepOk, StepFail, BackoffEnds,
         BeginSleep, Wake, BeginWait, WaitTimeout, Store, Advance, dbVars, histVars
<1>7. /\ q = "backoff" => attempt' = attempt /\ attempt[i][n] < MaxRetries
      /\ q \in {"calling", "backoff", "sleeping", "waiting", "deaf"} => pc' = pc
      /\ \/ UNCHANGED attempt
         \/ \E v \in 0..MaxRetries : attempt' = [attempt EXCEPT ![i][n] = v]
  <2>1. CASE EntersAborted(i, n) \/ StepRefused(i, n) \/ StepFatal(i, n) \/ WaitTimeout(i, n)
    BY <1>1, <1>3, <2>1 DEF EntersAborted, StepRefused, StepFatal, WaitTimeout, To
  <2>2. CASE BeginDo(i, n)
    <3>1. fails[i][pc[i][n]] <= MaxRetries => fails[i][pc[i][n]] \in 0..MaxRetries
      BY <1>1, <1>0, <1>5
    <3>2. ph'[i][n] = q /\ q # "backoff"
      BY <1>1, <1>3, <2>2 DEF BeginDo, To, Enters
    <3>3. q = "calling" => pc' = pc
      BY <1>1, <1>3, <2>2 DEF BeginDo, To, Enters
    <3>4. q \notin {"sleeping", "waiting", "deaf"}
      BY <1>1, <1>3, <2>2 DEF BeginDo, To, Enters
    <3>5. UNCHANGED attempt \/ \E v \in 0..MaxRetries : attempt' = [attempt EXCEPT ![i][n] = v]
      BY <2>2, <3>1 DEF BeginDo
    <3>6. QED
      BY <3>2, <3>3, <3>4, <3>5
  <2>3. CASE StepOk(i, n) \/ StepFail(i, n)
    BY <1>1, <1>0, <1>3, <2>3, SMTT(30) DEF StepOk, StepFail, To
  <2>4. CASE BackoffEnds(i, n)
    <3>1. attempt[i][n] + 1 \in 0..MaxRetries
      BY <1>1, <1>0, <2>4 DEF BackoffEnds, Placed
    <3>2. q = "calling" /\ pc' = pc
      BY <1>1, <1>3, <2>4 DEF BackoffEnds, To
    <3>3. attempt' = [attempt EXCEPT ![i][n] = attempt[i][n] + 1]
      BY <2>4 DEF BackoffEnds
    <3>4. QED
      BY <3>1, <3>2, <3>3
  <2>5. CASE BeginSleep(i, n) \/ Wake(i, n)
    BY <1>1, <1>3, <2>5 DEF BeginSleep, Wake, To, Enters
  <2>6. CASE BeginWait(i, n)
    BY <1>1, <1>3, <2>6 DEF BeginWait, To, Enters
  <2>7. QED
    BY <2>1, <2>2, <2>3, <2>4, <2>5, <2>6 DEF Moves
<1>8. /\ UNCHANGED row \/ \E r \in Rows : row' = [row EXCEPT ![i] = IF @ = "none" THEN @ ELSE r]
      /\ UNCHANGED events \/ (events' = [events EXCEPT ![i] = @ - 1] /\ events[i] > 0)
      /\ UNCHANGED consumed \/ consumed' = [consumed EXCEPT ![i] = @ + 1]
      /\ UNCHANGED waiter \/ \E v \in {None, n, waiter[i]} : waiter' = [waiter EXCEPT ![i] = v]
      /\ UNCHANGED sleeper \/ \E v \in {None, n} : sleeper' = [sleeper EXCEPT ![i] = v]
  BY DEF Moves, EntersAborted, StepRefused, StepFatal, BeginDo, StepOk, StepFail, BackoffEnds,
         BeginSleep, Wake, BeginWait, WaitTimeout, SetRow, Rows, dbVars, memVars, histVars
<1>9. /\ pc' \in [Instances -> [Runs -> 1..(Len(Program) + 1)]]
      /\ \A j \in Instances : \A k \in Runs : ~(j = i /\ k = n) \/ pc' = pc => pc'[j][k] = pc[j][k]
  <2>1. pc[i][n] + 1 \in 1..(Len(Program) + 1)
    BY <1>5, ProgramType
  <2>2. CASE pc' = pc
    BY <1>1, <2>2
  <2>3. CASE pc' = [pc EXCEPT ![i][n] = pc[i][n] + 1]
    BY <1>1, <2>1, <2>3, Entry
  <2>4. QED
    BY <1>6, <2>2, <2>3
<1>10. /\ attempt' \in [Instances -> [Runs -> 0..MaxRetries]]
       /\ \A j \in Instances : \A k \in Runs : ~(j = i /\ k = n) \/ attempt' = attempt => attempt'[j][k] = attempt[j][k]
  <2>1. CASE attempt' = attempt
    BY <1>1, <2>1
  <2>2. ASSUME NEW v \in 0..MaxRetries, attempt' = [attempt EXCEPT ![i][n] = v]
        PROVE  /\ attempt' \in [Instances -> [Runs -> 0..MaxRetries]]
               /\ \A j \in Instances : \A k \in Runs : ~(j = i /\ k = n) => attempt'[j][k] = attempt[j][k]
    BY <1>1, <2>2, Entry
  <2>3. QED
    BY <1>7, <2>1, <2>2
<1>11. cached' \in [Instances -> [Steps -> 0..MaxRuns]]
  <2>1. CASE cached' = [cached EXCEPT ![i][pc[i][n]] = n]
    BY <1>1, <1>0, <1>5, <2>1, Entry
  <2>2. QED
    BY <1>1, <1>6, <2>1
<1>12. fails' \in [Instances -> [Steps -> 0..(MaxRetries + 1)]]
  <2>1. attempt[i][n] + 1 \in 0..(MaxRetries + 1) /\ 0 \in 0..(MaxRetries + 1)
    BY <1>1, <1>0
  <2>2. ASSUME NEW v \in 0..(MaxRetries + 1), fails' = [fails EXCEPT ![i][pc[i][n]] = v]
        PROVE  fails' \in [Instances -> [Steps -> 0..(MaxRetries + 1)]]
    BY <1>1, <1>5, <2>2, Entry
  <2>3. QED
    BY <1>1, <1>6, <2>1, <2>2
<1>13. done' \in [Instances -> [Steps -> Nat]] /\ failed' \in [Instances -> [Steps -> Nat]]
  <2>1. done[i][pc[i][n]] + 1 \in Nat /\ failed[i][pc[i][n]] + 1 \in Nat
    BY <1>1, <1>5
  <2>2. ASSUME NEW v \in Nat, done' = [done EXCEPT ![i][pc[i][n]] = v]
        PROVE  done' \in [Instances -> [Steps -> Nat]]
    BY <1>1, <1>5, <2>2, Entry
  <2>3. ASSUME NEW v \in Nat, failed' = [failed EXCEPT ![i][pc[i][n]] = v]
        PROVE  failed' \in [Instances -> [Steps -> Nat]]
    BY <1>1, <1>5, <2>3, Entry
  <2>4. done' \in [Instances -> [Steps -> Nat]]
    BY <1>1, <1>6, <2>1, <2>2
  <2>5. failed' \in [Instances -> [Steps -> Nat]]
    BY <1>1, <1>6, <2>1, <2>3
  <2>6. QED
    BY <2>4, <2>5
<1>14. row' \in [Instances -> Rows] /\ events' \in [Instances -> Nat] /\ consumed' \in [Instances -> Nat]
       /\ waiter' \in [Instances -> 0..MaxRuns] /\ sleeper' \in [Instances -> 0..MaxRuns]
  <2>1. row' \in [Instances -> Rows]
    BY <1>8 DEF TypeOK
  <2>2. events' \in [Instances -> Nat] /\ consumed' \in [Instances -> Nat]
    <3>1. /\ events \in [Instances -> Nat] /\ consumed \in [Instances -> Nat]
          /\ events[i] > 0 => events[i] - 1 \in Nat
          /\ consumed[i] + 1 \in Nat
      BY SMTT(30) DEF TypeOK
    <3>2. QED
      BY <1>8, <3>1
  <2>3. /\ None \in 0..MaxRuns /\ waiter[i] \in 0..MaxRuns
        /\ waiter \in [Instances -> 0..MaxRuns] /\ sleeper \in [Instances -> 0..MaxRuns]
    <3>1. waiter \in [Instances -> 0..MaxRuns] /\ sleeper \in [Instances -> 0..MaxRuns]
      BY DEF TypeOK
    <3>2. None \in 0..MaxRuns
      BY ProgramType DEF None
    <3>3. QED
      BY <3>1, <3>2
  <2>4. waiter' \in [Instances -> 0..MaxRuns]
    <3>1. ASSUME NEW v \in 0..MaxRuns, waiter' = [waiter EXCEPT ![i] = v]
          PROVE  waiter' \in [Instances -> 0..MaxRuns]
      BY <2>3, <3>1
    <3>2. QED
      BY <1>0, <1>8, <2>3, <3>1
  <2>5. sleeper' \in [Instances -> 0..MaxRuns]
    <3>1. ASSUME NEW v \in 0..MaxRuns, sleeper' = [sleeper EXCEPT ![i] = v]
          PROVE  sleeper' \in [Instances -> 0..MaxRuns]
      BY <2>3, <3>1
    <3>2. QED
      BY <1>0, <1>8, <2>3, <3>1
  <2>6. QED
    BY <2>1, <2>2, <2>4, <2>5
<1>15. TypeOK'
  BY <1>2, <1>4, <1>9, <1>10, <1>11, <1>12, <1>13, <1>14 DEF TypeOK
<1>16. Placed'
  <2>1. SUFFICES ASSUME NEW j \in Instances, NEW k \in Runs
                 PROVE  /\ k > runs[j] => ph'[j][k] = "unused" /\ aborted[j][k] = FALSE
                        /\ ph'[j][k] \in {"calling", "backoff", "sleeping", "waiting", "deaf"} => pc'[j][k] \in Steps
                        /\ ph'[j][k] = "backoff" => attempt'[j][k] < MaxRetries
    BY <1>2 DEF Placed
  <2>2. CASE j = i /\ k = n
    BY <1>2, <1>4, <1>5, <1>7, <1>9, <2>2 DEF Placed
  <2>3. CASE ~(j = i /\ k = n)
    <3>1. ph'[j][k] = ph[j][k] /\ pc'[j][k] = pc[j][k] /\ attempt'[j][k] = attempt[j][k]
      BY <1>4, <1>9, <1>10, <2>3
    <3>2. QED
      BY <3>1 DEF Placed
  <2>4. QED
    BY <2>2, <2>3
<1>17. QED
  BY <1>15, <1>16

\* Executions are started one by one, each with the next number.
LEMMA LaunchParts ==
  ASSUME Typed, NEW p \in [Instances -> [Runs -> Phases]], NEW S \in SUBSET Instances, Launch(p, S)
  PROVE  /\ ph' \in [Instances -> [Runs -> Phases]]
         /\ runs' \in [Instances -> 0..MaxRuns]
         /\ \A k \in S : runs[k] + 1 \in Runs
         /\ \A k \in Instances : \A m \in Runs :
              ph'[k][m] = IF k \in S /\ m = runs[k] + 1 THEN "step" ELSE p[k][m]
         /\ \A k \in Instances : runs'[k] = IF k \in S THEN runs[k] + 1 ELSE runs[k]
<1>1. runs \in [Instances -> 0..MaxRuns] /\ MaxRuns \in Nat
  BY ProgramType DEF Typed, TypeOK
<1>2. \A k \in S : k \in Instances /\ runs[k] < MaxRuns
  BY DEF Launch
<1>3. \A k \in S : runs[k] + 1 \in Runs /\ runs[k] + 1 \in 0..MaxRuns
  BY <1>1, <1>2 DEF Runs
<1>4. runs' = [i \in Instances |-> IF i \in S THEN runs[i] + 1 ELSE runs[i]]
  BY DEF Launch
<1>5. runs' \in [Instances -> 0..MaxRuns]
  BY <1>1, <1>3, <1>4
<1>6. ph' = [i \in Instances |-> IF i \in S THEN [p[i] EXCEPT ![runs[i] + 1] = "step"] ELSE p[i]]
  BY DEF Launch
<1>7. \A k \in Instances : /\ ph'[k] \in [Runs -> Phases]
                           /\ \A m \in Runs : ph'[k][m] = IF k \in S /\ m = runs[k] + 1 THEN "step" ELSE p[k][m]
  <2>1. SUFFICES ASSUME NEW k \in Instances
                 PROVE  /\ ph'[k] \in [Runs -> Phases]
                        /\ \A m \in Runs : ph'[k][m] = IF k \in S /\ m = runs[k] + 1 THEN "step" ELSE p[k][m]
    OBVIOUS
  <2>2. "step" \in Phases /\ p[k] \in [Runs -> Phases]
    BY DEF Phases
  <2>3. CASE k \in S
    <3>1. ph'[k] = [p[k] EXCEPT ![runs[k] + 1] = "step"]
      BY <1>6, <2>3
    <3>2. QED
      BY <2>2, <2>3, <3>1
  <2>4. CASE k \notin S
    BY <1>6, <2>2, <2>4
  <2>5. QED
    BY <2>3, <2>4
<1>8. ph' \in [Instances -> [Runs -> Phases]]
  BY <1>6, <1>7
<1>9. QED
  BY <1>3, <1>4, <1>5, <1>7, <1>8

\* What the end of an execution leaves of the phases.
Ended(i, n, k, m) ==
  IF k # i THEN ph[k][m]
  ELSE IF m = n THEN "done"
  ELSE IF ph[k][m] = "waiting" THEN "deaf"
  ELSE ph[k][m]

\* An execution ends, with nothing queued or with j started in its place.
EndsAlone(i, n, r) ==
  /\ \A j \in Instances : r[j] # "queued"
  /\ row' = r /\ runs' = runs
  /\ \A k \in Instances : ac'[k] = IF k = i THEN None ELSE ac[k]
  /\ \A k \in Instances : \A m \in Runs : ph'[k][m] = Ended(i, n, k, m)
EndsAndStarts(i, n, r, j) ==
  /\ r[j] = "queued" /\ row' = [r EXCEPT ![j] = "running"]
  /\ runs[j] + 1 \in Runs
  /\ \A k \in Instances : runs'[k] = IF k = j THEN runs[k] + 1 ELSE runs[k]
  /\ \A k \in Instances : ac'[k] = IF k = j THEN runs[j] + 1 ELSE IF k = i THEN None ELSE ac[k]
  /\ \A k \in Instances : \A m \in Runs :
       ph'[k][m] = IF k = j /\ m = runs[j] + 1 THEN "step" ELSE Ended(i, n, k, m)

\* The end of an execution starts the oldest instance that is queued, if any.
LEMMA FinallyParts ==
  ASSUME Typed, NEW i \in Instances, NEW n \in Runs, NEW r \in [Instances -> Rows], Finally(i, n, r)
  PROVE  /\ waiter' = [waiter EXCEPT ![i] = None]
         /\ ph' \in [Instances -> [Runs -> Phases]]
         /\ runs' \in [Instances -> 0..MaxRuns]
         /\ row' \in [Instances -> Rows]
         /\ ac' \in [Instances -> 0..MaxRuns]
         /\ EndsAlone(i, n, r) \/ \E j \in Instances : EndsAndStarts(i, n, r, j)
<1> DEFINE p == [ph EXCEPT ![i] = [k \in Runs |-> IF k = n THEN "done"
                                                 ELSE IF ph[i][k] = "waiting" THEN "deaf"
                                                 ELSE ph[i][k]]]
           queued == {j \in Instances : r[j] = "queued"}
<1>1. /\ ph \in [Instances -> [Runs -> Phases]] /\ ac \in [Instances -> 0..MaxRuns]
      /\ runs \in [Instances -> 0..MaxRuns] /\ MaxRuns \in Nat
  BY ProgramType DEF Typed, TypeOK
<1>2. "done" \in Phases /\ "deaf" \in Phases /\ None \in 0..MaxRuns /\ Runs \subseteq 0..MaxRuns
  BY <1>1 DEF Phases, None, Runs
<1>3. /\ p \in [Instances -> [Runs -> Phases]]
      /\ \A k \in Instances : \A m \in Runs : p[k][m] = Ended(i, n, k, m)
  <2>1. [k \in Runs |-> IF k = n THEN "done" ELSE IF ph[i][k] = "waiting" THEN "deaf" ELSE ph[i][k]] \in [Runs -> Phases]
    BY <1>1, <1>2
  <2>2. p \in [Instances -> [Runs -> Phases]]
    BY <1>1, <2>1
  <2>3. ASSUME NEW k \in Instances, NEW m \in Runs PROVE p[k][m] = Ended(i, n, k, m)
    BY <1>1, <2>3 DEF Ended
  <2>4. QED
    BY <2>2, <2>3
<1>4. /\ waiter' = [waiter EXCEPT ![i] = None]
      /\ \/ queued = {} /\ row' = r /\ ph' = p /\ ac' = [ac EXCEPT ![i] = None] /\ runs' = runs
         \/ \E j \in queued : /\ row' = [r EXCEPT ![j] = "running"]
                              /\ Launch(p, {j})
                              /\ ac' = [[ac EXCEPT ![i] = None] EXCEPT ![j] = runs[j] + 1]
  BY DEF Finally
<1> HIDE DEF p
<1>5. CASE queued = {} /\ row' = r /\ ph' = p /\ ac' = [ac EXCEPT ![i] = None] /\ runs' = runs
  <2>1. \A j \in Instances : r[j] # "queued"
    BY <1>5
  <2>2. ac' \in [Instances -> 0..MaxRuns] /\ \A k \in Instances : ac'[k] = IF k = i THEN None ELSE ac[k]
    BY <1>1, <1>2, <1>5
  <2>3. QED
    BY <1>1, <1>3, <1>4, <1>5, <2>1, <2>2 DEF EndsAlone
<1>6. ASSUME NEW j \in queued, row' = [r EXCEPT ![j] = "running"], Launch(p, {j}),
             ac' = [[ac EXCEPT ![i] = None] EXCEPT ![j] = runs[j] + 1]
      PROVE  /\ ph' \in [Instances -> [Runs -> Phases]]
             /\ runs' \in [Instances -> 0..MaxRuns]
             /\ row' \in [Instances -> Rows]
             /\ ac' \in [Instances -> 0..MaxRuns]
             /\ j \in Instances /\ EndsAndStarts(i, n, r, j)
  <2>1. j \in Instances /\ r[j] = "queued" /\ {j} \in SUBSET Instances
    OBVIOUS
  <2> HIDE DEF queued
  <2>2. /\ ph' \in [Instances -> [Runs -> Phases]]
        /\ runs' \in [Instances -> 0..MaxRuns]
        /\ runs[j] + 1 \in Runs
        /\ \A k \in Instances : \A m \in Runs :
             ph'[k][m] = IF k \in {j} /\ m = runs[k] + 1 THEN "step" ELSE p[k][m]
        /\ \A k \in Instances : runs'[k] = IF k \in {j} THEN runs[k] + 1 ELSE runs[k]
    BY <1>3, <1>6, <2>1, LaunchParts
  <2>3. row' \in [Instances -> Rows]
    BY <1>6, <2>1 DEF Rows
  <2>4. ac' \in [Instances -> 0..MaxRuns]
        /\ \A k \in Instances : ac'[k] = IF k = j THEN runs[j] + 1 ELSE IF k = i THEN None ELSE ac[k]
    BY <1>1, <1>2, <1>6, <2>1, <2>2
  <2>5. \A k \in Instances : runs'[k] = IF k = j THEN runs[k] + 1 ELSE runs[k]
    BY <2>2
  <2>6. \A k \in Instances : \A m \in Runs :
          ph'[k][m] = IF k = j /\ m = runs[j] + 1 THEN "step" ELSE Ended(i, n, k, m)
    BY <1>3, <2>2
  <2>7. QED
    BY <1>6, <2>1, <2>2, <2>3, <2>4, <2>5, <2>6 DEF EndsAndStarts
<1> HIDE DEF queued
<1>7. CASE \E j \in queued : /\ row' = [r EXCEPT ![j] = "running"]
                             /\ Launch(p, {j})
                             /\ ac' = [[ac EXCEPT ![i] = None] EXCEPT ![j] = runs[j] + 1]
  <2>1. PICK j \in queued : /\ row' = [r EXCEPT ![j] = "running"]
                            /\ Launch(p, {j})
                            /\ ac' = [[ac EXCEPT ![i] = None] EXCEPT ![j] = runs[j] + 1]
    BY <1>7
  <2>2. /\ ph' \in [Instances -> [Runs -> Phases]]
        /\ runs' \in [Instances -> 0..MaxRuns]
        /\ row' \in [Instances -> Rows]
        /\ ac' \in [Instances -> 0..MaxRuns]
        /\ j \in Instances /\ EndsAndStarts(i, n, r, j)
    BY <2>1, <1>6
  <2>3. QED
    BY <1>4, <2>1, <2>2
<1>8. QED
  BY <1>4, <1>5, <1>7

-----------------------------------------------------------------------------
(* The registries.                                                         *)

Sound == Typed /\ RegistriesLive

\* An execution that is live has a number that was given out.
LEMMA LiveStarted ==
  ASSUME Typed, NEW i \in Instances, NEW n \in Runs, Live(i, n)
  PROVE  n <= runs[i]
<1>1. runs[i] \in Nat /\ n \in Nat
  BY ProgramType DEF Typed, TypeOK, Runs
<1>2. QED
  BY <1>1 DEF Typed, Placed, Live

LEMMA MoveSound ==
  ASSUME Sound, NEW i \in Instances, NEW n \in Runs, Moves(i, n)
  PROVE  Sound'
<1>1. Typed'
  BY MoveType DEF Sound
<1>2. /\ ph \in [Instances -> [Runs -> Phases]] /\ ac \in [Instances -> 0..MaxRuns]
      /\ waiter \in [Instances -> 0..MaxRuns] /\ sleeper \in [Instances -> 0..MaxRuns]
      /\ n # None
  BY ProgramType, SMTT(30) DEF Sound, Typed, TypeOK, Runs, None
<1>3. /\ ac' = ac
      /\ \E q \in Phases \ {"unused", "done"} : ph' = [ph EXCEPT ![i][n] = q]
      /\ ph[i][n] \notin {"unused", "done"}
  <2>1. [ph EXCEPT ![i][n] = ph[i][n]] = ph
    BY <1>2
  <2>2. QED
   BY <2>1 DEF Moves, EntersAborted, StepRefused, StepFatal, BeginDo, StepOk, StepFail, BackoffEnds,
         BeginSleep, Wake, BeginWait, WaitTimeout, To, Enters, memVars, histVars, execVars, Phases
<1>4. PICK q \in Phases \ {"unused", "done"} : ph' = [ph EXCEPT ![i][n] = q]
  BY <1>3
<1>5. \A j \in Instances : \A k \in Runs : ph'[j][k] = IF j = i /\ k = n THEN q ELSE ph[j][k]
  BY <1>2, <1>4, Entry
<1>6. /\ \/ waiter' = waiter /\ ph[i][n] # "waiting"
         \/ waiter' = [waiter EXCEPT ![i] = n] /\ q = "waiting"
         \/ waiter' = [waiter EXCEPT ![i] = None]
      /\ \/ sleeper' = sleeper /\ ph[i][n] # "sleeping"
         \/ sleeper' = [sleeper EXCEPT ![i] = n] /\ q = "sleeping"
         \/ sleeper' = [sleeper EXCEPT ![i] = None]
  <2>1. CASE EntersAborted(i, n) \/ StepRefused(i, n) \/ StepFatal(i, n) \/ BeginDo(i, n)
    BY <2>1 DEF EntersAborted, StepRefused, StepFatal, BeginDo, Enters, memVars
  <2>2. CASE StepOk(i, n) \/ StepFail(i, n) \/ BackoffEnds(i, n)
    BY <2>2 DEF StepOk, StepFail, BackoffEnds, memVars
  <2>3. CASE BeginSleep(i, n)
    BY <1>2, <1>4, <2>3 DEF BeginSleep, Enters, To
  <2>4. CASE Wake(i, n)
    BY <2>4 DEF Wake
  <2>5. CASE BeginWait(i, n)
    BY <1>2, <1>4, <2>5 DEF BeginWait, Enters, To
  <2>6. CASE WaitTimeout(i, n)
    <3>1. waiter' = [waiter EXCEPT ![i] = None] \/ (waiter' = waiter /\ ph[i][n] # "waiting")
      BY <1>2, <2>6 DEF WaitTimeout
    <3>2. sleeper' = sleeper /\ ph[i][n] # "sleeping"
      BY <2>6 DEF WaitTimeout
    <3>3. QED
      BY <3>1, <3>2
  <2>7. QED
    BY <2>1, <2>2, <2>3, <2>4, <2>5, <2>6 DEF Moves
<1>7. ASSUME NEW j \in Instances
      PROVE  /\ ac'[j] # None => Live(j, ac[j])'
             /\ waiter'[j] # None => ph'[j][waiter'[j]] = "waiting"
             /\ sleeper'[j] # None => ph'[j][sleeper'[j]] = "sleeping"
  <2>1. /\ ac[j] # None => ac[j] \in Runs
        /\ waiter[j] # None => waiter[j] \in Runs
        /\ sleeper[j] # None => sleeper[j] \in Runs
    BY <1>2, ProgramType DEF None, Runs
  <2>2. /\ ac[j] # None => ph[j][ac[j]] \notin {"unused", "done"}
        /\ waiter[j] # None => ph[j][waiter[j]] = "waiting"
        /\ sleeper[j] # None => ph[j][sleeper[j]] = "sleeping"
    BY DEF Sound, RegistriesLive, Live
  <2>3. ac'[j] # None => Live(j, ac[j])'
    BY <1>3, <1>4, <1>5, <2>1, <2>2 DEF Live
  <2>4. waiter'[j] # None => ph'[j][waiter'[j]] = "waiting"
    BY <1>2, <1>5, <1>6, <2>1, <2>2
  <2>5. sleeper'[j] # None => ph'[j][sleeper'[j]] = "sleeping"
    BY <1>2, <1>5, <1>6, <2>1, <2>2
  <2>6. QED
    BY <2>3, <2>4, <2>5
<1>8. RegistriesLive'
  BY <1>3, <1>7 DEF RegistriesLive, Live
<1>9. QED
  BY <1>1, <1>8 DEF Sound

\* An execution ends, and may start another instance's.
LEMMA EndSound ==
  ASSUME Sound, NEW i \in Instances, NEW n \in Runs, RunReturns(i, n) \/ RunThrows(i, n)
  PROVE  Sound'
<1>1. /\ TypeOK /\ Placed /\ Typed
      /\ ph \in [Instances -> [Runs -> Phases]] /\ ac \in [Instances -> 0..MaxRuns]
      /\ waiter \in [Instances -> 0..MaxRuns] /\ sleeper \in [Instances -> 0..MaxRuns]
      /\ row \in [Instances -> Rows] /\ runs \in [Instances -> 0..MaxRuns]
      /\ fails \in [Instances -> [Steps -> 0..(MaxRetries + 1)]]
  BY DEF Sound, Typed, TypeOK
<1>2. /\ ph[i][n] \in {"step", "unwinding"}
      /\ \E r \in [Instances -> Rows] : Finally(i, n, r)
      /\ UNCHANGED <<cached, events, pc, aborted, attempt, sleeper, histVars>>
      /\ UNCHANGED fails \/ fails' = [fails EXCEPT ![i] = [s \in Steps |-> 0]]
  <2>1. \A t \in Rows : SetRow(i, t) \in [Instances -> Rows]
    BY <1>1 DEF SetRow
  <2>2. "complete" \in Rows /\ "errored" \in Rows
    BY DEF Rows, Over
  <2>3. QED
    BY <1>1, <2>1, <2>2 DEF RunReturns, RunThrows
<1>3. PICK r \in [Instances -> Rows] : Finally(i, n, r)
  BY <1>2
<1>4. /\ waiter' = [waiter EXCEPT ![i] = None]
      /\ ph' \in [Instances -> [Runs -> Phases]]
      /\ runs' \in [Instances -> 0..MaxRuns]
      /\ row' \in [Instances -> Rows]
      /\ ac' \in [Instances -> 0..MaxRuns]
  BY <1>1, <1>3, FinallyParts
<1>5. /\ \A k \in Instances : runs'[k] \in {runs[k], runs[k] + 1}
      /\ \A k \in Instances : ac'[k] # None => \/ ac'[k] = ac[k] /\ k # i
                                               \/ ac'[k] = runs[k] + 1 /\ runs'[k] = runs[k] + 1 /\ runs[k] + 1 \in Runs
      /\ \A k \in Instances : \A m \in Runs :
           ph'[k][m] = IF runs'[k] = runs[k] + 1 /\ m = runs[k] + 1 THEN "step" ELSE Ended(i, n, k, m)
  <2>1. \A k \in Instances : runs[k] # runs[k] + 1
    BY <1>1
  <2>2. EndsAlone(i, n, r) \/ \E j \in Instances : EndsAndStarts(i, n, r, j)
    BY <1>1, <1>3, FinallyParts
  <2>3. CASE EndsAlone(i, n, r)
    BY <2>1, <2>3 DEF EndsAlone
  <2>4. CASE \E j \in Instances : EndsAndStarts(i, n, r, j)
    <3>1. PICK j \in Instances : EndsAndStarts(i, n, r, j)
      BY <2>4
    <3>2. QED
      BY <2>1, <3>1 DEF EndsAndStarts
  <2>5. QED
    BY <2>2, <2>3, <2>4
<1>6. fails' \in [Instances -> [Steps -> 0..(MaxRetries + 1)]]
  <2>1. [s \in Steps |-> 0] \in [Steps -> 0..(MaxRetries + 1)]
    BY ProgramType
  <2>2. QED
    BY <1>1, <1>2, <2>1
<1>7. waiter' \in [Instances -> 0..MaxRuns]
  BY <1>1, <1>4, ProgramType DEF None
<1>8. TypeOK'
  BY <1>1, <1>2, <1>4, <1>6, <1>7 DEF TypeOK, histVars
<1>9. \A k \in Instances : \A m \in Runs :
        /\ ph'[k][m] \in {"calling", "backoff", "sleeping", "waiting", "deaf"} =>
             ph[k][m] \in {"calling", "backoff", "sleeping", "waiting", "deaf"}
        /\ ph'[k][m] = "backoff" => ph[k][m] = "backoff"
        /\ m > runs'[k] => ph'[k][m] = ph[k][m] /\ m > runs[k]
  <2>1. SUFFICES ASSUME NEW k \in Instances, NEW m \in Runs
                 PROVE  /\ ph'[k][m] \in {"calling", "backoff", "sleeping", "waiting", "deaf"} =>
                             ph[k][m] \in {"calling", "backoff", "sleeping", "waiting", "deaf"}
                        /\ ph'[k][m] = "backoff" => ph[k][m] = "backoff"
                        /\ m > runs'[k] => ph'[k][m] = ph[k][m] /\ m > runs[k]
    OBVIOUS
  <2>2. runs[k] \in Nat /\ m \in Nat
    BY <1>1, ProgramType DEF Runs
  <2>3. m > runs'[k] => m > runs[k] /\ ~(runs'[k] = runs[k] + 1 /\ m = runs[k] + 1)
    BY <1>5, <2>2
  <2>4. m > runs[k] => ph[k][m] = "unused"
    BY <1>1 DEF Placed
  <2>5. ph[i][n] # "unused"
    BY <1>2
  <2>6. QED
    BY <1>5, <2>3, <2>4, <2>5 DEF Ended
<1>10. Placed'
  BY <1>1, <1>2, <1>9 DEF Placed
<1>11. ASSUME NEW j \in Instances
       PROVE  /\ ac'[j] # None => Live(j, ac[j])'
              /\ waiter'[j] # None => ph'[j][waiter'[j]] = "waiting"
              /\ sleeper[j] # None => ph'[j][sleeper[j]] = "sleeping"
  <2>1. /\ ac[j] # None => ac[j] \in Runs
        /\ waiter[j] # None => waiter[j] \in Runs
        /\ sleeper[j] # None => sleeper[j] \in Runs
    BY <1>1, ProgramType DEF None, Runs
  <2>2. /\ ac[j] # None => ph[j][ac[j]] \notin {"unused", "done"}
        /\ waiter[j] # None => ph[j][waiter[j]] = "waiting"
        /\ sleeper[j] # None => ph[j][sleeper[j]] = "sleeping"
    BY DEF Sound, RegistriesLive, Live
  <2>3. \A m \in Runs : m = runs[j] + 1 => ph[j][m] = "unused"
    <3>1. runs[j] + 1 > runs[j]
      BY <1>1
    <3>2. QED
      BY <1>1, <3>1 DEF Placed
  <2>4. ac'[j] # None => ac'[j] \in Runs /\ ph'[j][ac'[j]] \notin {"unused", "done"}
    BY <1>5, <2>1, <2>2, <2>3 DEF Ended
  <2>5. waiter'[j] # None => j # i /\ waiter'[j] = waiter[j]
    BY <1>1, <1>4
  <2>6. waiter'[j] # None => ph'[j][waiter'[j]] = "waiting"
    BY <1>5, <2>1, <2>2, <2>3, <2>5 DEF Ended
  <2>7. sleeper[j] # None => ph'[j][sleeper[j]] = "sleeping"
    BY <1>2, <1>5, <2>1, <2>2, <2>3 DEF Ended
  <2>8. QED
    BY <2>4, <2>6, <2>7 DEF Live
<1>12. RegistriesLive'
  BY <1>2, <1>11 DEF RegistriesLive, Live
<1>13. QED
  BY <1>8, <1>10, <1>12 DEF Sound, Typed

\* What abort() of the registered controller changes.
LEMMA AbortParts ==
  ASSUME Sound, NEW i \in Instances, Abort(i)
  PROVE  /\ aborted' \in [Instances -> [Runs -> BOOLEAN]]
         /\ waiter' \in [Instances -> 0..MaxRuns] /\ sleeper' \in [Instances -> 0..MaxRuns]
         /\ AbortedPh(i) \in [Instances -> [Runs -> Phases]]
         /\ \A k \in Instances : \A m \in Runs :
              aborted'[k][m] = IF k = i /\ m = ac[i] THEN TRUE ELSE aborted[k][m]
         /\ \A k \in Instances : \A m \in Runs :
              AbortedPh(i)[k][m] =
                IF k = i /\ m = ac[i] /\ ph[k][m] \in {"backoff", "sleeping", "waiting", "deaf"}
                  THEN "unwinding" ELSE ph[k][m]
         /\ \A k \in Instances : waiter'[k] # None =>
              waiter'[k] = waiter[k] /\ ~(k = i /\ waiter[k] = ac[i])
         /\ \A k \in Instances : sleeper'[k] # None =>
              sleeper'[k] = sleeper[k] /\ ~(k = i /\ sleeper[k] = ac[i])
<1>1. /\ ph \in [Instances -> [Runs -> Phases]] /\ ac \in [Instances -> 0..MaxRuns]
      /\ waiter \in [Instances -> 0..MaxRuns] /\ sleeper \in [Instances -> 0..MaxRuns]
      /\ aborted \in [Instances -> [Runs -> BOOLEAN]]
      /\ \A m \in Runs : m # None
      /\ None \in 0..MaxRuns
      /\ ac[i] # None => ac[i] \in Runs
  BY ProgramType DEF Sound, Typed, TypeOK, None, Runs
<1>2. "unwinding" \in Phases
  BY DEF Phases
<1>3. /\ aborted' = IF ac[i] = None THEN aborted ELSE [aborted EXCEPT ![i][ac[i]] = TRUE]
      /\ waiter' = [waiter EXCEPT ![i] = IF ac[i] # None /\ ph[i][ac[i]] = "waiting" THEN None ELSE @]
      /\ sleeper' = [sleeper EXCEPT ![i] = IF ac[i] # None /\ ph[i][ac[i]] = "sleeping" THEN None ELSE @]
  BY DEF Abort
<1>4. /\ aborted' \in [Instances -> [Runs -> BOOLEAN]]
      /\ \A k \in Instances : \A m \in Runs :
           aborted'[k][m] = IF k = i /\ m = ac[i] THEN TRUE ELSE aborted[k][m]
  <2>1. CASE ac[i] = None
    BY <1>1, <1>3, <2>1
  <2>2. CASE ac[i] # None
    <3>1. ac[i] \in Runs /\ aborted' = [aborted EXCEPT ![i][ac[i]] = TRUE]
      BY <1>1, <1>3, <2>2
    <3>2. [aborted[i] EXCEPT ![ac[i]] = TRUE] \in [Runs -> BOOLEAN]
      BY <1>1, <3>1
    <3>3. aborted' = [aborted EXCEPT ![i] = [aborted[i] EXCEPT ![ac[i]] = TRUE]]
      BY <1>1, <3>1
    <3>4. aborted' \in [Instances -> [Runs -> BOOLEAN]]
      BY <1>1, <3>2, <3>3
    <3>5. \A k \in Instances : aborted'[k] = IF k = i THEN [aborted[i] EXCEPT ![ac[i]] = TRUE] ELSE aborted[k]
      BY <1>1, <3>3
    <3>6. \A m \in Runs : [aborted[i] EXCEPT ![ac[i]] = TRUE][m] = IF m = ac[i] THEN TRUE ELSE aborted[i][m]
      BY <1>1, <3>1
    <3>7. QED
      BY <3>4, <3>5, <3>6
  <2>3. QED
    BY <2>1, <2>2
<1>5. waiter' \in [Instances -> 0..MaxRuns] /\ sleeper' \in [Instances -> 0..MaxRuns]
  BY <1>1, <1>3
<1>6. /\ AbortedPh(i) \in [Instances -> [Runs -> Phases]]
      /\ \A k \in Instances : \A m \in Runs :
           AbortedPh(i)[k][m] =
             IF k = i /\ m = ac[i] /\ ph[k][m] \in {"backoff", "sleeping", "waiting", "deaf"}
               THEN "unwinding" ELSE ph[k][m]
  <2>1. CASE ac[i] = None
    BY <1>1, <2>1 DEF AbortedPh
  <2>2. CASE ac[i] # None
    <3> DEFINE v == IF ph[i][ac[i]] \in {"backoff", "sleeping", "waiting", "deaf"}
                      THEN "unwinding" ELSE ph[i][ac[i]]
    <3>1. v \in Phases
      BY <1>1, <1>2, <2>2
    <3>2. AbortedPh(i) = [ph EXCEPT ![i][ac[i]] = v]
      BY <1>1, <2>2 DEF AbortedPh
    <3>3. /\ [ph EXCEPT ![i][ac[i]] = v] \in [Instances -> [Runs -> Phases]]
          /\ \A k \in Instances : \A m \in Runs :
               [ph EXCEPT ![i][ac[i]] = v][k][m] = IF k = i /\ m = ac[i] THEN v ELSE ph[k][m]
      <4> HIDE DEF v
      <4>1. QED
        BY <1>1, <2>2, <3>1, Entry
    <3>4. QED
      BY <3>2, <3>3
  <2>3. QED
    BY <2>1, <2>2
<1>7. /\ \A k \in Instances : waiter[k] # None => ph[k][waiter[k]] = "waiting"
      /\ \A k \in Instances : sleeper[k] # None => ph[k][sleeper[k]] = "sleeping"
  BY DEF Sound, RegistriesLive
<1>8. \A k \in Instances : waiter'[k] # None =>
        waiter'[k] = waiter[k] /\ ~(k = i /\ waiter[k] = ac[i])
  BY <1>1, <1>3, <1>7
<1>9. \A k \in Instances : sleeper'[k] # None =>
        sleeper'[k] = sleeper[k] /\ ~(k = i /\ sleeper[k] = ac[i])
  BY <1>1, <1>3, <1>7
<1>10. QED
  BY <1>4, <1>5, <1>6, <1>8, <1>9

\* The registered execution has a number that was given out, and an unstarted one
\* is unused.
LEMMA Started ==
  ASSUME Sound, NEW k \in Instances
  PROVE  /\ runs[k] \in 0..MaxRuns /\ runs[k] \in Nat
         /\ \A m \in Runs : m \in Nat /\ m # None
         /\ ac[k] # None => ac[k] \in Runs /\ ac[k] <= runs[k] /\ Live(k, ac[k])
         /\ \A m \in Runs : m > runs[k] => ph[k][m] = "unused" /\ aborted[k][m] = FALSE
         /\ \A m \in Runs : m = runs[k] + 1 => m > runs[k]
         /\ ac[k] # None => ac[k] # runs[k] + 1
<1>1. /\ runs[k] \in 0..MaxRuns /\ ac[k] \in 0..MaxRuns
      /\ \A v \in 0..MaxRuns : v # None => v \in Runs
  BY ProgramType DEF Sound, Typed, TypeOK, None, Runs
<1>2. ac[k] # None => Live(k, ac[k])
  BY DEF Sound, RegistriesLive
<1>3. ac[k] # None => ac[k] <= runs[k]
  BY <1>1, <1>2, LiveStarted DEF Sound
<1>4. \A m \in Runs : m > runs[k] => ph[k][m] = "unused" /\ aborted[k][m] = FALSE
  BY DEF Sound, Typed, Placed
<1>5. \A m \in Runs : m = runs[k] + 1 => m > runs[k]
  BY <1>1
<1>6. runs[k] \in Nat /\ \A m \in Runs : m \in Nat /\ m # None
  BY <1>1, ProgramType DEF Runs, None
<1>7. ac[k] # None => ac[k] # runs[k] + 1
  BY <1>1, <1>3, <1>6
<1>8. QED
  BY <1>1, <1>2, <1>3, <1>4, <1>5, <1>6, <1>7

\* What the registries hold is one of the executions, and not the next one.
LEMMA Registered ==
  ASSUME Sound, NEW k \in Instances
  PROVE  /\ ac[k] # None => ac[k] \in Runs /\ ph[k][ac[k]] \notin {"unused", "done"}
         /\ waiter[k] # None => waiter[k] \in Runs /\ ph[k][waiter[k]] = "waiting"
         /\ sleeper[k] # None => sleeper[k] \in Runs /\ ph[k][sleeper[k]] = "sleeping"
         /\ \A m \in Runs : m = runs[k] + 1 => ph[k][m] = "unused"
<1>1. /\ waiter[k] \in 0..MaxRuns /\ sleeper[k] \in 0..MaxRuns
      /\ \A v \in 0..MaxRuns : v # None => v \in Runs
  BY ProgramType DEF Sound, Typed, TypeOK, None, Runs
<1>2. /\ ac[k] # None => Live(k, ac[k])
      /\ waiter[k] # None => ph[k][waiter[k]] = "waiting"
      /\ sleeper[k] # None => ph[k][sleeper[k]] = "sleeping"
  BY DEF Sound, RegistriesLive
<1>3. \A m \in Runs : m = runs[k] + 1 => ph[k][m] = "unused"
  BY Started
<1>4. ac[k] # None => ac[k] \in Runs
  BY Started
<1>5. QED
  BY <1>1, <1>2, <1>3, <1>4 DEF Live

LEMMA TerminateSound ==
  ASSUME Sound, NEW i \in Instances, Terminate(i)
  PROVE  Sound'
<1>1. /\ Abort(i) /\ ph' = AbortedPh(i)
      /\ row' = [row EXCEPT ![i] = IF @ \in Over THEN @ ELSE "terminated"]
      /\ UNCHANGED <<cached, fails, events, pc, attempt, runs, ac, histVars>>
  BY DEF Terminate
<1>2. /\ aborted' \in [Instances -> [Runs -> BOOLEAN]]
      /\ waiter' \in [Instances -> 0..MaxRuns] /\ sleeper' \in [Instances -> 0..MaxRuns]
      /\ ph' \in [Instances -> [Runs -> Phases]]
      /\ \A k \in Instances : \A m \in Runs :
           aborted'[k][m] = IF k = i /\ m = ac[i] THEN TRUE ELSE aborted[k][m]
      /\ \A k \in Instances : \A m \in Runs :
           ph'[k][m] =
             IF k = i /\ m = ac[i] /\ ph[k][m] \in {"backoff", "sleeping", "waiting", "deaf"}
               THEN "unwinding" ELSE ph[k][m]
      /\ \A k \in Instances : waiter'[k] # None =>
           waiter'[k] = waiter[k] /\ ~(k = i /\ waiter[k] = ac[i])
      /\ \A k \in Instances : sleeper'[k] # None =>
           sleeper'[k] = sleeper[k] /\ ~(k = i /\ sleeper[k] = ac[i])
  <2>1. /\ aborted' \in [Instances -> [Runs -> BOOLEAN]]
        /\ waiter' \in [Instances -> 0..MaxRuns] /\ sleeper' \in [Instances -> 0..MaxRuns]
        /\ AbortedPh(i) \in [Instances -> [Runs -> Phases]]
        /\ \A k \in Instances : \A m \in Runs :
             aborted'[k][m] = IF k = i /\ m = ac[i] THEN TRUE ELSE aborted[k][m]
        /\ \A k \in Instances : \A m \in Runs :
             AbortedPh(i)[k][m] =
               IF k = i /\ m = ac[i] /\ ph[k][m] \in {"backoff", "sleeping", "waiting", "deaf"}
                 THEN "unwinding" ELSE ph[k][m]
        /\ \A k \in Instances : waiter'[k] # None =>
             waiter'[k] = waiter[k] /\ ~(k = i /\ waiter[k] = ac[i])
        /\ \A k \in Instances : sleeper'[k] # None =>
             sleeper'[k] = sleeper[k] /\ ~(k = i /\ sleeper[k] = ac[i])
    BY <1>1, AbortParts
  <2>2. QED
    BY <1>1, <2>1
<1>3. row' \in [Instances -> Rows]
  BY <1>1 DEF Sound, Typed, TypeOK, Rows, Over
<1>4. TypeOK'
  BY <1>1, <1>2, <1>3 DEF Sound, Typed, TypeOK, histVars
<1>5. Placed'
  <2>1. SUFFICES ASSUME NEW k \in Instances, NEW m \in Runs
                 PROVE  /\ m > runs[k] => ph'[k][m] = "unused" /\ aborted'[k][m] = FALSE
                        /\ ph'[k][m] \in {"calling", "backoff", "sleeping", "waiting", "deaf"} => pc[k][m] \in Steps
                        /\ ph'[k][m] = "backoff" => attempt[k][m] < MaxRetries
    BY <1>1 DEF Placed
  <2>2. m > runs[k] => ~(k = i /\ m = ac[i])
    <3>1. m # None /\ m \in Nat /\ runs[k] \in Nat
      BY Started
    <3>2. m = ac[k] => m <= runs[k]
      BY <3>1, Started
    <3>3. QED
      BY <3>1, <3>2
  <2>3. /\ m > runs[k] => ph[k][m] = "unused" /\ aborted[k][m] = FALSE
        /\ ph[k][m] \in {"calling", "backoff", "sleeping", "waiting", "deaf"} => pc[k][m] \in Steps
        /\ ph[k][m] = "backoff" => attempt[k][m] < MaxRetries
    BY DEF Sound, Typed, Placed
  <2>4. QED
    BY <1>2, <2>2, <2>3, ZenonT(60)
<1>6. RegistriesLive'
  <2>1. SUFFICES ASSUME NEW k \in Instances
                 PROVE  /\ ac[k] # None => ph'[k][ac[k]] \notin {"unused", "done"}
                        /\ waiter'[k] # None => ph'[k][waiter'[k]] = "waiting"
                        /\ sleeper'[k] # None => ph'[k][sleeper'[k]] = "sleeping"
    BY <1>1 DEF RegistriesLive, Live
  <2>2. ac[k] # None => ph'[k][ac[k]] \notin {"unused", "done"}
    BY <1>2, Registered, SMTT(30)
  <2>3. waiter'[k] # None => ph'[k][waiter'[k]] = "waiting"
    <3>1. waiter[k] # None => waiter[k] \in Runs /\ ph[k][waiter[k]] = "waiting"
      BY Registered
    <3>2. QED
      BY <1>2, <3>1
  <2>4. sleeper'[k] # None => ph'[k][sleeper'[k]] = "sleeping"
    <3>1. sleeper[k] # None => sleeper[k] \in Runs /\ ph[k][sleeper[k]] = "sleeping"
      BY Registered
    <3>2. QED
      BY <1>2, <3>1
  <2>5. QED
    BY <2>2, <2>3, <2>4
<1>7. QED
  BY <1>4, <1>5, <1>6 DEF Sound, Typed

LEMMA RestartSound ==
  ASSUME Sound, NEW i \in Instances, NEW S, RestartKeeping(i, S)
  PROVE  Sound'
<1>1. /\ Abort(i) /\ Launch(AbortedPh(i), {i})
      /\ row' = [row EXCEPT ![i] = "running"]
      /\ ac' = [ac EXCEPT ![i] = runs[i] + 1]
      /\ cached' = [cached EXCEPT ![i] = [s \in Steps |-> IF s \in S THEN @[s] ELSE None]]
      /\ fails' = [fails EXCEPT ![i] = [s \in Steps |-> 0]]
      /\ UNCHANGED <<events, pc, attempt, exits, done, failed, sent, consumed>>
  BY DEF RestartKeeping
<1>2. /\ aborted' \in [Instances -> [Runs -> BOOLEAN]]
      /\ waiter' \in [Instances -> 0..MaxRuns] /\ sleeper' \in [Instances -> 0..MaxRuns]
      /\ AbortedPh(i) \in [Instances -> [Runs -> Phases]]
      /\ \A k \in Instances : \A m \in Runs :
           aborted'[k][m] = IF k = i /\ m = ac[i] THEN TRUE ELSE aborted[k][m]
      /\ \A k \in Instances : \A m \in Runs :
           AbortedPh(i)[k][m] =
             IF k = i /\ m = ac[i] /\ ph[k][m] \in {"backoff", "sleeping", "waiting", "deaf"}
               THEN "unwinding" ELSE ph[k][m]
      /\ \A k \in Instances : waiter'[k] # None =>
           waiter'[k] = waiter[k] /\ ~(k = i /\ waiter[k] = ac[i])
      /\ \A k \in Instances : sleeper'[k] # None =>
           sleeper'[k] = sleeper[k] /\ ~(k = i /\ sleeper[k] = ac[i])
  BY <1>1, AbortParts
<1>3. /\ ph' \in [Instances -> [Runs -> Phases]]
      /\ runs' \in [Instances -> 0..MaxRuns]
      /\ runs[i] + 1 \in Runs
      /\ \A k \in Instances : \A m \in Runs :
           ph'[k][m] = IF k \in {i} /\ m = runs[k] + 1 THEN "step" ELSE AbortedPh(i)[k][m]
      /\ \A k \in Instances : runs'[k] = IF k \in {i} THEN runs[k] + 1 ELSE runs[k]
  <2>1. {i} \in SUBSET Instances
    OBVIOUS
  <2>2. QED
    BY <1>1, <1>2, <2>1, LaunchParts DEF Sound
<1>4. \A k \in Instances : \A m \in Runs :
        ph'[k][m] = IF k = i /\ m = runs[i] + 1 THEN "step"
                    ELSE IF k = i /\ m = ac[i] /\ ph[k][m] \in {"backoff", "sleeping", "waiting", "deaf"}
                      THEN "unwinding" ELSE ph[k][m]
  BY <1>2, <1>3
<1>5. row' \in [Instances -> Rows]
  BY <1>1 DEF Sound, Typed, TypeOK, Rows
<1>6. ac' \in [Instances -> 0..MaxRuns]
  <2>1. runs[i] + 1 \in 0..MaxRuns /\ ac \in [Instances -> 0..MaxRuns]
    BY <1>3, ProgramType DEF Sound, Typed, TypeOK, Runs
  <2>2. QED
    BY <1>1, <2>1
<1>7. /\ cached' \in [Instances -> [Steps -> 0..MaxRuns]]
      /\ fails' \in [Instances -> [Steps -> 0..(MaxRetries + 1)]]
  <2>1. /\ cached \in [Instances -> [Steps -> 0..MaxRuns]]
        /\ fails \in [Instances -> [Steps -> 0..(MaxRetries + 1)]]
        /\ None \in 0..MaxRuns /\ 0 \in 0..(MaxRetries + 1)
    BY ProgramType DEF Sound, Typed, TypeOK, None
  <2>2. [s \in Steps |-> IF s \in S THEN cached[i][s] ELSE None] \in [Steps -> 0..MaxRuns]
    BY <2>1
  <2>3. [s \in Steps |-> 0] \in [Steps -> 0..(MaxRetries + 1)]
    BY <2>1
  <2>4. QED
    BY <1>1, <2>1, <2>2, <2>3
<1>8. TypeOK'
  BY <1>1, <1>2, <1>3, <1>5, <1>6, <1>7 DEF Sound, Typed, TypeOK
<1>9. Placed'
  <2>1. SUFFICES ASSUME NEW k \in Instances, NEW m \in Runs
                 PROVE  /\ m > runs'[k] => ph'[k][m] = "unused" /\ aborted'[k][m] = FALSE
                        /\ ph'[k][m] \in {"calling", "backoff", "sleeping", "waiting", "deaf"} => pc[k][m] \in Steps
                        /\ ph'[k][m] = "backoff" => attempt[k][m] < MaxRetries
    BY <1>1 DEF Placed
  <2>0. m # None /\ m \in Nat /\ runs[k] \in Nat /\ runs'[k] = IF k = i THEN runs[k] + 1 ELSE runs[k]
    <3>1. m # None /\ m \in Nat /\ runs[k] \in Nat
      BY Started
    <3>2. QED
      BY <1>3, <3>1
  <2>2. m > runs'[k] => m > runs[k] /\ ~(k = i /\ m = ac[i]) /\ ~(k = i /\ m = runs[i] + 1)
    <3>1. ac[k] # None => ac[k] \in Nat /\ ac[k] <= runs[k]
      BY Started
    <3>2. m > runs'[k] => m > runs[k] /\ ~(k = i /\ m = runs[i] + 1)
      BY <2>0
    <3>3. m > runs[k] => m # ac[k]
      BY <2>0, <3>1
    <3>4. QED
      BY <3>2, <3>3
  <2>3. /\ m > runs[k] => ph[k][m] = "unused" /\ aborted[k][m] = FALSE
        /\ ph[k][m] \in {"calling", "backoff", "sleeping", "waiting", "deaf"} => pc[k][m] \in Steps
        /\ ph[k][m] = "backoff" => attempt[k][m] < MaxRetries
    BY DEF Sound, Typed, Placed
  <2>4. QED
    BY <1>2, <1>4, <2>2, <2>3, ZenonT(60)
<1>10. RegistriesLive'
  <2>1. SUFFICES ASSUME NEW k \in Instances
                 PROVE  /\ ac'[k] # None => ph'[k][ac'[k]] \notin {"unused", "done"}
                        /\ waiter'[k] # None => ph'[k][waiter'[k]] = "waiting"
                        /\ sleeper'[k] # None => ph'[k][sleeper'[k]] = "sleeping"
    BY DEF RegistriesLive, Live
  <2>2. ac'[k] = IF k = i THEN runs[i] + 1 ELSE ac[k]
    BY <1>1 DEF Sound, Typed, TypeOK
  <2>3. ac'[k] # None => ph'[k][ac'[k]] \notin {"unused", "done"}
    BY <1>3, <1>4, <2>2, Registered
  <2>5. waiter'[k] # None => ph'[k][waiter'[k]] = "waiting"
    <3>1. /\ waiter[k] # None => waiter[k] \in Runs /\ ph[k][waiter[k]] = "waiting"
          /\ \A m \in Runs : m = runs[k] + 1 => ph[k][m] = "unused"
      BY Registered
    <3>2. QED
      BY <1>2, <1>4, <3>1
  <2>6. sleeper'[k] # None => ph'[k][sleeper'[k]] = "sleeping"
    <3>1. /\ sleeper[k] # None => sleeper[k] \in Runs /\ ph[k][sleeper[k]] = "sleeping"
          /\ \A m \in Runs : m = runs[k] + 1 => ph[k][m] = "unused"
      BY Registered
    <3>2. QED
      BY <1>2, <1>4, <3>1
  <2>7. QED
    BY <2>3, <2>5, <2>6
<1>11. QED
  BY <1>8, <1>9, <1>10 DEF Sound, Typed

LEMMA RestartMissingSound ==
  ASSUME Sound, NEW i \in Instances, RestartMissing(i)
  PROVE  Sound'
<1>1. /\ Abort(i) /\ ph' = AbortedPh(i) /\ ac' = [ac EXCEPT ![i] = None]
      /\ UNCHANGED <<dbVars, pc, attempt, runs, histVars>>
  BY DEF RestartMissing
<1>2. /\ aborted' \in [Instances -> [Runs -> BOOLEAN]]
      /\ waiter' \in [Instances -> 0..MaxRuns] /\ sleeper' \in [Instances -> 0..MaxRuns]
      /\ AbortedPh(i) \in [Instances -> [Runs -> Phases]]
      /\ \A k \in Instances : \A m \in Runs :
           aborted'[k][m] = IF k = i /\ m = ac[i] THEN TRUE ELSE aborted[k][m]
      /\ \A k \in Instances : \A m \in Runs :
           AbortedPh(i)[k][m] =
             IF k = i /\ m = ac[i] /\ ph[k][m] \in {"backoff", "sleeping", "waiting", "deaf"}
               THEN "unwinding" ELSE ph[k][m]
      /\ \A k \in Instances : waiter'[k] # None =>
           waiter'[k] = waiter[k] /\ ~(k = i /\ waiter[k] = ac[i])
      /\ \A k \in Instances : sleeper'[k] # None =>
           sleeper'[k] = sleeper[k] /\ ~(k = i /\ sleeper[k] = ac[i])
  BY <1>1, AbortParts
<1>3. ph' \in [Instances -> [Runs -> Phases]]
  BY <1>1, <1>2
<1>4. \A k \in Instances : \A m \in Runs :
        ph'[k][m] = IF k = i /\ m = ac[i] /\ ph[k][m] \in {"backoff", "sleeping", "waiting", "deaf"}
                      THEN "unwinding" ELSE ph[k][m]
  BY <1>1, <1>2
<1>5. /\ ac' \in [Instances -> 0..MaxRuns]
      /\ \A k \in Instances : ac'[k] # None => ac'[k] = ac[k]
  BY <1>1, ProgramType DEF Sound, Typed, TypeOK, None
<1>6. TypeOK'
  BY <1>1, <1>2, <1>3, <1>5 DEF Sound, Typed, TypeOK, dbVars, histVars
<1>7. Placed'
  <2>1. SUFFICES ASSUME NEW k \in Instances, NEW m \in Runs
                 PROVE  /\ m > runs[k] => ph'[k][m] = "unused" /\ aborted'[k][m] = FALSE
                        /\ ph'[k][m] \in {"calling", "backoff", "sleeping", "waiting", "deaf"} => pc[k][m] \in Steps
                        /\ ph'[k][m] = "backoff" => attempt[k][m] < MaxRetries
    BY <1>1 DEF Placed
  <2>2. m > runs[k] => ~(k = i /\ m = ac[i])
    <3>1. m # None /\ m \in Nat /\ runs[k] \in Nat
      BY Started
    <3>2. m = ac[k] => m <= runs[k]
      BY <3>1, Started
    <3>3. QED
      BY <3>1, <3>2
  <2>3. /\ m > runs[k] => ph[k][m] = "unused" /\ aborted[k][m] = FALSE
        /\ ph[k][m] \in {"calling", "backoff", "sleeping", "waiting", "deaf"} => pc[k][m] \in Steps
        /\ ph[k][m] = "backoff" => attempt[k][m] < MaxRetries
    BY DEF Sound, Typed, Placed
  <2>4. QED
    BY <1>2, <1>4, <2>2, <2>3, ZenonT(60)
<1>8. RegistriesLive'
  <2>1. SUFFICES ASSUME NEW k \in Instances
                 PROVE  /\ ac'[k] # None => ph'[k][ac'[k]] \notin {"unused", "done"}
                        /\ waiter'[k] # None => ph'[k][waiter'[k]] = "waiting"
                        /\ sleeper'[k] # None => ph'[k][sleeper'[k]] = "sleeping"
    BY DEF RegistriesLive, Live
  <2>2. ac'[k] # None => ph'[k][ac'[k]] \notin {"unused", "done"}
    BY <1>4, <1>5, Registered
  <2>3. waiter'[k] # None => ph'[k][waiter'[k]] = "waiting"
    <3>1. waiter[k] # None => waiter[k] \in Runs /\ ph[k][waiter[k]] = "waiting"
      BY Registered
    <3>2. QED
      BY <1>2, <1>4, <3>1
  <2>4. sleeper'[k] # None => ph'[k][sleeper'[k]] = "sleeping"
    <3>1. sleeper[k] # None => sleeper[k] \in Runs /\ ph[k][sleeper[k]] = "sleeping"
      BY Registered
    <3>2. QED
      BY <1>2, <1>4, <3>1
  <2>5. QED
    BY <2>2, <2>3, <2>4
<1>9. QED
  BY <1>6, <1>7, <1>8 DEF Sound, Typed

\* Where executions are started or ended, and the others left as they are.
LEMMA StartsSound ==
  ASSUME Sound, NEW S \in SUBSET Instances,
         TypeOK', UNCHANGED <<pc, aborted, attempt>>,
         \A k \in Instances : runs'[k] = IF k \in S THEN runs[k] + 1 ELSE runs[k],
         \A k \in S : runs[k] + 1 \in Runs,
         \A k \in Instances : \A m \in Runs :
           \/ k \in S /\ m = runs[k] + 1 /\ ph'[k][m] = "step"
           \/ ~(k \in S /\ m = runs[k] + 1) /\ ph'[k][m] = ph[k][m]
           \/ /\ ~(k \in S /\ m = runs[k] + 1)
              /\ ph'[k][m] = "done" /\ ph[k][m] # "unused"
              /\ waiter'[k] = None /\ sleeper'[k] = None /\ ac'[k] \in {None, runs[k] + 1},
         \A k \in Instances : ac'[k] \in {ac[k], None} \/ (k \in S /\ ac'[k] = runs[k] + 1),
         \A k \in Instances : waiter'[k] \in {waiter[k], None},
         \A k \in Instances : sleeper'[k] \in {sleeper[k], None}
  PROVE  Sound'
<1>1. Placed'
  <2>1. SUFFICES ASSUME NEW k \in Instances, NEW m \in Runs
                 PROVE  /\ m > runs'[k] => ph'[k][m] = "unused" /\ aborted[k][m] = FALSE
                        /\ ph'[k][m] \in {"calling", "backoff", "sleeping", "waiting", "deaf"} => pc[k][m] \in Steps
                        /\ ph'[k][m] = "backoff" => attempt[k][m] < MaxRetries
    BY DEF Placed
  <2>2. m \in Nat /\ runs[k] \in Nat
    BY Started
  <2>3. m > runs'[k] => m > runs[k] /\ ~(k \in S /\ m = runs[k] + 1)
    BY <2>2
  <2>4. /\ m > runs[k] => ph[k][m] = "unused" /\ aborted[k][m] = FALSE
        /\ ph[k][m] \in {"calling", "backoff", "sleeping", "waiting", "deaf"} => pc[k][m] \in Steps
        /\ ph[k][m] = "backoff" => attempt[k][m] < MaxRetries
    BY DEF Sound, Typed, Placed
  <2>5. QED
    BY <2>3, <2>4
<1>2. RegistriesLive'
  <2>1. SUFFICES ASSUME NEW k \in Instances
                 PROVE  /\ ac'[k] # None => ph'[k][ac'[k]] \notin {"unused", "done"}
                        /\ waiter'[k] # None => ph'[k][waiter'[k]] = "waiting"
                        /\ sleeper'[k] # None => ph'[k][sleeper'[k]] = "sleeping"
    BY DEF RegistriesLive, Live
  <2>2. ac'[k] # None => ph'[k][ac'[k]] \notin {"unused", "done"}
    <3>1. CASE ac'[k] = runs[k] + 1 /\ k \in S
      BY <3>1
    <3>2. CASE ac'[k] = ac[k] /\ ac[k] # None
      <4>1. ac[k] \in Runs /\ ph[k][ac[k]] \notin {"unused", "done"}
        BY <3>2, Registered
      <4>2. ac[k] # runs[k] + 1
        BY <3>2, Started
      <4>3. QED
        BY <3>2, <4>1, <4>2
    <3>3. QED
      BY <3>1, <3>2
  <2>3. waiter'[k] # None => ph'[k][waiter'[k]] = "waiting"
    <3>1. /\ waiter[k] # None => waiter[k] \in Runs /\ ph[k][waiter[k]] = "waiting"
          /\ \A m \in Runs : m = runs[k] + 1 => ph[k][m] = "unused"
      BY Registered
    <3>2. QED
      BY <3>1
  <2>4. sleeper'[k] # None => ph'[k][sleeper'[k]] = "sleeping"
    <3>1. /\ sleeper[k] # None => sleeper[k] \in Runs /\ ph[k][sleeper[k]] = "sleeping"
          /\ \A m \in Runs : m = runs[k] + 1 => ph[k][m] = "unused"
      BY Registered
    <3>2. QED
      BY <3>1
  <2>5. QED
    BY <2>2, <2>3, <2>4
<1>3. QED
  BY <1>1, <1>2 DEF Sound, Typed

LEMMA CreateSound ==
  ASSUME Sound, NEW i \in Instances, Create(i)
  PROVE  Sound'
<1>1. PICK old \in SUBSET {k \in Recreated : row[k] \in {"complete", "errored"}} :
        LET kept == [k \in Instances |-> IF k \in old THEN "none" ELSE row[k]]
            busy == Cardinality({k \in Instances : kept[k] \in {"running", "waiting"}})
        IN /\ kept[i] = "none"
           /\ runs[i] < MaxRuns
           /\ IF busy >= MaxConcurrent
                THEN /\ row' = [kept EXCEPT ![i] = "queued"]
                     /\ ac' = [ac EXCEPT ![i] = None]
                     /\ UNCHANGED <<ph, runs>>
                ELSE /\ row' = [kept EXCEPT ![i] = "running"]
                     /\ ac' = [ac EXCEPT ![i] = runs[i] + 1]
                     /\ Launch(ph, {i})
           /\ fails' = [k \in Instances |-> IF k \in old THEN [s \in Steps |-> 0] ELSE fails[k]]
           /\ UNCHANGED <<cached, events, pc, aborted, attempt, waiter, sleeper, exits, done,
                          failed, sent, consumed>>
  BY DEF Create
<1> DEFINE kept == [k \in Instances |-> IF k \in old THEN "none" ELSE row[k]]
<1>2. /\ \/ /\ row' = [kept EXCEPT ![i] = "queued"]
            /\ ac' = [ac EXCEPT ![i] = None]
            /\ UNCHANGED <<ph, runs>>
         \/ /\ row' = [kept EXCEPT ![i] = "running"]
            /\ ac' = [ac EXCEPT ![i] = runs[i] + 1]
            /\ Launch(ph, {i})
      /\ fails' = [k \in Instances |-> IF k \in old THEN [s \in Steps |-> 0] ELSE fails[k]]
      /\ UNCHANGED <<cached, events, pc, aborted, attempt, waiter, sleeper, exits, done,
                     failed, sent, consumed>>
  BY <1>1
<1>3. kept \in [Instances -> Rows]
  BY DEF Sound, Typed, TypeOK, Rows
<1> HIDE DEF kept
<1>4. row' \in [Instances -> Rows]
  BY <1>2, <1>3 DEF Rows
<1>5. fails' \in [Instances -> [Steps -> 0..(MaxRetries + 1)]]
  <2>1. [s \in Steps |-> 0] \in [Steps -> 0..(MaxRetries + 1)]
    BY ProgramType
  <2>2. fails \in [Instances -> [Steps -> 0..(MaxRetries + 1)]]
    BY DEF Sound, Typed, TypeOK
  <2>3. QED
    BY <1>2, <2>1, <2>2
<1>6. /\ ph \in [Instances -> [Runs -> Phases]] /\ ac \in [Instances -> 0..MaxRuns]
      /\ runs \in [Instances -> 0..MaxRuns] /\ None \in 0..MaxRuns
      /\ Runs \subseteq 0..MaxRuns
  BY ProgramType DEF Sound, Typed, TypeOK, None, Runs
<1>7. CASE row' = [kept EXCEPT ![i] = "queued"] /\ ac' = [ac EXCEPT ![i] = None] /\ UNCHANGED <<ph, runs>>
  <2>1. ac' \in [Instances -> 0..MaxRuns]
    BY <1>6, <1>7
  <2>2. TypeOK'
    BY <1>2, <1>4, <1>5, <1>7, <2>1 DEF Sound, Typed, TypeOK
  <2>3. \A k \in Instances : ac'[k] \in {ac[k], None}
    BY <1>6, <1>7
  <2>4. {} \in SUBSET Instances
    OBVIOUS
  <2>5. QED
    BY <1>2, <1>7, <2>2, <2>3, <2>4, StartsSound
<1>8. CASE row' = [kept EXCEPT ![i] = "running"] /\ ac' = [ac EXCEPT ![i] = runs[i] + 1] /\ Launch(ph, {i})
  <2>1. {i} \in SUBSET Instances
    OBVIOUS
  <2>2. /\ ph' \in [Instances -> [Runs -> Phases]]
        /\ runs' \in [Instances -> 0..MaxRuns]
        /\ \A k \in {i} : runs[k] + 1 \in Runs
        /\ \A k \in Instances : \A m \in Runs :
             ph'[k][m] = IF k \in {i} /\ m = runs[k] + 1 THEN "step" ELSE ph[k][m]
        /\ \A k \in Instances : runs'[k] = IF k \in {i} THEN runs[k] + 1 ELSE runs[k]
    BY <1>6, <1>8, <2>1, LaunchParts DEF Sound
  <2>3. ac' \in [Instances -> 0..MaxRuns]
    BY <1>6, <1>8, <2>2
  <2>4. TypeOK'
    BY <1>2, <1>4, <1>5, <2>2, <2>3 DEF Sound, Typed, TypeOK
  <2>5. \A k \in Instances : ac'[k] \in {ac[k], None} \/ (k \in {i} /\ ac'[k] = runs[k] + 1)
    BY <1>6, <1>8
  <2>6. /\ \A k \in Instances : waiter'[k] \in {waiter[k], None}
        /\ \A k \in Instances : sleeper'[k] \in {sleeper[k], None}
    BY <1>2
  <2>7. \A k \in Instances : \A m \in Runs :
           \/ k \in {i} /\ m = runs[k] + 1 /\ ph'[k][m] = "step"
           \/ ~(k \in {i} /\ m = runs[k] + 1) /\ ph'[k][m] = ph[k][m]
           \/ /\ ~(k \in {i} /\ m = runs[k] + 1)
              /\ ph'[k][m] = "done" /\ ph[k][m] # "unused"
              /\ waiter'[k] = None /\ sleeper'[k] = None /\ ac'[k] \in {None, runs[k] + 1}
    BY <2>2
  <2>8. QED
    BY <1>2, <2>1, <2>2, <2>4, <2>5, <2>6, <2>7, StartsSound
<1>9. QED
  BY <1>2, <1>7, <1>8

LEMMA ExitSound ==
  ASSUME Sound, ExitAndResume
  PROVE  Sound'
<1> DEFINE S == {i \in Instances : row[i] \in {"running", "waiting"}}
           p == [i \in Instances |-> [n \in Runs |-> IF Live(i, n) THEN "done" ELSE ph[i][n]]]
<1>1. /\ exits < MaxExits /\ exits' = exits + 1
      /\ row' = [i \in Instances |-> IF i \in S THEN "running" ELSE row[i]]
      /\ Launch(p, S)
      /\ ac' = [i \in Instances |-> IF i \in S THEN runs[i] + 1 ELSE None]
      /\ waiter' = [i \in Instances |-> None]
      /\ sleeper' = [i \in Instances |-> None]
      /\ UNCHANGED <<cached, fails, events, pc, aborted, attempt, done, failed, sent,
                     consumed>>
  BY DEF ExitAndResume
<1>2. S \in SUBSET Instances
  OBVIOUS
<1>3. /\ p \in [Instances -> [Runs -> Phases]]
      /\ \A k \in Instances : \A m \in Runs :
           p[k][m] = IF ph[k][m] \notin {"unused", "done"} THEN "done" ELSE ph[k][m]
  BY DEF Sound, Typed, TypeOK, Phases, Live
<1>4. row' \in [Instances -> Rows]
  BY <1>1 DEF Sound, Typed, TypeOK, Rows
<1> HIDE DEF S, p
<1>5. /\ ph' \in [Instances -> [Runs -> Phases]]
      /\ runs' \in [Instances -> 0..MaxRuns]
      /\ \A k \in S : runs[k] + 1 \in Runs
      /\ \A k \in Instances : \A m \in Runs :
           ph'[k][m] = IF k \in S /\ m = runs[k] + 1 THEN "step" ELSE p[k][m]
      /\ \A k \in Instances : runs'[k] = IF k \in S THEN runs[k] + 1 ELSE runs[k]
  BY <1>1, <1>2, <1>3, LaunchParts DEF Sound
<1>6. None \in 0..MaxRuns /\ Runs \subseteq 0..MaxRuns
  BY ProgramType DEF Runs, None
<1>7. /\ ac' \in [Instances -> 0..MaxRuns]
      /\ waiter' \in [Instances -> 0..MaxRuns] /\ sleeper' \in [Instances -> 0..MaxRuns]
  BY <1>1, <1>5, <1>6
<1>8. exits' \in 0..MaxExits
  BY <1>1, WorkflowAssumption DEF Sound, Typed, TypeOK
<1>9. TypeOK'
  BY <1>1, <1>4, <1>5, <1>7, <1>8 DEF Sound, Typed, TypeOK
<1>10. /\ \A k \in Instances : ac'[k] \in {ac[k], None} \/ (k \in S /\ ac'[k] = runs[k] + 1)
       /\ \A k \in Instances : waiter'[k] \in {waiter[k], None}
       /\ \A k \in Instances : sleeper'[k] \in {sleeper[k], None}
  BY <1>1
<1>11. \A k \in Instances : \A m \in Runs :
         \/ k \in S /\ m = runs[k] + 1 /\ ph'[k][m] = "step"
         \/ ~(k \in S /\ m = runs[k] + 1) /\ ph'[k][m] = ph[k][m]
         \/ /\ ~(k \in S /\ m = runs[k] + 1)
            /\ ph'[k][m] = "done" /\ ph[k][m] # "unused"
            /\ waiter'[k] = None /\ sleeper'[k] = None /\ ac'[k] \in {None, runs[k] + 1}
  BY <1>1, <1>3, <1>5
<1>12. QED
  BY <1>1, <1>2, <1>5, <1>9, <1>10, <1>11, StartsSound

LEMMA StatusSound ==
  ASSUME Sound, NEW i \in Instances, Pause(i) \/ Resume(i)
  PROVE  Sound'
<1>1. /\ row' \in [Instances -> Rows]
      /\ UNCHANGED <<cached, fails, events, execVars, memVars, histVars>>
  BY DEF Pause, Resume, Sound, Typed, TypeOK, Rows
<1>2. QED
  BY <1>1, SMTT(30) DEF Sound, Typed, TypeOK, Placed, RegistriesLive, Live, execVars, memVars, histVars

LEMMA SendSound ==
  ASSUME Sound, NEW i \in Instances, SendEvent(i)
  PROVE  Sound'
<1>1. /\ sent' = [sent EXCEPT ![i] = sent[i] + 1] /\ sent' \in [Instances -> Nat]
      /\ UNCHANGED <<fails, aborted, attempt, runs, ac, sleeper, exits, done, failed>>
  BY DEF SendEvent, Sound, Typed, TypeOK
<1>2. CASE waiter[i] = None
  <2>1. /\ events' = [events EXCEPT ![i] = events[i] + 1]
        /\ UNCHANGED <<row, cached, ph, pc, waiter, consumed>>
    BY <1>2 DEF SendEvent, Sound, Typed, TypeOK
  <2>2. events' \in [Instances -> Nat]
    BY <2>1 DEF Sound, Typed, TypeOK
  <2>3. TypeOK'
    BY <1>1, <2>1, <2>2 DEF Sound, Typed, TypeOK
  <2>4. Placed' /\ RegistriesLive'
    BY <1>1, <2>1 DEF Sound, Typed, Placed, RegistriesLive, Live
  <2>5. QED
    BY <2>3, <2>4 DEF Sound, Typed
<1>3. CASE waiter[i] # None
  <2> DEFINE n == waiter[i]
  <2>1. n \in Runs /\ ph[i][n] = "waiting"
    BY <1>3, Registered
  <2>2. pc[i][n] \in Steps
    BY <2>1 DEF Sound, Typed, Placed
  <2>3. /\ row' = SetRow(i, "running")
        /\ cached' = [cached EXCEPT ![i][pc[i][n]] = n]
        /\ ph' = [ph EXCEPT ![i][n] = "step"]
        /\ waiter' = [waiter EXCEPT ![i] = None]
        /\ consumed' = [consumed EXCEPT ![i] = @ + 1]
        /\ UNCHANGED events
    BY <1>3 DEF SendEvent, Store, To
  <2>4. pc' = [pc EXCEPT ![i][n] = pc[i][n] + 1]
    BY <1>3, <2>1 DEF SendEvent, Advance, Sound, Typed, TypeOK
  <2> HIDE DEF n
  <2>5. /\ ph \in [Instances -> [Runs -> Phases]] /\ "step" \in Phases
        /\ pc \in [Instances -> [Runs -> 1..(Len(Program) + 1)]]
        /\ cached \in [Instances -> [Steps -> 0..MaxRuns]]
        /\ Runs \subseteq 0..MaxRuns /\ None \in 0..MaxRuns
        /\ pc[i][n] + 1 \in 1..(Len(Program) + 1)
    <3>1. Runs \subseteq 0..MaxRuns /\ None \in 0..MaxRuns
      BY ProgramType DEF Runs, None
    <3>2. pc[i][n] + 1 \in 1..(Len(Program) + 1)
      BY <2>2, ProgramType
    <3>3. QED
      BY <3>1, <3>2 DEF Sound, Typed, TypeOK, Phases
  <2>6. /\ ph' \in [Instances -> [Runs -> Phases]]
        /\ \A k \in Instances : \A m \in Runs : ph'[k][m] = IF k = i /\ m = n THEN "step" ELSE ph[k][m]
    BY <2>1, <2>3, <2>5, Entry
  <2>7. /\ pc' \in [Instances -> [Runs -> 1..(Len(Program) + 1)]]
        /\ \A k \in Instances : \A m \in Runs : ~(k = i /\ m = n) => pc'[k][m] = pc[k][m]
    BY <2>1, <2>4, <2>5, Entry
  <2>8. cached' \in [Instances -> [Steps -> 0..MaxRuns]]
    BY <2>1, <2>2, <2>3, <2>5, Entry
  <2>9. row' \in [Instances -> Rows]
    BY <2>3 DEF SetRow, Rows, Sound, Typed, TypeOK
  <2>10. consumed' \in [Instances -> Nat]
    BY <2>3 DEF Sound, Typed, TypeOK
  <2>11. /\ waiter' \in [Instances -> 0..MaxRuns]
         /\ \A k \in Instances : waiter'[k] # None => waiter'[k] = waiter[k] /\ k # i
    BY <2>3, <2>5 DEF Sound, Typed, TypeOK
  <2>12. TypeOK'
    BY <1>1, <2>3, <2>6, <2>7, <2>8, <2>9, <2>10, <2>11 DEF Sound, Typed, TypeOK
  <2>13. Placed'
    <3>1. SUFFICES ASSUME NEW k \in Instances, NEW m \in Runs
                   PROVE  /\ m > runs[k] => ph'[k][m] = "unused" /\ aborted[k][m] = FALSE
                          /\ ph'[k][m] \in {"calling", "backoff", "sleeping", "waiting", "deaf"} => pc'[k][m] \in Steps
                          /\ ph'[k][m] = "backoff" => attempt[k][m] < MaxRetries
      BY <1>1 DEF Placed
    <3>2. /\ m > runs[k] => ph[k][m] = "unused" /\ aborted[k][m] = FALSE
          /\ ph[k][m] \in {"calling", "backoff", "sleeping", "waiting", "deaf"} => pc[k][m] \in Steps
          /\ ph[k][m] = "backoff" => attempt[k][m] < MaxRetries
      BY DEF Sound, Typed, Placed
    <3>3. CASE k = i /\ m = n
      BY <2>1, <2>6, <3>2, <3>3
    <3>4. CASE ~(k = i /\ m = n)
      BY <2>6, <2>7, <3>2, <3>4
    <3>5. QED
      BY <3>3, <3>4
  <2>14. RegistriesLive'
    <3>1. SUFFICES ASSUME NEW k \in Instances
                   PROVE  /\ ac[k] # None => ph'[k][ac[k]] \notin {"unused", "done"}
                          /\ waiter'[k] # None => ph'[k][waiter'[k]] = "waiting"
                          /\ sleeper[k] # None => ph'[k][sleeper[k]] = "sleeping"
      BY <1>1 DEF RegistriesLive, Live
    <3>2. ac[k] # None => ph'[k][ac[k]] \notin {"unused", "done"}
      BY <2>6, Registered
    <3>3. waiter'[k] # None => ph'[k][waiter'[k]] = "waiting"
      BY <2>6, <2>11, Registered
    <3>4. sleeper[k] # None => ph'[k][sleeper[k]] = "sleeping"
      BY <2>1, <2>6, Registered
    <3>5. QED
      BY <3>2, <3>3, <3>4
  <2>15. QED
    BY <2>12, <2>13, <2>14 DEF Sound, Typed
<1>4. QED
  BY <1>2, <1>3

LEMMA SkipSound ==
  ASSUME Sound, NEW i \in Instances, SkipSleep(i)
  PROVE  Sound'
<1>1. sleeper[i] # None /\ Wake(i, sleeper[i])
  BY DEF SkipSleep
<1>2. sleeper[i] \in Runs
  BY <1>1, Registered
<1>3. PICK n \in Runs : n = sleeper[i]
  BY <1>2
<1>4. Moves(i, n)
  BY <1>1, <1>3 DEF Moves
<1>5. QED
  BY <1>4, MoveSound

LEMMA InitSound == Init => Sound
<1>1. SUFFICES ASSUME Init PROVE Sound
  OBVIOUS
<1>2. TypeOK
  <2>1. /\ None \in 0..MaxRuns /\ 0 \in 0..(MaxRetries + 1) /\ 0 \in 0..MaxRetries
        /\ 0 \in 0..MaxExits /\ 1 \in 1..(Len(Program) + 1) /\ 0 \in 0..MaxRuns
    BY ProgramType, WorkflowAssumption DEF None
  <2>2. "none" \in Rows /\ "unused" \in Phases
    BY DEF Rows, Phases
  <2>3. QED
    BY <1>1, <2>1, <2>2 DEF Init, TypeOK
<1>3. Placed
  BY <1>1 DEF Init, Placed
<1>4. RegistriesLive
  BY <1>1 DEF Init, RegistriesLive
<1>5. QED
  BY <1>2, <1>3, <1>4 DEF Sound, Typed

LEMMA NextSound == Sound /\ [Next]_vars => Sound'
<1>1. SUFFICES ASSUME Sound, [Next]_vars PROVE Sound'
  OBVIOUS
<1>2. ASSUME NEW i \in Instances, NEW n \in Runs,
             Moves(i, n) \/ SleepEnds(i, n)
      PROVE  Sound'
  BY <1>1, <1>2, MoveSound DEF SleepEnds, Moves
<1>3. ASSUME NEW i \in Instances, NEW n \in Runs, RunReturns(i, n) \/ RunThrows(i, n)
      PROVE  Sound'
  BY <1>1, <1>3, EndSound
<1>4. ASSUME NEW i \in Instances, Restart(i) \/ \E s \in Steps : RestartFrom(i, s)
      PROVE  Sound'
  <2>1. \E S : RestartKeeping(i, S)
    BY <1>4 DEF Restart, RestartFrom
  <2>2. QED
    BY <1>1, <2>1, RestartSound
<1>5. ASSUME NEW i \in Instances,
             \/ Create(i) \/ SendEvent(i) \/ SkipSleep(i) \/ Pause(i) \/ Resume(i)
             \/ Terminate(i) \/ RestartMissing(i)
      PROVE  Sound'
  BY <1>1, <1>5, CreateSound, SendSound, SkipSound, StatusSound, TerminateSound, RestartMissingSound
<1>6. CASE ExitAndResume
  BY <1>1, <1>6, ExitSound
<1>7. CASE UNCHANGED vars
  BY <1>1, <1>7 DEF Sound, Typed, TypeOK, Placed, RegistriesLive, Live, vars, dbVars, execVars, memVars, histVars
<1>8. CASE Next
  BY <1>2, <1>3, <1>4, <1>5, <1>6, <1>8 DEF Next, Moves
<1>9. QED
  BY <1>1, <1>7, <1>8

LEMMA SoundAlways == Spec => []Sound
<1>1. QED
  BY InitSound, NextSound, PTL DEF Spec

(***************************************************************************)
(* Whatever is done to the instances, in any order and at any moment: what *)
(* abortControllers, eventWaiters and sleepResolvers hold is alive, and an *)
(* event or a skipSleep wakes only an execution that waits for it          *)
(* (workflow.ts, executeWorkflow, waitForEvent, skippableDelay).           *)
(***************************************************************************)
THEOREM RegistriesLiveAlways == Spec => []RegistriesLive
<1>1. Sound => RegistriesLive
  BY DEF Sound
<1>2. QED
  BY <1>1, SoundAlways, PTL

-----------------------------------------------------------------------------
(* One execution after the other.                                          *)

\* Nobody restarts an instance, and no id is used twice.
OneStart ==
  /\ Controls \cap {"restart", "restartFrom", "restartMissing"} = {}
  /\ Recreated = {}

\* The execution that is live is the registered one; the row says that it runs,
\* unless it was aborted.
LoneAt(i) ==
  /\ row[i] \in {"none", "queued"} => runs[i] = 0
  /\ \A n \in Runs : Live(i, n) =>
       /\ ac[i] = n
       /\ aborted[i][n] => row[i] = "terminated"
       /\ ~aborted[i][n] => row[i] \in {"running", "waiting", "paused"}

\* An execution that waits for an event can be reached, and there is none.
HeardAt(i) ==
  /\ sent[i] = events[i] + consumed[i]
  /\ \A n \in Runs : ph[i][n] # "deaf"
  /\ \A n \in Runs : ph[i][n] = "waiting" => waiter[i] = n /\ events[i] = 0

\* A callback is called only for a step without a checkpoint, and the attempts
\* that the table counts are the calls that failed.
CountedAt(i) ==
  /\ \A s \in Steps : /\ cached[i][s] = None => done[i][s] = 0
                      /\ cached[i][s] = None /\ row[i] # "complete" => failed[i][s] = fails[i][s]
                      /\ done[i][s] <= 1
                      /\ failed[i][s] <= MaxRetries + 1
  /\ \A n \in Runs : ph[i][n] \in {"calling", "backoff"} => cached[i][pc[i][n]] = None
  /\ \A n \in Runs : ph[i][n] = "calling" => fails[i][pc[i][n]] = attempt[i][n]
  /\ \A n \in Runs : ph[i][n] = "backoff" => fails[i][pc[i][n]] = attempt[i][n] + 1

Alone(i) == LoneAt(i) /\ HeardAt(i) /\ CountedAt(i)
Once == Sound /\ \A i \in Instances : Alone(i)

\* What the slots are held by, where instances are only created, run and woken.
HeldAt(i) ==
  /\ row[i] \notin {"paused", "terminated"}
  /\ \A n \in Runs : aborted[i][n] = FALSE
  /\ row[i] \in {"running", "waiting"} => ac[i] # None
Busy == {i \in Instances : row[i] \in {"running", "waiting"}}
Held ==
  /\ \A i \in Instances : HeldAt(i)
  /\ IsFiniteSet(Busy) /\ Cardinality(Busy) <= MaxConcurrent

\* What an operation does to an instance that is not its own: nothing, ...
Same(k) ==
  /\ row'[k] = row[k] /\ cached'[k] = cached[k] /\ fails'[k] = fails[k] /\ events'[k] = events[k]
  /\ ph'[k] = ph[k] /\ pc'[k] = pc[k] /\ aborted'[k] = aborted[k] /\ attempt'[k] = attempt[k]
  /\ runs'[k] = runs[k] /\ ac'[k] = ac[k] /\ waiter'[k] = waiter[k]
  /\ done'[k] = done[k] /\ failed'[k] = failed[k] /\ sent'[k] = sent[k] /\ consumed'[k] = consumed[k]

\* ... or it starts its next execution ...
Starts(k) ==
  /\ row[k] # "complete" /\ row'[k] = "running"
  /\ runs[k] + 1 \in Runs /\ runs'[k] = runs[k] + 1 /\ ac'[k] = runs[k] + 1
  /\ \A m \in Runs : (ph'[k][m] = "step" /\ m = runs[k] + 1) \/ ph'[k][m] \in {"unused", "done"}
  /\ cached'[k] = cached[k] /\ fails'[k] = fails[k] /\ events'[k] = events[k]
  /\ aborted'[k] = aborted[k]
  /\ done'[k] = done[k] /\ failed'[k] = failed[k] /\ sent'[k] = sent[k] /\ consumed'[k] = consumed[k]

\* ... or it leaves it without one.
Rests(k) ==
  /\ row'[k] \in {"none", "queued"} => runs'[k] = 0
  /\ \A m \in Runs : ph'[k][m] \in {"unused", "done"}
  /\ row'[k] # "complete" => row[k] # "complete" /\ fails'[k] = fails[k]
  /\ cached'[k] = cached[k] /\ events'[k] = events[k]
  /\ done'[k] = done[k] /\ failed'[k] = failed[k] /\ sent'[k] = sent[k] /\ consumed'[k] = consumed[k]

LEMMA SameAlone ==
  ASSUME NEW k \in Instances, Alone(k), Same(k)
  PROVE  Alone(k)'
<1>1. LoneAt(k)'
  BY DEF Alone, Same, LoneAt, Live
<1>2. HeardAt(k)'
  BY DEF Alone, Same, HeardAt
<1>3. CountedAt(k)'
  BY DEF Alone, Same, CountedAt
<1>4. QED
  BY <1>1, <1>2, <1>3 DEF Alone

LEMMA StartsAlone ==
  ASSUME Sound, NEW k \in Instances, Alone(k), Starts(k)
  PROVE  Alone(k)'
<1>1. \A m \in Runs : m = runs[k] + 1 => aborted[k][m] = FALSE
  BY Started
<1>2. LoneAt(k)'
  BY <1>1 DEF Alone, Starts, LoneAt, Live
<1>3. HeardAt(k)'
  BY DEF Alone, Starts, HeardAt
<1>4. CountedAt(k)'
  BY DEF Alone, Starts, CountedAt
<1>5. QED
  BY <1>2, <1>3, <1>4 DEF Alone

LEMMA RestsAlone ==
  ASSUME NEW k \in Instances, Alone(k), Rests(k)
  PROVE  Alone(k)'
<1>1. LoneAt(k)'
  BY DEF Alone, Rests, LoneAt, Live
<1>2. HeardAt(k)'
  BY DEF Alone, Rests, HeardAt
<1>3. CountedAt(k)'
  BY DEF Alone, Rests, CountedAt
<1>4. QED
  BY <1>1, <1>2, <1>3 DEF Alone

\* The execution that moves is the only one of its instance, whose row says that
\* it runs.
LEMMA OnlyOne ==
  ASSUME Once, NEW i \in Instances, NEW n \in Runs, Live(i, n)
  PROVE  /\ ac[i] = n
         /\ row[i] \in {"running", "waiting", "paused", "terminated"}
         /\ aborted[i][n] => row[i] = "terminated"
         /\ ~aborted[i][n] => row[i] \in {"running", "waiting", "paused"}
         /\ \A m \in Runs : m # n => ph[i][m] \in {"unused", "done"}
<1>1. LoneAt(i)
  BY DEF Once, Alone
<1>2. QED
  BY <1>1 DEF LoneAt, Live

LEMMA MoveFrame ==
  ASSUME Once, NEW i \in Instances, NEW n \in Runs, Moves(i, n)
  PROVE  /\ Live(i, n) /\ pc[i][n] \in Steps
         /\ \A k \in Instances : k # i => Same(k)
         /\ \A m \in Runs : m # n => ph'[i][m] \in {"unused", "done"}
         /\ LoneAt(i)'
<1>1. Live(i, n)
  BY DEF Moves, EntersAborted, StepRefused, StepFatal, BeginDo, StepOk, StepFail, BackoffEnds,
         BeginSleep, Wake, BeginWait, WaitTimeout, Enters, Live
<1>2. pc[i][n] \in Steps
  BY DEF Moves, EntersAborted, StepRefused, StepFatal, BeginDo, StepOk, StepFail, BackoffEnds,
         BeginSleep, Wake, BeginWait, WaitTimeout, Enters, Once, Sound, Typed, Placed
<1>3. /\ row \in [Instances -> Rows] /\ cached \in [Instances -> [Steps -> 0..MaxRuns]]
      /\ fails \in [Instances -> [Steps -> 0..(MaxRetries + 1)]]
      /\ events \in [Instances -> Nat]
      /\ ph \in [Instances -> [Runs -> Phases]]
      /\ pc \in [Instances -> [Runs -> 1..(Len(Program) + 1)]]
      /\ attempt \in [Instances -> [Runs -> 0..MaxRetries]]
      /\ waiter \in [Instances -> 0..MaxRuns]
      /\ done \in [Instances -> [Steps -> Nat]]
      /\ failed \in [Instances -> [Steps -> Nat]]
      /\ consumed \in [Instances -> Nat]
  BY DEF Once, Sound, Typed, TypeOK
<1>4. UNCHANGED <<aborted, runs, ac, sent>>
  BY DEF Moves, EntersAborted, StepRefused, StepFatal, BeginDo, StepOk, StepFail, BackoffEnds,
         BeginSleep, Wake, BeginWait, WaitTimeout, Enters, memVars, histVars, execVars
<1>5. \E q : ph' = [ph EXCEPT ![i][n] = q]
  <2>1. [ph EXCEPT ![i][n] = ph[i][n]] = ph
    BY <1>3
  <2>2. QED
    BY <2>1 DEF Moves, EntersAborted, StepRefused, StepFatal, BeginDo, StepOk, StepFail, BackoffEnds,
         BeginSleep, Wake, BeginWait, WaitTimeout, To
<1>6. /\ UNCHANGED row \/ (row' \in {SetRow(i, "running"), SetRow(i, "waiting")} /\ ~aborted[i][n])
      /\ UNCHANGED events \/ events' = [events EXCEPT ![i] = @ - 1]
      /\ UNCHANGED waiter \/ \E v : waiter' = [waiter EXCEPT ![i] = v]
      /\ UNCHANGED consumed \/ consumed' = [consumed EXCEPT ![i] = @ + 1]
  <2>1. CASE EntersAborted(i, n) \/ StepRefused(i, n) \/ StepFatal(i, n) \/ BeginDo(i, n) \/ StepOk(i, n)
             \/ StepFail(i, n) \/ BackoffEnds(i, n)
    BY <2>1 DEF EntersAborted, StepRefused, StepFatal, BeginDo, StepOk, StepFail, BackoffEnds,
                memVars, histVars, dbVars
  <2>2. CASE BeginSleep(i, n) \/ Wake(i, n)
    BY <2>2 DEF BeginSleep, Wake, histVars, dbVars
  <2>3. CASE BeginWait(i, n)
    BY <2>3 DEF BeginWait, Enters
  <2>4. CASE WaitTimeout(i, n)
    BY <2>4 DEF WaitTimeout, histVars, dbVars
  <2>5. QED
    BY <2>1, <2>2, <2>3, <2>4 DEF Moves
<1>7. /\ UNCHANGED pc \/ pc' = [pc EXCEPT ![i][n] = @ + 1]
      /\ UNCHANGED attempt \/ \E v : attempt' = [attempt EXCEPT ![i][n] = v]
  <2>1. CASE EntersAborted(i, n) \/ StepRefused(i, n) \/ StepFatal(i, n) \/ BeginDo(i, n)
    BY <2>1 DEF EntersAborted, StepRefused, StepFatal, BeginDo, Advance
  <2>2. CASE StepOk(i, n) \/ StepFail(i, n) \/ BackoffEnds(i, n)
    BY <1>3, <2>2 DEF StepOk, StepFail, BackoffEnds, Advance
  <2>3. CASE BeginSleep(i, n) \/ Wake(i, n) \/ BeginWait(i, n) \/ WaitTimeout(i, n)
    BY <2>3 DEF BeginSleep, Wake, BeginWait, WaitTimeout, Advance
  <2>4. QED
    BY <2>1, <2>2, <2>3 DEF Moves
<1>8. /\ UNCHANGED cached \/ cached' = [cached EXCEPT ![i][pc[i][n]] = n]
      /\ UNCHANGED fails \/ \E v : fails' = [fails EXCEPT ![i][pc[i][n]] = v]
      /\ UNCHANGED done \/ done' = [done EXCEPT ![i][pc[i][n]] = @ + 1]
      /\ UNCHANGED failed \/ failed' = [failed EXCEPT ![i][pc[i][n]] = @ + 1]
  BY DEF Moves, EntersAborted, StepRefused, StepFatal, BeginDo, StepOk, StepFail, BackoffEnds,
         BeginSleep, Wake, BeginWait, WaitTimeout, Store, dbVars, histVars
<1>9. ASSUME NEW k \in Instances, k # i PROVE Same(k)
  <2>1. row'[k] = row[k] /\ events'[k] = events[k] /\ waiter'[k] = waiter[k] /\ consumed'[k] = consumed[k]
    BY <1>3, <1>6, <1>9 DEF SetRow
  <2>2. ph'[k] = ph[k] /\ pc'[k] = pc[k] /\ attempt'[k] = attempt[k]
    BY <1>3, <1>5, <1>7, <1>9
  <2>3. cached'[k] = cached[k] /\ fails'[k] = fails[k] /\ done'[k] = done[k] /\ failed'[k] = failed[k]
    BY <1>3, <1>8, <1>9
  <2>4. QED
    BY <1>4, <2>1, <2>2, <2>3 DEF Same
<1>10. \A m \in Runs : m # n => ph'[i][m] \in {"unused", "done"}
  BY <1>1, <1>3, <1>5, OnlyOne
<1>11. LoneAt(i)'
  <2>1. /\ row[i] \in {"running", "waiting", "paused", "terminated"} /\ ac[i] = n
        /\ aborted[i][n] => row[i] = "terminated"
        /\ ~aborted[i][n] => row[i] \in {"running", "waiting", "paused"}
    BY <1>1, OnlyOne
  <2>2. row'[i] = row[i] \/ (row'[i] \in {"running", "waiting"} /\ ~aborted[i][n])
    BY <1>3, <1>6, <2>1 DEF SetRow
  <2>3. QED
    BY <1>4, <1>10, <2>1, <2>2 DEF LoneAt, Live
<1>12. QED
  BY <1>1, <1>2, <1>9, <1>10, <1>11

LEMMA MoveHeard ==
  ASSUME Once, NEW i \in Instances, NEW n \in Runs, Moves(i, n)
  PROVE  HeardAt(i)'
<1>1. /\ Live(i, n)
      /\ \A m \in Runs : m # n => ph'[i][m] \in {"unused", "done"}
  BY MoveFrame
<1>2. /\ HeardAt(i)
      /\ events \in [Instances -> Nat] /\ consumed \in [Instances -> Nat] /\ sent \in [Instances -> Nat]
      /\ waiter \in [Instances -> 0..MaxRuns]
      /\ ph \in [Instances -> [Runs -> Phases]]
  BY DEF Once, Alone, Sound, Typed, TypeOK
<1>3. /\ sent' = sent
      /\ \/ UNCHANGED <<events, consumed>>
         \/ events[i] > 0 /\ events' = [events EXCEPT ![i] = @ - 1] /\ consumed' = [consumed EXCEPT ![i] = @ + 1]
  BY DEF Moves, EntersAborted, StepRefused, StepFatal, BeginDo, StepOk, StepFail, BackoffEnds,
         BeginSleep, Wake, BeginWait, WaitTimeout, dbVars, histVars
<1>4. sent'[i] = events'[i] + consumed'[i]
  <2>1. CASE UNCHANGED <<events, consumed>>
    BY <1>2, <1>3, <2>1 DEF HeardAt
  <2>2. CASE events[i] > 0 /\ events' = [events EXCEPT ![i] = @ - 1] /\ consumed' = [consumed EXCEPT ![i] = @ + 1]
    <3>1. /\ events[i] \in Nat /\ consumed[i] \in Nat /\ sent[i] = events[i] + consumed[i] /\ events[i] > 0
          /\ events'[i] = events[i] - 1 /\ consumed'[i] = consumed[i] + 1 /\ sent'[i] = sent[i]
      BY <1>2, <1>3, <2>2 DEF HeardAt
    <3>2. QED
      BY <3>1
  <2>3. QED
    BY <1>3, <2>1, <2>2
<1>5. /\ ph'[i][n] # "deaf"
      /\ ph'[i][n] = "waiting" => waiter'[i] = n /\ events'[i] = 0
  <2>1. ph[i][n] \notin {"deaf"}
    BY <1>2 DEF HeardAt
  <2>2. CASE EntersAborted(i, n) \/ StepRefused(i, n) \/ StepFatal(i, n) \/ WaitTimeout(i, n)
    BY <1>2, <2>2 DEF EntersAborted, StepRefused, StepFatal, WaitTimeout, To
  <2>3. CASE BeginDo(i, n)
    BY <1>2, <2>3 DEF BeginDo, To, Enters
  <2>4. CASE StepOk(i, n) \/ StepFail(i, n) \/ BackoffEnds(i, n)
    BY <1>2, <2>4 DEF StepOk, StepFail, BackoffEnds, To
  <2>5. CASE BeginSleep(i, n) \/ Wake(i, n)
    BY <1>2, <2>5 DEF BeginSleep, Wake, To, Enters
  <2>6. CASE BeginWait(i, n)
    BY <1>2, <2>6 DEF BeginWait, To, Enters
  <2>7. QED
    BY <2>2, <2>3, <2>4, <2>5, <2>6 DEF Moves
<1>6. QED
  BY <1>1, <1>4, <1>5 DEF HeardAt

\* The tables of step s of instance i.
StepAt(i, s) ==
  /\ cached[i][s] = None => done[i][s] = 0
  /\ cached[i][s] = None /\ row[i] # "complete" => failed[i][s] = fails[i][s]
  /\ done[i][s] <= 1
  /\ failed[i][s] <= MaxRetries + 1

LEMMA MoveCounted ==
  ASSUME Once, NEW i \in Instances, NEW n \in Runs, Moves(i, n)
  PROVE  CountedAt(i)'
<1> DEFINE s == pc[i][n]
<1>1. /\ Live(i, n) /\ s \in Steps
      /\ \A m \in Runs : m # n => ph'[i][m] \in {"unused", "done"}
  BY MoveFrame
<1>2. /\ row \in [Instances -> Rows] /\ cached \in [Instances -> [Steps -> 0..MaxRuns]]
      /\ fails \in [Instances -> [Steps -> 0..(MaxRetries + 1)]]
      /\ ph \in [Instances -> [Runs -> Phases]]
      /\ pc \in [Instances -> [Runs -> 1..(Len(Program) + 1)]]
      /\ attempt \in [Instances -> [Runs -> 0..MaxRetries]]
      /\ done \in [Instances -> [Steps -> Nat]]
      /\ failed \in [Instances -> [Steps -> Nat]]
  BY DEF Once, Sound, Typed, TypeOK
<1>3. /\ row[i] \in {"running", "waiting", "paused", "terminated"}
      /\ row'[i] \in {"running", "waiting", "paused", "terminated"}
  <2>1. row[i] \in {"running", "waiting", "paused", "terminated"}
    BY <1>1, OnlyOne
  <2>2. UNCHANGED row \/ row' \in {SetRow(i, "running"), SetRow(i, "waiting")}
    BY DEF Moves, EntersAborted, StepRefused, StepFatal, BeginDo, StepOk, StepFail, BackoffEnds,
           BeginSleep, Wake, BeginWait, WaitTimeout, dbVars
  <2>3. QED
    BY <1>2, <2>1, <2>2 DEF SetRow
<1>4. MaxRetries \in Nat /\ n # None
  BY ProgramType DEF Runs, None
<1>5. /\ \A t \in Steps : StepAt(i, t)
      /\ ph[i][n] \in {"calling", "backoff"} => cached[i][s] = None
      /\ ph[i][n] = "calling" => fails[i][s] = attempt[i][n]
      /\ ph[i][n] = "backoff" => fails[i][s] = attempt[i][n] + 1
  BY DEF Once, Alone, CountedAt, StepAt
<1>6. SUFFICES /\ \A t \in Steps : StepAt(i, t)'
               /\ ph'[i][n] \in {"calling", "backoff"} => cached'[i][s] = None /\ pc'[i][n] = s
               /\ ph'[i][n] = "calling" => fails'[i][s] = attempt'[i][n]
               /\ ph'[i][n] = "backoff" => fails'[i][s] = attempt'[i][n] + 1
  <2>1. ASSUME /\ \A t \in Steps : StepAt(i, t)'
               /\ ph'[i][n] \in {"calling", "backoff"} => cached'[i][s] = None /\ pc'[i][n] = s
               /\ ph'[i][n] = "calling" => fails'[i][s] = attempt'[i][n]
               /\ ph'[i][n] = "backoff" => fails'[i][s] = attempt'[i][n] + 1
        PROVE  CountedAt(i)'
    <3>1. \A t \in Steps : /\ cached'[i][t] = None => done'[i][t] = 0
                           /\ cached'[i][t] = None /\ row'[i] # "complete" => failed'[i][t] = fails'[i][t]
                           /\ done'[i][t] <= 1
                           /\ failed'[i][t] <= MaxRetries + 1
      BY <2>1 DEF StepAt
    <3>2. \A m \in Runs : ph'[i][m] \in {"calling", "backoff"} => m = n
      BY <1>1
    <3>3. QED
      BY <2>1, <3>1, <3>2 DEF CountedAt
  <2>2. QED
    BY <2>1
<1> HIDE DEF s
<1>7. CASE EntersAborted(i, n) \/ StepRefused(i, n) \/ StepFatal(i, n) \/ WaitTimeout(i, n)
  <2>1. /\ UNCHANGED <<cached, fails, done, failed>> /\ ph'[i][n] = "unwinding"
    BY <1>2, <1>7 DEF EntersAborted, StepRefused, StepFatal, WaitTimeout, To, dbVars, histVars
  <2>2. QED
    BY <1>3, <1>5, <2>1 DEF StepAt
<1>8. CASE BeginDo(i, n)
  <2>1. UNCHANGED <<cached, fails, done, failed>>
    BY <1>8 DEF BeginDo, dbVars, histVars
  <2>2. \/ ph'[i][n] = "step" \/ ph'[i][n] = "unwinding"
        \/ /\ ph'[i][n] = "calling" /\ cached[i][s] = None /\ pc' = pc
           /\ attempt'[i][n] = fails[i][s]
    BY <1>2, <1>8 DEF BeginDo, To, Enters, s
  <2>3. QED
    BY <1>3, <1>5, <2>1, <2>2 DEF StepAt, s
<1>9. CASE StepOk(i, n)
  <2>1. /\ UNCHANGED <<row, failed>> /\ ph[i][n] = "calling" /\ ph'[i][n] = "step"
        /\ cached' = [cached EXCEPT ![i][s] = n]
        /\ fails' = [fails EXCEPT ![i][s] = 0]
        /\ done' = [done EXCEPT ![i][s] = @ + 1]
    BY <1>2, <1>9 DEF StepOk, To, Store, s
  <2>2. \A t \in Steps : t # s => cached'[i][t] = cached[i][t] /\ fails'[i][t] = fails[i][t] /\ done'[i][t] = done[i][t]
    BY <1>2, <2>1
  <2>3. cached'[i][s] = n /\ done'[i][s] = done[i][s] + 1
    BY <1>1, <1>2, <2>1
  <2>4. ASSUME NEW t \in Steps PROVE StepAt(i, t)'
    <3>1. CASE t # s
      BY <1>5, <2>1, <2>2, <3>1 DEF StepAt
    <3>2. CASE t = s
      <4>1. done[i][s] = 0
        BY <1>1, <1>5, <2>1 DEF StepAt
      <4>2. done'[i][s] <= 1
        BY <2>3, <4>1
      <4>3. failed[i][s] <= MaxRetries + 1
        BY <1>1, <1>5 DEF StepAt
      <4>4. QED
        BY <1>4, <2>1, <2>3, <3>2, <4>2, <4>3 DEF StepAt
    <3>3. QED
      BY <3>1, <3>2
  <2>5. QED
    BY <2>1, <2>4
<1>10. CASE StepFail(i, n)
  <2>1. /\ UNCHANGED <<row, cached, done, pc, attempt>> /\ ph[i][n] = "calling"
        /\ fails' = [fails EXCEPT ![i][s] = attempt[i][n] + 1]
        /\ failed' = [failed EXCEPT ![i][s] = @ + 1]
        /\ ph'[i][n] \in {"backoff", "unwinding"}
    BY <1>2, <1>10 DEF StepFail, To, s
  <2>2. \A t \in Steps : t # s => fails'[i][t] = fails[i][t] /\ failed'[i][t] = failed[i][t]
    BY <1>2, <2>1
  <2>3. fails'[i][s] = attempt[i][n] + 1 /\ failed'[i][s] = failed[i][s] + 1
    BY <1>1, <1>2, <2>1
  <2>4. cached[i][s] = None /\ failed[i][s] = attempt[i][n]
    BY <1>1, <1>3, <1>5, <2>1 DEF StepAt
  <2>5. attempt[i][n] \in 0..MaxRetries
    BY <1>2
  <2>6. ASSUME NEW t \in Steps PROVE StepAt(i, t)'
    <3>1. CASE t # s
      BY <1>5, <2>1, <2>2, <3>1 DEF StepAt
    <3>2. CASE t = s
      <4>1. failed'[i][s] = fails'[i][s] /\ failed'[i][s] <= MaxRetries + 1
        BY <1>4, <2>3, <2>4, <2>5
      <4>2. /\ cached[i][s] = None => done[i][s] = 0
            /\ done[i][s] <= 1
        BY <1>1, <1>5 DEF StepAt
      <4>3. QED
        BY <2>1, <3>2, <4>1, <4>2 DEF StepAt
    <3>3. QED
      BY <3>1, <3>2
  <2>7. QED
    BY <2>1, <2>3, <2>4, <2>6 DEF s
<1>11. CASE BackoffEnds(i, n)
  <2>1. /\ UNCHANGED <<row, cached, fails, done, failed, pc>> /\ ph[i][n] = "backoff"
        /\ ph'[i][n] = "calling"
        /\ attempt'[i][n] = attempt[i][n] + 1
    BY <1>2, <1>11 DEF BackoffEnds, To, dbVars, histVars
  <2>2. \A t \in Steps : StepAt(i, t)'
    BY <1>5, <2>1 DEF StepAt
  <2>3. QED
    BY <1>5, <2>1, <2>2 DEF s
<1>12. CASE BeginSleep(i, n) \/ Wake(i, n) \/ BeginWait(i, n)
  <2>1. /\ UNCHANGED <<fails, done, failed>>
        /\ UNCHANGED cached \/ cached' = [cached EXCEPT ![i][s] = n]
        /\ ph'[i][n] \in {"step", "sleeping", "waiting"}
    <3>1. CASE BeginSleep(i, n)
      BY <1>2, <3>1 DEF BeginSleep, To, Enters, Store, histVars, s
    <3>2. CASE Wake(i, n)
      BY <1>2, <3>2 DEF Wake, To, dbVars, histVars
    <3>3. CASE BeginWait(i, n)
      BY <1>2, <3>3 DEF BeginWait, To, Enters, Store, s
    <3>4. QED
      BY <1>12, <3>1, <3>2, <3>3
  <2>2. \A t \in Steps : cached'[i][t] = None => cached[i][t] = None
    BY <1>2, <1>4, <2>1
  <2>3. \A t \in Steps : StepAt(i, t)'
    BY <1>3, <1>5, <2>1, <2>2 DEF StepAt
  <2>4. QED
    BY <2>1, <2>3
<1>13. QED
  BY <1>7, <1>8, <1>9, <1>10, <1>11, <1>12 DEF Moves

LEMMA MoveOnce ==
  ASSUME Once, NEW i \in Instances, NEW n \in Runs, Moves(i, n)
  PROVE  Once'
<1>1. Sound'
  BY MoveSound DEF Once
<1>2. ASSUME NEW k \in Instances PROVE Alone(k)'
  <2>1. CASE k = i
    BY <2>1, MoveFrame, MoveHeard, MoveCounted DEF Alone
  <2>2. CASE k # i
    BY <2>2, MoveFrame, SameAlone DEF Once
  <2>3. QED
    BY <2>1, <2>2
<1>3. QED
  BY <1>1, <1>2 DEF Once

\* An execution ends: its instance rests, and the one that is dequeued starts.
LEMMA EndOnce ==
  ASSUME Once, NEW i \in Instances, NEW n \in Runs, RunReturns(i, n) \/ RunThrows(i, n)
  PROVE  Once'
<1>1. Sound' /\ Sound /\ Typed
  BY EndSound DEF Once, Sound
<1>2. /\ Live(i, n)
      /\ UNCHANGED <<cached, events, pc, aborted, attempt, sleeper, exits, done, failed, sent, consumed>>
  BY DEF RunReturns, RunThrows, Live, histVars
<1>3. /\ ac[i] = n
      /\ row[i] \in {"running", "waiting", "paused", "terminated"}
      /\ \A m \in Runs : m # n => ph[i][m] \in {"unused", "done"}
  BY <1>2, OnlyOne
<1>4. /\ row \in [Instances -> Rows] /\ fails \in [Instances -> [Steps -> 0..(MaxRetries + 1)]]
      /\ waiter \in [Instances -> 0..MaxRuns] /\ ph \in [Instances -> [Runs -> Phases]]
      /\ runs \in [Instances -> 0..MaxRuns]
  BY <1>1 DEF Typed, TypeOK
<1>5. PICK r \in [Instances -> Rows] :
        /\ Finally(i, n, r)
        /\ \A k \in Instances : k # i => r[k] = row[k] /\ fails'[k] = fails[k]
        /\ r[i] \in {"complete", "errored", "running", "waiting", "paused", "terminated"}
        /\ r[i] # "complete" => fails'[i] = fails[i]
  <2>1. CASE Finally(i, n, row) /\ fails' = fails
    BY <1>3, <1>4, <2>1
  <2>2. CASE Finally(i, n, SetRow(i, "complete")) /\ fails' = [fails EXCEPT ![i] = [t \in Steps |-> 0]]
    <3>1. /\ SetRow(i, "complete") \in [Instances -> Rows]
          /\ \A k \in Instances : k # i => SetRow(i, "complete")[k] = row[k]
          /\ SetRow(i, "complete")[i] = "complete"
      BY <1>3, <1>4 DEF SetRow, Rows, Over
    <3>2. \A k \in Instances : k # i => fails'[k] = fails[k]
      BY <1>4, <2>2
    <3>3. QED
      BY <2>2, <3>1, <3>2
  <2>3. CASE Finally(i, n, SetRow(i, "errored")) /\ fails' = fails
    BY <1>3, <1>4, <2>3 DEF SetRow, Rows, Over
  <2>4. QED
    BY <2>1, <2>2, <2>3 DEF RunReturns, RunThrows
<1>6. /\ waiter' = [waiter EXCEPT ![i] = None]
      /\ EndsAlone(i, n, r) \/ \E j \in Instances : EndsAndStarts(i, n, r, j)
  BY <1>1, <1>5, FinallyParts
<1>7. ASSUME NEW k \in Instances, k # i, row'[k] = row[k], runs'[k] = runs[k], ac'[k] = ac[k],
             \A m \in Runs : ph'[k][m] = ph[k][m]
      PROVE  Alone(k)'
  <2>1. ph'[k] = ph[k]
    <3>1. ph' \in [Instances -> [Runs -> Phases]]
      BY <1>1 DEF Sound, Typed, TypeOK
    <3>2. ph'[k] \in [Runs -> Phases] /\ ph[k] \in [Runs -> Phases]
      BY <1>4, <3>1
    <3>3. QED
      BY <1>7, <3>2
  <2>2. fails'[k] = fails[k]
    BY <1>5, <1>7
  <2>3. waiter'[k] = waiter[k]
    BY <1>4, <1>6, <1>7
  <2>4. Same(k)
    BY <1>2, <1>7, <2>1, <2>2, <2>3 DEF Same
  <2>5. QED
    BY <2>4, SameAlone DEF Once
<1>8. ASSUME row'[i] = r[i], runs'[i] = runs[i], \A m \in Runs : ph'[i][m] = Ended(i, n, i, m)
      PROVE  Alone(i)'
  <2>1. \A m \in Runs : ph'[i][m] \in {"unused", "done"}
    BY <1>3, <1>8 DEF Ended
  <2>2. Rests(i)
    BY <1>2, <1>3, <1>5, <1>8, <2>1 DEF Rests
  <2>3. QED
    BY <2>2, RestsAlone DEF Once
<1>9. CASE EndsAlone(i, n, r)
  <2>1. ASSUME NEW k \in Instances PROVE Alone(k)'
    <3>1. CASE k = i
      BY <1>8, <1>9, <3>1 DEF EndsAlone
    <3>2. CASE k # i
      BY <1>5, <1>7, <1>9, <3>2 DEF EndsAlone, Ended
    <3>3. QED
      BY <3>1, <3>2
  <2>2. QED
    BY <1>1, <2>1 DEF Once
<1>10. ASSUME NEW j \in Instances, EndsAndStarts(i, n, r, j)
       PROVE  Once'
  <2>1. j # i /\ row[j] = "queued" /\ r[j] = "queued"
    BY <1>5, <1>10 DEF EndsAndStarts
  <2>2. runs[j] = 0
    BY <2>1 DEF Once, Alone, LoneAt
  <2>3. Starts(j)
    <3>1. \A m \in Runs : m > runs[j] => ph[j][m] = "unused"
      BY <1>1, Started
    <3>2. \A m \in Runs : ph[j][m] = "unused"
      BY <2>2, <3>1, ProgramType DEF Runs
    <3>3. \A m \in Runs : (ph'[j][m] = "step" /\ m = runs[j] + 1) \/ ph'[j][m] \in {"unused", "done"}
      BY <1>10, <2>1, <3>2 DEF EndsAndStarts, Ended
    <3>4. row'[j] = "running"
      BY <1>10 DEF EndsAndStarts
    <3>5. runs[j] + 1 \in Runs /\ runs'[j] = runs[j] + 1 /\ ac'[j] = runs[j] + 1
      BY <1>10 DEF EndsAndStarts
    <3>6. fails'[j] = fails[j]
      BY <1>5, <2>1
    <3>7. QED
      BY <1>2, <2>1, <3>3, <3>4, <3>5, <3>6 DEF Starts
  <2>4. ASSUME NEW k \in Instances PROVE Alone(k)'
    <3>1. CASE k = j
      BY <1>1, <2>3, <3>1, StartsAlone DEF Once
    <3>2. CASE k = i
      <4>1. row'[i] = r[i] /\ runs'[i] = runs[i]
        BY <1>10, <2>1 DEF EndsAndStarts
      <4>2. \A m \in Runs : ph'[i][m] = Ended(i, n, i, m)
        BY <1>10, <2>1 DEF EndsAndStarts
      <4>3. QED
        BY <1>8, <3>2, <4>1, <4>2
    <3>3. CASE k # i /\ k # j
      <4>1. row'[k] = row[k] /\ runs'[k] = runs[k] /\ ac'[k] = ac[k]
        BY <1>5, <1>10, <3>3 DEF EndsAndStarts
      <4>2. \A m \in Runs : ph'[k][m] = ph[k][m]
        BY <1>10, <3>3 DEF EndsAndStarts, Ended
      <4>3. QED
        BY <1>7, <3>3, <4>1, <4>2
    <3>4. QED
      BY <3>1, <3>2, <3>3
  <2>5. QED
    BY <1>1, <2>4 DEF Once
<1>11. QED
  BY <1>6, <1>9, <1>10

LEMMA CreateOnce ==
  ASSUME Once, OneStart, NEW i \in Instances, Create(i)
  PROVE  Once'
<1>1. Sound' /\ Sound
  BY CreateSound DEF Once
<1>2. /\ row[i] = "none"
      /\ \/ /\ row' = [row EXCEPT ![i] = "queued"]
            /\ ac' = [ac EXCEPT ![i] = None]
            /\ UNCHANGED <<ph, runs>>
         \/ /\ row' = [row EXCEPT ![i] = "running"]
            /\ ac' = [ac EXCEPT ![i] = runs[i] + 1]
            /\ Launch(ph, {i})
      /\ fails' = fails
      /\ UNCHANGED <<cached, events, pc, aborted, attempt, waiter, sleeper, exits, done,
                     failed, sent, consumed>>
  <2>1. PICK old \in SUBSET {k \in Recreated : row[k] \in {"complete", "errored"}} :
          LET kept == [k \in Instances |-> IF k \in old THEN "none" ELSE row[k]]
              busy == Cardinality({k \in Instances : kept[k] \in {"running", "waiting"}})
          IN /\ kept[i] = "none"
             /\ runs[i] < MaxRuns
             /\ IF busy >= MaxConcurrent
                  THEN /\ row' = [kept EXCEPT ![i] = "queued"]
                       /\ ac' = [ac EXCEPT ![i] = None]
                       /\ UNCHANGED <<ph, runs>>
                  ELSE /\ row' = [kept EXCEPT ![i] = "running"]
                       /\ ac' = [ac EXCEPT ![i] = runs[i] + 1]
                       /\ Launch(ph, {i})
             /\ fails' = [k \in Instances |-> IF k \in old THEN [s \in Steps |-> 0] ELSE fails[k]]
             /\ UNCHANGED <<cached, events, pc, aborted, attempt, waiter, sleeper, exits, done,
                            failed, sent, consumed>>
    BY DEF Create
  <2>2. old = {}
    BY DEF OneStart
  <2>3. /\ [k \in Instances |-> IF k \in old THEN "none" ELSE row[k]] = row
        /\ [k \in Instances |-> IF k \in old THEN [s \in Steps |-> 0] ELSE fails[k]] = fails
    BY <1>1, <2>2 DEF Sound, Typed, TypeOK
  <2>4. QED
    BY <2>1, <2>3
<1>3. runs[i] = 0
  BY <1>2 DEF Once, Alone, LoneAt
<1>4. \A m \in Runs : ph[i][m] = "unused"
  <2>1. \A m \in Runs : m > runs[i] => ph[i][m] = "unused"
    BY <1>1, Started
  <2>2. QED
    BY <1>3, <2>1, ProgramType DEF Runs
<1>5. /\ row \in [Instances -> Rows] /\ ac \in [Instances -> 0..MaxRuns]
      /\ ph \in [Instances -> [Runs -> Phases]] /\ Typed
      /\ runs \in [Instances -> 0..MaxRuns]
  BY <1>1 DEF Sound, Typed, TypeOK
<1>6. CASE row' = [row EXCEPT ![i] = "queued"] /\ ac' = [ac EXCEPT ![i] = None] /\ UNCHANGED <<ph, runs>>
  <2>1. ASSUME NEW k \in Instances PROVE Alone(k)'
    <3>1. CASE k = i
      <4>1. Rests(i)
        BY <1>2, <1>3, <1>4, <1>5, <1>6 DEF Rests
      <4>2. QED
        BY <3>1, <4>1, RestsAlone DEF Once
    <3>2. CASE k # i
      <4>1. Same(k)
        BY <1>2, <1>5, <1>6, <3>2 DEF Same
      <4>2. QED
        BY <4>1, SameAlone DEF Once
    <3>3. QED
      BY <3>1, <3>2
  <2>2. QED
    BY <1>1, <2>1 DEF Once
<1>7. CASE row' = [row EXCEPT ![i] = "running"] /\ ac' = [ac EXCEPT ![i] = runs[i] + 1] /\ Launch(ph, {i})
  <2>1. {i} \in SUBSET Instances
    OBVIOUS
  <2>2. /\ ph' \in [Instances -> [Runs -> Phases]]
        /\ \A k \in {i} : runs[k] + 1 \in Runs
        /\ \A k \in Instances : \A m \in Runs :
             ph'[k][m] = IF k \in {i} /\ m = runs[k] + 1 THEN "step" ELSE ph[k][m]
        /\ \A k \in Instances : runs'[k] = IF k \in {i} THEN runs[k] + 1 ELSE runs[k]
    BY <1>5, <1>7, <2>1, LaunchParts
  <2>3. ASSUME NEW k \in Instances PROVE Alone(k)'
    <3>1. CASE k = i
      <4>1. Starts(i)
        BY <1>2, <1>4, <1>5, <1>7, <2>2 DEF Starts
      <4>2. QED
        BY <1>1, <3>1, <4>1, StartsAlone DEF Once
    <3>2. CASE k # i
      <4>1. ph'[k] = ph[k]
        <5>1. ph'[k] \in [Runs -> Phases] /\ ph[k] \in [Runs -> Phases]
          BY <1>5, <2>2
        <5>2. \A m \in Runs : ph'[k][m] = ph[k][m]
          BY <2>2, <3>2
        <5>3. QED
          BY <5>1, <5>2
      <4>2. Same(k)
        BY <1>2, <1>5, <1>7, <2>2, <3>2, <4>1 DEF Same
      <4>3. QED
        BY <4>2, SameAlone DEF Once
    <3>3. QED
      BY <3>1, <3>2
  <2>4. QED
    BY <1>1, <2>3 DEF Once
<1>8. QED
  BY <1>2, <1>6, <1>7

LEMMA ExitOnce ==
  ASSUME Once, ExitAndResume
  PROVE  Once'
<1> DEFINE S == {i \in Instances : row[i] \in {"running", "waiting"}}
           p == [i \in Instances |-> [n \in Runs |-> IF Live(i, n) THEN "done" ELSE ph[i][n]]]
<1>1. Sound' /\ Sound
  BY ExitSound DEF Once
<1>2. /\ row' = [i \in Instances |-> IF i \in S THEN "running" ELSE row[i]]
      /\ Launch(p, S)
      /\ ac' = [i \in Instances |-> IF i \in S THEN runs[i] + 1 ELSE None]
      /\ UNCHANGED <<cached, fails, events, pc, aborted, attempt, done, failed, sent,
                     consumed>>
  BY DEF ExitAndResume
<1>3. S \in SUBSET Instances
  OBVIOUS
<1>4. /\ p \in [Instances -> [Runs -> Phases]]
      /\ \A k \in Instances : \A m \in Runs : p[k][m] \in {"unused", "done"}
  BY <1>1 DEF Sound, Typed, TypeOK, Phases, Live
<1>5. \A k \in Instances : /\ k \in S => row[k] \in {"running", "waiting"} /\ row'[k] = "running" /\ ac'[k] = runs[k] + 1
                           /\ k \notin S => row'[k] = row[k]
  BY <1>2
<1> HIDE DEF S, p
<1>6. /\ \A k \in S : runs[k] + 1 \in Runs
      /\ \A k \in Instances : \A m \in Runs :
           ph'[k][m] = IF k \in S /\ m = runs[k] + 1 THEN "step" ELSE p[k][m]
      /\ \A k \in Instances : runs'[k] = IF k \in S THEN runs[k] + 1 ELSE runs[k]
  BY <1>1, <1>2, <1>3, <1>4, LaunchParts DEF Sound
<1>7. ASSUME NEW k \in Instances PROVE Alone(k)'
  <2>1. CASE k \in S
    <3>1. Starts(k)
      BY <1>2, <1>4, <1>5, <1>6, <2>1 DEF Starts
    <3>2. QED
      BY <1>1, <3>1, StartsAlone DEF Once
  <2>2. CASE k \notin S
    <3>1. row[k] \in {"none", "queued"} => runs[k] = 0
      BY DEF Once, Alone, LoneAt
    <3>2. \A m \in Runs : ph'[k][m] \in {"unused", "done"}
      BY <1>4, <1>6, <2>2
    <3>3. Rests(k)
      BY <1>2, <1>5, <1>6, <2>2, <3>1, <3>2 DEF Rests
    <3>4. QED
      BY <3>3, RestsAlone DEF Once
  <2>3. QED
    BY <2>1, <2>2
<1>8. QED
  BY <1>1, <1>7 DEF Once

LEMMA StatusOnce ==
  ASSUME Once, NEW i \in Instances, Pause(i) \/ Resume(i)
  PROVE  Once'
<1>1. Sound'
  BY StatusSound DEF Once
<1>2. /\ row[i] \in {"running", "waiting", "paused"}
      /\ \E t \in {"running", "waiting", "paused"} : row' = [row EXCEPT ![i] = t]
      /\ UNCHANGED <<cached, fails, events, execVars, memVars, histVars>>
  BY DEF Pause, Resume
<1>3. /\ row'[i] \in {"running", "waiting", "paused"}
      /\ \A k \in Instances : k # i => row'[k] = row[k]
  BY <1>2 DEF Once, Sound, Typed, TypeOK
<1>4. ASSUME NEW k \in Instances PROVE Alone(k)'
  <2>1. CASE k # i
    <3>1. Same(k)
      BY <1>2, <1>3, <2>1 DEF Same, execVars, memVars, histVars
    <3>2. QED
      BY <3>1, SameAlone DEF Once
  <2>2. CASE k = i
    <3>0. Alone(i) /\ \A m \in Runs : Live(i, m) => ~aborted[i][m]
      BY <1>2 DEF Once, Alone, LoneAt
    <3>1. LoneAt(i)'
      BY <1>2, <1>3, <3>0 DEF Alone, LoneAt, Live, execVars, memVars
    <3>2. HeardAt(i)'
      BY <1>2, <3>0 DEF Alone, HeardAt, execVars, memVars, histVars
    <3>3. CountedAt(i)'
      BY <1>2, <1>3, <3>0 DEF Alone, CountedAt, execVars, memVars, histVars
    <3>4. QED
      BY <2>2, <3>1, <3>2, <3>3 DEF Alone
  <2>3. QED
    BY <2>1, <2>2
<1>5. QED
  BY <1>1, <1>4 DEF Once

LEMMA TerminateOnce ==
  ASSUME Once, NEW i \in Instances, Terminate(i)
  PROVE  Once'
<1>1. Sound' /\ Sound
  BY TerminateSound DEF Once
<1>2. /\ Abort(i) /\ ph' = AbortedPh(i)
      /\ row' = [row EXCEPT ![i] = IF @ \in Over THEN @ ELSE "terminated"]
      /\ row[i] # "none"
      /\ UNCHANGED <<cached, fails, events, pc, attempt, runs, ac, done, failed, sent, consumed>>
  BY DEF Terminate, histVars
<1>3. /\ ph \in [Instances -> [Runs -> Phases]] /\ row \in [Instances -> Rows]
      /\ aborted \in [Instances -> [Runs -> BOOLEAN]] /\ waiter \in [Instances -> 0..MaxRuns]
  BY <1>1 DEF Sound, Typed, TypeOK
<1>4. /\ row'[i] = IF row[i] \in Over THEN row[i] ELSE "terminated"
      /\ \A k \in Instances : k # i => row'[k] = row[k]
  BY <1>2, <1>3
<1>5. /\ aborted' \in [Instances -> [Runs -> BOOLEAN]]
      /\ AbortedPh(i) \in [Instances -> [Runs -> Phases]]
      /\ \A k \in Instances : \A m \in Runs :
           aborted'[k][m] = IF k = i /\ m = ac[i] THEN TRUE ELSE aborted[k][m]
      /\ \A k \in Instances : \A m \in Runs :
           AbortedPh(i)[k][m] =
             IF k = i /\ m = ac[i] /\ ph[k][m] \in {"backoff", "sleeping", "waiting", "deaf"}
               THEN "unwinding" ELSE ph[k][m]
  BY <1>1, <1>2, AbortParts
<1>6. \A k \in Instances : k # i => waiter'[k] = waiter[k]
  BY <1>2, <1>3 DEF Abort
<1>7. ASSUME NEW k \in Instances, k # i PROVE Alone(k)'
  <2>1. ph'[k] = ph[k]
    <3>1. ph'[k] \in [Runs -> Phases] /\ ph[k] \in [Runs -> Phases]
      BY <1>2, <1>3, <1>5
    <3>2. \A m \in Runs : ph'[k][m] = ph[k][m]
      BY <1>2, <1>5, <1>7
    <3>3. QED
      BY <3>1, <3>2
  <2>2. aborted'[k] = aborted[k]
    BY <1>2, <1>3, <1>7 DEF Abort
  <2>3. Same(k)
    BY <1>2, <1>4, <1>6, <1>7, <2>1, <2>2 DEF Same
  <2>4. QED
    BY <2>3, SameAlone DEF Once
<1>8. Alone(i)
  BY DEF Once
<1>9. \A m \in Runs : /\ ph'[i][m] # "waiting" /\ ph'[i][m] # "deaf" /\ ph'[i][m] # "backoff"
                      /\ ph'[i][m] = "calling" => ph[i][m] = "calling"
                      /\ ph'[i][m] \notin {"unused", "done"} => ph[i][m] \notin {"unused", "done"} /\ m = ac[i]
  <2>1. \A m \in Runs : ph[i][m] \notin {"unused", "done"} => m = ac[i]
    BY <1>8 DEF Alone, LoneAt, Live
  <2>2. QED
    BY <1>2, <1>5, <2>1
<1>10. LoneAt(i)'
  <2>1. row[i] \in {"none", "queued"} => runs[i] = 0
    BY <1>8 DEF Alone, LoneAt
  <2>2. ASSUME NEW m \in Runs, ph'[i][m] \notin {"unused", "done"}
        PROVE  ac'[i] = m /\ aborted'[i][m] /\ row'[i] = "terminated"
    <3>1. m = ac[i] /\ Live(i, m)
      BY <1>9, <2>2 DEF Live
    <3>2. row[i] \in {"running", "waiting", "paused", "terminated"}
      BY <3>1, OnlyOne
    <3>3. aborted'[i][m]
      BY <1>5, <3>1
    <3>4. row'[i] = "terminated"
      BY <1>4, <3>2 DEF Over
    <3>5. QED
      BY <1>2, <3>1, <3>3, <3>4
  <2>3. row'[i] \notin {"none", "queued"}
    BY <1>4 DEF Over
  <2>4. QED
    BY <2>2, <2>3 DEF LoneAt, Live
<1>11. HeardAt(i)'
  BY <1>2, <1>8, <1>9 DEF Alone, HeardAt
<1>12. CountedAt(i)'
  <2>1. row'[i] = "complete" <=> row[i] = "complete"
    BY <1>4 DEF Over
  <2>2. QED
    BY <1>2, <1>8, <1>9, <2>1 DEF Alone, CountedAt
<1>13. QED
  BY <1>1, <1>7, <1>10, <1>11, <1>12 DEF Once, Alone

LEMMA SendOnce ==
  ASSUME Once, NEW i \in Instances, SendEvent(i)
  PROVE  Once'
<1>1. Sound' /\ Sound
  BY SendSound DEF Once
<1>2. /\ sent' = [sent EXCEPT ![i] = @ + 1]
      /\ UNCHANGED <<fails, aborted, attempt, runs, ac, sleeper, exits, done, failed>>
  BY DEF SendEvent
<1>3. /\ row \in [Instances -> Rows] /\ sent \in [Instances -> Nat] /\ events \in [Instances -> Nat]
      /\ consumed \in [Instances -> Nat] /\ waiter \in [Instances -> 0..MaxRuns]
      /\ ph \in [Instances -> [Runs -> Phases]] /\ cached \in [Instances -> [Steps -> 0..MaxRuns]]
      /\ pc \in [Instances -> [Runs -> 1..(Len(Program) + 1)]]
  BY <1>1 DEF Sound, Typed, TypeOK
<1>4. Alone(i)
  BY DEF Once
<1>5. CASE waiter[i] = None
  <2>1. /\ events' = [events EXCEPT ![i] = @ + 1]
        /\ UNCHANGED <<row, cached, ph, pc, waiter, consumed>>
    BY <1>5 DEF SendEvent
  <2>2. ASSUME NEW k \in Instances, k # i PROVE Alone(k)'
    <3>1. Same(k)
      BY <1>2, <1>3, <2>1, <2>2 DEF Same
    <3>2. QED
      BY <3>1, SameAlone DEF Once
  <2>3. LoneAt(i)'
    BY <1>2, <1>4, <2>1 DEF Alone, LoneAt, Live
  <2>4. HeardAt(i)'
    <3>1. sent'[i] = events'[i] + consumed'[i]
      <4>1. sent'[i] = sent[i] + 1 /\ events'[i] = events[i] + 1 /\ consumed'[i] = consumed[i]
        BY <1>2, <1>3, <2>1
      <4>2. sent[i] = events[i] + consumed[i]
        BY <1>4 DEF Alone, HeardAt
      <4>3. events[i] \in Nat /\ consumed[i] \in Nat
        BY <1>3
      <4>4. QED
        BY <4>1, <4>2, <4>3
    <3>2. \A m \in Runs : m # None
      BY <1>1, Started
    <3>3. \A m \in Runs : ph[i][m] # "waiting" /\ ph[i][m] # "deaf"
      BY <1>4, <1>5, <3>2 DEF Alone, HeardAt
    <3>4. QED
      BY <2>1, <3>1, <3>3 DEF HeardAt
  <2>5. CountedAt(i)'
    BY <1>2, <1>4, <2>1 DEF Alone, CountedAt
  <2>6. QED
    BY <1>1, <2>2, <2>3, <2>4, <2>5 DEF Once, Alone
<1>6. CASE waiter[i] # None
  <2> DEFINE n == waiter[i]
  <2>1. n \in Runs /\ ph[i][n] = "waiting"
    BY <1>1, <1>6, Registered
  <2>2. pc[i][n] \in Steps /\ Live(i, n)
    BY <1>1, <2>1 DEF Sound, Typed, Placed, Live
  <2>3. /\ row' = SetRow(i, "running")
        /\ cached' = [cached EXCEPT ![i][pc[i][n]] = n]
        /\ ph' = [ph EXCEPT ![i][n] = "step"]
        /\ pc' = [pc EXCEPT ![i][n] = @ + 1]
        /\ waiter' = [waiter EXCEPT ![i] = None]
        /\ consumed' = [consumed EXCEPT ![i] = @ + 1]
        /\ UNCHANGED events
        /\ row[i] \notin Over \cup {"none"}
    BY <1>6 DEF SendEvent, Store, To, Advance
  <2> HIDE DEF n
  <2>4. ASSUME NEW k \in Instances, k # i PROVE Alone(k)'
    <3>1. Same(k)
      BY <1>2, <1>3, <2>3, <2>4 DEF Same, SetRow
    <3>2. QED
      BY <3>1, SameAlone DEF Once
  <2>5. /\ row[i] \in {"running", "waiting", "paused"} /\ ac[i] = n /\ ~aborted[i][n]
        /\ \A m \in Runs : m # n => ph[i][m] \in {"unused", "done"}
    BY <2>1, <2>2, <2>3, OnlyOne DEF Over
  <2>6. row'[i] = "running" /\ ph'[i][n] = "step"
    BY <1>3, <2>1, <2>3, <2>5 DEF SetRow
  <2>7. \A m \in Runs : m # n => ph'[i][m] \in {"unused", "done"}
    BY <1>3, <2>3, <2>5
  <2>8. LoneAt(i)'
    BY <1>2, <2>5, <2>6, <2>7 DEF LoneAt, Live
  <2>9. HeardAt(i)'
    <3>1. sent'[i] = events'[i] + consumed'[i]
      <4>1. sent'[i] = sent[i] + 1 /\ events'[i] = events[i] /\ consumed'[i] = consumed[i] + 1
        BY <1>2, <1>3, <2>3
      <4>2. sent[i] = events[i] + consumed[i]
        BY <1>4 DEF Alone, HeardAt
      <4>3. events[i] \in Nat /\ consumed[i] \in Nat
        BY <1>3
      <4>4. QED
        BY <4>1, <4>2, <4>3
    <3>2. QED
      BY <2>6, <2>7, <3>1 DEF HeardAt
  <2>10. CountedAt(i)'
    <3>1. \A t \in Steps : cached'[i][t] = None => cached[i][t] = None
      <4>1. n # None
        BY <1>1, <2>1, Started
      <4>2. QED
        BY <1>3, <2>3, <4>1
    <3>2. \A m \in Runs : ph'[i][m] \notin {"calling", "backoff"}
      BY <2>6, <2>7
    <3>3. row[i] # "complete"
      BY <2>5
    <3>4. QED
      BY <1>2, <1>4, <3>1, <3>2, <3>3 DEF Alone, CountedAt
  <2>11. QED
    BY <1>1, <2>4, <2>8, <2>9, <2>10 DEF Once, Alone
<1>7. QED
  BY <1>5, <1>6

LEMMA OnceNext ==
  ASSUME Once, OneStart, [Next]_vars
  PROVE  Once'
<1>1. ASSUME NEW i \in Instances, NEW n \in Runs, Moves(i, n) \/ SleepEnds(i, n)
      PROVE  Once'
  BY <1>1, MoveOnce DEF SleepEnds, Moves
<1>2. ASSUME NEW i \in Instances, NEW n \in Runs, RunReturns(i, n) \/ RunThrows(i, n)
      PROVE  Once'
  BY <1>2, EndOnce
<1>3. ASSUME NEW i \in Instances, Create(i) \/ SendEvent(i) \/ Pause(i) \/ Resume(i) \/ Terminate(i)
      PROVE  Once'
  BY <1>3, CreateOnce, SendOnce, StatusOnce, TerminateOnce
<1>4. ASSUME NEW i \in Instances, SkipSleep(i)
      PROVE  Once'
  <2>1. sleeper[i] # None /\ Wake(i, sleeper[i]) /\ Sound
    BY <1>4 DEF SkipSleep, Once
  <2>2. PICK n \in Runs : n = sleeper[i]
    BY <2>1, Registered
  <2>3. Moves(i, n)
    BY <2>1, <2>2 DEF Moves
  <2>4. QED
    BY <2>3, MoveOnce
<1>5. ASSUME NEW i \in Instances, Restart(i) \/ RestartMissing(i) \/ \E s \in Steps : RestartFrom(i, s)
      PROVE  FALSE
  BY <1>5 DEF Restart, RestartMissing, RestartFrom, OneStart
<1>6. CASE ExitAndResume
  BY <1>6, ExitOnce
<1>7. CASE UNCHANGED vars
  <2>1. Sound'
    BY <1>7, NextSound DEF Once
  <2>2. \A k \in Instances : Same(k)
    BY <1>7 DEF Same, vars, dbVars, execVars, memVars, histVars
  <2>3. QED
    BY <2>1, <2>2, SameAlone DEF Once
<1>8. CASE Next
  BY <1>1, <1>2, <1>3, <1>4, <1>5, <1>6, <1>8 DEF Next, Moves
<1>9. QED
  BY <1>7, <1>8

LEMMA OnceInit == Init => Once
<1>1. SUFFICES ASSUME Init PROVE Once
  OBVIOUS
<1>2. MaxRetries \in Nat
  BY ProgramType
<1>3. ASSUME NEW i \in Instances PROVE Alone(i)
  <2>1. LoneAt(i)
    BY <1>1 DEF Init, LoneAt, Live
  <2>2. HeardAt(i)
    BY <1>1 DEF Init, HeardAt
  <2>3. CountedAt(i)
    <3>1. 0 <= 1 /\ 0 <= MaxRetries + 1
      BY <1>2
    <3>2. /\ \A s \in Steps : cached[i][s] = None /\ fails[i][s] = 0 /\ done[i][s] = 0 /\ failed[i][s] = 0
          /\ \A n \in Runs : ph[i][n] = "unused"
      BY <1>1 DEF Init
    <3>3. QED
      BY <3>1, <3>2 DEF CountedAt
  <2>4. QED
    BY <2>1, <2>2, <2>3 DEF Alone
<1>4. QED
  BY <1>1, <1>3, InitSound DEF Once

LEMMA OnceAlways ==
  ASSUME OneStart
  PROVE  Spec => []Once
<1>1. Once /\ [Next]_vars => Once'
  BY OnceNext
<1>2. QED
  BY <1>1, OnceInit, PTL DEF Spec

(***************************************************************************)
(* Without restarts and re-created ids, however often an instance is       *)
(* paused, resumed, terminated, woken, and the process exits: no callback  *)
(* succeeds twice, and none fails more often than retries.limit + 1 times  *)
(* (workflow.ts, getCachedStep, cacheStep, and the attempts of step.do).   *)
(***************************************************************************)
THEOREM StepsCountedAlways ==
  ASSUME OneStart
  PROVE  Spec => []StepsCounted
<1>1. Once => StepsCounted
  BY DEF Once, Alone, CountedAt, StepsCounted, StepSucceedsOnce, RetryBudget
<1>2. QED
  BY <1>1, OnceAlways, PTL

\* Under the same conditions no event that sendEvent accepted is lost, handed
\* out twice, or left in the table while an execution waits for it
\* (workflow.ts, sendEvent, waitForEvent).
THEOREM EventsArriveAlways ==
  ASSUME OneStart
  PROVE  Spec => []EventsArrive
<1>1. Once => EventsArrive
  BY DEF Once, Alone, HeardAt, EventsArrive
<1>2. QED
  BY <1>1, OnceAlways, PTL

-----------------------------------------------------------------------------
(* Slots.                                                                  *)

\* Instances are created, run, woken and sent events, and the process may exit.
OnlyRun == OneStart /\ Controls \cap {"pause", "terminate"} = {}

\* The slots before and after.
LEMMA BusyKept ==
  ASSUME \A k \in Instances : row'[k] \in {"running", "waiting"} <=> row[k] \in {"running", "waiting"}
  PROVE  Busy' = Busy
BY DEF Busy

LEMMA BusyTaken ==
  ASSUME Held, NEW j \in Instances, row[j] \notin {"running", "waiting"}, row'[j] \in {"running", "waiting"},
         \A k \in Instances : k # j => row'[k] = row[k],
         Cardinality(Busy) < MaxConcurrent
  PROVE  IsFiniteSet(Busy') /\ Cardinality(Busy') <= MaxConcurrent
<1>1. Busy' = Busy \cup {j} /\ j \notin Busy
  BY DEF Busy
<1>2. IsFiniteSet(Busy) /\ Cardinality(Busy) \in Nat
  BY FS_CardinalityType DEF Held
<1>3. IsFiniteSet(Busy \cup {j}) /\ Cardinality(Busy \cup {j}) = Cardinality(Busy) + 1
  BY <1>1, <1>2, FS_AddElement
<1>4. QED
  BY <1>1, <1>2, <1>3, WorkflowAssumption

LEMMA BusyLeft ==
  ASSUME Held, NEW i \in Instances, row[i] \in {"running", "waiting"}, row'[i] \notin {"running", "waiting"},
         \A k \in Instances : k # i => row'[k] = row[k]
  PROVE  IsFiniteSet(Busy') /\ Cardinality(Busy') <= MaxConcurrent
<1>1. Busy' = Busy \ {i} /\ i \in Busy
  BY DEF Busy
<1>2. IsFiniteSet(Busy) /\ Cardinality(Busy) \in Nat /\ Cardinality(Busy) <= MaxConcurrent
  BY FS_CardinalityType DEF Held
<1>3. IsFiniteSet(Busy \ {i}) /\ Cardinality(Busy \ {i}) = Cardinality(Busy) - 1
  BY <1>1, <1>2, FS_RemoveElement
<1>4. QED
  BY <1>1, <1>2, <1>3, WorkflowAssumption

LEMMA BusyPassed ==
  ASSUME Held, NEW i \in Instances, NEW j \in Instances, i # j,
         row[i] \in {"running", "waiting"}, row'[i] \notin {"running", "waiting"},
         row[j] \notin {"running", "waiting"}, row'[j] \in {"running", "waiting"},
         \A k \in Instances : k # i /\ k # j => row'[k] = row[k]
  PROVE  IsFiniteSet(Busy') /\ Cardinality(Busy') <= MaxConcurrent
<1>1. Busy' = (Busy \ {i}) \cup {j} /\ i \in Busy /\ j \notin Busy \ {i}
  BY DEF Busy
<1>2. IsFiniteSet(Busy) /\ Cardinality(Busy) \in Nat /\ Cardinality(Busy) <= MaxConcurrent
  BY FS_CardinalityType DEF Held
<1>3. IsFiniteSet(Busy \ {i}) /\ Cardinality(Busy \ {i}) = Cardinality(Busy) - 1
  BY <1>1, <1>2, FS_RemoveElement
<1>4. IsFiniteSet((Busy \ {i}) \cup {j}) /\ Cardinality((Busy \ {i}) \cup {j}) = Cardinality(Busy \ {i}) + 1
  BY <1>1, <1>3, FS_AddElement
<1>5. QED
  BY <1>1, <1>2, <1>3, <1>4, WorkflowAssumption

\* What holds of every instance follows row by row.
LEMMA HeldRows ==
  ASSUME Held,
         \A k \in Instances : row'[k] \notin {"paused", "terminated"},
         \A k \in Instances : aborted'[k] = aborted[k],
         \A k \in Instances : row'[k] \in {"running", "waiting"} => ac'[k] # None,
         IsFiniteSet(Busy') /\ Cardinality(Busy') <= MaxConcurrent
  PROVE  Held'
<1>1. ASSUME NEW k \in Instances PROVE HeldAt(k)'
  BY DEF Held, HeldAt
<1>2. QED
  BY <1>1 DEF Held

LEMMA HeldSame ==
  ASSUME Held, UNCHANGED <<row, aborted, ac>>
  PROVE  Held'
BY DEF Held, HeldAt, Busy

LEMMA MoveHeld ==
  ASSUME Once, Held, NEW i \in Instances, NEW n \in Runs, Moves(i, n)
  PROVE  Held'
<1>1. /\ Live(i, n) /\ \A k \in Instances : k # i => row'[k] = row[k]
  BY MoveFrame DEF Same
<1>2. /\ ac[i] = n /\ n # None /\ row[i] \in {"running", "waiting", "paused", "terminated"}
  BY <1>1, OnlyOne, Started DEF Once
<1>3. row[i] \in {"running", "waiting"} /\ row \in [Instances -> Rows]
  BY <1>2 DEF Held, HeldAt, Once, Sound, Typed, TypeOK
<1>4. /\ UNCHANGED <<aborted, ac>>
      /\ UNCHANGED row \/ row' \in {SetRow(i, "running"), SetRow(i, "waiting")}
  BY DEF Moves, EntersAborted, StepRefused, StepFatal, BeginDo, StepOk, StepFail, BackoffEnds,
         BeginSleep, Wake, BeginWait, WaitTimeout, dbVars, memVars
<1>5. row'[i] \in {"running", "waiting"}
  BY <1>3, <1>4 DEF SetRow
<1>6. Busy' = Busy
  BY <1>1, <1>3, <1>5, BusyKept
<1>7. QED
  BY <1>1, <1>2, <1>4, <1>5, <1>6, HeldRows DEF Held, HeldAt

LEMMA EndHeld ==
  ASSUME Once, Held, NEW i \in Instances, NEW n \in Runs, RunReturns(i, n) \/ RunThrows(i, n)
  PROVE  Held'
<1>1. Live(i, n) /\ aborted[i][n] = FALSE /\ aborted' = aborted /\ Typed
  BY DEF RunReturns, RunThrows, Live, Held, HeldAt, Once, Sound
<1>2. /\ row[i] \in {"running", "waiting"} /\ row \in [Instances -> Rows]
  BY <1>1, OnlyOne DEF Held, HeldAt, Typed, TypeOK
<1>3. PICK r \in [Instances -> Rows] :
        /\ Finally(i, n, r)
        /\ \A k \in Instances : k # i => r[k] = row[k]
        /\ r[i] \in {"complete", "errored"}
  <2>1. Finally(i, n, SetRow(i, "complete")) \/ Finally(i, n, SetRow(i, "errored"))
    BY <1>1 DEF RunReturns, RunThrows
  <2>2. \A t \in {"complete", "errored"} :
          /\ SetRow(i, t) \in [Instances -> Rows]
          /\ \A k \in Instances : k # i => SetRow(i, t)[k] = row[k]
          /\ SetRow(i, t)[i] = t
    BY <1>2 DEF SetRow, Rows, Over
  <2>3. QED
    BY <2>1, <2>2
<1>4. EndsAlone(i, n, r) \/ \E j \in Instances : EndsAndStarts(i, n, r, j)
  BY <1>1, <1>3, FinallyParts
<1>5. CASE EndsAlone(i, n, r)
  <2>1. row' = r /\ \A k \in Instances : k # i => ac'[k] = ac[k]
    BY <1>5 DEF EndsAlone
  <2>2. IsFiniteSet(Busy') /\ Cardinality(Busy') <= MaxConcurrent
    BY <1>2, <1>3, <2>1, BusyLeft
  <2>3. \A k \in Instances : /\ row'[k] \notin {"paused", "terminated"}
                             /\ row'[k] \in {"running", "waiting"} => ac'[k] # None
    BY <1>3, <2>1 DEF Held, HeldAt
  <2>4. QED
    BY <1>1, <2>2, <2>3, HeldRows
<1>6. ASSUME NEW j \in Instances, EndsAndStarts(i, n, r, j)
      PROVE  Held'
  <2>1. /\ r[j] = "queued" /\ j # i /\ row[j] = "queued"
        /\ row' = [r EXCEPT ![j] = "running"]
        /\ runs[j] + 1 \in Runs
    BY <1>3, <1>6 DEF EndsAndStarts
  <2>2. /\ row'[j] = "running" /\ row'[i] = r[i]
        /\ \A k \in Instances : k # i /\ k # j => row'[k] = row[k]
    BY <1>3, <2>1
  <2>3. runs[j] + 1 # None
    BY <2>1, Started DEF Once
  <2>4. ac'[j] # None /\ \A k \in Instances : k # i /\ k # j => ac'[k] = ac[k]
    BY <1>6, <2>3 DEF EndsAndStarts
  <2>5. IsFiniteSet(Busy') /\ Cardinality(Busy') <= MaxConcurrent
    BY <1>2, <1>3, <2>1, <2>2, BusyPassed
  <2>6. \A k \in Instances : /\ row'[k] \notin {"paused", "terminated"}
                             /\ row'[k] \in {"running", "waiting"} => ac'[k] # None
    BY <1>3, <2>2, <2>4 DEF Held, HeldAt
  <2>7. QED
    BY <1>1, <2>5, <2>6, HeldRows
<1>7. QED
  BY <1>4, <1>5, <1>6

LEMMA CreateHeld ==
  ASSUME Once, Held, OneStart, NEW i \in Instances, Create(i)
  PROVE  Held'
<1>1. row \in [Instances -> Rows] /\ ac \in [Instances -> 0..MaxRuns] /\ Typed
  BY DEF Once, Sound, Typed, TypeOK
<1>2. /\ row[i] = "none" /\ aborted' = aborted
      /\ \/ /\ row' = [row EXCEPT ![i] = "queued"]
            /\ ac' = [ac EXCEPT ![i] = None]
         \/ /\ ~(Cardinality(Busy) >= MaxConcurrent)
            /\ row' = [row EXCEPT ![i] = "running"]
            /\ ac' = [ac EXCEPT ![i] = runs[i] + 1]
            /\ Launch(ph, {i})
  <2>1. PICK old \in SUBSET {k \in Recreated : row[k] \in {"complete", "errored"}} :
          LET kept == [k \in Instances |-> IF k \in old THEN "none" ELSE row[k]]
              busy == Cardinality({k \in Instances : kept[k] \in {"running", "waiting"}})
          IN /\ kept[i] = "none"
             /\ runs[i] < MaxRuns
             /\ IF busy >= MaxConcurrent
                  THEN /\ row' = [kept EXCEPT ![i] = "queued"]
                       /\ ac' = [ac EXCEPT ![i] = None]
                       /\ UNCHANGED <<ph, runs>>
                  ELSE /\ row' = [kept EXCEPT ![i] = "running"]
                       /\ ac' = [ac EXCEPT ![i] = runs[i] + 1]
                       /\ Launch(ph, {i})
             /\ fails' = [k \in Instances |-> IF k \in old THEN [s \in Steps |-> 0] ELSE fails[k]]
             /\ UNCHANGED <<cached, events, pc, aborted, attempt, waiter, sleeper, exits, done,
                            failed, sent, consumed>>
    BY DEF Create
  <2>2. old = {}
    BY DEF OneStart
  <2>3. [k \in Instances |-> IF k \in old THEN "none" ELSE row[k]] = row
    BY <1>1, <2>2
  <2>4. QED
    BY <2>1, <2>3 DEF Busy
<1>3. CASE row' = [row EXCEPT ![i] = "queued"] /\ ac' = [ac EXCEPT ![i] = None]
  <2>1. /\ row'[i] = "queued"
        /\ \A k \in Instances : k # i => row'[k] = row[k] /\ ac'[k] = ac[k]
    BY <1>1, <1>3
  <2>2. Busy' = Busy
    BY <1>2, <2>1, BusyKept
  <2>3. \A k \in Instances : /\ row'[k] \notin {"paused", "terminated"}
                             /\ row'[k] \in {"running", "waiting"} => ac'[k] # None
    BY <2>1 DEF Held, HeldAt
  <2>4. QED
    BY <1>2, <2>2, <2>3, HeldRows DEF Held
<1>4. CASE /\ ~(Cardinality(Busy) >= MaxConcurrent)
           /\ row' = [row EXCEPT ![i] = "running"]
           /\ ac' = [ac EXCEPT ![i] = runs[i] + 1]
           /\ Launch(ph, {i})
  <2>1. /\ row'[i] = "running" /\ ac'[i] = runs[i] + 1
        /\ \A k \in Instances : k # i => row'[k] = row[k] /\ ac'[k] = ac[k]
    BY <1>1, <1>4
  <2>2. Cardinality(Busy) < MaxConcurrent
    <3>1. Cardinality(Busy) \in Nat
      BY FS_CardinalityType DEF Held
    <3>2. QED
      BY <1>4, <3>1, WorkflowAssumption
  <2>3. IsFiniteSet(Busy') /\ Cardinality(Busy') <= MaxConcurrent
    BY <1>2, <2>1, <2>2, BusyTaken
  <2>4. runs[i] + 1 # None
    <3>1. runs[i] \in Nat
      BY Started DEF Once
    <3>2. QED
      BY <3>1 DEF None
  <2>5. \A k \in Instances : /\ row'[k] \notin {"paused", "terminated"}
                             /\ row'[k] \in {"running", "waiting"} => ac'[k] # None
    BY <2>1, <2>4 DEF Held, HeldAt
  <2>6. QED
    BY <1>2, <2>3, <2>5, HeldRows
<1>5. QED
  BY <1>2, <1>3, <1>4

LEMMA ExitHeld ==
  ASSUME Once, Held, ExitAndResume
  PROVE  Held'
<1>1. \A k \in Instances :
        /\ row'[k] = IF row[k] \in {"running", "waiting"} THEN "running" ELSE row[k]
        /\ row[k] \in {"running", "waiting"} => ac'[k] = runs[k] + 1
  BY DEF ExitAndResume
<1>2. aborted' = aborted
  BY DEF ExitAndResume
<1>3. Busy' = Busy
  BY <1>1, BusyKept
<1>4. \A k \in Instances : runs[k] + 1 # None
  <2>1. \A k \in Instances : runs[k] \in Nat
    BY Started DEF Once
  <2>2. QED
    BY <2>1 DEF None
<1>5. \A k \in Instances : /\ row'[k] \notin {"paused", "terminated"}
                           /\ row'[k] \in {"running", "waiting"} => ac'[k] # None
  BY <1>1, <1>4 DEF Held, HeldAt
<1>6. QED
  BY <1>2, <1>3, <1>5, HeldRows DEF Held

LEMMA SendHeld ==
  ASSUME Once, Held, NEW i \in Instances, SendEvent(i)
  PROVE  Held'
<1>1. UNCHANGED <<aborted, ac>>
  BY DEF SendEvent
<1>2. CASE waiter[i] = None
  BY <1>1, <1>2, HeldSame DEF SendEvent
<1>3. CASE waiter[i] # None
  <2>1. waiter[i] \in Runs /\ ph[i][waiter[i]] = "waiting"
    BY <1>3, Registered DEF Once
  <2>2. PICK n \in Runs : n = waiter[i]
    BY <2>1
  <2>3. row[i] \in {"running", "waiting", "paused", "terminated"} /\ row \in [Instances -> Rows]
    BY <2>1, <2>2, OnlyOne DEF Live, Once, Sound, Typed, TypeOK
  <2>4. row[i] \in {"running", "waiting"}
    BY <2>3 DEF Held, HeldAt
  <2>5. row'[i] = "running" /\ \A k \in Instances : k # i => row'[k] = row[k]
    BY <1>3, <2>3, <2>4 DEF SendEvent, SetRow
  <2>6. Busy' = Busy
    BY <2>4, <2>5, BusyKept
  <2>7. \A k \in Instances : /\ row'[k] \notin {"paused", "terminated"}
                             /\ row'[k] \in {"running", "waiting"} => ac'[k] # None
    BY <1>1, <2>4, <2>5 DEF Held, HeldAt
  <2>8. QED
    BY <1>1, <2>6, <2>7, HeldRows DEF Held
<1>4. QED
  BY <1>2, <1>3

LEMMA HeldNext ==
  ASSUME Once, Held, OnlyRun, [Next]_vars
  PROVE  Held'
<1>1. ASSUME NEW i \in Instances, NEW n \in Runs, Moves(i, n) \/ SleepEnds(i, n)
      PROVE  Held'
  BY <1>1, MoveHeld DEF SleepEnds, Moves
<1>2. ASSUME NEW i \in Instances, NEW n \in Runs, RunReturns(i, n) \/ RunThrows(i, n)
      PROVE  Held'
  BY <1>2, EndHeld
<1>3. ASSUME NEW i \in Instances, Create(i) \/ SendEvent(i)
      PROVE  Held'
  BY <1>3, CreateHeld, SendHeld DEF OnlyRun
<1>4. ASSUME NEW i \in Instances, SkipSleep(i)
      PROVE  Held'
  BY <1>4, HeldSame DEF SkipSleep, Wake, dbVars
<1>5. ASSUME NEW i \in Instances,
             \/ Pause(i) \/ Resume(i) \/ Terminate(i) \/ Restart(i) \/ RestartMissing(i)
             \/ \E s \in Steps : RestartFrom(i, s)
      PROVE  FALSE
  BY <1>5 DEF Pause, Resume, Terminate, Restart, RestartMissing, RestartFrom, OnlyRun, OneStart, Held, HeldAt
<1>6. CASE ExitAndResume
  BY <1>6, ExitHeld
<1>7. CASE UNCHANGED vars
  BY <1>7, HeldSame DEF vars, dbVars, execVars, memVars
<1>8. CASE Next
  BY <1>1, <1>2, <1>3, <1>4, <1>5, <1>6, <1>8 DEF Next, Moves
<1>9. QED
  BY <1>7, <1>8

LEMMA HeldInit == Init => Held
<1>1. SUFFICES ASSUME Init PROVE Held
  OBVIOUS
<1>2. \A i \in Instances : row[i] = "none" /\ \A n \in Runs : aborted[i][n] = FALSE
  BY <1>1 DEF Init
<1>3. Busy = {}
  BY <1>2 DEF Busy
<1>4. IsFiniteSet(Busy) /\ Cardinality(Busy) = 0
  BY <1>3, FS_EmptySet
<1>5. Cardinality(Busy) <= MaxConcurrent
  BY <1>4, WorkflowAssumption
<1>6. QED
  BY <1>2, <1>4, <1>5 DEF Held, HeldAt

(***************************************************************************)
(* Where nobody pauses, terminates or restarts: whatever the number of     *)
(* instances and exits, an instance that has a slot has exactly one        *)
(* execution, and there are never more of them than                        *)
(* maxConcurrentInstances (workflow.ts, create, executeWorkflow's finally, *)
(* resumeInterrupted).                                                     *)
(***************************************************************************)
THEOREM SlotsHeldAlways ==
  ASSUME OnlyRun
  PROVE  Spec => []SlotsHeld
<1>1. Once /\ Held /\ [Next]_vars => Held'
  BY HeldNext
<1>2. Once /\ Held => SlotsHeld
  <2>1. SUFFICES ASSUME Once, Held PROVE SlotsHeld
    OBVIOUS
  <2>2. ConcurrencyLimit
    BY <2>1 DEF Held, Busy, ConcurrencyLimit
  <2>3. ASSUME NEW i \in Instances
        PROVE  /\ \A n, k \in Runs : Live(i, n) /\ Live(i, k) => n = k
               /\ row[i] \in {"running", "waiting"} => \E n \in Runs : Live(i, n) /\ ~aborted[i][n]
    <3>1. \A n \in Runs : Live(i, n) => ac[i] = n
      BY <2>1 DEF Once, Alone, LoneAt
    <3>2. ac[i] # None => ac[i] \in Runs /\ Live(i, ac[i])
      BY <2>1, Started DEF Once
    <3>3. row[i] \in {"running", "waiting"} => ac[i] # None
      BY <2>1 DEF Held, HeldAt
    <3>4. \A n \in Runs : ~aborted[i][n]
      BY <2>1 DEF Held, HeldAt
    <3>5. QED
      BY <3>1, <3>2, <3>3, <3>4
  <2>4. OneExecution
    BY <2>3 DEF OneExecution
  <2>5. QED
    BY <2>2, <2>4 DEF SlotsHeld
<1>3. Spec => []Once
  BY OnceAlways DEF OnlyRun
<1>4. QED
  BY <1>1, <1>2, <1>3, HeldInit, PTL DEF Spec

-----------------------------------------------------------------------------
(* Termination.                                                            *)

\* The execution of an instance that was started once can be aborted as long as
\* it has something to say about the status.
FinalAt(i) ==
  runs[i] <= 1 =>
    \A n \in Runs : Live(i, n) /\ ~aborted[i][n] =>
      ac[i] = n /\ row[i] \in {"running", "waiting", "paused"}
FinalInv == Sound /\ \A i \in Instances : FinalAt(i)

\* An operation adds no execution that says something, ...
LEMMA FinalKept ==
  ASSUME NEW k \in Instances, FinalAt(k), runs'[k] = runs[k],
         \A n \in Runs : Live(k, n)' /\ ~aborted'[k][n] =>
           /\ Live(k, n) /\ ~aborted[k][n] /\ ac'[k] = ac[k]
           /\ row'[k] = row[k] \/ row'[k] \in {"running", "waiting", "paused"}
  PROVE  FinalAt(k)'
BY DEF FinalAt

\* ... or starts one.
LEMMA FinalStarts ==
  ASSUME Sound, NEW k \in Instances, row'[k] = "running", runs'[k] = runs[k] + 1, ac'[k] = runs[k] + 1,
         \A m \in Runs : ph'[k][m] \in {ph[k][m], "step", "done", "unwinding"},
         \A m \in Runs : ph'[k][m] \notin {"unused", "done"} =>
           m = runs[k] + 1 \/ ph[k][m] \notin {"unused", "done"}
  PROVE  FinalAt(k)'
<1>1. runs[k] \in Nat /\ \A m \in Runs : m \in Nat /\ m # None
  BY Started
<1>2. \A m \in Runs : m > runs[k] => ph[k][m] = "unused"
  BY Started
<1>3. ASSUME runs'[k] <= 1, NEW n \in Runs, ph'[k][n] \notin {"unused", "done"}
      PROVE  n = runs[k] + 1
  <2>1. runs[k] = 0
    BY <1>1, <1>3
  <2>2. n > runs[k]
    BY <1>1, <2>1 DEF None
  <2>3. QED
    BY <1>2, <1>3, <2>2
<1>4. QED
  BY <1>3 DEF FinalAt, Live

\* A row that says 'terminated', of an instance that was started once.
Fixed(i) == row[i] = "terminated" /\ runs[i] <= 1 /\ runs'[i] = runs[i] => row'[i] = "terminated"
Settled == FinalInv' /\ \A i \in Instances : Fixed(i)

LEMMA MoveFinal ==
  ASSUME FinalInv, NEW i \in Instances, NEW n \in Runs, Moves(i, n)
  PROVE  Settled
<1>1. Sound' /\ Sound
  BY MoveSound DEF FinalInv
<1>2. /\ row \in [Instances -> Rows] /\ ph \in [Instances -> [Runs -> Phases]]
  BY <1>1 DEF Sound, Typed, TypeOK
<1>3. /\ UNCHANGED <<aborted, runs, ac>>
      /\ \E q : ph' = [ph EXCEPT ![i][n] = q]
      /\ Live(i, n)
  <2>1. [ph EXCEPT ![i][n] = ph[i][n]] = ph
    BY <1>2
  <2>2. UNCHANGED <<aborted, runs, ac>> /\ Live(i, n)
    BY DEF Moves, EntersAborted, StepRefused, StepFatal, BeginDo, StepOk, StepFail, BackoffEnds,
         BeginSleep, Wake, BeginWait, WaitTimeout, Enters, memVars, Live
  <2>3. QED
    BY <2>1, <2>2 DEF Moves, EntersAborted, StepRefused, StepFatal, BeginDo, StepOk, StepFail, BackoffEnds,
         BeginSleep, Wake, BeginWait, WaitTimeout, To
<1>4. UNCHANGED row \/ (row' \in {SetRow(i, "running"), SetRow(i, "waiting")} /\ ~aborted[i][n])
  BY DEF Moves, EntersAborted, StepRefused, StepFatal, BeginDo, StepOk, StepFail, BackoffEnds,
         BeginSleep, Wake, BeginWait, WaitTimeout, Enters, dbVars
<1>5. \A k \in Instances : \A m \in Runs : Live(k, m)' => Live(k, m)
  BY <1>2, <1>3 DEF Live
<1>6. \A k \in Instances : k # i => row'[k] = row[k]
  BY <1>2, <1>4 DEF SetRow
<1>7. row'[i] = row[i] \/ (row'[i] \in {"running", "waiting"} /\ ~aborted[i][n])
                       \/ row'[i] = row[i]
  BY <1>2, <1>4 DEF SetRow
<1>8. ASSUME NEW k \in Instances PROVE FinalAt(k)'
  BY <1>3, <1>5, <1>6, <1>7, FinalKept DEF FinalInv
<1>9. ASSUME NEW k \in Instances PROVE Fixed(k)
  BY <1>3, <1>6, <1>7 DEF Fixed, FinalInv, FinalAt
<1>10. QED
  BY <1>1, <1>8, <1>9 DEF FinalInv, Settled

LEMMA EndFinal ==
  ASSUME FinalInv, NEW i \in Instances, NEW n \in Runs, RunReturns(i, n) \/ RunThrows(i, n)
  PROVE  Settled
<1>1. Sound' /\ Sound /\ Typed
  BY EndSound DEF FinalInv, Sound
<1>2. /\ row \in [Instances -> Rows] /\ runs \in [Instances -> 0..MaxRuns]
  BY <1>1 DEF Typed, TypeOK
<1>3. aborted' = aborted /\ Live(i, n)
  BY DEF RunReturns, RunThrows, Live
<1>4. PICK r \in [Instances -> Rows] :
        /\ Finally(i, n, r)
        /\ \A k \in Instances : k # i => r[k] = row[k]
        /\ r[i] = row[i] \/ ~aborted[i][n]
  <2>1. \A t \in {"complete", "errored"} :
          /\ SetRow(i, t) \in [Instances -> Rows]
          /\ \A k \in Instances : k # i => SetRow(i, t)[k] = row[k]
    BY <1>2 DEF SetRow, Rows, Over
  <2>2. \/ Finally(i, n, row)
        \/ ~aborted[i][n] /\ \E t \in {"complete", "errored"} : Finally(i, n, SetRow(i, t))
    BY DEF RunReturns, RunThrows
  <2>3. QED
    BY <1>2, <2>1, <2>2
<1>5. EndsAlone(i, n, r) \/ \E j \in Instances : EndsAndStarts(i, n, r, j)
  BY <1>1, <1>4, FinallyParts
<1>6. runs[i] <= 1 => \A m \in Runs : Live(i, m) => m = n
  <2>1. n <= runs[i] /\ runs[i] \in Nat /\ \A m \in Runs : m \in Nat /\ m # None
    BY <1>1, <1>3, Started, LiveStarted
  <2>2. \A m \in Runs : Live(i, m) => m <= runs[i]
    BY <1>1, LiveStarted
  <2>3. QED
    BY <2>1, <2>2 DEF None
<1>7. ASSUME NEW k \in Instances, runs'[k] = runs[k], k # i => ac'[k] = ac[k] /\ row'[k] = row[k],
             \A m \in Runs : ph'[k][m] = Ended(i, n, k, m)
      PROVE  FinalAt(k)'
  <2>1. CASE k = i
    BY <1>6, <1>7, <2>1 DEF FinalAt, Ended, Live
  <2>2. CASE k # i
    BY <1>3, <1>7, <2>2, FinalKept DEF FinalInv, Ended, Live
  <2>3. QED
    BY <2>1, <2>2
<1>8. ASSUME NEW k \in Instances, row'[k] = r[k]
      PROVE  Fixed(k)
  BY <1>3, <1>4, <1>8 DEF Fixed, FinalInv, FinalAt
<1>9. CASE EndsAlone(i, n, r)
  <2>1. \A k \in Instances : row'[k] = r[k] /\ runs'[k] = runs[k]
    BY <1>9 DEF EndsAlone
  <2>2. ASSUME NEW k \in Instances PROVE FinalAt(k)'
    <3>1. k # i => ac'[k] = ac[k] /\ row'[k] = row[k]
      BY <1>4, <1>9, <2>1 DEF EndsAlone
    <3>2. \A m \in Runs : ph'[k][m] = Ended(i, n, k, m)
      BY <1>9 DEF EndsAlone
    <3>3. QED
      BY <1>7, <2>1, <3>1, <3>2
  <2>3. QED
    BY <1>1, <1>8, <2>1, <2>2 DEF FinalInv, Settled
<1>10. ASSUME NEW j \in Instances, EndsAndStarts(i, n, r, j)
       PROVE  Settled
  <2>1. /\ r[j] = "queued" /\ row'[j] = "running" /\ \A k \in Instances : k # j => row'[k] = r[k]
        /\ runs'[j] = runs[j] + 1 /\ ac'[j] = runs[j] + 1
    BY <1>4, <1>10 DEF EndsAndStarts
  <2>2. ASSUME NEW k \in Instances PROVE FinalAt(k)'
    <3>1. CASE k = j
      <4>1. \A m \in Runs : ph'[j][m] = IF m = runs[j] + 1 THEN "step" ELSE Ended(i, n, j, m)
        BY <1>10 DEF EndsAndStarts
      <4>2. CASE j # i
        <5>1. \A m \in Runs : ph'[j][m] \in {ph[j][m], "step", "done", "unwinding"}
          BY <4>1, <4>2 DEF Ended
        <5>2. \A m \in Runs : ph'[j][m] \notin {"unused", "done"} =>
                m = runs[j] + 1 \/ ph[j][m] \notin {"unused", "done"}
          BY <4>1, <4>2 DEF Ended
        <5>3. QED
          BY <1>1, <2>1, <3>1, <5>1, <5>2, FinalStarts
      <4>3. CASE j = i
        <5>1. runs[i] \in Nat /\ n \in Nat /\ n # None /\ n <= runs[i]
          BY <1>1, <1>3, Started, LiveStarted
        <5>2. ~(runs'[j] <= 1)
          BY <2>1, <4>3, <5>1 DEF None
        <5>3. QED
          BY <3>1, <5>2 DEF FinalAt
      <4>4. QED
        BY <4>2, <4>3
    <3>2. CASE k # j
      <4>1. k # i => ac'[k] = ac[k] /\ row'[k] = row[k]
        BY <1>4, <1>10, <2>1, <3>2 DEF EndsAndStarts
      <4>2. runs'[k] = runs[k] /\ \A m \in Runs : ph'[k][m] = Ended(i, n, k, m)
        BY <1>10, <3>2 DEF EndsAndStarts
      <4>3. QED
        BY <1>7, <4>1, <4>2
    <3>3. QED
      BY <3>1, <3>2
  <2>3. ASSUME NEW k \in Instances PROVE Fixed(k)
    <3>1. CASE k = j
      <4>1. runs'[j] # runs[j]
        BY <1>2, <2>1
      <4>2. QED
        BY <3>1, <4>1 DEF Fixed
    <3>2. CASE k # j
      BY <1>8, <2>1, <3>2
    <3>3. QED
      BY <3>1, <3>2
  <2>4. QED
    BY <1>1, <2>2, <2>3 DEF FinalInv, Settled
<1>11. QED
  BY <1>5, <1>9, <1>10

LEMMA CreateFinal ==
  ASSUME FinalInv, NEW i \in Instances, Create(i)
  PROVE  Settled
<1>1. Sound' /\ Sound /\ Typed
  BY CreateSound DEF FinalInv, Sound
<1>2. /\ row \in [Instances -> Rows] /\ runs \in [Instances -> 0..MaxRuns]
      /\ ac \in [Instances -> 0..MaxRuns] /\ ph \in [Instances -> [Runs -> Phases]]
  BY <1>1 DEF Typed, TypeOK
<1>3. PICK kept \in [Instances -> Rows] :
        /\ kept[i] = "none" /\ aborted' = aborted
        /\ \A k \in Instances : kept[k] = row[k] \/ row[k] \in {"complete", "errored"}
        /\ \/ /\ row' = [kept EXCEPT ![i] = "queued"]
              /\ ac' = [ac EXCEPT ![i] = None]
              /\ UNCHANGED <<ph, runs>>
           \/ /\ row' = [kept EXCEPT ![i] = "running"]
              /\ ac' = [ac EXCEPT ![i] = runs[i] + 1]
              /\ Launch(ph, {i})
  <2>1. PICK old \in SUBSET {k \in Recreated : row[k] \in {"complete", "errored"}} :
          LET kept == [k \in Instances |-> IF k \in old THEN "none" ELSE row[k]]
              busy == Cardinality({k \in Instances : kept[k] \in {"running", "waiting"}})
          IN /\ kept[i] = "none"
             /\ runs[i] < MaxRuns
             /\ IF busy >= MaxConcurrent
                  THEN /\ row' = [kept EXCEPT ![i] = "queued"]
                       /\ ac' = [ac EXCEPT ![i] = None]
                       /\ UNCHANGED <<ph, runs>>
                  ELSE /\ row' = [kept EXCEPT ![i] = "running"]
                       /\ ac' = [ac EXCEPT ![i] = runs[i] + 1]
                       /\ Launch(ph, {i})
             /\ fails' = [k \in Instances |-> IF k \in old THEN [s \in Steps |-> 0] ELSE fails[k]]
             /\ UNCHANGED <<cached, events, pc, aborted, attempt, waiter, sleeper, exits, done,
                            failed, sent, consumed>>
    BY DEF Create
  <2> DEFINE kept == [k \in Instances |-> IF k \in old THEN "none" ELSE row[k]]
  <2>2. kept \in [Instances -> Rows]
    BY <1>2 DEF Rows
  <2>3. \A k \in Instances : kept[k] = row[k] \/ row[k] \in {"complete", "errored"}
    OBVIOUS
  <2>4. QED
    BY <2>1, <2>2, <2>3
<1>4. \A k \in Instances : /\ k # i => row'[k] = kept[k] /\ ac'[k] = ac[k]
                           /\ k = i => row'[k] \in {"queued", "running"}
  BY <1>2, <1>3
<1>5. row[i] \in {"none", "complete", "errored"}
  BY <1>3
<1>6. \A k \in Instances : Fixed(k)
  BY <1>3, <1>4, <1>5 DEF Fixed
<1>7. CASE row' = [kept EXCEPT ![i] = "queued"] /\ ac' = [ac EXCEPT ![i] = None] /\ UNCHANGED <<ph, runs>>
  <2>1. ASSUME NEW k \in Instances PROVE FinalAt(k)'
    BY <1>3, <1>4, <1>5, <1>7 DEF FinalInv, FinalAt, Live
  <2>2. QED
    BY <1>1, <1>6, <2>1 DEF FinalInv, Settled
<1>8. CASE row' = [kept EXCEPT ![i] = "running"] /\ ac' = [ac EXCEPT ![i] = runs[i] + 1] /\ Launch(ph, {i})
  <2>1. {i} \in SUBSET Instances
    OBVIOUS
  <2>2. /\ \A k \in Instances : \A m \in Runs :
             ph'[k][m] = IF k \in {i} /\ m = runs[k] + 1 THEN "step" ELSE ph[k][m]
        /\ \A k \in Instances : runs'[k] = IF k \in {i} THEN runs[k] + 1 ELSE runs[k]
    BY <1>1, <1>2, <1>8, <2>1, LaunchParts
  <2>3. FinalAt(i)'
    <3>1. row'[i] = "running" /\ runs'[i] = runs[i] + 1 /\ ac'[i] = runs[i] + 1
      BY <1>2, <1>8, <2>2
    <3>2. \A m \in Runs : ph'[i][m] \in {ph[i][m], "step", "done", "unwinding"}
      BY <2>2
    <3>3. \A m \in Runs : ph'[i][m] \notin {"unused", "done"} =>
            m = runs[i] + 1 \/ ph[i][m] \notin {"unused", "done"}
      BY <2>2
    <3>4. QED
      BY <1>1, <3>1, <3>2, <3>3, FinalStarts
  <2>4. ASSUME NEW k \in Instances, k # i PROVE FinalAt(k)'
    <3>1. runs'[k] = runs[k] /\ \A m \in Runs : ph'[k][m] = ph[k][m]
      BY <2>2, <2>4
    <3>2. QED
      BY <1>3, <1>4, <2>4, <3>1 DEF FinalInv, FinalAt, Live
  <2>5. QED
    BY <1>1, <1>6, <2>3, <2>4 DEF FinalInv, Settled
<1>9. QED
  BY <1>3, <1>7, <1>8

\* abort(), with a new execution in place of the old one or with none.
LEMMA AbortFinal ==
  ASSUME FinalInv, Sound', NEW i \in Instances, Abort(i),
         \A k \in Instances : k # i => row'[k] = row[k] /\ ac'[k] = ac[k] /\ runs'[k] = runs[k],
         \A k \in Instances : \A m \in Runs :
           \/ k = i /\ m = runs[i] + 1 /\ ph'[k][m] = "step" /\ runs'[i] = runs[i] + 1
           \/ ph'[k][m] = AbortedPh(i)[k][m],
         \/ runs'[i] = runs[i] /\ (row'[i] = row[i] \/ row[i] # "terminated")
         \/ row'[i] = "running" /\ runs'[i] = runs[i] + 1 /\ ac'[i] = runs[i] + 1
  PROVE  Settled
<1>1. Sound
  BY DEF FinalInv
<1>2. /\ \A k \in Instances : \A m \in Runs :
           aborted'[k][m] = IF k = i /\ m = ac[i] THEN TRUE ELSE aborted[k][m]
      /\ \A k \in Instances : \A m \in Runs :
           AbortedPh(i)[k][m] =
             IF k = i /\ m = ac[i] /\ ph[k][m] \in {"backoff", "sleeping", "waiting", "deaf"}
               THEN "unwinding" ELSE ph[k][m]
  BY <1>1, AbortParts
<1>3. \A k \in Instances : Fixed(k)
  <2>1. runs[i] # runs[i] + 1
    <3>1. runs[i] \in Nat
      BY <1>1, Started
    <3>2. QED
      BY <3>1
  <2>2. QED
    BY <2>1 DEF Fixed
<1>4. ASSUME NEW k \in Instances, k # i PROVE FinalAt(k)'
  <2>1. \A m \in Runs : Live(k, m)' /\ ~aborted'[k][m] => Live(k, m) /\ ~aborted[k][m]
    <3>1. \A m \in Runs : ph'[k][m] = ph[k][m]
      BY <1>2, <1>4
    <3>2. \A m \in Runs : ~aborted'[k][m] => ~aborted[k][m]
      BY <1>2, <1>4
    <3>3. QED
      BY <3>1, <3>2 DEF Live
  <2>2. QED
    BY <1>4, <2>1, FinalKept DEF FinalInv
<1>5. CASE runs'[i] = runs[i]
  <2>0. runs[i] # runs[i] + 1
    <3>1. runs[i] \in Nat
      BY <1>1, Started
    <3>2. QED
      BY <3>1
  <2>1. \A m \in Runs : ph'[i][m] = AbortedPh(i)[i][m]
    BY <1>5, <2>0
  <2>2. \A m \in Runs : Live(i, m)' /\ ~aborted'[i][m] => Live(i, m) /\ ~aborted[i][m] /\ m # ac[i]
    BY <1>2, <2>1 DEF Live
  <2>3. FinalAt(i)'
    BY <1>5, <2>2 DEF FinalInv, FinalAt
  <2>4. QED
    BY <1>3, <1>4, <2>3 DEF FinalInv, Settled
<1>6. CASE row'[i] = "running" /\ runs'[i] = runs[i] + 1 /\ ac'[i] = runs[i] + 1
  <2>1. \A m \in Runs : ph'[i][m] \in {ph[i][m], "step", "done", "unwinding"}
    BY <1>2
  <2>2. \A m \in Runs : ph'[i][m] \notin {"unused", "done"} =>
          m = runs[i] + 1 \/ ph[i][m] \notin {"unused", "done"}
    BY <1>2
  <2>3. FinalAt(i)'
    BY <1>1, <1>6, <2>1, <2>2, FinalStarts
  <2>4. QED
    BY <1>3, <1>4, <2>3 DEF FinalInv, Settled
<1>7. QED
  BY <1>5, <1>6

LEMMA ControlFinal ==
  ASSUME FinalInv, NEW i \in Instances,
         Terminate(i) \/ RestartMissing(i) \/ \E S : RestartKeeping(i, S)
  PROVE  Settled
<1>1. Sound /\ Typed /\ row \in [Instances -> Rows] /\ ac \in [Instances -> 0..MaxRuns]
  BY DEF FinalInv, Sound, Typed, TypeOK
<1>2. CASE Terminate(i)
  <2>1. /\ Abort(i) /\ ph' = AbortedPh(i) /\ UNCHANGED <<runs, ac>>
        /\ row' = [row EXCEPT ![i] = IF @ \in Over THEN @ ELSE "terminated"]
    BY <1>2 DEF Terminate
  <2>2. /\ \A k \in Instances : k # i => row'[k] = row[k]
        /\ row'[i] = row[i] \/ row[i] # "terminated"
    BY <1>1, <2>1 DEF Over
  <2>3. Sound'
    BY <1>1, <1>2, TerminateSound
  <2>4. QED
    BY <2>1, <2>2, <2>3, AbortFinal
<1>3. CASE RestartMissing(i)
  <2>1. /\ Abort(i) /\ ph' = AbortedPh(i) /\ UNCHANGED <<row, runs>>
        /\ ac' = [ac EXCEPT ![i] = None]
    BY <1>3 DEF RestartMissing, dbVars
  <2>2. \A k \in Instances : k # i => ac'[k] = ac[k]
    BY <1>1, <2>1
  <2>3. Sound'
    BY <1>1, <1>3, RestartMissingSound
  <2>4. QED
    BY <2>1, <2>2, <2>3, AbortFinal
<1>4. ASSUME NEW S, RestartKeeping(i, S) PROVE Settled
  <2>1. /\ Abort(i) /\ Launch(AbortedPh(i), {i})
        /\ ac' = [ac EXCEPT ![i] = runs[i] + 1]
        /\ row' = [row EXCEPT ![i] = "running"]
    BY <1>4 DEF RestartKeeping
  <2>2. AbortedPh(i) \in [Instances -> [Runs -> Phases]]
    BY <1>1, <2>1, AbortParts
  <2>3. {i} \in SUBSET Instances
    OBVIOUS
  <2>4. /\ \A k \in Instances : \A m \in Runs :
             ph'[k][m] = IF k \in {i} /\ m = runs[k] + 1 THEN "step" ELSE AbortedPh(i)[k][m]
        /\ \A k \in Instances : runs'[k] = IF k \in {i} THEN runs[k] + 1 ELSE runs[k]
    BY <1>1, <2>1, <2>2, <2>3, LaunchParts
  <2>5. /\ \A k \in Instances : k # i => row'[k] = row[k] /\ ac'[k] = ac[k] /\ runs'[k] = runs[k]
        /\ row'[i] = "running" /\ runs'[i] = runs[i] + 1 /\ ac'[i] = runs[i] + 1
    BY <1>1, <2>1, <2>4
  <2>6. \A k \in Instances : \A m \in Runs :
           \/ k = i /\ m = runs[i] + 1 /\ ph'[k][m] = "step" /\ runs'[i] = runs[i] + 1
           \/ ph'[k][m] = AbortedPh(i)[k][m]
    BY <2>4, <2>5
  <2>7. Sound'
    BY <1>1, <1>4, RestartSound
  <2>8. QED
    BY <2>1, <2>5, <2>6, <2>7, AbortFinal
<1>5. QED
  BY <1>2, <1>3, <1>4

LEMMA ExitFinal ==
  ASSUME FinalInv, ExitAndResume
  PROVE  Settled
<1> DEFINE S == {i \in Instances : row[i] \in {"running", "waiting"}}
           p == [i \in Instances |-> [n \in Runs |-> IF Live(i, n) THEN "done" ELSE ph[i][n]]]
<1>1. Sound' /\ Sound
  BY ExitSound DEF FinalInv
<1>2. /\ row' = [i \in Instances |-> IF i \in S THEN "running" ELSE row[i]]
      /\ Launch(p, S)
      /\ ac' = [i \in Instances |-> IF i \in S THEN runs[i] + 1 ELSE None]
  BY DEF ExitAndResume
<1>3. S \in SUBSET Instances
  OBVIOUS
<1>4. /\ p \in [Instances -> [Runs -> Phases]]
      /\ \A k \in Instances : \A m \in Runs : p[k][m] \in {"unused", "done"}
      /\ \A k \in Instances : \A m \in Runs : p[k][m] \in {ph[k][m], "done"}
  BY <1>1 DEF Sound, Typed, TypeOK, Phases, Live
<1>5. \A k \in Instances : /\ k \in S => row[k] # "terminated" /\ row'[k] = "running" /\ ac'[k] = runs[k] + 1
                           /\ k \notin S => row'[k] = row[k]
  BY <1>2
<1> HIDE DEF S, p
<1>6. /\ \A k \in Instances : \A m \in Runs :
           ph'[k][m] = IF k \in S /\ m = runs[k] + 1 THEN "step" ELSE p[k][m]
      /\ \A k \in Instances : runs'[k] = IF k \in S THEN runs[k] + 1 ELSE runs[k]
  BY <1>1, <1>2, <1>3, <1>4, LaunchParts DEF Sound
<1>7. ASSUME NEW k \in Instances PROVE FinalAt(k)'
  <2>1. CASE k \in S
    <3>1. \A m \in Runs : ph'[k][m] \in {ph[k][m], "step", "done", "unwinding"}
      BY <1>4, <1>6
    <3>2. \A m \in Runs : ph'[k][m] \notin {"unused", "done"} =>
            m = runs[k] + 1 \/ ph[k][m] \notin {"unused", "done"}
      BY <1>4, <1>6
    <3>3. QED
      BY <1>1, <1>5, <1>6, <2>1, <3>1, <3>2, FinalStarts
  <2>2. CASE k \notin S
    <3>1. \A m \in Runs : ph'[k][m] \in {"unused", "done"}
      BY <1>4, <1>6, <2>2
    <3>2. QED
      BY <3>1 DEF FinalAt, Live
  <2>3. QED
    BY <2>1, <2>2
<1>8. \A k \in Instances : Fixed(k)
  BY <1>5 DEF Fixed
<1>9. QED
  BY <1>1, <1>7, <1>8 DEF FinalInv, Settled

LEMMA UserFinal ==
  ASSUME FinalInv, NEW i \in Instances, SendEvent(i) \/ Pause(i) \/ Resume(i)
  PROVE  Settled
<1>1. Sound' /\ Sound
  BY SendSound, StatusSound DEF FinalInv
<1>2. /\ row \in [Instances -> Rows] /\ ph \in [Instances -> [Runs -> Phases]]
  BY <1>1 DEF Sound, Typed, TypeOK
<1>3. /\ UNCHANGED <<aborted, runs, ac>> /\ row[i] # "terminated"
      /\ UNCHANGED row \/ (row[i] # "none" /\ \E t \in {"running", "waiting", "paused"} : row' = [row EXCEPT ![i] = t])
  <2>1. CASE SendEvent(i)
    BY <1>2, <2>1 DEF SendEvent, SetRow, Over
  <2>2. CASE Pause(i) \/ Resume(i)
    BY <2>2 DEF Pause, Resume, execVars, memVars
  <2>3. QED
    BY <2>1, <2>2
<1>4. \A k \in Instances : row'[k] = row[k] \/ (k = i /\ row'[k] \in {"running", "waiting", "paused"})
  BY <1>2, <1>3
<1>5. \A k \in Instances : \A m \in Runs : Live(k, m)' => Live(k, m)
  <2>1. CASE UNCHANGED ph
    BY <2>1 DEF Live
  <2>2. CASE waiter[i] # None /\ ph' = [ph EXCEPT ![i][waiter[i]] = "step"]
    <3>1. ph[i][waiter[i]] = "waiting"
      BY <1>1, <2>2, Registered
    <3>2. QED
      BY <1>2, <2>2, <3>1 DEF Live
  <2>3. QED
    BY <2>1, <2>2 DEF SendEvent, Pause, Resume, To, execVars
<1>6. ASSUME NEW k \in Instances PROVE FinalAt(k)'
  BY <1>3, <1>4, <1>5, FinalKept DEF FinalInv
<1>7. \A k \in Instances : Fixed(k)
  BY <1>3, <1>4 DEF Fixed
<1>8. QED
  BY <1>1, <1>6, <1>7 DEF FinalInv, Settled

LEMMA NextFinal == FinalInv /\ [Next]_vars => Settled
<1>1. SUFFICES ASSUME FinalInv, [Next]_vars PROVE Settled
  OBVIOUS
<1>2. ASSUME NEW i \in Instances, NEW n \in Runs, Moves(i, n) \/ SleepEnds(i, n)
      PROVE  Settled
  BY <1>1, <1>2, MoveFinal DEF SleepEnds, Moves
<1>3. ASSUME NEW i \in Instances, NEW n \in Runs, RunReturns(i, n) \/ RunThrows(i, n)
      PROVE  Settled
  BY <1>1, <1>3, EndFinal
<1>4. ASSUME NEW i \in Instances,
             \/ Terminate(i) \/ RestartMissing(i) \/ Restart(i) \/ \E s \in Steps : RestartFrom(i, s)
      PROVE  Settled
  <2>1. Terminate(i) \/ RestartMissing(i) \/ \E S : RestartKeeping(i, S)
    BY <1>4 DEF Restart, RestartFrom
  <2>2. QED
    BY <1>1, <2>1, ControlFinal
<1>5. ASSUME NEW i \in Instances, Create(i) \/ SendEvent(i) \/ Pause(i) \/ Resume(i)
      PROVE  Settled
  BY <1>1, <1>5, CreateFinal, UserFinal
<1>6. ASSUME NEW i \in Instances, SkipSleep(i)
      PROVE  Settled
  <2>1. sleeper[i] # None /\ Wake(i, sleeper[i]) /\ Sound
    BY <1>1, <1>6 DEF SkipSleep, FinalInv
  <2>2. PICK n \in Runs : n = sleeper[i]
    BY <2>1, Registered
  <2>3. Moves(i, n)
    BY <2>1, <2>2 DEF Moves
  <2>4. QED
    BY <1>1, <2>3, MoveFinal
<1>7. CASE ExitAndResume
  BY <1>1, <1>7, ExitFinal
<1>8. CASE UNCHANGED vars
  <2>1. Sound'
    BY <1>1, <1>8, NextSound DEF FinalInv
  <2>2. \A k \in Instances : FinalAt(k)' /\ Fixed(k)
    BY <1>1, <1>8 DEF FinalInv, FinalAt, Fixed, Live, vars, dbVars, execVars, memVars
  <2>3. QED
    BY <2>1, <2>2 DEF FinalInv, Settled
<1>9. CASE Next
  BY <1>2, <1>3, <1>4, <1>5, <1>6, <1>7, <1>9 DEF Next, Moves
<1>10. QED
  BY <1>1, <1>8, <1>9

(***************************************************************************)
(* terminate() of an instance that was started once is final, whatever is  *)
(* done afterwards: its own execution, which may still return, throw, be   *)
(* woken or be sent an event, pause() and resume() leave the status alone, *)
(* and so does the end of any other instance (workflow.ts, terminate,      *)
(* executeWorkflow).                                                       *)
(***************************************************************************)
THEOREM TerminateIsFinal == Spec => TerminateFinal
<1>1. Init => FinalInv
  <2>1. Init => \A i \in Instances : FinalAt(i)
    BY DEF Init, FinalAt, Live
  <2>2. QED
    BY <2>1, InitSound DEF FinalInv
<1>2. FinalInv /\ [Next]_vars => FinalInv'
  BY NextFinal DEF Settled
<1>3. FinalInv /\ [Next]_vars =>
        [\A i \in Instances :
           row[i] = "terminated" /\ runs[i] <= 1 /\ runs'[i] = runs[i] => row'[i] = "terminated"]_vars
  BY NextFinal DEF Settled, Fixed
<1>4. QED
  BY <1>1, <1>2, <1>3, PTL DEF Spec, TerminateFinal
=============================================================================
