--------------------------------- MODULE Cron ---------------------------------
(***************************************************************************)
(* Cron triggers (bindings/scheduled.ts).  Each generation polls the clock *)
(* four times a minute; the minute in which an expression fired last is    *)
(* kept by the manager, beyond the generation.  The days of an expression  *)
(* are looked up in the calendar of the month.                             *)
(***************************************************************************)
EXTENDS Integers, FiniteSets, FiniteSetsExt

CONSTANTS
  MaxMinutes,    \* bounds of the time that passes ...
  MaxRestarts    \* ... and of the reloads and stops

ASSUME CronAssumption == MaxMinutes \in Nat \ {0} /\ MaxRestarts \in Nat

\* The clock runs in steps of five seconds.
Minute == 12
Interval == 3
Late == 1        \* how late a timer may be

VARIABLES
  matching,   \* for each expression, the minutes that it matches
  clock,
  nextPoll,        \* when the timer polls next; -1 without a timer
  lastFired,  \* the manager's map from an expression to a minute; -1 is none
  fires,      \* how often a handler was called in each minute
  upSince,    \* when the manager's timers began to run without a gap
  restarts

cronVars == <<matching, clock, nextPoll, lastFired, fires, upSince, restarts>>

Minutes == 0..MaxMinutes
Crons == {"a", "b"}
MinuteKey == clock \div Minute

CronType ==
  /\ matching \in [Crons -> SUBSET Minutes]
  /\ clock \in Nat /\ nextPoll \in Int /\ upSince \in Int /\ restarts \in 0..MaxRestarts
  /\ lastFired \in [Crons -> Minutes \cup {-1}]
  /\ fires \in [Crons -> [Minutes -> Nat]]

-----------------------------------------------------------------------------
(* The calendar: a month has a first weekday (0 is Sunday) and a last day. *)

Months == [first : 0..6, last : 28..31]
Days(month) == 1..month.last
DayOfWeek(month, d) == (month.first + d - 1) % 7
IsWeekday(month, d) == DayOfWeek(month, d) \in 1..5

NearestWeekday(month, day) ==
  LET d == IF day < month.last THEN day ELSE month.last
      dow == DayOfWeek(month, d)
  IN CASE dow \in 1..5 -> d
       [] dow = 6 -> IF d > 1 THEN d - 1 ELSE d + 2
       [] dow = 0 -> IF d < month.last THEN d + 1 ELSE d - 2

\* How many of the first days are that weekday.
CountOf(month, weekday) ==
  LET count[d \in 0..month.last] ==
        IF d = 0 THEN 0 ELSE count[d - 1] + (IF DayOfWeek(month, d) = weekday THEN 1 ELSE 0)
  IN count

\* The n-th day of that weekday; 0 when the month has none.
NthWeekday(month, weekday, n) ==
  LET hits == {d \in Days(month) : DayOfWeek(month, d) = weekday /\ CountOf(month, weekday)[d] = n}
  IN IF hits = {} THEN 0 ELSE Min(hits)

LastWeekday(month, weekday) == Max({d \in Days(month) : DayOfWeek(month, d) = weekday})

LastWorkday(month) ==
  month.last - (CASE DayOfWeek(month, month.last) = 0 -> 2
                  [] DayOfWeek(month, month.last) = 6 -> 1
                  [] OTHER -> 0)

Stepped(a, b, step) == {a + i * step : i \in 0..31} \cap a..b

\* One of the parts between the commas of a field that selects days.
Part == [kind : {"nearest"}, n : 1..31] \cup [kind : {"last", "lastWorkday"}, n : {0}]
        \cup [kind : {"nth"}, n : 1..5, w : 0..6] \cup [kind : {"lastOf"}, n : {0}, w : 0..6]
        \cup [kind : {"steps"}, n : 1..3, from : {1, 4}, to : {2, 9, 31}]

MatchPart(p, month, d) ==
  \/ p.kind = "nearest" /\ d = NearestWeekday(month, p.n)
  \/ p.kind = "last" /\ d = month.last
  \/ p.kind = "lastWorkday" /\ d = LastWorkday(month)
  \/ p.kind = "nth" /\ NthWeekday(month, p.w, p.n) # 0 /\ d = NthWeekday(month, p.w, p.n)
  \/ p.kind = "lastOf" /\ d = LastWeekday(month, p.w)
  \/ p.kind = "steps" /\ d \in Stepped(p.from, p.to, p.n)

-----------------------------------------------------------------------------
(* The timers.                                                             *)

CronInit ==
  /\ matching \in [Crons -> {{}, {1}, Minutes}]
  /\ clock = 0 /\ nextPoll = -1 /\ upSince = 0 /\ restarts = 0
  /\ lastFired = [c \in Crons |-> -1]
  /\ fires = [c \in Crons |-> [m \in Minutes |-> 0]]

\* A poll is late by no more than Late.
Pass ==
  /\ clock < (MaxMinutes + 1) * Minute - 1
  /\ nextPoll # -1 => clock < nextPoll + Late
  /\ clock' = clock + 1
  /\ upSince' = IF nextPoll = -1 THEN clock + 1 ELSE upSince
  /\ UNCHANGED <<matching, nextPoll, lastFired, fires, restarts>>

\* The interval goes on from when it was nextPoll, or from when it ran.
Poll ==
  LET fired == {c \in Crons : MinuteKey \in matching[c] /\ lastFired[c] # MinuteKey} IN
  /\ nextPoll # -1 /\ clock >= nextPoll
  /\ nextPoll' \in {nextPoll + Interval, clock + Interval}
  /\ lastFired' = [c \in Crons |-> IF c \in fired THEN MinuteKey ELSE lastFired[c]]
  /\ fires' = [c \in Crons |-> IF c \in fired THEN [fires[c] EXCEPT ![MinuteKey] = @ + 1] ELSE fires[c]]
  /\ UNCHANGED <<matching, clock, upSince, restarts>>

\* A reload stops the timer of the old generation and starts one anew.
StartConsumers_ForgetsMinutes ==
  /\ restarts < MaxRestarts /\ restarts' = restarts + 1
  /\ nextPoll' = clock + Interval /\ upSince' = clock
  /\ lastFired' = [c \in Crons |-> -1]
  /\ UNCHANGED <<matching, clock, fires>>

StartConsumers ==
  /\ restarts < MaxRestarts /\ restarts' = restarts + 1
  /\ nextPoll' = clock + Interval /\ upSince' = clock
  /\ UNCHANGED <<matching, clock, lastFired, fires>>

StopConsumers ==
  /\ nextPoll # -1 /\ nextPoll' = -1
  /\ upSince' = clock
  /\ UNCHANGED <<matching, clock, lastFired, fires, restarts>>

CronNext == Pass \/ Poll \/ StartConsumers \/ StopConsumers

CronSpec == CronInit /\ [][CronNext]_cronVars
-----------------------------------------------------------------------------
Distance(d, e) == IF d < e THEN e - d ELSE d - e

\* What the parts of a field mean.
Means(p, month, d) ==
  LET Same(e) == DayOfWeek(month, e) = p.w
      NoCloser(e) == LET n == IF p.n < month.last THEN p.n ELSE month.last IN Distance(d, n) <= Distance(e, n)
  IN \/ p.kind = "nearest" /\ IsWeekday(month, d) /\ \A e \in Days(month) : IsWeekday(month, e) => NoCloser(e)
     \/ p.kind = "last" /\ d + 1 \notin Days(month)
     \/ p.kind = "lastWorkday" /\ IsWeekday(month, d) /\ \A e \in Days(month) : IsWeekday(month, e) => e <= d
     \/ p.kind = "nth" /\ Same(d) /\ d \in 7 * (p.n - 1) + 1 .. 7 * p.n
     \/ p.kind = "lastOf" /\ Same(d) /\ d + 7 \notin Days(month)
     \/ p.kind = "steps" /\ d >= p.from /\ d <= p.to /\ (d - p.from) % p.n = 0

SelectionTrue == \A month \in Months, p \in Part : \A d \in Days(month) : MatchPart(p, month, d) <=> Means(p, month, d)

\* A minute that matches fires its handler once, however the generations change and
\* the polls drift (startCronTimer), and not at all if it does not match; it does fire
\* when one generation was up from before it began.  L, W, LW and # select the days that
\* they name, in months of every length (parseField).
CronFires ==
  /\ \A c \in Crons, m \in Minutes :
       /\ fires[c][m] <= (IF m \in matching[c] THEN 1 ELSE 0)
       /\ nextPoll # -1 /\ m \in matching[c] /\ upSince <= m * Minute /\ clock >= (m + 1) * Minute => fires[c][m] = 1
  /\ SelectionTrue
=============================================================================
