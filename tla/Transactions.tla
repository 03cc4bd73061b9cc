---------------------------- MODULE Transactions ----------------------------
(***************************************************************************)
(* SQLite connections under concurrent callers: the storage of a Durable   *)
(* Object (bindings/durable-object.ts), D1 (bindings/d1.ts) and the        *)
(* migrations that the command line applies to a D1 file (cli/d1.ts).      *)
(*                                                                         *)
(* The tasks of one thread share a connection, and with it at most one     *)
(* open transaction: what anybody runs meanwhile becomes part of it.  A    *)
(* promise chain per connection decides who may open one.  The migrators   *)
(* are processes with a connection of their own.                           *)
(***************************************************************************)
EXTENDS Naturals, Sequences, FiniteSets

CONSTANTS
  Tasks,      \* callers in the thread
  Migrators,  \* processes that apply migrations
  Migrations  \* 1..n, in the order of their file names

Nobody == "nobody"

ASSUME TxnAssumption ==
  /\ IsFiniteSet(Migrations) /\ Migrations = 1..Cardinality(Migrations)
  /\ Tasks \cap {Nobody, "file"} = {}

Statements == {1, 2}   \* statements of a batch, a script or a put of several entries
CallKinds == {"none", "statement", "several", "script", "transaction", "sync"}

VARIABLES
  binding,    \* "do" or "d1"
  line,       \* the promise chain: the first holds the lock
  task,       \* each task's call
  begun,      \* whose BEGIN is open on the thread's connection, or Nobody
  dirty,      \* what was written in the open transaction
  snapshot,   \* what that transaction has read from: "none", "fresh", "stale"
  committed,  \* writes and migrations in the file
  kept,       \* writes the caller was told are done
  exposed,    \* of these, those that a rollback or an exit took away again
  migrator    \* each migrator's pending files, and the one in its transaction

txnVars == <<binding, line, task, begun, dirty, snapshot, committed, kept, exposed, migrator>>

NoCall == [kind |-> "none", at |-> "idle", done |-> 0]
CallStates == {"idle", "waiting", "open", "ok", "failed"}
Files == {<<"file", f>> : f \in Migrations}
Effects == (Tasks \X Statements) \cup Files

TxnType ==
  /\ binding \in {"do", "d1"}
  /\ line \in Seq(Tasks)
  /\ task \in [Tasks -> [kind : CallKinds, at : CallStates, done : 0..2]]
  /\ begun \in Tasks \cup {Nobody}
  /\ dirty \subseteq Tasks \X Statements
  /\ snapshot \in {"none", "fresh", "stale"}
  /\ committed \subseteq Effects
  /\ kept \subseteq Tasks \X Statements /\ exposed \subseteq kept
  /\ migrator \in [Migrators -> [todo : SUBSET Migrations, open : Migrations \cup {0}, over : BOOLEAN]]

TxnInit ==
  /\ binding \in {"do", "d1"}
  /\ line = <<>>
  /\ task = [t \in Tasks |-> NoCall]
  /\ begun = Nobody /\ dirty = {} /\ snapshot = "none"
  /\ committed = {} /\ kept = {} /\ exposed = {}
  /\ migrator = [m \in Migrators |-> [todo |-> {}, open |-> 0, over |-> FALSE]]

-----------------------------------------------------------------------------
(* The lock.  D1 takes it for every statement, the storage of an object for *)
(* transaction() only.                                                      *)

Locks_Transactions(kind) == kind = "transaction"

Locks(kind) == binding = "d1" \/ kind = "transaction"

Offered(kind) ==
  CASE kind \in {"several", "sync"} -> binding = "do"   \* put({...}), transactionSync
    [] kind = "script" -> binding = "d1"                \* exec
    [] OTHER -> TRUE

Asks(t, kind) ==
  /\ task[t].kind = "none"
  /\ Offered(kind)
  /\ task' = [task EXCEPT ![t] = [kind |-> kind, at |-> "waiting", done |-> 0]]
  /\ line' = IF Locks(kind) THEN Append(line, t) ELSE line
  /\ UNCHANGED <<binding, begun, dirty, snapshot, committed, kept, exposed, migrator>>

HasTurn(t) == task[t].at = "waiting" /\ (Locks(task[t].kind) => t = Head(line))
Unlock(t) == line' = IF Locks(task[t].kind) THEN Tail(line) ELSE line

Over(t, how) ==
  /\ Unlock(t)
  /\ task' = [task EXCEPT ![t].at = how]

(* SQLite has one writer at a time.  The thread waits for it, for up to five *)
(* seconds; a migrator does not.                                            *)
Writing == dirty # {}
MigratorWrites == \E m \in Migrators : migrator[m].open # 0

(* What the thread writes is committed at once, unless a transaction is open. *)
Write(effects) ==
  IF begun = Nobody
  THEN /\ committed' = committed \cup effects
       /\ UNCHANGED dirty
  ELSE /\ dirty' = dirty \cup effects
       /\ UNCHANGED committed

Writable == ~MigratorWrites /\ snapshot # "stale"

-----------------------------------------------------------------------------
(* Calls that run in one turn: a statement, put({...}) in its savepoint,     *)
(* transactionSync, and a script that commits statement by statement.       *)

AtOnce(t) == task[t].kind \in {"statement", "several", "sync", "script"} /\ HasTurn(t)

\* BEGIN IMMEDIATE is refused inside another transaction.
Runs(t) ==
  LET effects == {t} \X (IF task[t].kind = "statement" THEN {1} ELSE Statements) IN
  /\ AtOnce(t)
  /\ Writable
  /\ task[t].kind = "sync" => begun = Nobody
  /\ Write(effects)
  /\ kept' = kept \cup effects
  /\ Over(t, "ok")
  /\ UNCHANGED <<binding, begun, snapshot, exposed, migrator>>

\* A constraint, a value that JSON cannot write, a locked database, BEGIN inside
\* of a transaction: nothing of the call remains, except of a script.
RunFails(t) ==
  /\ AtOnce(t)
  /\ IF task[t].kind = "script" /\ Writable
     THEN Write({<<t, 1>>}) \/ UNCHANGED <<committed, dirty>>
     ELSE UNCHANGED <<committed, dirty>>
  /\ Over(t, "failed")
  /\ UNCHANGED <<binding, begun, snapshot, kept, exposed, migrator>>

-----------------------------------------------------------------------------
(* transaction() and batch(): BEGIN, statements with awaits between them,   *)
(* and COMMIT or ROLLBACK.                                                  *)

Begin(t) ==
  /\ task[t].kind = "transaction"
  /\ HasTurn(t)
  /\ IF begun = Nobody
     THEN /\ begun' = t
          /\ task' = [task EXCEPT ![t].at = "open"]
          /\ UNCHANGED line
     ELSE Over(t, "failed") /\ UNCHANGED begun
  /\ UNCHANGED <<binding, dirty, snapshot, committed, kept, exposed, migrator>>

ReadInside(t) ==
  /\ task[t].at = "open"
  /\ snapshot = "none"
  /\ snapshot' = "fresh"
  /\ UNCHANGED <<binding, line, task, begun, dirty, committed, kept, exposed, migrator>>

WriteInside(t) ==
  LET next == task[t].done + 1 IN
  /\ task[t].at = "open"
  /\ next \in Statements
  /\ Writable
  /\ Write({<<t, next>>})
  /\ task' = [task EXCEPT ![t].done = next]
  /\ UNCHANGED <<binding, line, begun, snapshot, kept, exposed, migrator>>

Commit(t) ==
  /\ task[t].at = "open" /\ task[t].done = 2
  /\ committed' = committed \cup dirty
  /\ kept' = kept \cup ({t} \X Statements)
  /\ begun' = Nobody /\ dirty' = {} /\ snapshot' = "none"
  /\ Over(t, "ok")
  /\ UNCHANGED <<binding, exposed, migrator>>

\* The closure throws or a statement fails: what others wrote meanwhile goes too.
Rollback(t) ==
  /\ task[t].at = "open"
  /\ exposed' = exposed \cup (dirty \cap kept)
  /\ begun' = Nobody /\ dirty' = {} /\ snapshot' = "none"
  /\ Over(t, "failed")
  /\ UNCHANGED <<binding, committed, kept, migrator>>

\* The thread ends: its callers are gone, and SQLite rolls back.
ThreadEnds ==
  /\ \E t \in Tasks : task[t].at \in {"waiting", "open"}
  /\ task' = [t \in Tasks |-> IF task[t].at \in {"waiting", "open"}
                              THEN [task[t] EXCEPT !.at = "failed"] ELSE task[t]]
  /\ exposed' = exposed \cup (dirty \cap kept)
  /\ line' = <<>> /\ begun' = Nobody /\ dirty' = {} /\ snapshot' = "none"
  /\ UNCHANGED <<binding, committed, kept, migrator>>

-----------------------------------------------------------------------------
(* d1 migrations apply: the list of what is applied is read once, before    *)
(* any transaction; its rows have unique names.                             *)

MigratorStarts(m) ==
  /\ binding = "d1"
  /\ migrator[m].todo = {} /\ ~migrator[m].over
  /\ migrator' = [migrator EXCEPT ![m].todo = {f \in Migrations : <<"file", f>> \notin committed},
                                  ![m].over = TRUE]
  /\ UNCHANGED <<binding, line, task, begun, dirty, snapshot, committed, kept, exposed>>

MigrationBegins(m, f) ==
  /\ f \in migrator[m].todo /\ migrator[m].open = 0
  /\ \A g \in migrator[m].todo : f <= g
  /\ ~Writing /\ ~MigratorWrites
  /\ migrator' = [migrator EXCEPT ![m].open = f]
  /\ UNCHANGED <<binding, line, task, begun, dirty, snapshot, committed, kept, exposed>>

\* A reader of the thread that is in a transaction keeps its old snapshot.
MigrationEnds(m) ==
  LET f == migrator[m].open IN
  /\ f # 0
  /\ <<"file", f>> \notin committed
  /\ committed' = committed \cup {<<"file", f>>}
  /\ snapshot' = IF snapshot = "fresh" THEN "stale" ELSE snapshot
  /\ migrator' = [migrator EXCEPT ![m].open = 0, ![m].todo = @ \ {f}]
  /\ UNCHANGED <<binding, line, task, begun, dirty, kept, exposed>>

\* Somebody writes, the SQL is wrong, the name is already there: the command ends.
MigrationFails(m) ==
  /\ migrator[m].todo # {}
  /\ migrator' = [migrator EXCEPT ![m].open = 0, ![m].todo = {}]
  /\ UNCHANGED <<binding, line, task, begun, dirty, snapshot, committed, kept, exposed>>

TxnNext ==
  \/ ThreadEnds
  \/ \E t \in Tasks :
       \/ \E kind \in CallKinds \ {"none"} : Asks(t, kind)
       \/ Runs(t) \/ RunFails(t)
       \/ Begin(t) \/ ReadInside(t) \/ WriteInside(t) \/ Commit(t) \/ Rollback(t)
  \/ \E m \in Migrators :
       \/ MigratorStarts(m) \/ MigrationEnds(m) \/ MigrationFails(m)
       \/ \E f \in Migrations : MigrationBegins(m, f)

TxnSpec == TxnInit /\ [][TxnNext]_txnVars

\* A transaction, a batch and a put of several entries are in the file as a whole or
\* not at all, and nothing is there of a call that failed, save the first statements
\* of a script.  What a caller was told is done is in the file, or in the transaction
\* of another task of the same object; D1 never puts a statement into the transaction
\* of another, nor refuses a BEGIN (acquireDbLock).  Migrations are applied in order.
TransactionsWhole ==
  /\ \A t \in Tasks :
       LET own == committed \cap ({t} \X Statements) IN
       /\ task[t].kind \in {"several", "sync", "transaction"} => own \in {{}, {t} \X Statements}
       /\ task[t].at = "failed" /\ task[t].kind # "script" => own = {}
       /\ task[t].at = "open" => begun = t
  /\ kept \subseteq committed \cup dirty \cup exposed
  /\ binding = "d1" => exposed = {} /\ kept \subseteq committed
  /\ \A f, g \in Migrations : g < f /\ <<"file", f>> \in committed => <<"file", g>> \in committed
=============================================================================
