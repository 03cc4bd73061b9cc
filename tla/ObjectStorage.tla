---------------------------- MODULE ObjectStorage ----------------------------
(***************************************************************************)
(* What a Durable Object reads back from its storage                       *)
(* (bindings/durable-object.ts): list() of the key-value rows, with a      *)
(* prefix that becomes a LIKE pattern and pages bounded by a key, and what *)
(* a cursor of sql.exec tells of the statement it ran.  Transactions are   *)
(* in the module of that name.                                             *)
(*                                                                         *)
(* A key is a sequence of character codes, ordered as SQLite's BINARY      *)
(* collation orders them.                                                  *)
(***************************************************************************)
EXTENDS Integers, Sequences, SequencesExt, FiniteSets

CONSTANTS
  Cells,      \* keys of the object
  ListPrefixes,   \* that somebody lists
  PageOf,     \* list({ limit })
  MaxChanged  \* bound: rows of one SQL statement

ASSUME StorageAssumption ==
  /\ Cells \cup ListPrefixes \subseteq Seq(Nat)
  /\ PageOf \in Nat \ {0} /\ MaxChanged \in Nat

Percent == 37
Backslash == 92
Underscore == 95

VARIABLES
  cells,      \* the keys that have a row
  walk,       \* somebody's way through the pages of list
  changed,    \* changes() of the SQL connection
  cursor      \* what the last statement did, and what exec returned

storageVars == <<cells, walk, changed, cursor>>

SqlStatements ==
  [lead : {"SELECT", "PRAGMA", "WITH", "INSERT", "CREATE", "/*"},
   writes : BOOLEAN,       \* it is an INSERT, an UPDATE or a DELETE
   returning : BOOLEAN,    \* the word occurs in it
   clause : BOOLEAN,       \* as a clause
   n : 0..MaxChanged]      \* rows it reads or changes

\* The word may stand in a literal of any statement; only a write has the clause.
SqlText == {s \in SqlStatements :
  /\ s.lead \in {"SELECT", "PRAGMA", "CREATE"} => ~s.writes
  /\ s.lead = "INSERT" => s.writes
  /\ s.clause => s.writes /\ s.returning}

NoWalk == [prefix |-> <<>>, reverse |-> FALSE, last |-> <<>>, seen |-> {}, steady |-> {},
           again |-> FALSE, done |-> TRUE]
NoCursor == [text |-> [lead |-> "SELECT", writes |-> FALSE, returning |-> FALSE,
                       clause |-> FALSE, n |-> 0], rows |-> 0, rowsWritten |-> 0]

StorageType ==
  /\ cells \subseteq Cells
  /\ walk \in [prefix : ListPrefixes \cup {<<>>}, reverse : BOOLEAN, last : Cells \cup {<<>>},
               seen : SUBSET Cells, steady : SUBSET Cells, again : BOOLEAN, done : BOOLEAN]
  /\ changed \in 0..MaxChanged
  /\ cursor \in [text : SqlText, rows : 0..MaxChanged, rowsWritten : 0..MaxChanged]

StorageInit == cells = {} /\ walk = NoWalk /\ changed = 0 /\ cursor = NoCursor

-----------------------------------------------------------------------------
(* The pattern of a prefix, and SQLite's LIKE, which folds ASCII letters.  *)

\* Mutant: the underscore of a prefix matches any character.
Escaped_PercentOnly(prefix) ==
  FlattenSeq([i \in DOMAIN prefix |->
    IF prefix[i] = Percent THEN <<Backslash, prefix[i]>> ELSE <<prefix[i]>>])

\* The escape character itself is not escaped.
Escaped(prefix) ==
  FlattenSeq([i \in DOMAIN prefix |->
    IF prefix[i] \in {Percent, Underscore} THEN <<Backslash, prefix[i]>> ELSE <<prefix[i]>>])

Folded(char) == IF char \in 65..90 THEN char + 32 ELSE char

RECURSIVE Like(_, _)
Like(pattern, s) ==
  IF pattern = <<>> THEN s = <<>>
  ELSE LET head == Head(pattern)
           literal == head = Backslash /\ Len(pattern) > 1
           rest == SubSeq(pattern, IF literal THEN 3 ELSE 2, Len(pattern))
       IN
       IF head = Percent THEN \E n \in 0..Len(s) : Like(rest, SubSeq(s, n + 1, Len(s)))
       ELSE /\ s # <<>> /\ Like(rest, Tail(s))
            /\ \/ head = Underscore
               \/ Folded(s[1]) = Folded(IF literal THEN pattern[2] ELSE head)

Less(s, t) ==
  \E n \in 0..Len(s) :
    /\ n < Len(t) /\ SubSeq(s, 1, n) = SubSeq(t, 1, n)
    /\ n = Len(s) \/ s[n + 1] < t[n + 1]

-----------------------------------------------------------------------------
(* Rows.                                                                   *)

Put(k) ==
  /\ cells' = cells \cup {k}
  /\ UNCHANGED <<walk, changed, cursor>>

\* put({...}) under a savepoint: a value that JSON has no text for takes it all back.
PutMany(keys) ==
  /\ \E fails \in BOOLEAN : cells' = IF fails THEN cells ELSE cells \cup keys
  /\ UNCHANGED <<walk, changed, cursor>>

Delete(k) ==
  /\ cells' = cells \ {k}
  /\ walk' = [walk EXCEPT !.steady = @ \ {k}]
  /\ UNCHANGED <<changed, cursor>>

DeleteAll ==
  /\ cells' = {}
  /\ walk' = [walk EXCEPT !.steady = {}]
  /\ UNCHANGED <<changed, cursor>>

-----------------------------------------------------------------------------
(* Pages: forward with startAfter, backward with end, of the last key seen. *)

Under(k, prefix) == IsPrefix(prefix, k)

WalkStarts(prefix, reverse) ==
  /\ walk.done
  /\ walk' = [NoWalk EXCEPT !.prefix = prefix, !.reverse = reverse, !.done = FALSE,
                            !.steady = {k \in cells : Under(k, prefix)}]
  /\ UNCHANGED <<cells, changed, cursor>>

\* Mutant: startAfter and end take the key they name along.
Bounded_Inclusive(k) ==
  \/ walk.last = <<>> \/ k = walk.last
  \/ IF walk.reverse THEN Less(k, walk.last) ELSE Less(walk.last, k)

Bounded(k) ==
  \/ walk.last = <<>>
  \/ IF walk.reverse THEN Less(k, walk.last) ELSE Less(walk.last, k)

Ahead(k, l) == IF walk.reverse THEN Less(l, k) ELSE Less(k, l)

InRange == {k \in cells :
  Bounded(k) /\ (walk.prefix = <<>> \/ Like(Append(Escaped(walk.prefix), Percent), k))}

\* storage.list and storage.kv.list run the same statement, the latter when its
\* first row is asked for.
WalkPage ==
  LET rank(k) == Cardinality({l \in InRange : Ahead(l, k)})
      page == {k \in InRange : rank(k) < PageOf}
  IN
  /\ ~walk.done
  /\ walk' = [walk EXCEPT
       !.seen = @ \cup page,
       !.again = @ \/ page \cap walk.seen # {},
       !.last = IF page = {} THEN @ ELSE CHOOSE k \in page : \A l \in page : ~Ahead(k, l),
       !.done = Cardinality(page) < PageOf]
  /\ UNCHANGED <<cells, changed, cursor>>

-----------------------------------------------------------------------------

\* Mutant: any statement with the word counts as a write.
Exec_AnyReturning(s) ==
  LET counted == IF s.writes THEN s.n ELSE changed
      yields == s.lead \in {"SELECT", "WITH", "PRAGMA"} \/ s.returning
  IN
  /\ changed' = counted
  /\ cursor' = [text |-> s,
                rows |-> IF yields /\ (s.writes => s.clause) THEN s.n ELSE 0,
                rowsWritten |-> IF yields /\ ~s.returning THEN 0 ELSE counted]
  /\ UNCHANGED <<cells, walk>>

\* SqlStorage.exec guesses from the first word and from RETURNING whether there
\* are rows to fetch; changes() is that of the last statement that wrote.
Exec(s) ==
  LET counted == IF s.writes THEN s.n ELSE changed
      yields == s.lead \in {"SELECT", "WITH", "PRAGMA"} \/ s.returning
      isPlainRead == s.lead \in {"SELECT", "PRAGMA"}
  IN
  /\ changed' = counted
  /\ cursor' = [text |-> s,
                rows |-> IF yields /\ (s.writes => s.clause) THEN s.n ELSE 0,
                rowsWritten |-> IF yields /\ (~s.returning \/ isPlainRead) THEN 0 ELSE counted]
  /\ UNCHANGED <<cells, walk>>

RowsNext ==
  \/ \E k \in Cells : Put(k) \/ Delete(k)
  \/ \E S \in SUBSET Cells : PutMany(S)
  \/ DeleteAll
  \/ \E p \in ListPrefixes, r \in BOOLEAN : WalkStarts(p, r)
  \/ WalkPage

CursorNext == \E s \in SqlText : Exec(s)

StorageNext == RowsNext \/ CursorNext

StorageSpec == StorageInit /\ [][StorageNext]_storageVars

-----------------------------------------------------------------------------

\* Page by page, forward or backward, list shows every key under the prefix that
\* stays there meanwhile, none twice, and none that does not begin with the prefix
\* but for the case of its letters: no character of the prefix is a wildcard.
ListTrue ==
  /\ walk.done => walk.steady \subseteq walk.seen
  /\ ~walk.again
  /\ \A k \in walk.seen : Under([i \in DOMAIN k |-> Folded(k[i])],
                                 [i \in DOMAIN walk.prefix |-> Folded(walk.prefix[i])])

\* The statements whose first word tells what they do.
Guessed(s) ==
  \/ s.lead \in {"SELECT", "PRAGMA", "INSERT"}
  \/ s.lead = "WITH" /\ s.returning = s.clause /\ s.writes = s.clause

\* A cursor has the rows of its statement and counts those that it wrote and no
\* earlier one did ("running such a write via stmt.run() would silently drop the
\* echoed rows", "a misdetected read reports 0"), although changes() outlives the
\* statement, for statements that begin with SELECT, PRAGMA or a write, and for
\* WITH as long as the clause and the write go together.
CursorTrue ==
  LET s == cursor.text IN
  Guessed(s) => /\ cursor.rows = (IF s.writes /\ ~s.clause THEN 0 ELSE s.n)
                /\ cursor.rowsWritten = (IF s.writes THEN s.n ELSE 0)

\* What a Durable Object stored, its lists and cursors tell truthfully.
StorageTrue == ListTrue /\ CursorTrue
=============================================================================
