------------------------------- MODULE Watching -------------------------------
(***************************************************************************)
(* What makes the dev server reload: the import graph of the worker, whose *)
(* files are polled for their modification times (ImportGraphWatcher), and *)
(* the directories of `watchExtra' (FileWatcher).  A load reads the files  *)
(* one after the other in the worker's thread; when it is over, also when  *)
(* it has failed, the graph is scanned again.                              *)
(***************************************************************************)
EXTENDS Naturals, FiniteSets

CONSTANTS
  SourceFiles, MainFile, \* the files, and the one that `main' names
  Outside,            \* files outside of the project: imported, and not followed
  Extra,              \* files in a directory of watchExtra
  MaxSaves            \* bound of what an editor does

ASSUME WatchAssumption ==
  /\ MainFile \in SourceFiles /\ {Outside, Extra} \subseteq SUBSET (SourceFiles \ {MainFile})
  /\ MaxSaves \in Nat

VARIABLES
  text,      \* what is on disk: the time it was written, 0 without a file
  saves,     \* how often something was saved or removed
  mtimes,    \* ImportGraphWatcher: the times it knows, 0 of a file it does not watch
  extraTimes,\* FileWatcher: the same
  loading,   \* the manager's reload: none, the first of the server, a later one, no server
  opened, read, \* the files that the last load has read, and how they were
  followUp,  \* a reload is queued behind the one that runs
  rescans,   \* reloads that the graph's watcher waits for: "now", "next"
  unseen,    \* ghost: files that were written after they were read and before the scan
  absent     \* ghost: files that the last scan of the graph did not find

watchVars == <<text, saves, mtimes, extraTimes, loading, opened, read, followUp, rescans, unseen, absent>>

Imports == SUBSET (SourceFiles \ {MainFile})
FileStates == [at : Nat, parses : BOOLEAN, imports : Imports]
NoFile == [at |-> 0, parses |-> FALSE, imports |-> {}]

WatchType ==
  /\ text \in [SourceFiles -> FileStates] /\ read \in [SourceFiles -> FileStates]
  /\ saves \in Nat
  /\ mtimes \in [SourceFiles -> Nat] /\ extraTimes \in [SourceFiles -> Nat]
  /\ loading \in {"no", "first", "again", "exit"}
  /\ {opened, unseen, absent} \subseteq SUBSET SourceFiles
  /\ followUp \in BOOLEAN /\ rescans \subseteq {"now", "next"}

Unwatched == [f \in SourceFiles |-> 0]

\* The server starts: one load, and the watchers after it.
WatchInit ==
  /\ \E first \in Imports, parse \in SUBSET SourceFiles :
       text = [f \in SourceFiles |->
         [at |-> 1, parses |-> f \in parse, imports |-> IF f = MainFile THEN first ELSE {}]]
  /\ saves = 1
  /\ mtimes = Unwatched /\ extraTimes = Unwatched
  /\ loading = "first" /\ opened = {} /\ read = [f \in SourceFiles |-> NoFile]
  /\ followUp = FALSE /\ rescans = {"now"}
  /\ unseen = {} /\ absent = {}

-----------------------------------------------------------------------------
(* The graph.                                                              *)

\* What the scan finds behind a file: nothing if it cannot be read or parsed, and
\* only what resolves, inside of the project.
Followed(f) ==
  IF text[f].parses THEN {g \in text[f].imports \ Outside : text[g].at # 0} ELSE {}

\* collectImportGraph: the least set with the entry that is closed.
ImportGraph ==
  {f \in SourceFiles : \A S \in SUBSET SourceFiles :
     MainFile \in S /\ (\A g \in S : Followed(g) \subseteq S) => f \in S}

Scanned == [f \in SourceFiles |-> IF f \in ImportGraph THEN text[f].at ELSE 0]
ExtraScanned == [f \in SourceFiles |-> IF f \in Extra THEN text[f].at ELSE 0]

-----------------------------------------------------------------------------
(* Loads.                                                                  *)

Running == loading \in {"first", "again"}

\* reload(): the one that runs has a single follow-up.  `callback' says what its
\* caller does when it has ended.
Reload(callback) ==
  IF Running
  THEN /\ followUp' = TRUE /\ rescans' = rescans \cup (IF callback THEN {"next"} ELSE {})
       /\ UNCHANGED <<loading, opened>>
  ELSE /\ loading' = "again" /\ opened' = {}
       /\ rescans' = (IF callback THEN {"now"} ELSE {})
       /\ UNCHANGED followUp

Needed == {MainFile} \cup UNION {read[f].imports : f \in opened}
Broken == \E f \in opened : ~read[f].parses

\* The thread imports a module that a module it has read imports.
ReadModule(f) ==
  /\ Running /\ ~Broken
  /\ f \in Needed \ opened
  /\ opened' = opened \cup {f} /\ read' = [read EXCEPT ![f] = text[f]]
  /\ UNCHANGED <<text, saves, mtimes, extraTimes, loading, followUp, rescans, unseen, absent>>

\* Mutant: scanned again only after a reload that succeeded.
Rescan_Succeeded ==
  IF "now" \in rescans /\ ~Broken
  THEN /\ mtimes' = Scanned
       /\ unseen' = {f \in opened : read[f].at # text[f].at}
       /\ absent' = {f \in SourceFiles : text[f].at = 0}
  ELSE UNCHANGED <<mtimes, absent>> /\ unseen' = {}

\* What waits for this reload scans the graph, whether it has succeeded or not.
Rescan ==
  IF "now" \in rescans
  THEN /\ mtimes' = Scanned
       /\ unseen' = {f \in opened : read[f].at # text[f].at}
       /\ absent' = {f \in SourceFiles : text[f].at = 0}
  ELSE UNCHANGED <<mtimes, absent>> /\ unseen' = {}

Loaded ==
  /\ loading = "again"
  /\ Broken \/ Needed \subseteq opened
  /\ Rescan
  /\ rescans' = IF "next" \in rescans THEN {"now"} ELSE {}
  /\ loading' = IF followUp THEN "again" ELSE "no"
  /\ opened' = IF followUp THEN {} ELSE opened
  /\ followUp' = FALSE
  /\ UNCHANGED <<text, saves, extraTimes, read>>

\* run(): without a first generation there is no server.
Started ==
  /\ loading = "first"
  /\ \/ Broken /\ loading' = "exit" /\ UNCHANGED <<mtimes, extraTimes, unseen, absent, rescans>>
     \/ /\ ~Broken /\ Needed \subseteq opened
        /\ loading' = "no" /\ Rescan /\ extraTimes' = ExtraScanned /\ rescans' = {}
  /\ UNCHANGED <<text, saves, opened, read, followUp>>

-----------------------------------------------------------------------------
(* The timers, and the user.                                               *)

Watched == {f \in SourceFiles : mtimes[f] # 0}
ChangedFiles == {f \in Watched : mtimes[f] # text[f].at}

\* A file that is gone leaves the map.
PollGraph ==
  /\ loading \in {"no", "again"} /\ ChangedFiles # {}
  /\ mtimes' = [f \in SourceFiles |-> IF f \in ChangedFiles THEN text[f].at ELSE mtimes[f]]
  /\ Reload(TRUE)
  /\ UNCHANGED <<text, saves, extraTimes, read, unseen, absent>>

ExtraChanged == extraTimes # ExtraScanned

PollExtra ==
  /\ loading \in {"no", "again"} /\ ExtraChanged
  /\ extraTimes' = ExtraScanned
  /\ Reload(FALSE)
  /\ UNCHANGED <<text, saves, mtimes, read, unseen, absent>>

\* A file outside of the project imports nothing from inside.
SaveFile(f, parses, imports) ==
  /\ f \in Outside => imports \subseteq Outside
  /\ saves < MaxSaves /\ loading # "exit"
  /\ saves' = saves + 1
  /\ text' = [text EXCEPT ![f] = [at |-> saves + 1, parses |-> parses, imports |-> imports]]
  /\ UNCHANGED <<mtimes, extraTimes, loading, opened, read, followUp, rescans, unseen, absent>>

RemoveFile(f) ==
  /\ saves < MaxSaves /\ loading # "exit" /\ text[f].at # 0
  /\ saves' = saves + 1
  /\ text' = [text EXCEPT ![f] = NoFile]
  /\ UNCHANGED <<mtimes, extraTimes, loading, opened, read, followUp, rescans, unseen, absent>>

WatchNext ==
  \/ \E f \in SourceFiles : ReadModule(f) \/ RemoveFile(f)
  \/ \E f \in SourceFiles, parses \in BOOLEAN, imports \in Imports : SaveFile(f, parses, imports)
  \/ Loaded \/ Started \/ PollGraph \/ PollExtra

WatchSpec == WatchInit /\ [][WatchNext]_watchVars

-----------------------------------------------------------------------------
(* Properties.                                                             *)

\* Files whose text is not the one the last load has read.  (A file in an extra
\* directory that comes and goes between two polls is as it was.)
StaleModules == {f \in opened : read[f].at # text[f].at /\ (f \in Outside => text[f].at # 0)}

\* A change that a poll will notice, by either watcher.
Pending == ChangedFiles # {} \/ ExtraChanged

\* Files that a change to is promised to be noticed: what is inside of the project, or
\* in an extra directory.
Covered == (SourceFiles \ Outside) \cup Extra

(* No edit is missed.  Whenever no load is running and a covered file is not *)
(* what the last load has read, failed or not, some poll is going to notice: *)
(* what the load imported first is watched, also when it failed (the rescan  *)
(* of dev.ts).  Two kinds of edits are excepted: one between the reading of  *)
(* the file and the scan, which takes the new time for the one it has read,  *)
(* and those of a load that has read a file which the last scan did not      *)
(* find: a reload for an extra directory does not scan again.                *)
EditsNoticed ==
  (loading = "no" /\ unseen = {} /\ opened \cap absent = {}) =>
    (StaleModules \cap Covered # {} => Pending)

(* The same for a file that is missing when a load reads it, and exists      *)
(* again later: "a delete-then-recreate, must still enter the watch set"     *)
(* (dev.ts).  It does not hold.                                              *)
RecreatedNoticed ==
  (loading = "no" /\ unseen = {}) => (StaleModules \cap Covered # {} => Pending)
=============================================================================
